CONSTANTS
    r1 = r1
    r2 = r2
    r3 = r3
    i1 = i1
    i2 = i2
    p1 = p1
    None = None
    Readers = {r1, r2, r3}
    Instances = {i1, i2}
    Products = {p1}
    InstanceOf <- TwoInstances
    ProductOf <- OneProduct
    Stored <- StoredProduct
    Slots = 1
    RedisTimeout = 1
    SlotTimeout = 1
    QueryTimeout = 1
    WaitBudget = 2
    PollInterval = 1
    LockTTL = 5
SYMMETRY SameInstanceSymmetry
SPECIFICATION AgedSpec
INVARIANTS
    LatencyBounded
    OnSchedule
    OneRebuilder
    LockOutlastsRebuild
