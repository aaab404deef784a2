CONSTANTS
    r1 = r1
    r2 = r2
    r3 = r3
    i1 = i1
    i2 = i2
    p1 = p1
    p2 = p2
    None = None
    Readers = {r1, r2, r3}
    Instances = {i1}
    Products = {p1, p2}
    InstanceOf <- OneInstance
    ProductOf <- TwoProducts
    Stored <- StoredProducts
    Slots = 1
    RedisTimeout = 1
    SlotTimeout = 1
    QueryTimeout = 1
    WaitBudget = 1
    PollInterval = 1
    LockTTL = 2
SYMMETRY SameInstanceSymmetry
SPECIFICATION Spec
INVARIANTS
    TypeOK
    SlotsConserved
    SingleFlight
    AnswersTrue
