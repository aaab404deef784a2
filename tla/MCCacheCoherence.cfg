CONSTANTS
    i1 = i1
    w1 = w1
    f1 = f1
    f2 = f2
    r1 = r1
    Instances = {i1}
    Writes = {w1}
    Flights = {f1, f2}
    InstanceOf <- OneInstance
    Readers = {r1}
    QueryTimeout = 1
    RedisTimeout = 1
    Late = 0
    BaseTTL = 2
    Jitter = 1
    NegativeTTL = 1
    Stopping = {"idle"}
    Horizon = 7
SYMMETRY FlightSymmetry
SPECIFICATION Spec
INVARIANTS
    TypeOK
    StalenessInvariant
    ShutdownLosesNothing
PROPERTIES
    FillsAreRecent
    ImplementsStaleRegister
