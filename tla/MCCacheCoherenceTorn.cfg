CONSTANTS
    i1 = i1
    f2 = f2
    w1 = w1
    f1 = f1
    Instances = {i1}
    Writes = {w1}
    Flights = {f1}
    InstanceOf <- OneInstance
    r1 = r1
    Readers = {r1}
    QueryTimeout = 1
    RedisTimeout = 1
    Late = 1
    BaseTTL = 1
    Jitter = 1
    NegativeTTL = 1
    Stopping = {"idle"}
    Horizon = 7
SPECIFICATION Spec
INVARIANTS
    EntriesAreSnapshots
