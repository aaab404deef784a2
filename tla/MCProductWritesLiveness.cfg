CONSTANTS
    r1 = r1
    r2 = r2
    r3 = r3
    Requests = {r1, r2, r3}
    Products = {1, 2}
    Existing = {1, 2}
    OldRows <- LivenessRows
    Schemas = {1}
    Payloads <- LivenessPayloads
    Seed = Seed
    NoRow = NoRow
    NoPayload = NoPayload
    NoReq = NoReq
    PoolSize = 2
SPECIFICATION FairSpec
PROPERTIES
    EveryRequestAnswered
