CONSTANTS
    r1 = r1
    r2 = r2
    r3 = r3
    Requests = {r1, r2, r3}
    Products = {1, 2, 3}
    Existing = {1, 2}
    OldRows <- SafetyRows
    Schemas = {1, 2}
    Payloads <- SafetyPayloads
    Seed = Seed
    NoRow = NoRow
    NoPayload = NoPayload
    NoReq = NoReq
    PoolSize = 2
SYMMETRY RequestSymmetry
SPECIFICATION Spec
INVARIANTS
    TypeOK
    AttributesFitTemplate
    ImagesMatchContent
    ReplyHonest
    NoDeadlock
PROPERTIES
    NoLostUpdate
    PenalizedTerminal
    ImplementsCatalog
