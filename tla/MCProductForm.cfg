CONSTANTS
    u1 = u1
    u2 = u2
    u3 = u3
    Uploads = {u1, u2, u3}
    File <- Files
    Types <- TwoTypes
    FirstType = "physical"
    Template <- Templates
    Fillings <- Filled
    ApiAttributes <- AnyAttributes
    MaxGallery = 1
    MaxChanges = 2
    MaxSaves = 2
    MaxInput = 3
SYMMETRY UploadSymmetry
SPECIFICATION Spec
INVARIANTS
    TypeOK
    StoreHonest
    SavesSound
    RemovedStaysRemoved
    OneProductPerForm
    ReportComplete
CHECK_DEADLOCK FALSE
