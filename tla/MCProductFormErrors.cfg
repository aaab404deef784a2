CONSTANTS
    u1 = u1
    u2 = u2
    u3 = u3
    Uploads = {u1}
    File <- Files
    Types <- TwoTypes
    FirstType = "physical"
    Template <- Templates
    Fillings <- Filled
    ApiAttributes <- AnyAttributes
    MaxGallery = 1
    MaxChanges = 1
    MaxSaves = 1
    MaxInput = 2
SPECIFICATION Spec
INVARIANTS
    RefusalShown
CHECK_DEADLOCK FALSE
