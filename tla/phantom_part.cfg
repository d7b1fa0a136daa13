CONSTANTS
    Files = {f1, f2}
    NumVersions = 2
    NumParts = 2
    NumTags = 2
    Limit = 3
    Foreign = {old}
    Manifest = Manifest
    LostDeletes = TRUE
    MaxUploads = 4
    MaxCrashes = 1
    Null = Null
SYMMETRY Symmetry
SPECIFICATION Spec
CHECK_DEADLOCK FALSE
INVARIANTS StoredPartsExist
