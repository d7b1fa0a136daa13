CONSTANTS
    Files = {f1, f2}
    Contents = {a, b}
    VersionIds = {v1, v2}
    GitHubAccounts = {g1}
    TelegramAccounts = {}
    CopyCount = 1
    Null = Null
    Unreadable = {}
    Fragile = {f2}
    Reliable = {g1}
    Quiet = TRUE
    Surprises = TRUE
    MaxEdits = 1
    Verifiers = {"scheduler", "request"}
    MaxCrashes = 0
SYMMETRY Symmetry
SPECIFICATION Spec
INVARIANTS CheckIsOfCurrentVersion
PROPERTIES MarkedAbsentWasGone ImplementsVault
CHECK_DEADLOCK FALSE
