CONSTANTS
    Files = {f1, f2}
    Contents = {a, b}
    VersionIds = {v1, v2, v3}
    GitHubAccounts = {g1}
    TelegramAccounts = {}
    CopyCount = 1
    Null = Null
    Unreadable = {}
    Fragile = {}
    Reliable = {}
    Quiet = TRUE
    Surprises = FALSE
    MaxEdits = 0
    Verifiers = {"scheduler", "request"}
    MaxCrashes = 0
SYMMETRY Symmetry
SPECIFICATION Spec
CHECK_DEADLOCK FALSE
PROPERTIES VerifyReachesEveryFile
