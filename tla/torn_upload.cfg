CONSTANTS
    Files = {f1, f2}
    Contents = {a, b}
    VersionIds = {v1, v2, v3}
    GitHubAccounts = {g1, g2}
    TelegramAccounts = {}
    CopyCount = 2
    Null = Null
    Unreadable = {}
    Fragile = {}
    Reliable = {g1, g2}
    Quiet = FALSE
    Surprises = TRUE
    MaxEdits = 2
    Verifiers = {}
    MaxCrashes = 1
SYMMETRY Symmetry
SPECIFICATION SyncOnlySpec
CHECK_DEADLOCK FALSE
INVARIANTS CopiesHoldTheirContent
