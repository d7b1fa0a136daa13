CONSTANTS
    Files = {f1}
    Contents = {a, b}
    VersionIds = {v1, v2}
    GitHubAccounts = {g1}
    TelegramAccounts = {t1, t2}
    CopyCount = 2
    Null = Null
    Unreadable = {}
    Fragile = {f1}
    Reliable = {g1, t1}
    Quiet = TRUE
    Surprises = FALSE
    MaxEdits = 1
    Verifiers = {}
    MaxCrashes = 1
SPECIFICATION FairSyncSpec
PROPERTIES EventuallyBackedUp
CHECK_DEADLOCK FALSE
