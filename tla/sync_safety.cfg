CONSTANTS
    Files = {f1, f2}
    Contents = {a, b}
    VersionIds = {v1, v2, v3}
    GitHubAccounts = {g1, g2}
    TelegramAccounts = {}
    CopyCount = 2
    Null = Null
    Unreadable = {}
    Fragile = {f2}
    Reliable = {g1, g2}
    Quiet = TRUE
    Surprises = TRUE
    MaxEdits = 1
    Verifiers = {}
    MaxCrashes = 1
SYMMETRY Symmetry
SPECIFICATION SyncOnlySpec
INVARIANTS TypeOK CompleteIsReplicated DedupIndexIsReplicated OneContentPerVersion CopiesHoldTheirContent
PROPERTIES CopiesNeverLost InterruptedAttemptKeepsId MarkedAbsentWasGone SuccessMeansBackedUp ImplementsVault
CHECK_DEADLOCK FALSE
