SPECIFICATION Spec
CONSTANTS
    Commits = {"c1", "c2", "c3", "c4"}
    Stacks = {"a", "b"}
    None = None
    Torn = Torn
    FirstCommit = "c1"
    Dir <- DropDir
    Input <- SameInput
    Misc <- SameMisc
    Opaque = {}
    SingleFile = FALSE
    PushTo <- PushOver4
    Modes <- Anyone
    MaxFailedCommits = 2
    MaxPreflightBlocks = 2
    MaxRecoveryAttempts = 2
    AttemptCap = 3
    MaxFaults = 3
INVARIANTS
    RollbackTargetNotKnownBad
PROPERTIES
    DryRunNeverTouchesCompose
