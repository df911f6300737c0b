SPECIFICATION Spec
CONSTANTS
    Commits = {"c1", "c2"}
    Stacks = {"a"}
    None = None
    Torn = Torn
    FirstCommit = "c1"
    Dir <- PairDir
    Input <- SameInput
    Misc <- SameMisc
    Opaque = {}
    SingleFile = FALSE
    PushTo <- RewindPush
    Modes <- Daemon
    MaxFailedCommits = 2
    MaxPreflightBlocks = 2
    MaxRecoveryAttempts = 2
    AttemptCap = 3
    MaxFaults = 3
INVARIANTS
    RollbackTargetNotKnownBad
