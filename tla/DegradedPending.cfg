SPECIFICATION Spec
CONSTANTS
    Commits = {"c1", "c2", "c3"}
    Stacks = {"a", "b"}
    None = None
    Torn = Torn
    FirstCommit = "c1"
    Dir <- SplitDir
    Input <- SameInput
    Misc <- SameMisc
    Opaque = {}
    SingleFile = FALSE
    PushTo <- PushOver3
    Modes <- Operator
    MaxFailedCommits = 2
    MaxPreflightBlocks = 2
    MaxRecoveryAttempts = 2
    AttemptCap = 3
    MaxFaults = 3
INVARIANTS
    DegradedIsDecided
