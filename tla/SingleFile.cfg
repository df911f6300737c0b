SPECIFICATION FairSpec
CONSTANTS
    Commits = {"c1", "c2", "c3"}
    Stacks = {"a"}
    None = None
    Torn = Torn
    FirstCommit = "c1"
    Dir <- OneDir
    Input <- OneInput
    Misc <- SameMisc
    Opaque = {}
    SingleFile = TRUE
    PushTo <- PushOver3
    Modes <- Daemon
    MaxFailedCommits = 2
    MaxPreflightBlocks = 2
    MaxRecoveryAttempts = 2
    AttemptCap = 3
    MaxFaults = 4
INVARIANTS
    TargetIsDeployed
PROPERTIES
    Converges
