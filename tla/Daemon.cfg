SPECIFICATION Spec
CONSTANTS
    Commits = {"c1", "c2", "c3", "c4"}
    Stacks = {"a", "b"}
    None = None
    Torn = Torn
    FirstCommit = "c1"
    Dir <- GrowDir
    Input <- GrowInput
    Misc <- GrowMisc
    Opaque = {}
    SingleFile = FALSE
    PushTo <- PushOver4
    Modes <- Daemon
    MaxFailedCommits = 2
    MaxPreflightBlocks = 3
    MaxRecoveryAttempts = 3
    AttemptCap = 4
    MaxFaults = 4
INVARIANTS
    TypeOK
    WriteAhead
    DegradedNotPending
    KnownBadNotApplied
    RevertFinishesFirst
    UnprovenIsAccountedFor
    PreflightBlocksBounded
PROPERTIES
    ImplementsLifecycle
