SPECIFICATION FairSpec
CONSTANTS
    Stacks <- SomeStacks
    Windows = {0, 4}
    Streaks = {1, 2}
    Tolerances = {1}
    PollInterval = 1
    Stalls = {3}
INVARIANTS
    HealthyIsSound
    UnhealthyIsJustified
PROPERTIES
    Terminates
