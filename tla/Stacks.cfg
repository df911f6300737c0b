SPECIFICATION FairSpec
CONSTANTS
    N = 4
    MaxConcurrentWatches = 2
INVARIANTS
    TypeOK
    HealthyIsUnanimous
    FailureIsReported
PROPERTIES
    Returns
