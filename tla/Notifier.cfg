SPECIFICATION FairSpec
CONSTANTS
    NumSinks = 2
    Senders = {"a", "b"}
    Cancellable = {"b"}
    Keys = {"k"}
    NoKey = NoKey
    Nobody = Nobody
    Interval = 2
    MaxFlight = 1
    RetryAfter = {0, 3, 40}
    MaxWait = 15
    MaxDuration = 100
INVARIANTS
    NotifierTypeOK
    SilenceIsEarned
    AcceptedStaysSilent
PROPERTIES
    SendersReturn
