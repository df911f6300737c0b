SPECIFICATION FairSpec
CONSTANTS
    MaxPushes = 2
    Day = 4
    Start = 3
    End = 1
    FirstMinute = 2
    Operators = {"cron"}
    Readers = {"status"}
    Worker = "webhook"
    Failures = TRUE
INVARIANTS
    TypeOK
    DeliveryIsHeeded
    NoRunIsLeftBehind
PROPERTIES
    DeliveryIsAnswered
    Stops
