SPECIFICATION Spec
CONSTANTS
    MaxPushes = 2
    Day = 4
    Start = 3
    End = 1
    FirstMinute = 2
    Operators = {}
    Readers = {}
    Worker = "webhook"
    Failures = FALSE
INVARIANTS
    HeldPushMeetsTheWindow
