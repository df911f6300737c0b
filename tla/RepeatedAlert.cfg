SPECIFICATION Spec
CONSTANTS
    Stacks = {"x"}
    Services = {"a"}
    Sinks = {"discord", "webhook"}
    Streak = 2
    Interval = 1
    Ids = {0}
    MaxRestarts = 1
PROPERTIES
    OneAlertPerIncident
