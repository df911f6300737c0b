SPECIFICATION FairSpec
CONSTANTS
    Stacks = {"x"}
    Services = {"a"}
    Sinks = {"discord", "webhook"}
    Streak = 2
    Interval = 1
    Ids = {0}
    MaxRestarts = 0
INVARIANTS
    JudgesQuietTimesOnly
    ToldBeforeSilent
PROPERTIES
    BrokenIsAlerted
    HungRunGoesSilent
    AliveIsHeard
