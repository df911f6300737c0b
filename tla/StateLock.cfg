SPECIFICATION Spec
CONSTANTS
    Procs = {p1, p2}
    Commits = {"c1", "c2", "c3"}
    FirstCommit = "c1"
    None = None
    Content <- LastChanges
    PushTo <- AnyPush
SYMMETRY Alike
INVARIANTS
    TypeOK
PROPERTIES
    ChecksKeepContent
    OnlySyncsJudge
