SPECIFICATION Spec
CONSTANTS
    Dirs <- ThreeDirs
    Names <- ThreeNames
    Alphabet <- NameOrder
    Rank <- NameRank
    Contents <- Holdings
    Kind <- HoldingKind
    Project <- DirProject
    Trees <- SomeTrees
    Runner = "run"
    Callers = {"run"}
    Absent = Absent
    Nothing = Nothing
    MaxFailures = 2
INVARIANTS
    DiscoverIsCurrent
