SPECIFICATION Spec
CONSTANTS
    Dirs <- ThreeDirs
    Names <- ThreeNames
    Alphabet <- NameOrder
    Rank <- NameRank
    Contents <- Holdings
    Kind <- HoldingKind
    Project <- DirProject
    Trees <- TwoTrees
    Runner = "run"
    Callers = {"run", "monitor"}
    Absent = Absent
    Nothing = Nothing
    MaxFailures = 0
INVARIANTS
    DiscoverIsCurrent
