SPECIFICATION WalkSpec
CONSTANTS
    Directories = {"p", "q", "r"}
    WorkingDir = "p"
    Start <- OneFile
    Declared <- OneSecret
    Builds <- OneBuild
    Paths <- ProjectPaths
    Checkouts <- ProjectDocs
    NoDir = ""
    Unreadable = Unreadable
    Malformed = Malformed
    MaxIncludeDepth = 3
INVARIANTS
    NoInputIsMissed
    NothingElseMatches
