SPECIFICATION Spec
CONSTANTS
    File <- Files
    KindOf <- Kinds
    Exempt = {"y"}
    Content <- Contents
    Commits <- TwoCommits
    Args <- Arguments
    MaxSize = 3
    SniffLen = 2
    MaxLine = 4
    Absent = Absent
    MaxEdits = 2
INVARIANTS
    TypeOK
    PassMeansTidy
    NothingHidden
    FixSettles
PROPERTY CommitIsTidy
