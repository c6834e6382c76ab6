SPECIFICATION Spec
CONSTANTS
    old = old
    new = new
    newer = newer
    Proc = {old, new, newer}
    Newest = 3
    App <- Apps3
    Index = {i, j}
    NoProc = NoProc
    NoFile = NoFile
    MaxFile = 3
CHECK_DEADLOCK FALSE
INVARIANTS
    EachOnce
    OpenIsCurrent
PROPERTIES
    CreateSpares
