SPECIFICATION Spec
CONSTANTS
    old = old
    new = new
    newer = newer
    Proc = {old, new}
    Newest = 2
    App <- Apps
    Index = {i}
    NoProc = NoProc
    NoFile = NoFile
    MaxFile = 2
CHECK_DEADLOCK FALSE
PROPERTIES
    RemovesOnlyItsOwn
