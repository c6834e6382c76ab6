SPECIFICATION Spec
CONSTANTS
    Mixed = Mixed
    NoFile = NoFile
    NoName = NoName
    MaxAutoBackups = 2
    Clock <- Clocks
    Window = FALSE
    MaxCommit = 2
    MaxName = 3
    MaxOps = 2
    MaxOther = 1
CHECK_DEADLOCK FALSE
PROPERTIES
    NamedIsComplete
