SPECIFICATION Spec
CONSTANTS
    Mixed = Mixed
    NoFile = NoFile
    NoName = NoName
    MaxAutoBackups = 2
    Clock <- Clocks
    Window = TRUE
    MaxCommit = 2
    MaxName = 3
    MaxOps = 2
    MaxOther = 2
CHECK_DEADLOCK FALSE
INVARIANTS
    BackupsWhole
