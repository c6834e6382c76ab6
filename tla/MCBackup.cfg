SPECIFICATION Spec
CONSTANTS
    Mixed = Mixed
    NoFile = NoFile
    NoName = NoName
    MaxAutoBackups = 2
    Clock <- Clocks
    Window = FALSE
    MaxCommit = 2
    MaxName = 4
    MaxOps = 3
    MaxOther = 2
CHECK_DEADLOCK FALSE
INVARIANTS
    DatabaseWhole
    BackupsWhole
PROPERTIES
    SwapKeepsOld
    RetentionSpares
