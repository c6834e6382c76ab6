CONSTANTS
    Account = {a, b}
    RowId <- SixRows
    TransferId <- Two
    Amount <- FiveSix
    NoTransfer = NoTransfer
    NoStatus = NoStatus
    Unused = Unused
    Deleted = Deleted
    Menus <- Both
    MaxDepth = 3
SPECIFICATION HSpec
CHECK_DEADLOCK FALSE
INVARIANTS
    UndoReady
    VoidSnapshotFits
PROPERTIES
    KeepsATimeline
    ReconciledOnlyByFinish
