CONSTANTS
    Account = {a, b}
    RowId <- EightRows
    TransferId <- Three
    Amount <- Five
    NoTransfer = NoTransfer
    NoStatus = NoStatus
    Unused = Unused
    Deleted = Deleted
    Menus <- JustWrites
    MaxDepth = 3
SPECIFICATION HSpec
CHECK_DEADLOCK FALSE
INVARIANTS
    RedoReady
