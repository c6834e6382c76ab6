SPECIFICATION Spec
CONSTANTS
    a1 = a1
    a2 = a2
    i1 = i1
    c1 = c1
    Account <- AllThree
    InvAccount <- TheBrokerage
    OpeningDate <- TheOpenings
    RowId = {1, 2, 3, 4}
    TransferId = {t1}
    Amount = {5}
    Date = {1}
    Today = 1
    Category = {c1}
    PlainRow <- NoPlain
    NoAccount = NoAccount
    NoTransfer = NoTransfer
    NoCategory = NoCategory
    Unused = Unused
    Deleted = Deleted
    NoToken = NoToken
    Idle = Idle
    Absent = Absent
INVARIANTS
    PairMirror
    VoidIsEmpty
PROPERTIES
    ReconciledLocked
SYMMETRY Banks
