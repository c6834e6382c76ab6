SPECIFICATION Spec
CONSTANTS
    Account <- Both
    a1 = a1
    a2 = a2
    Lump = {2, 4}
    Date = {1, 2}
    NoDate = 0
    SplitRatio = 2
    None = None
    MaxRow = 4
    Scopes <- Some
CHECK_DEADLOCK FALSE
INVARIANTS
    HoldingsMatchLedger
    LotsFollowJunctions
PROPERTIES
    ClosedIsFrozen
SYMMETRY Alike
