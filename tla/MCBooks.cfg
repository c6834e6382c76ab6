SPECIFICATION Spec
CONSTANTS
    chk = chk
    sav = sav
    brk = brk
    Bank = {chk, sav}
    Brokerage = {brk}
    None = None
    Form <- MCForm
    Statement <- MCStatement
    MaxStack = 3
    Scopes <- MCScopes
CHECK_DEADLOCK FALSE
INVARIANT CounterpartMirrors
INVARIANT LinesSumToParent
INVARIANT StatementAgrees
INVARIANT UndoReady
PROPERTY UndoRestores
