SPECIFICATION Spec
CONSTANTS
    rent = rent
    dues = dues
    Schedule = {rent, dues}
    AutoPosting = {rent, dues}
    Template <- Ending
    Lead <- Leads
    Trouble = {"none", "closed", "refused"}
    RowId <- Rows
    Rearm <- Unlimited
    NoLimit = NoLimit
    NoEnd = NoEnd
    NoRow = NoRow
    Gone = Gone
    NotRead = NotRead
    Due = Due
    Done = Done
    Early = {"redo"}
    Used = {"post", "skip", "edit"}
    Handled = {dues}
    MaxDay = 1
    MaxSession = 2
    MaxDepth = 2
INVARIANTS
    NothingMissed
