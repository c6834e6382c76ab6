SPECIFICATION Spec
CONSTANTS
    auto = auto
    manual = manual
    Schedule = {auto, manual}
    AutoPosting = {auto}
    Tagged = {auto}
    Cadences <- MCCadences
    Lead <- MCLead
    Payment <- MCPayment
    Opening = 30
    OpeningRate = 60
    Escrow = 3
    Rate = {0}
    NoRate = NoRate
    PayEdits = {12}
    Extra <- MCExtra
    Day <- MCDay
    MaxRows = 3
    MaxEdits = 1
    MaxTable = 4
    Horizon <- MCHorizon
PROPERTIES
    AsProjected
    NoDateMissed
    EndsWithTheDebt
CHECK_DEADLOCK FALSE
