SPECIFICATION Spec
CONSTANTS
    r1 = r1
    w1 = w1
    f1 = f1
    f2 = f2
    Reader = {r1}
    Writer = {w1}
    FileOp = {f1, f2}
    Heal = Heal
    Quit = Quit
    Nobody = Nobody
    PoolId <- Pools
    MaxFault = 1
    MaxLoss = 1
    MaxTrouble = 4
SYMMETRY Alike
INVARIANTS
    FileStill
    SettledIsQuiet
    NeverStuck
    OneInstance
PROPERTIES
    ClosedForGoodStays
    StaleHealSparesNew
