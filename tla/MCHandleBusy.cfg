SPECIFICATION Spec
CONSTANTS
    r1 = r1
    f1 = f1
    f2 = f2
    Reader = {r1}
    Writer = {}
    FileOp = {f1, f2}
    Heal = Heal
    Quit = Quit
    Nobody = Nobody
    PoolId <- Pools
    MaxFault = 0
    MaxLoss = 0
    MaxTrouble = 0
INVARIANTS
    BusyIsShown
