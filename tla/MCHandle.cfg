SPECIFICATION HeldSpec
CONSTANTS
    r1 = r1
    w1 = w1
    f1 = f1
    Reader = {r1}
    Writer = {w1}
    FileOp = {f1}
    Heal = Heal
    Quit = Quit
    Nobody = Nobody
    PoolId <- Pools
    MaxFault = 1
    MaxLoss = 1
    MaxTrouble = 2
INVARIANTS
    FileStill
    SettledIsQuiet
    NeverStuck
    OneInstance
PROPERTIES
    FileOpsEnd
    WritesEnd
    Recovers
    SettlesInTheEnd
