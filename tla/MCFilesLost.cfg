SPECIFICATION Spec
CONSTANTS
    File = {"a", "b", "c"}
    Path = {"a", "b", "c", "link"}
    FileOf <- MCFileOf
    First = "a"
    Present = {"a", "b"}
    o1 = o1
    o2 = o2
    Opener = {o1, o2}
    w1 = w1
    w2 = w2
    Worker = {w1, w2}
    MaxHandle = 4
    MaxContent = 1
    Scopes <- LostScopes
CHECK_DEADLOCK FALSE
INVARIANT OneHandle
