SPECIFICATION FairSharedSpec
CONSTANTS
    Writers = {w1, w2, w3}
    Pid <- MCPid
    Blocks = 2
    Coarse = FALSE
    Original = Original
    Hole = Hole
    Procs = {w1, w2, w3}
    Keys = {k1, k2}
    Evaluators = {e1, e2}
    Main = e1
    k1 = k1
    k2 = k2
    e1 = e1
    e2 = e2
    Interval = 2
    Unwinds = TRUE
    MaxSpans = 3
    w1 = w1
    w2 = w2
    w3 = w3
    None = None
INVARIANTS
    LitterHasCause
    WrittenInOrder
    NothingLost
PROPERTIES
    ImplementsAtomicFile
    ImplementsAtomicDict
    StopEnds
