SPECIFICATION FairSpec
CONSTANTS
    Tasks = {a, b, c}
    a = a
    b = b
    c = c
    BlockOn = {}
    Thunks = {t1, t2, t3, t4, t5}
    t1 = t1
    t2 = t2
    t3 = t3
    t4 = t4
    t5 = t5
    Demands <- MCDemands
    StrictArgs <- MCStrictArgs
    Nested = {}
    Bad = {}
    Den <- MCDen
    Roots <- MCRoots
    MaxStack = 8
    Crashes = {}
    NoTask = NoTask
    Unset = Unset
INVARIANTS
    SingleEvaluator
    ClaimedIsEvaluated
    CycleIsReal
    NoLostWakeup
    Confluence
PROPERTIES
    MemoSpec
    EveryDemandAnswered
