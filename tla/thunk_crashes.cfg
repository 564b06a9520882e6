SPECIFICATION FairSpec
CONSTANTS
    Tasks = {a, b, c}
    a = a
    b = b
    c = c
    BlockOn = {a}
    Thunks = {t1, t2, t3, t4, t5}
    t1 = t1
    t2 = t2
    t3 = t3
    t4 = t4
    t5 = t5
    Demands <- MCDemands
    StrictArgs <- MCStrictArgs
    Nested = {t3}
    Bad = {}
    Den <- MCDen
    Roots <- MCCrashRoots
    MaxStack = 2
    Crashes = {"depth", "panic"}
    NoTask = NoTask
    Unset = Unset
INVARIANTS
    ValuesAreRight
    LostHasCause
PROPERTIES
    SurvivorsAnswered
CHECK_DEADLOCK FALSE
