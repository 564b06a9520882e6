SPECIFICATION FairHandlesSpec
CONSTANTS
    Awaiters = {a1, a2, a3}
    Contexts = {main, scoped}
    Ctx <- MCCtx
    a1 = a1
    a2 = a2
    a3 = a3
    scoped = scoped
    Tasks = {u1, u2}
    Loops = {l1, l2}
    Timers = {k1}
    Tokens = {main, timed, inner}
    Below <- MCBelow
    TaskCtx <- MCTaskCtx
    JobCtx <- MCJobCtx
    Panics = {l2}
    u1 = u1
    u2 = u2
    l1 = l1
    l2 = l2
    k1 = k1
    main = main
    timed = timed
    inner = inner
    None = None
INVARIANTS
    OneAnswer
    AnswerIsEarned
    OneOwner
    TakenAreOver
PROPERTIES
    ImplementsPromise
    EveryAwaitReturns
    DrainEnds
