SPECIFICATION FairOpenSpec
CONSTANTS
    Senders = {s1, s2}
    Receivers = {r1, r2}
    Contexts = {main, scoped}
    Ctx <- MCCtx
    Capacity = 2
    MaxItems = 3
    MaxMsg = 4
    OReceivers = {r1, r2, r3}
    OCtx <- MCOCtx
    BCtx <- MCBCtx
    s1 = s1
    s2 = s2
    r1 = r1
    r2 = r2
    r3 = r3
    main = main
    scoped = scoped
    None = None
INVARIANTS
    PlacesConserved
    NoSilentLoss
PROPERTIES
    ImplementsFifo
    ImplementsHandoff
    WaitingReceiverServed
    RecvsReturn
    FirstSinceSubscribed
CHECK_DEADLOCK FALSE
