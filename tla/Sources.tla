------------------------------ MODULE Sources -------------------------------
(***************************************************************************)
(* What wakes a program from outside: a watched file, signals or timers,   *)
(* a deadline.  A run is about one of them; the variables of the others    *)
(* stay as they are.                                                       *)
(***************************************************************************)
EXTENDS WatchChannel, Integers

CONSTANTS
    EventSources, MaxEvents,                        \* of EventChannel
    MaxI, MsNanos, MaxTs, Ints, Stamps, Durations   \* of Delays

VARIABLES
    opened,                                                             \* which of them
    eTask, count, pending, buf, owed, dropped, unheard, late, eCancelled, \* of EventChannel
    clock, wanted, called, wakes                                        \* of Delays

eVars == <<eTask, count, pending, buf, owed, dropped, unheard, late, eCancelled>>
dVars == <<clock, wanted, called, wakes>>

E == INSTANCE EventChannel WITH
         Sources <- EventSources, task <- eTask, cancelled <- eCancelled

D == INSTANCE Delays

ASSUME EventAssumption == E!ConstantsAssumption
ASSUME DelaysAssumption == D!ConstantsAssumption

SourceInit ==
    /\ Init /\ E!Init /\ D!Init
    /\ opened \in {"watch", "signals", "deadline"}
    /\ opened # "deadline" => clock = 0

SourceNext ==
    \/ opened = "watch" /\ Next /\ UNCHANGED <<opened, eVars, dVars>>
    \/ opened = "signals" /\ E!Next /\ UNCHANGED <<opened, vars, dVars>>
    \/ opened = "deadline" /\ D!Next /\ UNCHANGED <<opened, vars, eVars>>

SourceSpec == SourceInit /\ [][SourceNext]_<<opened, vars, eVars, dVars>>

FairSourceSpec ==
    /\ SourceSpec
    /\ WF_vars(opened = "watch" /\ Baseline)
    /\ WF_vars(opened = "watch" /\ PollFile)
    /\ WF_vars(opened = "watch" /\ PollCancelled)
    /\ WF_vars(opened = "watch" /\ Recv)
    /\ WF_vars(opened = "watch" /\ RecvReturns)
    /\ WF_vars(opened = "watch" /\ Read)
    /\ \A s \in EventSources : WF_eVars(opened = "signals" /\ E!Poll(s))

-----------------------------------------------------------------------------
(* EventChannel: a consumer is woken for everything that has happened      *)
(* before a cancellation, and for one event after it.                      *)
WokenUntilCancelled == E!WokenUntilCancelled

(* EventChannel: the background tasks end after a cancellation.            *)
TasksEnd == E!TasksEnd

(* Delays: a context is cancelled neither before its deadline nor more     *)
(* than a millisecond after it.                                            *)
OnTime == D!OnTime
=============================================================================
