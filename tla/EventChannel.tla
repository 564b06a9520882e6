---------------------------- MODULE EventChannel ----------------------------
(***************************************************************************)
(* Event sources: signal-channel and timer-channel                         *)
(* (src/src/builtins_async.rs).  One background task per source waits for  *)
(* its event or the cancellation of the context, in a biased select!, and  *)
(* hands the event to one channel by try_send; the channel has as many     *)
(* places as there are sources.  timer-channel is the case of one source.  *)
(*                                                                         *)
(* The k-th event of source s is <<s, k>>.  A stream remembers only that   *)
(* something has happened since it was polled.                             *)
(***************************************************************************)
EXTENDS Naturals, Sequences, FiniteSets

CONSTANTS
    Sources,
    MaxEvents       \* bound: events of each source

ConstantsAssumption ==
    /\ IsFiniteSet(Sources) /\ Sources # {}
    /\ MaxEvents \in Nat

Event == Sources \X (1..MaxEvents)
Capacity == Cardinality(Sources)

VARIABLES
    task,       \* "none", "waiting", "polled" (no cancellation seen) or "over"
    count,      \* count[s]: how often the event of s has happened
    pending,    \* sources whose stream has something to report
    buf,        \* the channel
    owed,       \* something has happened since the consumer last received
    dropped,    \* the events try_send found no room for
    unheard,    \* sources whose event was dropped with none of theirs buffered
    late,       \* late[s]: events of s sent after the cancellation
    cancelled

vars == <<task, count, pending, buf, owed, dropped, unheard, late, cancelled>>

TypeOK ==
    /\ task \in [Sources -> {"none", "waiting", "polled", "over"}]
    /\ count \in [Sources -> 0..MaxEvents]
    /\ pending \subseteq Sources
    /\ buf \in Seq(Event) /\ Len(buf) <= Capacity
    /\ owed \in BOOLEAN
    /\ dropped \subseteq Event
    /\ unheard \subseteq Sources
    /\ late \in [Sources -> Nat]
    /\ cancelled \in BOOLEAN

Init ==
    /\ task = [s \in Sources |-> "none"]
    /\ count = [s \in Sources |-> 0]
    /\ pending = {}
    /\ buf = <<>>
    /\ owed = FALSE
    /\ dropped = {}
    /\ unheard = {}
    /\ late = [s \in Sources |-> 0]
    /\ cancelled = FALSE

-----------------------------------------------------------------------------
(* The builtin makes the stream of s and spawns its task.                  *)
Start(s) ==
    /\ task[s] = "none"
    /\ task' = [task EXCEPT ![s] = "waiting"]
    /\ UNCHANGED <<count, pending, buf, owed, dropped, unheard, late, cancelled>>

(* A signal is raised, or the interval elapses.                            *)
Happen(s) ==
    /\ task[s] # "none" /\ count[s] < MaxEvents
    /\ count' = [count EXCEPT ![s] = @ + 1]
    /\ pending' = pending \cup {s}
    /\ owed' = TRUE
    /\ UNCHANGED <<task, buf, dropped, unheard, late, cancelled>>

Cancel ==
    /\ ~cancelled
    /\ cancelled' = TRUE
    /\ UNCHANGED <<task, count, pending, buf, owed, dropped, unheard, late>>

(* The select! first looks for the cancellation ...                        *)
PollCancel(s) ==
    /\ task[s] = "waiting"
    /\ task' = [task EXCEPT ![s] = IF cancelled THEN "over" ELSE "polled"]
    /\ UNCHANGED <<count, pending, buf, owed, dropped, unheard, late, cancelled>>

(* ... and then at the stream, which has nothing to report ...             *)
PollNothing(s) ==
    /\ task[s] = "polled" /\ s \notin pending
    /\ task' = [task EXCEPT ![s] = "waiting"]
    /\ UNCHANGED <<count, pending, buf, owed, dropped, unheard, late, cancelled>>

(* Mutant: the buffer is emptied to make room.                             *)
PollEvent_Replaces(s) ==
    /\ task[s] = "polled" /\ s \in pending
    /\ pending' = pending \ {s}
    /\ task' = [task EXCEPT ![s] = "waiting"]
    /\ late' = IF cancelled THEN [late EXCEPT ![s] = @ + 1] ELSE late
    /\ buf' = IF Len(buf) < Capacity THEN Append(buf, <<s, count[s]>>) ELSE <<>>
    /\ UNCHANGED <<count, owed, dropped, unheard, cancelled>>

(* Mutant: a blocking send.                                                *)
PollEvent_Waits(s) ==
    /\ task[s] = "polled" /\ s \in pending /\ Len(buf) = 0
    /\ pending' = pending \ {s}
    /\ task' = [task EXCEPT ![s] = "waiting"]
    /\ buf' = Append(buf, <<s, count[s]>>)
    /\ UNCHANGED <<count, owed, dropped, unheard, late, cancelled>>

(* ... or an event: try_send drops it if the channel is full.              *)
PollEvent(s) ==
    /\ task[s] = "polled" /\ s \in pending
    /\ pending' = pending \ {s}
    /\ task' = [task EXCEPT ![s] = "waiting"]
    /\ late' = IF cancelled THEN [late EXCEPT ![s] = @ + 1] ELSE late
    /\ IF Len(buf) < Capacity
       THEN buf' = Append(buf, <<s, count[s]>>) /\ UNCHANGED <<dropped, unheard>>
       ELSE /\ dropped' = dropped \cup {<<s, count[s]>>}
            /\ unheard' = IF \A i \in 1..Len(buf) : buf[i][1] # s
                          THEN unheard \cup {s} ELSE unheard
            /\ UNCHANGED buf
    /\ UNCHANGED <<count, owed, cancelled>>

(* The consumer's recv.                                                    *)
Receive ==
    /\ buf # <<>>
    /\ buf' = Tail(buf)
    /\ owed' = (pending # {} \/ Tail(buf) # <<>>)
    /\ UNCHANGED <<task, count, pending, dropped, unheard, late, cancelled>>

-----------------------------------------------------------------------------
Poll(s) == PollCancel(s) \/ PollNothing(s) \/ PollEvent(s)

Next ==
    \/ \E s \in Sources : Start(s) \/ Happen(s) \/ Poll(s)
    \/ Cancel
    \/ Receive

Spec == Init /\ [][Next]_vars

(* The runtime polls the tasks; the consumer may never receive.            *)
FairSpec == Spec /\ \A s \in Sources : WF_vars(Poll(s))
-----------------------------------------------------------------------------
(* PROPERTIES                                                              *)

(* An event wakes the consumer: after anything has happened since it last  *)
(* received there is something to receive or about to be, however many     *)
(* events have been dropped.                                               *)
NoMissedWakeup == owed /\ ~cancelled => buf # <<>> \/ pending # {}

(* A source sends at most once more after the cancellation (the biased     *)
(* select! of the loops).                                                  *)
OneLateEvent == \A s \in Sources : late[s] <= 1

(* Both: the events reach the consumer as long as the context is not       *)
(* cancelled, and stop when it is.                                         *)
WokenUntilCancelled == NoMissedWakeup /\ OneLateEvent

(* The tasks end once the context is cancelled.                            *)
TasksEnd == \A s \in Sources : cancelled /\ task[s] # "none" ~> task[s] = "over"
-----------------------------------------------------------------------------
(* DIVERGENCES: what the documentation or a comment says and this code     *)
(* does not do; TLC refutes each (README, Divergences).                    *)

(* The channel receives a Signal when one fires: what is dropped is an     *)
(* additional delivery of a signal that is still unread                    *)
(* (builtins_async.rs:1621-1627).                                          *)
EverySignalHeard == unheard = {}

(* "last-tick-wins, capacity=1" (builtins_async.rs, timer loop): what is   *)
(* dropped is older than what the channel keeps.                           *)
LastTickWins ==
    \A d \in dropped : \A i \in 1..Len(buf) : buf[i][1] = d[1] => buf[i][2] > d[2]
=============================================================================
