------------------------ MODULE WatchChannel_proofs -------------------------
(***************************************************************************)
(* Theorems about the sources, for any number of changes of the file, any  *)
(* number of signals and events, and integers of any width.                *)
(*                                                                         *)
(* WatchChannel: NothingMissed and the type invariant are inductive        *)
(* together: a poll that reports leaves a null in the channel, and a read  *)
(* comes after the null was taken, so it sees every change reported before.*)
(*                                                                         *)
(* EventChannel: OwedInv and LateInv follow what is owed to the consumer   *)
(* and what a task has sent after the cancellation.                        *)
(*                                                                         *)
(* Delays: WakeInv says of a call what the property says of it at any time.*)
(***************************************************************************)
EXTENDS Sources, Sequences, FiniteSetTheorems, TLAPS

WatchInv == TypeOK /\ NothingMissed

LEMMA InitWatchInv == Init => WatchInv
<1> SUFFICES ASSUME Init PROVE WatchInv
    OBVIOUS
<1>1. present \in BOOLEAN /\ full \in BOOLEAN /\ cancelled \in BOOLEAN
    BY Zenon DEF Init
<1>2. ~full
    BY Zenon DEF Init
<1>3. /\ made \in 1..(MaxChanges + 1) /\ last \in 0..made
      /\ changedAt \in 0..made /\ seenAt \in 1..made /\ changedAt <= seenAt
    BY ConstantsAssumption DEF Init, Absent
<1>4. task \in {"spawned", "sleeping", "over", "failed"} /\ consumer \in {"working", "waiting", "notified"}
    BY DEF Init
<1> QED
    BY <1>1, <1>2, <1>3, <1>4, Zenon DEF WatchInv, TypeOK, NothingMissed

LEMMA FileIsAChange == TypeOK => File \in 0..made
<1>1. CASE present
    BY <1>1, ConstantsAssumption DEF TypeOK, File
<1>2. CASE ~present
    BY <1>2, ConstantsAssumption DEF TypeOK, File, Absent
<1> QED
    BY <1>1, <1>2

LEMMA NextWatchInv == WatchInv /\ [Next]_vars => WatchInv'
<1> SUFFICES ASSUME WatchInv, [Next]_vars PROVE WatchInv'
    OBVIOUS
<1> USE ConstantsAssumption DEF WatchInv, TypeOK, NothingMissed, disk, watcher
<1>1. CASE Change
  <2>1. /\ present' \in BOOLEAN /\ full' \in BOOLEAN /\ cancelled' \in BOOLEAN
        /\ full' = full
      BY <1>1, Zenon DEF Change
  <2>2. /\ made' \in 1..(MaxChanges + 1) /\ last' \in 0..made'
        /\ changedAt' \in 0..made' /\ seenAt' \in 1..made'
      BY <1>1 DEF Change
  <2>3. UNCHANGED <<task, consumer, changedAt, seenAt>>
      BY <1>1 DEF Change
  <2> QED
      BY <2>1, <2>2, <2>3, Zenon
<1>2. CASE Cancel
    BY <1>2 DEF Cancel
<1>3. CASE Baseline
    BY <1>3, FileIsAChange DEF Baseline
<1>4. CASE PollFile
  <2>1. /\ present' \in BOOLEAN /\ full' \in BOOLEAN /\ cancelled' \in BOOLEAN
      BY <1>4, Zenon DEF PollFile
  <2>2. /\ made' \in 1..(MaxChanges + 1) /\ last' \in 0..made'
        /\ changedAt' \in 0..made' /\ seenAt' \in 1..made'
      BY <1>4, FileIsAChange DEF PollFile
  <2>3. /\ full' => changedAt' > 0
        /\ ~full' /\ consumer' # "notified" => changedAt' <= seenAt'
    <3>1. CASE File = last
      <4>1. full' = full /\ changedAt' = changedAt /\ seenAt' = seenAt /\ consumer' = consumer
          BY <1>4, <3>1, Zenon DEF PollFile
      <4> QED
          BY <4>1, Zenon
    <3>2. CASE File # last
      <4>1. full' /\ changedAt' = made
          BY <1>4, <3>2, Zenon DEF PollFile
      <4>2. made > 0
          OBVIOUS
      <4> QED
          BY <4>1, <4>2, Zenon
    <3> QED
        BY <3>1, <3>2
  <2>4. UNCHANGED <<task, consumer>>
      BY <1>4 DEF PollFile
  <2> QED
      BY <2>1, <2>2, <2>3, <2>4, Zenon
<1>5. CASE PollFails
    BY <1>5 DEF PollFails
<1>6. CASE PollCancelled
    BY <1>6 DEF PollCancelled
<1>7. CASE Recv
    BY <1>7 DEF Recv
<1>8. CASE RecvReturns
  <2>1. /\ made' = made /\ present' = present /\ task' = task /\ last' = last
        /\ changedAt' = changedAt /\ seenAt' = seenAt /\ cancelled' = cancelled
      BY <1>8, Zenon DEF RecvReturns
  <2>2. CASE full' = FALSE /\ consumer' = "notified"
      BY <2>1, <2>2, Zenon
  <2>3. CASE full' = full /\ consumer' = "working" /\ consumer = "waiting"
      BY <2>1, <2>3
  <2> QED
      BY <1>8, <2>2, <2>3, Zenon DEF RecvReturns
<1>9. CASE Read
    BY <1>9 DEF Read
<1>10. CASE UNCHANGED vars
    BY <1>10, Zenon DEF vars
<1> QED
    BY <1>1, <1>2, <1>3, <1>4, <1>5, <1>6, <1>7, <1>8, <1>9, <1>10 DEF Next

(* What the consumer could still have to learn from the task is in the     *)
(* channel or about to be read, whenever nulls are dropped on a full       *)
(* channel (builtin_watch_channel's try_send).                             *)
THEOREM DroppedNullsLoseNothing == Spec => []NothingMissed
<1>1. WatchInv => NothingMissed
    BY DEF WatchInv
<1> QED
    BY InitWatchInv, NextWatchInv, <1>1, PTL DEF Spec
-----------------------------------------------------------------------------
(* SIGNALS AND TIMERS                                                      *)

(* The channel has a place, so that what is dropped leaves something in it;*)
(* a task that has sent an event after the cancellation looks for the      *)
(* cancellation before it polls the stream again.                          *)
OwedInv == owed => buf # <<>> \/ pending # {}

LateInv ==
    \A s \in EventSources :
        late[s] = 0 \/ (late[s] = 1 /\ eCancelled /\ eTask[s] # "polled")

PendingInv == \A s \in pending : count[s] > 0

EventInv == E!TypeOK /\ OwedInv /\ LateInv /\ PendingInv

LEMMA EventCapacity == E!Capacity \in Nat \ {0}
<1>1. E!IsFiniteSet(EventSources) /\ EventSources # {}
    BY EventAssumption DEF E!ConstantsAssumption
<1>2. IsFiniteSet(EventSources)
    BY <1>1, Zenon DEF E!IsFiniteSet, IsFiniteSet
<1>3. Cardinality(EventSources) \in Nat /\ Cardinality(EventSources) # 0
    BY <1>1, <1>2, FS_CardinalityType, FS_EmptySet
<1>4. E!Cardinality(EventSources) = Cardinality(EventSources)
    BY Zenon DEF E!Cardinality, Cardinality
<1> QED
    BY <1>3, <1>4 DEF E!Capacity

LEMMA InitEventInv == E!Init => EventInv
<1> SUFFICES ASSUME E!Init PROVE EventInv
    OBVIOUS
<1>1. MaxEvents \in Nat
    BY EventAssumption DEF E!ConstantsAssumption
<1>2. owed \in BOOLEAN /\ eCancelled \in BOOLEAN
    BY Zenon DEF E!Init
<1>3. /\ eTask \in [EventSources -> {"none", "waiting", "polled", "over"}]
      /\ count \in [EventSources -> 0..MaxEvents]
      /\ late \in [EventSources -> Nat]
    BY <1>1 DEF E!Init
<1>4. buf \in Seq(E!Event) /\ Len(buf) <= E!Capacity
    BY EventCapacity DEF E!Init
<1>5. pending = {} /\ dropped = {} /\ unheard = {}
    BY DEF E!Init
<1>6. E!TypeOK
    BY <1>2, <1>3, <1>4, <1>5, Zenon DEF E!TypeOK
<1>7. OwedInv /\ LateInv /\ PendingInv
    BY DEF E!Init, OwedInv, LateInv, PendingInv
<1> QED
    BY <1>6, <1>7 DEF EventInv

LEMMA EventStart ==
    ASSUME EventInv, NEW s \in EventSources, E!Start(s) PROVE EventInv'
<1>1. E!TypeOK'
    BY DEF EventInv, E!Start, E!TypeOK
<1>2. OwedInv' /\ LateInv' /\ PendingInv'
    BY DEF EventInv, E!Start, E!TypeOK, OwedInv, LateInv, PendingInv
<1> QED
    BY <1>1, <1>2 DEF EventInv

LEMMA EventHappen ==
    ASSUME EventInv, NEW s \in EventSources, E!Happen(s) PROVE EventInv'
<1>0. MaxEvents \in Nat
    BY EventAssumption DEF E!ConstantsAssumption
<1>1. count' \in [EventSources -> 0..MaxEvents] /\ pending' = pending \cup {s}
    BY <1>0 DEF EventInv, E!Happen, E!TypeOK
<1>2. owed' \in BOOLEAN /\ UNCHANGED <<eTask, buf, dropped, unheard, late, eCancelled>>
    BY Zenon DEF E!Happen
<1>3. E!TypeOK'
    BY <1>1, <1>2 DEF EventInv, E!TypeOK
<1>4. OwedInv' /\ LateInv'
    BY <1>1, <1>2 DEF EventInv, OwedInv, LateInv
<1>5. PendingInv'
  <2>1. count' = [count EXCEPT ![s] = @ + 1]
      BY DEF E!Happen
  <2> QED
      BY <1>1, <2>1 DEF EventInv, PendingInv, E!TypeOK
<1> QED
    BY <1>3, <1>4, <1>5 DEF EventInv

LEMMA EventCancel ==
    ASSUME EventInv, E!Cancel PROVE EventInv'
<1>1. eCancelled' = TRUE /\ UNCHANGED <<eTask, count, pending, buf, owed, dropped, unheard, late>>
    BY Zenon DEF E!Cancel
<1>2. E!TypeOK'
    BY <1>1 DEF EventInv, E!TypeOK
<1>3. OwedInv' /\ LateInv' /\ PendingInv'
    BY <1>1 DEF EventInv, OwedInv, LateInv, PendingInv
<1> QED
    BY <1>2, <1>3 DEF EventInv

LEMMA EventPollCancel ==
    ASSUME EventInv, NEW s \in EventSources, E!PollCancel(s) PROVE EventInv'
<1>1. /\ UNCHANGED <<count, pending, buf, owed, dropped, unheard, late, eCancelled>>
      /\ \/ eCancelled /\ eTask' = [eTask EXCEPT ![s] = "over"]
         \/ ~eCancelled /\ eTask' = [eTask EXCEPT ![s] = "polled"]
    BY DEF E!PollCancel
<1>2. E!TypeOK'
    BY <1>1 DEF EventInv, E!TypeOK
<1>3. OwedInv' /\ PendingInv'
    BY <1>1 DEF EventInv, OwedInv, PendingInv
<1>4. LateInv'
    BY <1>1 DEF EventInv, LateInv, E!TypeOK
<1> QED
    BY <1>2, <1>3, <1>4 DEF EventInv

LEMMA EventPollNothing ==
    ASSUME EventInv, NEW s \in EventSources, E!PollNothing(s) PROVE EventInv'
<1>1. E!TypeOK'
    BY DEF EventInv, E!PollNothing, E!TypeOK
<1>2. OwedInv' /\ LateInv' /\ PendingInv'
    BY DEF EventInv, E!PollNothing, E!TypeOK, OwedInv, LateInv, PendingInv
<1> QED
    BY <1>1, <1>2 DEF EventInv

LEMMA EventPollEvent ==
    ASSUME EventInv, NEW s \in EventSources, E!PollEvent(s) PROVE EventInv'
<1> USE DEF EventInv
<1> DEFINE e == <<s, count[s]>>
<1>0. MaxEvents \in Nat
    BY EventAssumption DEF E!ConstantsAssumption
<1>1. /\ eTask[s] = "polled" /\ s \in pending
      /\ eTask' = [eTask EXCEPT ![s] = "waiting"] /\ pending' = pending \ {s}
      /\ UNCHANGED <<count, owed, eCancelled>>
    BY DEF E!PollEvent
<1>2. eTask' \in [EventSources -> {"none", "waiting", "polled", "over"}]
      /\ eTask'[s] = "waiting" /\ \A q \in EventSources : q # s => eTask'[q] = eTask[q]
    BY <1>1 DEF E!TypeOK
<1>3. /\ late' \in [EventSources -> Nat]
      /\ \A q \in EventSources : q # s => late'[q] = late[q]
      /\ late'[s] = late[s] \/ (eCancelled /\ late'[s] = late[s] + 1)
  <2>1. CASE eCancelled
    <3>1. late' = [late EXCEPT ![s] = @ + 1]
        BY <2>1 DEF E!PollEvent
    <3> QED
        BY <2>1, <3>1 DEF E!TypeOK
  <2>2. CASE ~eCancelled
    <3>1. late' = late
        BY <2>2 DEF E!PollEvent
    <3> QED
        BY <3>1 DEF E!TypeOK
  <2> QED
      BY <2>1, <2>2
<1>4. LateInv'
  <2>1. late[s] = 0
      BY <1>1 DEF LateInv
  <2> QED
      BY <1>1, <1>2, <1>3, <2>1 DEF LateInv
<1>5. PendingInv'
    BY <1>1 DEF PendingInv
<1>6. e \in E!Event
  <2>1. count[s] \in 1..MaxEvents
      BY <1>0, <1>1 DEF E!TypeOK, PendingInv
  <2> QED
      BY <2>1 DEF E!Event
<1>7. CASE Len(buf) < E!Capacity
  <2>1. buf' = Append(buf, e) /\ UNCHANGED <<dropped, unheard>>
      BY <1>7 DEF E!PollEvent
  <2>2. buf' \in Seq(E!Event) /\ Len(buf') <= E!Capacity /\ buf' # <<>>
      BY <1>6, <1>7, <2>1, EventCapacity DEF E!TypeOK
  <2>3. E!TypeOK'
      BY <1>1, <1>2, <1>3, <2>1, <2>2 DEF E!TypeOK
  <2> QED
      BY <1>4, <1>5, <2>2, <2>3 DEF OwedInv
<1>8. CASE ~(Len(buf) < E!Capacity)
  <2>1. /\ dropped' = dropped \cup {e}
        /\ unheard' \subseteq unheard \cup {s}
        /\ buf' = buf
      BY <1>8 DEF E!PollEvent
  <2>2. buf # <<>>
      BY <1>8, EventCapacity
  <2>3. E!TypeOK'
      BY <1>1, <1>2, <1>3, <1>6, <2>1 DEF E!TypeOK
  <2> QED
      BY <1>4, <1>5, <2>1, <2>2, <2>3 DEF OwedInv
<1> QED
    BY <1>7, <1>8

LEMMA EventReceive ==
    ASSUME EventInv, E!Receive PROVE EventInv'
<1> USE DEF EventInv
<1>1. /\ buf # <<>> /\ buf' = Tail(buf)
      /\ UNCHANGED <<eTask, count, pending, dropped, unheard, late, eCancelled>>
    BY DEF E!Receive
<1>2. owed' \in BOOLEAN /\ (owed' => pending # {} \/ buf' # <<>>)
    BY Zenon DEF E!Receive
<1>3. buf' \in Seq(E!Event) /\ Len(buf') <= E!Capacity
    BY <1>1, EventCapacity DEF E!TypeOK
<1>4. E!TypeOK'
    BY <1>1, <1>2, <1>3 DEF E!TypeOK
<1>5. OwedInv' /\ LateInv' /\ PendingInv'
    BY <1>1, <1>2 DEF OwedInv, LateInv, PendingInv
<1> QED
    BY <1>4, <1>5

LEMMA NextEventInv == EventInv /\ [E!Next]_eVars => EventInv'
<1> SUFFICES ASSUME EventInv, [E!Next]_eVars PROVE EventInv'
    OBVIOUS
<1>1. CASE UNCHANGED eVars
    BY <1>1 DEF eVars, EventInv, E!TypeOK, OwedInv, LateInv, PendingInv
<1>2. ASSUME NEW s \in EventSources, E!Start(s) \/ E!Happen(s) \/ E!Poll(s)
      PROVE  EventInv'
    BY <1>2, EventStart, EventHappen, EventPollCancel, EventPollNothing, EventPollEvent
       DEF E!Poll
<1> QED
    BY <1>1, <1>2, EventCancel, EventReceive DEF E!Next

THEOREM EventInvHolds == E!Spec => []EventInv
  BY InitEventInv, NextEventInv, PTL DEF E!Spec, eVars, E!vars

(* However many events a full channel has dropped, a consumer that is owed *)
(* a wakeup finds something to receive or a source with something to       *)
(* report, and a source sends once at most after the cancellation          *)
(* (WokenUntilCancelled), for any number of sources and events.            *)
THEOREM EventsWakeTheConsumer == E!Spec => []WokenUntilCancelled
<1>1. EventInv => WokenUntilCancelled
    BY DEF EventInv, OwedInv, LateInv, WokenUntilCancelled, E!WokenUntilCancelled,
           E!NoMissedWakeup, E!OneLateEvent
<1> QED
    BY <1>1, EventInvHolds, PTL
-----------------------------------------------------------------------------
(* TIMEOUTS AND DEADLINES                                                  *)

(* What the property says of a call once it is made, whatever the clock    *)
(* shows.  An i64 that has been saturated puts the wakeup at the end of    *)
(* the clock's range.                                                      *)
WakeInv ==
    D!Called =>
        /\ wanted <= called => wakes <= called + MsNanos
        /\ wakes + MsNanos > wanted \/ wakes >= MaxI
        /\ wanted > called => wakes <= wanted + MsNanos

DelaysInv == D!TypeOK /\ WakeInv

(* Deadlines from the epoch on, as far as an i64 of nanoseconds reaches.   *)
InRange == Ints \subseteq 0..MaxI /\ Stamps \subseteq 0..MaxI

LEMMA DelaysConstants ==
    /\ MaxI \in Nat /\ MsNanos \in Nat /\ MsNanos > 0
    /\ Durations \subseteq 0..MaxI
  BY DelaysAssumption DEF D!ConstantsAssumption

LEMMA SmallModulo == \A a \in Nat, b \in Nat \ {0} : a < b => a % b = a
  OBVIOUS

LEMMA DivisionBounds ==
    \A a \in Nat, b \in Nat \ {0} :
        /\ a \div b \in Nat
        /\ (a \div b) * b <= a
        /\ a < (a \div b) * b + b
  OBVIOUS

LEMMA WrapInRange ==
    ASSUME NEW x \in Int, -(MaxI + 1) <= x, x <= MaxI
    PROVE  D!Wrap(x) = x
<1>1. MaxI \in Nat
    BY DelaysConstants
<1> DEFINE a == x + MaxI + 1
           w == 2 * (MaxI + 1)
<1>2. a \in Nat /\ w \in Nat \ {0} /\ a < w
    BY <1>1
<1>3. a % w = a
    BY <1>2, SmallModulo
<1>4. x - D!MinI = a /\ D!Width = w /\ D!MinI = -(MaxI + 1)
    BY <1>1 DEF D!MinI, D!Width
<1> HIDE DEF a, w
<1>5. D!Wrap(x) = a + D!MinI
    BY <1>3, <1>4 DEF D!Wrap
<1> QED
    BY <1>1, <1>4, <1>5 DEF a

(* The sleep up to a deadline in range ends then, or now.                  *)
LEMMA DelayInRange ==
    ASSUME NEW x \in 0..MaxI, clock \in 0..MaxI
    PROVE  D!Delay(x) = IF x < clock THEN 0 ELSE x - clock
<1>1. MaxI \in Nat
    BY DelaysConstants
<1>2. D!Wrap(x - clock) = x - clock
    BY <1>1, WrapInRange
<1> QED
    BY <1>1, <1>2 DEF D!Delay, D!AtLeast

LEMMA SleepKeepsInv ==
    ASSUME DelaysInv, NEW delay \in Nat, NEW deadline \in Nat, D!SleepFor(delay, deadline),
           deadline <= clock => delay <= MsNanos,
           clock + delay + MsNanos > deadline \/ clock + delay >= MaxI,
           deadline > clock => clock + delay <= deadline + MsNanos
    PROVE  DelaysInv'
<1>1. clock \in 0..MaxI /\ MsNanos \in Nat /\ MaxI \in Nat
    BY DelaysConstants DEF DelaysInv, D!TypeOK
<1>2. wanted' = deadline /\ called' = clock /\ wakes' = clock + delay /\ clock' = clock
    BY DEF D!SleepFor, D!AtLeast
<1>3. D!TypeOK'
    BY <1>1, <1>2 DEF D!TypeOK
<1>4. WakeInv'
    BY <1>1, <1>2 DEF WakeInv
<1> QED
    BY <1>3, <1>4 DEF DelaysInv

LEMMA DeadlineIntKeepsInv ==
    ASSUME DelaysInv, InRange, NEW n \in Ints, D!WithDeadlineInt(n)
    PROVE  DelaysInv'
<1>1. clock \in 0..MaxI /\ MsNanos \in Nat /\ MsNanos > 0 /\ MaxI \in Nat /\ n \in Nat
    BY DelaysConstants DEF DelaysInv, D!TypeOK, InRange
<1> DEFINE p == n * MsNanos
           x == D!IntDeadline(n)
<1>2. p \in Nat
    BY <1>1
<1>3. D!SleepFor(D!Delay(x), p)
    BY DEF D!WithDeadlineInt
<1>4. x = D!Saturate(p)
    BY DEF D!IntDeadline
<1> HIDE DEF p, x
<1>5. x = IF p > MaxI THEN MaxI ELSE p
    BY <1>1, <1>2, <1>4 DEF D!Saturate, D!MinI
<1>6. D!Delay(x) = IF x < clock THEN 0 ELSE x - clock
    BY <1>1, <1>2, <1>5, DelayInRange
<1> QED
    BY <1>1, <1>2, <1>3, <1>5, <1>6, SleepKeepsInv

LEMMA DeadlineStampKeepsInv ==
    ASSUME DelaysInv, InRange, NEW ts \in Stamps, D!WithDeadlineStamp(ts)
    PROVE  DelaysInv'
<1>1. clock \in 0..MaxI /\ MsNanos \in Nat /\ MsNanos > 0 /\ MaxI \in Nat /\ ts \in 0..MaxI
    BY DelaysConstants DEF DelaysInv, D!TypeOK, InRange
<1>2. D!StampDeadline(ts) = ts
    BY <1>1, WrapInRange DEF D!StampDeadline
<1>3. D!SleepFor(D!Delay(ts), ts)
    BY <1>2 DEF D!WithDeadlineStamp
<1>4. D!Delay(ts) = IF ts < clock THEN 0 ELSE ts - clock
    BY <1>1, DelayInRange
<1> QED
    BY <1>1, <1>3, <1>4, SleepKeepsInv

LEMMA TimeoutKeepsInv ==
    ASSUME DelaysInv, NEW d \in Durations, D!WithTimeout(d)
    PROVE  DelaysInv'
<1>1. clock \in 0..MaxI /\ MsNanos \in Nat \ {0} /\ MaxI \in Nat /\ d \in Nat
    BY DelaysConstants DEF DelaysInv, D!TypeOK
<1> DEFINE q == d \div MsNanos
           m == q * MsNanos
           delay == D!TimeoutMs(d) * MsNanos
<1>2. q \in Nat /\ m <= d /\ d < m + MsNanos
    BY <1>1, DivisionBounds
<1>3. D!SleepFor(delay, clock + d)
    BY DEF D!WithTimeout
<1>4. D!TimeoutMs(d) = IF q < 1 THEN 1 ELSE q
    BY DEF D!TimeoutMs, D!AtLeast
<1>5. delay = IF q < 1 THEN MsNanos ELSE m
    BY <1>1, <1>2, <1>4
<1>6. m \in Nat /\ (q < 1 => m = 0) /\ (q >= 1 => m >= MsNanos)
  <2>1. m \in Nat /\ (q < 1 => m = 0)
      BY <1>1, <1>2
  <2>2. ASSUME q >= 1 PROVE m >= MsNanos
      BY <1>1, <1>2, <2>2
  <2> QED
      BY <2>1, <2>2
<1> HIDE DEF q, m, delay
<1> QED
    BY <1>1, <1>2, <1>3, <1>5, <1>6, SleepKeepsInv

LEMMA NextDelaysInv == InRange /\ DelaysInv /\ [D!Next]_dVars => DelaysInv'
<1> SUFFICES ASSUME InRange, DelaysInv, [D!Next]_dVars PROVE DelaysInv'
    OBVIOUS
<1>1. CASE UNCHANGED dVars
    BY <1>1 DEF dVars, DelaysInv, D!TypeOK, WakeInv, D!Called, D!NoCall
<1>2. CASE D!Tick
    BY <1>2, DelaysConstants DEF D!Tick, DelaysInv, D!TypeOK, WakeInv, D!Called, D!NoCall
<1> QED
    BY <1>1, <1>2, DeadlineIntKeepsInv, DeadlineStampKeepsInv, TimeoutKeepsInv DEF D!Next

THEOREM DelaysInvHolds == InRange => (D!Spec => []DelaysInv)
<1> SUFFICES ASSUME InRange PROVE D!Spec => []DelaysInv
    OBVIOUS
<1>1. D!Init => DelaysInv
    BY DelaysConstants DEF D!Init, DelaysInv, D!TypeOK, WakeInv, D!Called, D!NoCall
<1>2. DelaysInv /\ [D!Next]_dVars => DelaysInv'
    BY NextDelaysInv
<1> QED
    BY <1>1, <1>2, PTL DEF D!Spec, dVars, D!vars

(* A deadline from the epoch on that an i64 of nanoseconds can hold is     *)
(* kept to the millisecond, and so is any timeout: never early, never      *)
(* late, and at once when it is past (OnTime), for any width of the        *)
(* integers and any clock.                                                 *)
THEOREM DeadlinesAreKept == InRange => (D!Spec => []OnTime)
<1> SUFFICES ASSUME InRange PROVE D!Spec => []OnTime
    OBVIOUS
<1>1. DelaysInv => OnTime
  <2> SUFFICES ASSUME DelaysInv PROVE OnTime
      OBVIOUS
  <2>1. clock \in 0..MaxI /\ MsNanos \in Nat /\ MsNanos > 0 /\ MaxI \in Nat
        /\ wanted \in Int /\ wakes \in Nat
      BY DelaysConstants DEF DelaysInv, D!TypeOK
  <2> QED
      BY <2>1 DEF DelaysInv, WakeInv, OnTime, D!OnTime, D!PastIsImmediate, D!NotEarly, D!NotLate
<1> QED
    BY <1>1, DelaysInvHolds, PTL
-----------------------------------------------------------------------------
(* A program that waits for one kind of source: each of the three          *)
(* specifications holds of it.                                             *)
THEOREM SourcesStayApart == SourceSpec => Spec /\ E!Spec /\ D!Spec
<1>1. SourceInit => Init /\ E!Init /\ D!Init
    BY DEF SourceInit
<1>2. [SourceNext]_<<opened, vars, eVars, dVars>>
      => [Next]_vars /\ [E!Next]_eVars /\ [D!Next]_dVars
    BY DEF SourceNext
<1> QED
    BY <1>1, <1>2, PTL DEF SourceSpec, Spec, E!Spec, D!Spec, eVars, E!vars, dVars, D!vars
=============================================================================
