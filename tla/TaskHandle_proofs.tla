-------------------------- MODULE TaskHandle_proofs --------------------------
(***************************************************************************)
(* All awaiters of a handle get one answer, for any number of them and any *)
(* assignment of tokens, and the first answer settles the handle for good. *)
(*                                                                         *)
(* The strengthening says what the mutex is for: an awaiter races exactly  *)
(* when it holds the mutex, the sentinel is in the cell exactly while it   *)
(* does, and an answer has been given exactly when the cell caches one.    *)
(***************************************************************************)
EXTENDS Handles, SequenceLemmas

HolderRaces == \A a \in Awaiters : pc[a] = "racing" <=> holder = a
SentinelIsHeld == cell = "sentinel" <=> holder # None
UnsettledIsUnanswered == cell \in {"pending", "sentinel"} => Answered = {}
AnswersAreCell == \A a \in Answered : got[a] = cell
CellIsEarned ==
    cell \in Answer =>
        \/ cell = worker
        \/ cell = "cancelled" /\ \E b \in Answered : Ctx[b] \in cancelled

HandleInv ==
    /\ TypeOK
    /\ HolderRaces
    /\ SentinelIsHeld
    /\ UnsettledIsUnanswered
    /\ AnswersAreCell
    /\ CellIsEarned

-----------------------------------------------------------------------------
LEMMA QueuePop ==
    ASSUME TypeOK, NEW a \in Awaiters, CanTake(a)
    PROVE  Tail(queue) \in Seq(Awaiters)
<1>1. queue \in Seq(Awaiters) /\ queue # <<>>  BY DEF TypeOK, CanTake
<1> QED  BY <1>1, HeadTailProperties

LEMMA InitHandle == Init => HandleInv
BY ConstantsAssumption DEF Init, HandleInv, TypeOK, HolderRaces, SentinelIsHeld,
    UnsettledIsUnanswered, AnswersAreCell, CellIsEarned, Answered, Answer, Outcome

(* The mutex is given back with answer v: what an await that ends does to  *)
(* the rest of the invariant.                                              *)
LEMMA Returns ==
    ASSUME HandleInv, NEW a \in Awaiters, NEW v \in Answer, ReturnWith(a, v),
           pc[a] = "racing" \/ (holder = None /\ cell = v),
           queue' \in Seq(Awaiters), UNCHANGED <<worker, cancelled>>,
           \/ v = worker
           \/ v = "cancelled" /\ Ctx[a] \in cancelled
           \/ v = cell
    PROVE  HandleInv'
<1> USE ConstantsAssumption DEF HandleInv
<1>1. TypeOK'  BY DEF TypeOK, ReturnWith
<1>2. /\ cell' = v /\ holder' = None
      /\ pc' = [pc EXCEPT ![a] = "done"] /\ got' = [got EXCEPT ![a] = v]
  BY DEF ReturnWith
<1>3. Answered' = Answered \cup {a}  BY <1>2 DEF Answered, TypeOK
<1>4. v \notin {"pending", "sentinel"}  BY DEF Answer, Outcome
<1>5. \A b \in Answered : cell = v
  BY DEF HolderRaces, SentinelIsHeld, UnsettledIsUnanswered, TypeOK
<1>6. HolderRaces'
  <2>1. \A b \in Awaiters : b # a => pc[b] # "racing"
    BY DEF HolderRaces
  <2> QED  BY <1>2, <2>1 DEF HolderRaces, TypeOK
<1>7. SentinelIsHeld' /\ UnsettledIsUnanswered'
  BY <1>2, <1>4 DEF SentinelIsHeld, UnsettledIsUnanswered
<1>8. AnswersAreCell'
  <2>1. \A b \in Answered : got[b] = v  BY <1>5 DEF AnswersAreCell
  <2>2. got \in [Awaiters -> Answer \cup {None}]  BY DEF TypeOK
  <2>3. \A b \in Answered \cup {a} : got'[b] = v
    BY <1>2, <2>1, <2>2 DEF Answered
  <2> QED  BY <1>2, <1>3, <2>3 DEF AnswersAreCell
<1>9. CellIsEarned'
  <2>1. CASE v = worker  BY <1>2, <2>1 DEF CellIsEarned
  <2>2. CASE v = "cancelled" /\ Ctx[a] \in cancelled
    BY <1>2, <1>3, <2>2 DEF CellIsEarned
  <2>3. CASE v = cell  BY <1>2, <1>3, <2>3 DEF CellIsEarned
  <2> QED  BY <2>1, <2>2, <2>3
<1> QED  BY <1>1, <1>6, <1>7, <1>8, <1>9

LEMMA StepHandle == HandleInv /\ [Next]_vars => HandleInv'
<1> SUFFICES ASSUME HandleInv, [Next]_vars PROVE HandleInv'
  OBVIOUS
<1> USE ConstantsAssumption
<1>1. CASE WorkerEnds
  <2>1. TypeOK'  BY <1>1 DEF HandleInv, TypeOK, WorkerEnds
  <2>2. CellIsEarned'
    BY <1>1 DEF HandleInv, CellIsEarned, WorkerEnds, Answered, Answer, Outcome
  <2>3. HolderRaces' /\ SentinelIsHeld' /\ UnsettledIsUnanswered' /\ AnswersAreCell'
    BY <1>1 DEF HandleInv, WorkerEnds, HolderRaces, SentinelIsHeld,
        UnsettledIsUnanswered, AnswersAreCell, Answered
  <2> QED  BY <2>1, <2>2, <2>3 DEF HandleInv
<1>2. CASE \E c \in Contexts : Cancel(c)
  BY <1>2 DEF HandleInv, TypeOK, Cancel, HolderRaces, SentinelIsHeld,
      UnsettledIsUnanswered, AnswersAreCell, CellIsEarned, Answered
<1>3. ASSUME NEW a \in Awaiters, Lock(a) PROVE HandleInv'
  <2>1. TypeOK'  BY <1>3, AppendProperties DEF HandleInv, TypeOK, Lock
  <2>2. Answered' = Answered  BY <1>3 DEF HandleInv, TypeOK, Lock, Answered
  <2>3. HolderRaces'  BY <1>3 DEF HandleInv, TypeOK, Lock, HolderRaces
  <2>4. SentinelIsHeld' /\ UnsettledIsUnanswered' /\ AnswersAreCell' /\ CellIsEarned'
    BY <1>3, <2>2 DEF HandleInv, Lock, SentinelIsHeld, UnsettledIsUnanswered,
        AnswersAreCell, CellIsEarned
  <2> QED  BY <2>1, <2>3, <2>4 DEF HandleInv
<1>4. ASSUME NEW a \in Awaiters, TakePending(a) PROVE HandleInv'
  <2>0. TypeOK /\ CanTake(a)  BY <1>4 DEF HandleInv, TakePending
  <2>1. TypeOK'  BY <1>4, <2>0, QueuePop DEF TypeOK, TakePending
  <2>2. Answered = {}
    BY <1>4 DEF HandleInv, TakePending, UnsettledIsUnanswered
  <2>3. Answered' = {}  BY <1>4, <2>0, <2>2 DEF TypeOK, TakePending, Answered
  <2>4. HolderRaces' /\ SentinelIsHeld'
    BY <1>4, <2>0 DEF HandleInv, TypeOK, TakePending, CanTake, HolderRaces, SentinelIsHeld
  <2>5. UnsettledIsUnanswered' /\ AnswersAreCell' /\ CellIsEarned'
    BY <1>4, <2>3 DEF TakePending, UnsettledIsUnanswered, AnswersAreCell,
        CellIsEarned, Answer, Outcome
  <2> QED  BY <2>1, <2>4, <2>5 DEF HandleInv
<1>5. ASSUME NEW a \in Awaiters, TakeDone(a) PROVE HandleInv'
  <2>1. TypeOK /\ CanTake(a) /\ holder = None /\ cell # "pending"
    BY <1>5 DEF HandleInv, TakeDone, CanTake
  <2>2. cell \in Answer
    BY <2>1 DEF HandleInv, TypeOK, SentinelIsHeld
  <2>3. queue' \in Seq(Awaiters)  BY <1>5, <2>1, QueuePop DEF TakeDone
  <2> QED  BY <1>5, <2>1, <2>2, <2>3, Returns DEF TakeDone
<1>6. ASSUME NEW a \in Awaiters, JoinWins(a) PROVE HandleInv'
  <2>1. worker \in Answer /\ queue' \in Seq(Awaiters)
    BY <1>6 DEF HandleInv, TypeOK, JoinWins, Answer
  <2> QED  BY <1>6, <2>1, Returns DEF JoinWins
<1>7. ASSUME NEW a \in Awaiters, CancelWins(a) PROVE HandleInv'
  <2>1. "cancelled" \in Answer /\ queue' \in Seq(Awaiters)
    BY <1>7 DEF HandleInv, TypeOK, CancelWins, Answer
  <2> QED  BY <1>7, <2>1, Returns DEF CancelWins
<1>8. CASE UNCHANGED vars
  BY <1>8 DEF HandleInv, TypeOK, HolderRaces, SentinelIsHeld,
      UnsettledIsUnanswered, AnswersAreCell, CellIsEarned, Answered, vars
<1> QED  BY <1>1, <1>2, <1>3, <1>4, <1>5, <1>6, <1>7, <1>8 DEF Next, Await

LEMMA HandleSafe == Spec => []HandleInv
BY InitHandle, StepHandle, PTL DEF Spec

-----------------------------------------------------------------------------
(* Everyone who awaits a handle is given the answer it caches, and none of *)
(* them the sentinel (comment at builtins_async.rs:296-305).               *)
THEOREM AnswersAgree == Spec => []OneAnswer
<1>1. HandleInv => OneAnswer
  BY DEF HandleInv, UnsettledIsUnanswered, AnswersAreCell, OneAnswer
<1> QED  BY <1>1, HandleSafe, PTL

(* An answer is the outcome of the task, or a cancellation some awaiter of *)
(* it was under: no other answer is made up.                               *)
THEOREM AnswersAreEarned == Spec => []AnswerIsEarned
<1>1. HandleInv => AnswerIsEarned
  <2> SUFFICES ASSUME HandleInv, NEW a \in Answered
               PROVE  \/ got[a] = worker
                      \/ got[a] = "cancelled" /\ \E b \in Answered : Ctx[b] \in cancelled
    BY DEF AnswerIsEarned
  <2>1. got[a] = cell  BY DEF HandleInv, AnswersAreCell
  <2>2. cell \in Answer
    BY DEF HandleInv, UnsettledIsUnanswered, TypeOK
  <2> QED  BY <2>1, <2>2 DEF HandleInv, CellIsEarned
<1> QED  BY <1>1, HandleSafe, PTL

(* An awaiter in line is in it once, and nobody else is.                   *)
LineInv ==
    /\ IsInjective(queue)
    /\ \A a \in Awaiters : pc[a] = "queued" <=> a \in ToSet(queue)

LEMMA TakenFromLine ==
    ASSUME TypeOK, LineInv, NEW a \in Awaiters, CanTake(a), queue' = Tail(queue),
           NEW w \in {"racing", "done"}, pc' = [pc EXCEPT ![a] = w]
    PROVE  LineInv'
<1>1. queue \in Seq(Awaiters) /\ queue # <<>> /\ Head(queue) = a
  BY DEF TypeOK, CanTake
<1>2. ToSet(queue) = ToSet(queue') \cup {a}
  BY <1>1, ToSetOfTail
<1>3. IsInjective(queue') /\ a \notin ToSet(queue')
  BY <1>1, IsInjectiveTail DEF LineInv
<1>4. pc'[a] # "queued" /\ \A b \in Awaiters : b # a => pc'[b] = pc[b]
  BY DEF TypeOK
<1> QED  BY <1>2, <1>3, <1>4 DEF LineInv

LEMMA StepLine == HandleInv /\ LineInv /\ [Next]_vars => LineInv'
<1> SUFFICES ASSUME HandleInv, LineInv, [Next]_vars PROVE LineInv'
  OBVIOUS
<1>0. TypeOK /\ queue \in Seq(Awaiters)  BY DEF HandleInv, TypeOK
<1>1. ASSUME NEW a \in Awaiters, Lock(a) PROVE LineInv'
  <2>1. queue' = Append(queue, a) /\ a \notin ToSet(queue)  BY <1>1 DEF Lock, LineInv
  <2>2. ToSet(queue') = ToSet(queue) \cup {a} /\ IsInjective(queue')
    BY <1>0, <2>1, ToSetOfAppend, IsInjectiveAppend DEF LineInv
  <2>3. pc'[a] = "queued" /\ \A b \in Awaiters : b # a => pc'[b] = pc[b]
    BY <1>0, <1>1 DEF Lock, TypeOK
  <2> QED  BY <2>2, <2>3 DEF LineInv
<1>2. ASSUME NEW a \in Awaiters, TakePending(a) \/ TakeDone(a) PROVE LineInv'
  BY <1>0, <1>2, TakenFromLine DEF TakePending, TakeDone, ReturnWith
<1>3. ASSUME NEW a \in Awaiters, JoinWins(a) \/ CancelWins(a) PROVE LineInv'
  <2>1. pc[a] # "queued" /\ queue' = queue /\ pc' = [pc EXCEPT ![a] = "done"]
    BY <1>3 DEF JoinWins, CancelWins, ReturnWith
  <2>2. pc'[a] # "queued" /\ \A b \in Awaiters : b # a => pc'[b] = pc[b]
    BY <1>0, <2>1 DEF TypeOK
  <2> QED  BY <2>1, <2>2 DEF LineInv
<1>4. CASE UNCHANGED <<queue, pc>>  BY <1>4 DEF LineInv
<1> QED  BY <1>1, <1>2, <1>3, <1>4 DEF Next, Await, WorkerEnds, Cancel, vars

(* Whenever an await waits for the lock, an await can go on: the next in   *)
(* line takes the lock, or one that has it races the task; and no await    *)
(* that has returned or failed keeps it.  That the race ends when the task *)
(* does is EveryAwaitReturns.                                              *)
SomeoneGoesOn ==
    (\E a \in Awaiters : pc[a] = "queued") =>
        \/ \E b \in Awaiters : CanTake(b) /\ cell # "sentinel"
        \/ \E b \in Awaiters : holder = b /\ pc[b] = "racing"

THEOREM LockIsPassedOn == Spec => [](LineInv /\ SomeoneGoesOn)
<1>1. Init => LineInv
  BY ToSetOfEmpty DEF Init, LineInv, IsInjective
<1>2. HandleInv /\ LineInv => SomeoneGoesOn
  <2> SUFFICES ASSUME HandleInv, LineInv, NEW a \in Awaiters, pc[a] = "queued"
               PROVE  \/ \E b \in Awaiters : CanTake(b) /\ cell # "sentinel"
                      \/ \E b \in Awaiters : holder = b /\ pc[b] = "racing"
    BY DEF SomeoneGoesOn
  <2>1. queue \in Seq(Awaiters) /\ queue # <<>>
    BY ToSetOfEmpty DEF HandleInv, TypeOK, LineInv
  <2>2. CASE holder = None
    BY <2>1, <2>2, ToSetOfTail DEF CanTake, HandleInv, SentinelIsHeld
  <2>3. CASE holder # None
    BY <2>3 DEF HandleInv, HolderRaces, TypeOK
  <2> QED  BY <2>2, <2>3
<1> QED  BY <1>1, <1>2, StepLine, HandleSafe, PTL DEF Spec

(* The first answer settles the handle: the cell never changes after it.   *)
THEOREM AnswerIsFinal == Spec => SettledOnce
<1>1. HandleInv /\ [Next]_vars => [Answered # {} => cell' = cell]_vars
  <2> SUFFICES ASSUME HandleInv, Next, Answered # {} PROVE cell' = cell
    OBVIOUS
  <2>1. cell \notin {"pending", "sentinel"} /\ holder = None
    BY DEF HandleInv, UnsettledIsUnanswered, SentinelIsHeld
  <2>2. \A a \in Awaiters : pc[a] # "racing"
    BY <2>1, ConstantsAssumption DEF HandleInv, HolderRaces
  <2> QED
    BY <2>1, <2>2 DEF Next, Await, WorkerEnds, Cancel, Lock, TakePending, TakeDone,
        JoinWins, CancelWins, ReturnWith, vars
<1> QED  BY <1>1, HandleSafe, PTL DEF Spec, SettledOnce

-----------------------------------------------------------------------------
(* The promise.                                                            *)

(* Nobody has an answer before the await returns.                          *)
UntoldInv == \A a \in Awaiters : pc[a] # "done" => got[a] = None

Decided == IF cell \in Answer THEN cell ELSE None

LEMMA NextInLineIsQueued ==
    ASSUME TypeOK, LineInv, NEW a \in Awaiters, CanTake(a)
    PROVE  pc[a] = "queued"
BY ToSetOfTail DEF TypeOK, LineInv, CanTake

LEMMA StepUntold == HandleInv /\ LineInv /\ UntoldInv /\ [Next]_vars => UntoldInv'
<1> SUFFICES ASSUME TypeOK, LineInv, UntoldInv, [Next]_vars PROVE UntoldInv'
  BY DEF HandleInv
<1>1. ASSUME NEW a \in Awaiters, Await(a) PROVE UntoldInv'
  <2>1. CASE Lock(a) \/ TakePending(a)
    <3>1. pc[a] # "done" /\ got' = got
      BY <2>1, NextInLineIsQueued DEF Lock, TakePending
    <3>2. \A b \in Awaiters : b # a => pc'[b] = pc[b]
      BY <2>1 DEF TypeOK, Lock, TakePending
    <3> QED  BY <3>1, <3>2 DEF UntoldInv
  <2>2. CASE TakeDone(a) \/ JoinWins(a) \/ CancelWins(a)
    BY <2>2 DEF UntoldInv, TypeOK, TakeDone, JoinWins, CancelWins, ReturnWith
  <2> QED  BY <1>1, <2>1, <2>2 DEF Await
<1>2. CASE UNCHANGED <<pc, got>>  BY <1>2 DEF UntoldInv
<1> QED  BY <1>1, <1>2 DEF Next, WorkerEnds, Cancel, vars

(* An await that returns repeats the answer, or decides it.                *)
LEMMA ReturnTells ==
    ASSUME HandleInv, UntoldInv, NEW a \in Awaiters, NEW v \in Answer,
           ReturnWith(a, v), pc[a] # "done", UNCHANGED <<worker, cancelled>>,
           \/ cell = v
           \/ cell \notin Answer /\ v = worker /\ worker # "running"
           \/ cell \notin Answer /\ v = "cancelled" /\ Ctx[a] \in cancelled
    PROVE  Handle!Decide(a) \/ Handle!Repeat(a)
<1>1. v # None  BY ConstantsAssumption
<1>2. Decided' = v  BY DEF Decided, ReturnWith, Answer, Outcome
<1>3. got[a] = None /\ got' = [got EXCEPT ![a] = v]  BY DEF UntoldInv, ReturnWith
<1>4. Handle!Tell(a, v)  BY <1>3 DEF Handle!Tell
<1>5. CASE cell = v
  <2>1. Decided = v  BY <1>5 DEF Decided
  <2> QED  BY <1>1, <1>2, <1>4, <2>1 DEF Handle!Repeat, Decided
<1>6. CASE cell \notin Answer
  <2>1. Decided = None  BY <1>6 DEF Decided
  <2>2. cell # v  BY <1>6
  <2> QED  BY <1>2, <1>4, <2>1, <2>2 DEF Handle!Decide, Decided
<1> QED  BY <1>5, <1>6

LEMMA StepOfPromise ==
    ASSUME HandleInv, LineInv, UntoldInv, [Next]_vars
    PROVE  [Handle!Next]_(Handle!vars)
<1>1. CASE WorkerEnds
  <2>1. Handle!WorkerEnds  BY <1>1 DEF WorkerEnds, Handle!WorkerEnds
  <2> QED  BY <2>1 DEF Handle!Next
<1>2. ASSUME NEW c \in Contexts, Cancel(c) PROVE Handle!Next
  <2>1. Handle!Cancel(c)  BY <1>2 DEF Cancel, Handle!Cancel
  <2> QED  BY <2>1 DEF Handle!Next
<1>3. ASSUME NEW a \in Awaiters, Lock(a) \/ TakePending(a) PROVE UNCHANGED Handle!vars
  <2>1. Decided' = Decided /\ UNCHANGED <<worker, cancelled, got>>
    BY <1>3 DEF Lock, TakePending, Decided, Answer, Outcome
  <2> QED  BY <2>1 DEF Handle!vars, Decided
<1>4. ASSUME NEW a \in Awaiters, TakeDone(a) PROVE Handle!Decide(a) \/ Handle!Repeat(a)
  <2>1. cell \in Answer
    BY <1>4 DEF HandleInv, TypeOK, SentinelIsHeld, TakeDone, CanTake
  <2>2. pc[a] # "done"
    BY <1>4, NextInLineIsQueued DEF TakeDone, HandleInv
  <2> QED  BY <1>4, <2>1, <2>2, ReturnTells DEF TakeDone
<1>5. ASSUME NEW a \in Awaiters, JoinWins(a) \/ CancelWins(a)
      PROVE  Handle!Decide(a) \/ Handle!Repeat(a)
  <2>1. pc[a] = "racing"  BY <1>5 DEF JoinWins, CancelWins
  <2>2. cell = "sentinel"
    BY <2>1, ConstantsAssumption DEF HandleInv, HolderRaces, SentinelIsHeld
  <2>3. cell \notin Answer  BY <2>2 DEF Answer, Outcome
  <2>4. CASE JoinWins(a)
    <3>1. worker \in Answer /\ worker # "running"
      BY <2>4 DEF JoinWins, HandleInv, TypeOK, Answer
    <3> QED  BY <2>1, <2>3, <2>4, <3>1, ReturnTells DEF JoinWins
  <2>5. CASE CancelWins(a)
    BY <2>1, <2>3, <2>5, ReturnTells DEF CancelWins, Answer
  <2> QED  BY <1>5, <2>4, <2>5
<1>6. CASE UNCHANGED vars
  <2>1. UNCHANGED Handle!vars  BY <1>6 DEF vars, Handle!vars
  <2> QED  BY <2>1
<1> QED  BY <1>1, <1>2, <1>3, <1>4, <1>5, <1>6 DEF Next, Await, Handle!Next

(* A handle is a promise to any number of awaiters: the mutex, the         *)
(* placeholder and the race of the first await are never seen, and the     *)
(* first answer given is the answer (builtin_await).                       *)
THEOREM HandleIsPromise == Spec => ImplementsPromise
<1>1. Init => Handle!Init
  BY DEF Init, Handle!Init, Answer, Outcome
<1>2. Init => UntoldInv
  BY DEF Init, UntoldInv
<1>3. HandleInv /\ LineInv /\ UntoldInv /\ [Next]_vars => [Handle!Next]_(Handle!vars)
  BY StepOfPromise
<1> QED
  BY <1>1, <1>2, <1>3, StepUntold, HandleSafe, LockIsPassedOn, PTL DEF Spec, Handle!Spec, ImplementsPromise
-----------------------------------------------------------------------------
(* A program that awaits a handle, or one that starts and drains jobs: the *)
(* specification of either holds of it.                                    *)
THEOREM HandlesStayApart == HandlesSpec => Spec /\ S!Spec
<1>1. HandlesInit => Init /\ S!Init
    BY DEF HandlesInit
<1>2. [HandlesNext]_<<opened, vars, sVars>> => [Next]_vars /\ [S!Next]_sVars
    BY DEF HandlesNext
<1> QED
    BY <1>1, <1>2, PTL DEF HandlesSpec, Spec, S!Spec, sVars, S!vars
=============================================================================
