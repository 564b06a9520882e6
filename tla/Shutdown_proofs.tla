--------------------------- MODULE Shutdown_proofs ---------------------------
(***************************************************************************)
(* Theorems about Shutdown (S, as Handles has it), for any number of       *)
(* tasks, jobs and contexts.                                               *)
(*                                                                         *)
(* ShutdownInv is the inductive invariant.  A handle is in one of three    *)
(* places (the call that spawned it, the registry, the list of one drain)  *)
(* because the job is new until it enters the first of them and never      *)
(* again, and because a task that is not draining has an empty list.       *)
(***************************************************************************)
EXTENDS Handles, SequenceLemmas

(* Every handle that is somewhere is the handle of a job that was started. *)
KnownAreStarted ==
    /\ \A j \in ToSet(registry) : job[j] # "new"
    /\ \A t \in Tasks : starting[t] # None => job[starting[t]] # "new"
    /\ \A t \in Tasks : \A j \in ToSet(todo[t]) : job[j] # "new"

(* A handle that is not registered yet is nowhere else.                    *)
StartingApart ==
    \A t \in Tasks : starting[t] # None =>
        /\ starting[t] \notin ToSet(registry)
        /\ \A u \in Tasks : starting[t] \notin ToSet(todo[u])
        /\ \A u \in Tasks : t # u => starting[t] # starting[u]

ListsApart ==
    /\ \A t \in Tasks : ToSet(todo[t]) \cap ToSet(registry) = {}
    /\ \A t, u \in Tasks : t # u => ToSet(todo[t]) \cap ToSet(todo[u]) = {}

RunningAreOwned ==
    (\A j \in S!Jobs : job[j] # "panicked") =>
        \A j \in S!Running :
            \/ j \in ToSet(registry)
            \/ \E t \in Tasks : j = starting[t] \/ j \in ToSet(todo[t])

IdleHaveNothing == \A t \in Tasks : t \notin draining => todo[t] = <<>>

(* What a drain has taken is over or still on its list.                    *)
TakenAreJoined ==
    /\ \A t \in draining : \A j \in taken[t] : j \in ToSet(todo[t]) \/ job[j] \in S!Ended
    /\ \A t \in drained : \A j \in taken[t] : job[j] \in S!Ended

ShutdownInv ==
    /\ S!TypeOK
    /\ KnownAreStarted
    /\ StartingApart
    /\ ListsApart
    /\ RunningAreOwned
    /\ IdleHaveNothing
    /\ TakenAreJoined
-----------------------------------------------------------------------------
LEMMA InitShutdownInv == S!Init => ShutdownInv
<1> SUFFICES ASSUME S!Init PROVE ShutdownInv
    OBVIOUS
<1>1. S!TypeOK
    BY DEF S!Init, S!TypeOK
<1>2. ToSet(registry) = {} /\ \A t \in Tasks : ToSet(todo[t]) = {}
    BY ToSetOfEmpty DEF S!Init
<1> QED
    BY <1>1, <1>2 DEF S!Init, ShutdownInv, KnownAreStarted, StartingApart, ListsApart,
       RunningAreOwned, S!Running, IdleHaveNothing, TakenAreJoined

LEMMA ToSetOfLists ==
    ASSUME S!TypeOK
    PROVE  /\ ToSet(registry) \subseteq S!Jobs
           /\ \A t \in Tasks : todo[t] \in Seq(S!Jobs) /\ ToSet(todo[t]) \subseteq S!Jobs
  BY ToSetInSet DEF S!TypeOK

(* A job that ends in any way, one that cancels a context among them.      *)
LEMMA FinishKeepsInv ==
    ASSUME ShutdownInv, NEW j \in S!Jobs, NEW how \in S!Ended, S!Finish(j, how),
           sCancelled' \subseteq Tokens
    PROVE  ShutdownInv'
<1> USE DEF ShutdownInv, S!Finish, S!drains
<1>2. job' \in [S!Jobs -> S!Ended \cup {"new", "running"}] /\ job'[j] = how
    BY DEF S!TypeOK
<1>3. \A k \in S!Jobs : k # j => job'[k] = job[k]
    BY DEF S!TypeOK
<1>4. how \notin {"new", "running"} /\ job[j] = "running"
    BY DEF S!Ended
<1>5. S!TypeOK'
    BY <1>2 DEF S!TypeOK
<1>6. KnownAreStarted'
    BY <1>2, <1>3, <1>4, ToSetOfLists DEF KnownAreStarted, S!TypeOK
<1>7. RunningAreOwned'
    BY <1>2, <1>3, <1>4 DEF RunningAreOwned, S!Running
<1>8. TakenAreJoined'
  <2>1. \A k \in S!Jobs : job[k] \in S!Ended => job'[k] \in S!Ended
      BY <1>2, <1>3
  <2>2. \A t \in Tasks : taken[t] \subseteq S!Jobs
      BY DEF S!TypeOK
  <2> QED
      BY <2>1, <2>2 DEF TakenAreJoined, S!TypeOK
<1>9. StartingApart' /\ ListsApart' /\ IdleHaveNothing'
    BY DEF StartingApart, ListsApart, IdleHaveNothing
<1> QED
    BY <1>5, <1>6, <1>7, <1>8, <1>9

LEMMA StartKeepsInv ==
    ASSUME ShutdownInv, NEW t \in Tasks, NEW j \in S!Jobs,
           S!Start(t, j)
    PROVE  ShutdownInv'
<1> USE DEF ShutdownInv, S!Start, S!drains
<1>1. job' \in [S!Jobs -> S!Ended \cup {"new", "running"}] /\ job'[j] = "running" /\ job[j] = "new"
    BY DEF S!TypeOK
<1>2. \A k \in S!Jobs : k # j => job'[k] = job[k]
    BY DEF S!TypeOK
<1>3. starting' \in [Tasks -> S!Jobs \cup {None}] /\ starting'[t] = j /\ starting[t] = None
    BY DEF S!TypeOK, S!Free
<1>4. \A u \in Tasks : u # t => starting'[u] = starting[u]
    BY DEF S!TypeOK
<1>5. /\ j \notin ToSet(registry)
      /\ \A u \in Tasks : j \notin ToSet(todo[u]) /\ starting[u] # j
    BY <1>1, ShutdownAssumption DEF S!ConstantsAssumption, KnownAreStarted
<1>6. S!TypeOK'
    BY <1>1, <1>3 DEF S!TypeOK
<1>7. KnownAreStarted'
    BY <1>1, <1>2, <1>3, <1>4, ToSetOfLists DEF KnownAreStarted, S!TypeOK
<1>8. StartingApart'
    BY <1>3, <1>4, <1>5 DEF StartingApart
<1>9. RunningAreOwned'
    BY <1>1, <1>2, <1>3, <1>4, ShutdownAssumption
       DEF S!ConstantsAssumption, RunningAreOwned, S!Running
<1>10. TakenAreJoined'
  <2>1. \A k \in S!Jobs : job[k] \in S!Ended => job'[k] \in S!Ended
      BY <1>1, <1>2 DEF S!Ended
  <2>2. \A u \in Tasks : taken[u] \subseteq S!Jobs
      BY DEF S!TypeOK
  <2> QED
      BY <2>1, <2>2 DEF TakenAreJoined, S!TypeOK
<1>11. ListsApart' /\ IdleHaveNothing'
    BY DEF ListsApart, IdleHaveNothing
<1> QED
    BY <1>6, <1>7, <1>8, <1>9, <1>10, <1>11

LEMMA RegisterKeepsInv ==
    ASSUME ShutdownInv, NEW t \in Tasks, S!Register(t)
    PROVE  ShutdownInv'
<1> USE DEF ShutdownInv, S!Register, S!drains
<1>1. starting[t] \in S!Jobs
    BY DEF S!TypeOK
<1>2. ToSet(registry') = ToSet(registry) \cup {starting[t]} /\ registry' \in Seq(S!Jobs)
    BY <1>1, ToSetOfAppend DEF S!TypeOK
<1>3. starting' \in [Tasks -> S!Jobs \cup {None}] /\ starting'[t] = None
    BY DEF S!TypeOK
<1>4. \A u \in Tasks : u # t => starting'[u] = starting[u]
    BY DEF S!TypeOK
<1>5. S!TypeOK'
    BY <1>2, <1>3 DEF S!TypeOK
<1>6. KnownAreStarted'
    BY <1>2, <1>3, <1>4 DEF KnownAreStarted
<1>7. StartingApart' /\ ListsApart'
  <2>1. /\ starting[t] \notin ToSet(registry)
        /\ \A u \in Tasks : starting[t] \notin ToSet(todo[u])
        /\ \A u \in Tasks : t # u => starting[t] # starting[u]
      BY DEF StartingApart
  <2>2. ListsApart'
      BY <1>2, <2>1 DEF ListsApart
  <2>3. StartingApart'
      BY <1>2, <1>3, <1>4, <2>1 DEF StartingApart
  <2> QED
      BY <2>2, <2>3
<1>8. RunningAreOwned'
    BY <1>2, <1>3, <1>4 DEF RunningAreOwned, S!Running
<1>9. TakenAreJoined' /\ IdleHaveNothing'
    BY DEF TakenAreJoined, IdleHaveNothing
<1> QED
    BY <1>5, <1>6, <1>7, <1>8, <1>9

(* The registry of the calling drain moves to its own list, which is empty *)
(* because the caller is not draining.                                     *)
LEMMA DrainTakeKeepsInv ==
    ASSUME ShutdownInv, NEW t \in Tasks, S!DrainTake(t)
    PROVE  ShutdownInv'
<1> USE DEF ShutdownInv, S!DrainTake
<1>1. todo' \in [Tasks -> Seq(S!Jobs)] /\ todo'[t] = registry
    BY DEF S!TypeOK
<1>2. \A u \in Tasks : u # t => todo'[u] = todo[u]
    BY DEF S!TypeOK
<1>3. taken' \in [Tasks -> SUBSET S!Jobs] /\ taken'[t] = ToSet(registry)
    BY ToSetOfLists DEF S!TypeOK, ToSet, S!ToSet
<1>4. \A u \in Tasks : u # t => taken'[u] = taken[u]
    BY DEF S!TypeOK
<1>5. ToSet(registry') = {} /\ registry' \in Seq(S!Jobs)
    BY ToSetOfEmpty
<1>6. ToSet(todo[t]) = {} /\ t \notin draining
    BY ToSetOfEmpty DEF IdleHaveNothing, S!Free
<1>7. S!TypeOK'
    BY <1>1, <1>3, <1>5 DEF S!TypeOK
<1>8. KnownAreStarted'
    BY <1>1, <1>2, <1>5 DEF KnownAreStarted
<1>9. StartingApart' /\ ListsApart'
    BY <1>1, <1>2, <1>5 DEF StartingApart, ListsApart
<1>10. RunningAreOwned'
  <2>1. SUFFICES ASSUME \A j \in S!Jobs : job[j] # "panicked", NEW j \in S!Running
        PROVE  \/ j \in ToSet(registry')
               \/ \E u \in Tasks : j = starting[u] \/ j \in ToSet(todo'[u])
      BY DEF RunningAreOwned, S!Running
  <2>2. CASE j \in ToSet(registry)
      BY <2>2, <1>1
  <2>3. CASE \E u \in Tasks : j = starting[u] \/ j \in ToSet(todo[u])
      BY <2>3, <1>2, <1>6
  <2> QED
      BY <2>1, <2>2, <2>3 DEF RunningAreOwned
<1>11. TakenAreJoined'
    BY <1>1, <1>2, <1>3, <1>4, <1>6 DEF TakenAreJoined, S!TypeOK
<1>12. IdleHaveNothing'
    BY <1>1, <1>2 DEF IdleHaveNothing
<1> QED
    BY <1>7, <1>8, <1>9, <1>10, <1>11, <1>12

(* drain goes on to its next handle: the job of the last one has ended.    *)
LEMMA DrainJoinKeepsInv ==
    ASSUME ShutdownInv, NEW t \in Tasks, S!DrainJoin(t)
    PROVE  ShutdownInv'
<1> USE DEF ShutdownInv, S!DrainJoin, S!Joining
<1> DEFINE h == Head(todo[t])
<1>1. /\ h \in S!Jobs /\ job[h] \in S!Ended
      /\ Tail(todo[t]) \in Seq(S!Jobs)
      /\ ToSet(todo[t]) = ToSet(Tail(todo[t])) \cup {h}
    BY ToSetOfTail DEF S!TypeOK
<1>2. todo' \in [Tasks -> Seq(S!Jobs)] /\ todo'[t] = Tail(todo[t])
    BY <1>1 DEF S!TypeOK
<1>3. \A u \in Tasks : u # t => todo'[u] = todo[u]
    BY DEF S!TypeOK
<1>4. \A u \in Tasks : ToSet(todo'[u]) \subseteq ToSet(todo[u])
    BY <1>1, <1>2, <1>3
<1>5. \A u \in Tasks : \A j \in ToSet(todo[u]) : j \in ToSet(todo'[u]) \/ j = h
    BY <1>1, <1>2, <1>3
<1>6. S!TypeOK'
    BY <1>2 DEF S!TypeOK
<1>7. KnownAreStarted'
    BY <1>4 DEF KnownAreStarted
<1>8. StartingApart' /\ ListsApart'
    BY <1>4 DEF StartingApart, ListsApart
<1>9. RunningAreOwned'
    BY <1>1, <1>5 DEF RunningAreOwned, S!Running, S!Ended
<1>10. TakenAreJoined'
    BY <1>1, <1>5 DEF TakenAreJoined, S!TypeOK
<1>11. IdleHaveNothing'
    BY <1>3 DEF IdleHaveNothing
<1> QED
    BY <1>6, <1>7, <1>8, <1>9, <1>10, <1>11

LEMMA DrainFailsKeepsInv ==
    ASSUME ShutdownInv, NEW t \in Tasks, S!DrainFails(t)
    PROVE  ShutdownInv'
<1> USE DEF ShutdownInv, S!DrainFails, S!Joining
<1>1. todo' \in [Tasks -> Seq(S!Jobs)] /\ todo'[t] = <<>>
    BY DEF S!TypeOK
<1>2. \A u \in Tasks : u # t => todo'[u] = todo[u]
    BY DEF S!TypeOK
<1>3. \A u \in Tasks : ToSet(todo'[u]) \subseteq ToSet(todo[u])
    BY <1>1, <1>2, ToSetOfEmpty
<1>4. Head(todo[t]) \in S!Jobs
    BY ToSetOfTail DEF S!TypeOK
<1>5. S!TypeOK'
    BY <1>1 DEF S!TypeOK
<1>6. KnownAreStarted'
    BY <1>3 DEF KnownAreStarted
<1>7. StartingApart' /\ ListsApart'
    BY <1>3 DEF StartingApart, ListsApart
<1>8. RunningAreOwned'
    BY <1>4 DEF RunningAreOwned
<1>9. TakenAreJoined'
    BY <1>2 DEF TakenAreJoined, S!TypeOK
<1>10. IdleHaveNothing'
    BY <1>1, <1>2 DEF IdleHaveNothing
<1> QED
    BY <1>5, <1>6, <1>7, <1>8, <1>9, <1>10

LEMMA DrainReturnsKeepsInv ==
    ASSUME ShutdownInv, NEW t \in Tasks, S!DrainReturns(t)
    PROVE  ShutdownInv'
<1> USE DEF ShutdownInv, S!DrainReturns
<1>1. S!TypeOK'
    BY DEF S!TypeOK
<1>2. TakenAreJoined'
    BY ToSetOfEmpty DEF TakenAreJoined, S!TypeOK
<1>3. IdleHaveNothing'
    BY DEF IdleHaveNothing
<1>4. KnownAreStarted' /\ StartingApart' /\ ListsApart' /\ RunningAreOwned'
    BY DEF KnownAreStarted, StartingApart, ListsApart, RunningAreOwned, S!Running
<1> QED
    BY <1>1, <1>2, <1>3, <1>4
-----------------------------------------------------------------------------
LEMMA NextShutdownInv ==
    ASSUME ShutdownInv, [S!Next]_sVars
    PROVE  ShutdownInv'
<1>0. JobCtx \in [S!Jobs -> Tokens] /\ TaskCtx \in [Tasks -> Tokens]
      /\ Below \in [Tokens -> SUBSET Tokens] /\ sCancelled \subseteq Tokens
    BY ShutdownAssumption DEF S!ConstantsAssumption, ShutdownInv, S!TypeOK
<1>1. ASSUME NEW t \in Tasks, NEW j \in S!Jobs, S!Start(t, j) PROVE ShutdownInv'
    BY <1>1, StartKeepsInv
<1>2. ASSUME NEW t \in Tasks, S!Register(t) PROVE ShutdownInv'
    BY <1>2, RegisterKeepsInv
<1>3. ASSUME NEW t \in Tasks, NEW c \in Tokens, S!CancelTask(t, c) PROVE ShutdownInv'
  <2>1. sCancelled' \subseteq Tokens
      BY <1>3, ShutdownAssumption DEF S!CancelTask, ShutdownInv, S!TypeOK, S!ConstantsAssumption
  <2> QED
      BY <1>3, <2>1 DEF S!CancelTask, S!drains, ShutdownInv, S!TypeOK, KnownAreStarted, StartingApart,
         ListsApart, RunningAreOwned, S!Running, IdleHaveNothing, TakenAreJoined
<1>4. ASSUME NEW t \in Tasks, S!CancelRoot(t) PROVE ShutdownInv'
    BY <1>0, <1>3, <1>4 DEF S!CancelRoot
<1>5. ASSUME NEW t \in Tasks, S!DrainTake(t) PROVE ShutdownInv'
    BY <1>5, DrainTakeKeepsInv
<1>6. ASSUME NEW t \in Tasks, S!DrainAbort(t) PROVE ShutdownInv'
  <2>1. aborting' \subseteq S!Jobs
      BY <1>6, ToSetOfTail DEF S!DrainAbort, S!Joining, ShutdownInv, S!TypeOK
  <2> QED
      BY <1>6, <2>1 DEF S!DrainAbort, S!drains, ShutdownInv, S!TypeOK, KnownAreStarted, StartingApart,
         ListsApart, RunningAreOwned, S!Running, IdleHaveNothing, TakenAreJoined
<1>7. ASSUME NEW t \in Tasks, S!DrainJoin(t) PROVE ShutdownInv'
    BY <1>7, DrainJoinKeepsInv
<1>8. ASSUME NEW t \in Tasks, S!DrainFails(t) PROVE ShutdownInv'
    BY <1>8, DrainFailsKeepsInv
<1>9. ASSUME NEW t \in Tasks, S!DrainReturns(t) PROVE ShutdownInv'
    BY <1>9, DrainReturnsKeepsInv
<1>10. ASSUME NEW j \in S!Jobs, S!LoopBreaks(j) PROVE ShutdownInv'
    BY <1>0, <1>10, FinishKeepsInv DEF S!LoopBreaks, S!Ended
<1>11. ASSUME NEW j \in S!Jobs, S!TimerFires(j) PROVE ShutdownInv'
    BY <1>0, <1>11, FinishKeepsInv DEF S!TimerFires, S!Ended, S!Jobs
<1>12. ASSUME NEW j \in S!Jobs, S!JobPanics(j) PROVE ShutdownInv'
    BY <1>0, <1>12, FinishKeepsInv DEF S!JobPanics, S!Ended
<1>13. ASSUME NEW j \in S!Jobs, S!JobAborted(j) PROVE ShutdownInv'
    BY <1>0, <1>13, FinishKeepsInv DEF S!JobAborted, S!Ended
<1>14. CASE UNCHANGED sVars
    BY <1>14 DEF sVars, S!drains, ShutdownInv, S!TypeOK, KnownAreStarted, StartingApart,
       ListsApart, RunningAreOwned, S!Running, IdleHaveNothing, TakenAreJoined
<1> QED
    BY <1>1, <1>2, <1>3, <1>4, <1>5, <1>6, <1>7, <1>8, <1>9, <1>10, <1>11, <1>12, <1>13, <1>14
       DEF S!Next, S!DrainGoesOn

THEOREM ShutdownInvHolds == S!Spec => []ShutdownInv
<1>1. ShutdownInv /\ [S!Next]_sVars => ShutdownInv'
    BY NextShutdownInv
<1> QED
    BY InitShutdownInv, <1>1, PTL DEF S!Spec, sVars, S!vars
-----------------------------------------------------------------------------
(* No handle is lost or joined twice, however starts and drains interleave *)
(* (the registry of eval.rs and builtin_drain); only after a panic may a   *)
(* job run on unowned.                                                     *)
THEOREM HandlesHaveOneOwner == S!Spec => []OneOwner
<1>1. ShutdownInv => OneOwner
    BY DEF ShutdownInv, OneOwner, S!OneOwner, ListsApart, RunningAreOwned, ToSet, S!ToSet
<1> QED
    BY ShutdownInvHolds, <1>1, PTL

(* When a drain has returned without an error, everything it took from the *)
(* registry is over (builtin_drain).                                       *)
THEOREM DrainedAreOver == S!Spec => []TakenAreOver
<1>1. ShutdownInv => TakenAreOver
  <2> SUFFICES ASSUME ShutdownInv, NEW t \in drained, NEW j \in taken[t], j \in S!Running
      PROVE FALSE
      BY DEF TakenAreOver, S!TakenAreOver
  <2>1. job[j] \in S!Ended
      BY DEF ShutdownInv, TakenAreJoined
  <2> QED
      BY <2>1 DEF S!Running, S!Ended
<1> QED
    BY ShutdownInvHolds, <1>1, PTL
=============================================================================
