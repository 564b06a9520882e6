----------------------------- MODULE TaskHandle -----------------------------
(***************************************************************************)
(* A task started with [task e] (or [par e]) and the awaiters of its       *)
(* handle: src/src/builtins_async.rs, builtin_task and builtin_await.      *)
(*                                                                         *)
(* The handle is a tokio Mutex around TaskState.  An awaiter keeps the     *)
(* mutex while it races the JoinHandle against the cancellation of its own *)
(* context; the others queue for the mutex, where no cancellation reaches  *)
(* them.  While an awaiter races, the state it took out is replaced by a   *)
(* sentinel.                                                               *)
(***************************************************************************)
EXTENDS Naturals, Sequences, FiniteSets

CONSTANTS
    Awaiters,   \* the tasks that call [await h], each once
    Contexts,   \* the cancellation tokens they run under
    Ctx,        \* Ctx[a]: the token of awaiter a
    None

(* What the spawned future can end with (a panic gives a JoinError), and   *)
(* what the handle can cache.                                              *)
Outcome == {"ok", "err", "panicked"}
Answer == Outcome \cup {"cancelled"}

ASSUME ConstantsAssumption ==
    /\ Ctx \in [Awaiters -> Contexts]
    /\ None \notin Awaiters \cup Answer

VARIABLES
    worker,     \* the spawned future: "running" or its outcome
    cell,       \* TaskState: "pending", "sentinel", or Done of an answer
    holder,     \* the awaiter that has locked the state mutex
    queue,      \* those waiting for it, in order (tokio's Mutex is fair)
    pc,         \* "idle", "queued", "racing" (in the select!) or "done"
    got,        \* what [await h] returned to each awaiter
    cancelled   \* the cancelled tokens

vars == <<worker, cell, holder, queue, pc, got, cancelled>>

TypeOK ==
    /\ worker \in Outcome \cup {"running"}
    /\ cell \in Answer \cup {"pending", "sentinel"}
    /\ holder \in Awaiters \cup {None}
    /\ queue \in Seq(Awaiters)
    /\ pc \in [Awaiters -> {"idle", "queued", "racing", "done"}]
    /\ got \in [Awaiters -> Answer \cup {None}]
    /\ cancelled \subseteq Contexts

Init ==
    /\ worker = "running"
    /\ cell = "pending"
    /\ holder = None
    /\ queue = <<>>
    /\ pc = [a \in Awaiters |-> "idle"]
    /\ got = [a \in Awaiters |-> None]
    /\ cancelled = {}

-----------------------------------------------------------------------------
(* The spawned future ends.  It is detached: no cancellation ends it.      *)
WorkerEnds ==
    /\ worker = "running"
    /\ worker' \in Outcome
    /\ UNCHANGED <<cell, holder, queue, pc, got, cancelled>>

Cancel(c) ==
    /\ c \notin cancelled
    /\ cancelled' = cancelled \cup {c}
    /\ UNCHANGED <<worker, cell, holder, queue, pc, got>>

(* The guard is dropped with answer v cached and returned.                 *)
ReturnWith(a, v) ==
    /\ cell' = v
    /\ got' = [got EXCEPT ![a] = v]
    /\ pc' = [pc EXCEPT ![a] = "done"]
    /\ holder' = None

(* [await h]: state_mutex.lock().await                                     *)
Lock(a) ==
    /\ pc[a] = "idle"
    /\ queue' = Append(queue, a)
    /\ pc' = [pc EXCEPT ![a] = "queued"]
    /\ UNCHANGED <<worker, cell, holder, got, cancelled>>

CanTake(a) == queue # <<>> /\ Head(queue) = a /\ holder = None

(* mem::replace with the sentinel finds Pending: go and race the handle.   *)
TakePending(a) ==
    /\ CanTake(a) /\ cell = "pending"
    /\ queue' = Tail(queue)
    /\ holder' = a
    /\ cell' = "sentinel"
    /\ pc' = [pc EXCEPT ![a] = "racing"]
    /\ UNCHANGED <<worker, got, cancelled>>

(* Mutant: the Done arm does not restore the answer it took out.           *)
TakeDone_NoRestore(a) ==
    /\ CanTake(a) /\ cell # "pending"
    /\ queue' = Tail(queue)
    /\ got' = [got EXCEPT ![a] = cell]
    /\ cell' = "sentinel"
    /\ pc' = [pc EXCEPT ![a] = "done"]
    /\ UNCHANGED <<worker, holder, cancelled>>

(* It finds Done: restore the answer and return it.                        *)
TakeDone(a) ==
    /\ CanTake(a) /\ cell # "pending"
    /\ queue' = Tail(queue)
    /\ ReturnWith(a, cell)
    /\ UNCHANGED <<worker, cancelled>>

(* Mutant: a JoinError is not an answer.                                   *)
JoinWins_NoPanic(a) ==
    /\ pc[a] = "racing" /\ worker \in {"ok", "err"}
    /\ ReturnWith(a, worker)
    /\ UNCHANGED <<worker, queue, cancelled>>

JoinWins(a) ==
    /\ pc[a] = "racing" /\ worker # "running"
    /\ ReturnWith(a, worker)
    /\ UNCHANGED <<worker, queue, cancelled>>

(* Mutants: the error is not cached; it is returned for any token.         *)
CancelWins_NotCached(a) ==
    /\ pc[a] = "racing" /\ Ctx[a] \in cancelled
    /\ got' = [got EXCEPT ![a] = "cancelled"]
    /\ pc' = [pc EXCEPT ![a] = "done"]
    /\ holder' = None
    /\ UNCHANGED <<worker, cell, queue, cancelled>>
CancelWins_AnyToken(a) ==
    /\ pc[a] = "racing" /\ cancelled # {}
    /\ ReturnWith(a, "cancelled")
    /\ UNCHANGED <<worker, queue, cancelled>>

(* The awaiter's token fires: the error is cached for every later await.   *)
CancelWins(a) ==
    /\ pc[a] = "racing" /\ Ctx[a] \in cancelled
    /\ ReturnWith(a, "cancelled")
    /\ UNCHANGED <<worker, queue, cancelled>>

-----------------------------------------------------------------------------
Await(a) ==
    Lock(a) \/ TakePending(a) \/ TakeDone(a) \/ JoinWins(a) \/ CancelWins(a)

Terminated == \A a \in Awaiters : pc[a] = "done"

Next ==
    \/ WorkerEnds
    \/ \E c \in Contexts : Cancel(c)
    \/ \E a \in Awaiters : Await(a)
    \/ Terminated /\ UNCHANGED vars

Spec == Init /\ [][Next]_vars

(* The scheduler polls every awaiter that can make progress; the task may  *)
(* run for ever.                                                           *)
FairSpec == Spec /\ \A a \in Awaiters : WF_vars(Await(a))

(* ... and the task ends.                                                  *)
EndingSpec == FairSpec /\ WF_vars(WorkerEnds)
-----------------------------------------------------------------------------
(* PROPERTIES                                                              *)

Answered == {a \in Awaiters : pc[a] = "done"}

(* All awaiters of a handle are given one answer, the cached one, and none *)
(* of them the sentinel (comment at builtins_async.rs:296-305).            *)
OneAnswer ==
    \A a \in Answered : got[a] = cell /\ cell # "sentinel"

(* An answer is the outcome of the task, or somebody who awaited it ran    *)
(* under a token that has been cancelled.                                  *)
AnswerIsEarned ==
    \A a \in Answered :
        \/ got[a] = worker
        \/ got[a] = "cancelled" /\ \E b \in Answered : Ctx[b] \in cancelled

(* Until somebody is answered nothing is decided: the first await settles  *)
(* the handle, and nothing changes it again.                               *)
SettledOnce == [][Answered # {} => cell' = cell]_vars

(* To the awaiters the handle is a Promise: an answer is decided and given *)
(* in one step, whoever queues, races and is cancelled meanwhile.          *)
Handle == INSTANCE Promise WITH
              answer <- IF cell \in Answer THEN cell ELSE None, told <- got
ImplementsPromise == Handle!Spec

(* When the task ends, everyone who awaits it is answered.                 *)
EveryAwaitReturns == \A a \in Awaiters : pc[a] # "idle" ~> pc[a] = "done"
-----------------------------------------------------------------------------
(* DIVERGENCES: what the documentation or a comment says and this code     *)
(* does not do; TLC refutes each (README, Divergences).                    *)

(* An await whose context is cancelled returns, whatever the task does     *)
(* (eval.rs:312-314).                                                      *)
CancelUnblocks ==
    \A a \in Awaiters : pc[a] # "idle" /\ Ctx[a] \in cancelled ~> pc[a] = "done"

(* An awaiter whose own context is not cancelled gets the task's result    *)
(* (builtins_async.rs:253-254).                                            *)
OwnContextOnly ==
    \A a \in Answered : got[a] = "cancelled" => Ctx[a] \in cancelled
=============================================================================
