------------------------------ MODULE Shutdown ------------------------------
(***************************************************************************)
(* Cancellation contexts, background tasks and drain:                      *)
(* src/src/builtins_async.rs (builtin_with_cancel, builtin_with_timeout,   *)
(* builtin_with_deadline, builtin_cancel_task, builtin_cancel_root,        *)
(* builtin_drain and the tasks that signal-, timer- and watch-channel      *)
(* spawn) and the task_registry of src/src/eval.rs.                        *)
(*                                                                         *)
(* A background task is spawned first and its handle pushed to the         *)
(* registry afterwards.  drain empties the registry and aborts and joins   *)
(* what it took, one handle after the other; between two of its awaits     *)
(* other tasks start jobs, cancel contexts and drain too.                  *)
(***************************************************************************)
EXTENDS Naturals, SequencesExt

CONSTANTS
    Tasks,          \* the tasks of the program
    Loops,          \* jobs that run until their context is cancelled
    Timers,         \* jobs that sleep and then cancel a context
    Contexts,       \* cancellation tokens
    Below,          \* Below[c]: c and every token derived from it
    TaskCtx,        \* the token a task runs under
    JobCtx,         \* the token a loop watches, or a timer cancels
    Panics,         \* the jobs that may panic
    None

Jobs == Loops \cup Timers

ConstantsAssumption ==
    /\ Loops \cap Timers = {}
    /\ None \notin Jobs
    /\ Panics \subseteq Jobs
    /\ TaskCtx \in [Tasks -> Contexts]
    /\ JobCtx \in [Jobs -> Contexts]
    /\ Below \in [Contexts -> SUBSET Contexts]
    /\ \A c \in Contexts : c \in Below[c]
    /\ \A c \in Contexts : \A d \in Below[c] : Below[d] \subseteq Below[c]

VARIABLES
    job,        \* job[j]: "new", "running" or the way it ended
    aborting,   \* jobs whose handle has been aborted
    registry,   \* the registered handles, in order
    starting,   \* starting[t]: the job t has spawned and not registered
    draining,   \* the tasks inside drain
    todo,       \* todo[t]: the handles t has taken and not joined
    taken,      \* taken[t]: what t took from the registry at its last drain
    drained,    \* the tasks whose last drain returned without an error
    told,       \* loops whose token was cancelled before they were drained
    cancelled

vars == <<job, aborting, registry, starting, draining, todo, taken, drained,
          told, cancelled>>
drains == <<draining, todo, taken, drained, told>>

Ended == {"clean", "fired", "aborted", "panicked"}

TypeOK ==
    /\ job \in [Jobs -> Ended \cup {"new", "running"}]
    /\ aborting \subseteq Jobs
    /\ registry \in Seq(Jobs)
    /\ starting \in [Tasks -> Jobs \cup {None}]
    /\ draining \subseteq Tasks /\ drained \subseteq Tasks \ draining
    /\ todo \in [Tasks -> Seq(Jobs)]
    /\ taken \in [Tasks -> SUBSET Jobs]
    /\ told \subseteq Loops
    /\ cancelled \subseteq Contexts

Init ==
    /\ job = [j \in Jobs |-> "new"]
    /\ aborting = {}
    /\ registry = <<>>
    /\ starting = [t \in Tasks |-> None]
    /\ draining = {}
    /\ todo = [t \in Tasks |-> <<>>]
    /\ taken = [t \in Tasks |-> {}]
    /\ drained = {}
    /\ told = {}
    /\ cancelled = {}

-----------------------------------------------------------------------------
Free(t) == starting[t] = None /\ t \notin draining

(* tokio::spawn, in an event-source builtin or with-timeout/-deadline.     *)
Start(t, j) ==
    /\ Free(t) /\ job[j] = "new"
    /\ job' = [job EXCEPT ![j] = "running"]
    /\ starting' = [starting EXCEPT ![t] = j]
    /\ UNCHANGED <<aborting, registry, drains, cancelled>>

(* task_registry.lock().unwrap().push(handle)                              *)
Register(t) ==
    /\ starting[t] # None
    /\ registry' = Append(registry, starting[t])
    /\ starting' = [starting EXCEPT ![t] = None]
    /\ UNCHANGED <<job, aborting, drains, cancelled>>

Finish(j, how) ==
    /\ job[j] = "running"
    /\ job' = [job EXCEPT ![j] = how]
    /\ UNCHANGED <<aborting, registry, starting, drains>>

(* The biased select! of a loop sees the cancellation and breaks.          *)
LoopBreaks(j) ==
    /\ j \in Loops /\ JobCtx[j] \in cancelled
    /\ Finish(j, "clean")
    /\ UNCHANGED cancelled

(* The sleep is over.                                                      *)
TimerFires(j) ==
    /\ j \in Timers
    /\ Finish(j, "fired")
    /\ cancelled' = cancelled \cup Below[JobCtx[j]]

JobPanics(j) ==
    /\ j \in Panics
    /\ Finish(j, "panicked")
    /\ UNCHANGED cancelled

(* An aborted task is dropped where it waits.                              *)
JobAborted(j) ==
    /\ j \in aborting
    /\ Finish(j, "aborted")
    /\ UNCHANGED cancelled

(* cancel-task                                                             *)
CancelTask(t, c) ==
    /\ Free(t) /\ c \notin cancelled
    /\ cancelled' = cancelled \cup Below[c]
    /\ UNCHANGED <<job, aborting, registry, starting, drains>>

(* cancel-root cancels the token of the calling context.                   *)
CancelRoot(t) == CancelTask(t, TaskCtx[t])

-----------------------------------------------------------------------------
(* Mutant: the handles are copied and stay registered.                     *)
DrainTake_Copies(t) ==
    /\ Free(t)
    /\ draining' = draining \cup {t}
    /\ drained' = drained \ {t}
    /\ todo' = [todo EXCEPT ![t] = registry]
    /\ taken' = [taken EXCEPT ![t] = ToSet(registry)]
    /\ told' = told \cup {j \in ToSet(registry) \cap Loops : JobCtx[j] \in cancelled}
    /\ UNCHANGED <<job, aborting, registry, starting, cancelled>>

(* mem::take of the registry                                               *)
DrainTake(t) ==
    /\ Free(t)
    /\ draining' = draining \cup {t}
    /\ drained' = drained \ {t}
    /\ todo' = [todo EXCEPT ![t] = registry]
    /\ registry' = <<>>
    /\ taken' = [taken EXCEPT ![t] = ToSet(registry)]
    /\ told' = told \cup {j \in ToSet(registry) \cap Loops : JobCtx[j] \in cancelled}
    /\ UNCHANGED <<job, aborting, starting, cancelled>>

Joining(t) == t \in draining /\ todo[t] # <<>>

(* Mutant: the jobs of contexts that are not cancelled are left to run.    *)
DrainAbort_IfCancelled(t) ==
    /\ Joining(t) /\ Head(todo[t]) \notin aborting
    /\ JobCtx[Head(todo[t])] \in cancelled
    /\ aborting' = aborting \cup {Head(todo[t])}
    /\ UNCHANGED <<job, registry, starting, drains, cancelled>>

DrainAbort(t) ==
    /\ Joining(t) /\ Head(todo[t]) \notin aborting
    /\ aborting' = aborting \cup {Head(todo[t])}
    /\ UNCHANGED <<job, registry, starting, drains, cancelled>>

(* Mutant: abort() is taken for the end of the task.                       *)
DrainJoin_NoWait(t) ==
    /\ Joining(t) /\ Head(todo[t]) \in aborting
    /\ job[Head(todo[t])] # "panicked"
    /\ todo' = [todo EXCEPT ![t] = Tail(@)]
    /\ UNCHANGED <<job, aborting, registry, starting, draining, taken, drained, told,
                   cancelled>>

(* handle.await: the job has ended, by itself or aborted.                  *)
DrainJoin(t) ==
    /\ Joining(t) /\ Head(todo[t]) \in aborting
    /\ job[Head(todo[t])] \in Ended \ {"panicked"}
    /\ todo' = [todo EXCEPT ![t] = Tail(@)]
    /\ UNCHANGED <<job, aborting, registry, starting, draining, taken, drained, told,
                   cancelled>>

(* The job has panicked: drain returns an error and drops the other handles. *)
DrainFails(t) ==
    /\ Joining(t) /\ Head(todo[t]) \in aborting
    /\ job[Head(todo[t])] = "panicked"
    /\ draining' = draining \ {t}
    /\ todo' = [todo EXCEPT ![t] = <<>>]
    /\ UNCHANGED <<job, aborting, registry, starting, taken, drained, told, cancelled>>

DrainReturns(t) ==
    /\ t \in draining /\ todo[t] = <<>>
    /\ draining' = draining \ {t}
    /\ drained' = drained \cup {t}
    /\ UNCHANGED <<job, aborting, registry, starting, todo, taken, told, cancelled>>

-----------------------------------------------------------------------------
DrainGoesOn(t) ==
    DrainAbort(t) \/ DrainJoin(t) \/ DrainFails(t) \/ DrainReturns(t)

Next ==
    \/ \E t \in Tasks :
          \/ \E j \in Jobs : Start(t, j)
          \/ Register(t)
          \/ \E c \in Contexts : CancelTask(t, c)
          \/ CancelRoot(t)
          \/ DrainTake(t)
          \/ DrainGoesOn(t)
    \/ \E j \in Jobs : LoopBreaks(j) \/ TimerFires(j) \/ JobPanics(j) \/ JobAborted(j)

Spec == Init /\ [][Next]_vars

(* The runtime polls woken tasks.  A sleep may be longer than the program, *)
(* and nobody has to start, cancel or drain anything.                      *)
FairSpec ==
    /\ Spec
    /\ \A t \in Tasks : WF_vars(Register(t)) /\ WF_vars(DrainGoesOn(t))
    /\ \A j \in Jobs : WF_vars(LoopBreaks(j)) /\ WF_vars(JobAborted(j))
-----------------------------------------------------------------------------
(* PROPERTIES                                                              *)

Running == {j \in Jobs : job[j] = "running"}

(* A running job has one owner: the call that starts it, the registry or   *)
(* one drain, and only a drain that failed loses one.  No handle is joined *)
(* twice (JoinHandle::await consumes it).                                  *)
OneOwner ==
    /\ \A t \in Tasks : ToSet(todo[t]) \cap ToSet(registry) = {}
    /\ \A t, u \in Tasks : t # u => ToSet(todo[t]) \cap ToSet(todo[u]) = {}
    /\ (\A j \in Jobs : job[j] # "panicked") =>
          \A j \in Running :
              \/ j \in ToSet(registry)
              \/ \E t \in Tasks : j = starting[t] \/ j \in ToSet(todo[t])

(* When drain returns without an error every job it took is over, aborted  *)
(* or not, though others may have started since.                           *)
TakenAreOver == \A t \in drained : taken[t] \cap Running = {}

(* A drain in progress returns, though the jobs sleep for ever and nobody  *)
(* has cancelled them.                                                     *)
DrainEnds == \A t \in Tasks : t \in draining ~> t \notin draining
-----------------------------------------------------------------------------
(* DIVERGENCES: what the documentation or a comment says and this code     *)
(* does not do; TLC refutes each (README, Divergences).                    *)

(* After cancel-root the loops exit cleanly, and the abort of a later      *)
(* drain is a no-op (builtins_async.rs:2889-2890, doc/08-evaluation.md:1233). *)
ToldLoopsExitCleanly == \A j \in told : job[j] # "aborted"
=============================================================================
