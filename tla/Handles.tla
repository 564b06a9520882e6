------------------------------ MODULE Handles -------------------------------
(***************************************************************************)
(* What becomes of spawned tasks: the handle of one that is awaited, and   *)
(* the handles of the background jobs, which drain joins.  A run is about  *)
(* one of them; the variables of the other stay as they are.               *)
(***************************************************************************)
EXTENDS TaskHandle

CONSTANTS
    Tasks, Loops, Timers, Tokens, Below, TaskCtx, JobCtx, Panics    \* of Shutdown

VARIABLES
    opened,                                                 \* which of them
    job, aborting, registry, starting, draining, todo, taken, drained, told,
    sCancelled                                              \* of Shutdown

sVars == <<job, aborting, registry, starting, draining, todo, taken, drained, told,
           sCancelled>>

S == INSTANCE Shutdown WITH Contexts <- Tokens, cancelled <- sCancelled

ASSUME ShutdownAssumption == S!ConstantsAssumption

HandlesInit ==
    /\ Init /\ S!Init
    /\ opened \in {"await", "drain"}

(* Nobody has to start or drain anything: a program of jobs may stop.      *)
HandlesNext ==
    \/ opened = "await" /\ Next /\ UNCHANGED <<opened, sVars>>
    \/ opened = "drain" /\ S!Next /\ UNCHANGED <<opened, vars>>
    \/ opened = "drain" /\ UNCHANGED <<opened, vars, sVars>>

HandlesSpec == HandlesInit /\ [][HandlesNext]_<<opened, vars, sVars>>

FairHandlesSpec ==
    /\ HandlesSpec
    /\ \A a \in Awaiters : WF_vars(opened = "await" /\ Await(a))
    /\ WF_vars(opened = "await" /\ WorkerEnds)
    /\ \A t \in Tasks :
          /\ WF_sVars(opened = "drain" /\ S!Register(t))
          /\ WF_sVars(opened = "drain" /\ S!DrainGoesOn(t))
    /\ \A j \in Loops \cup Timers :
          /\ WF_sVars(opened = "drain" /\ S!LoopBreaks(j))
          /\ WF_sVars(opened = "drain" /\ S!JobAborted(j))

-----------------------------------------------------------------------------
(* Shutdown: a running job has one owner, and no handle is joined twice.   *)
OneOwner == S!OneOwner

(* Shutdown: when drain has returned, what it took is over.                *)
TakenAreOver == S!TakenAreOver

(* Shutdown: a drain in progress returns.                                  *)
DrainEnds == S!DrainEnds
=============================================================================
