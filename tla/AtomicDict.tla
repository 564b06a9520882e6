----------------------------- MODULE AtomicDict -----------------------------
(***************************************************************************)
(* What a transient builder promises the tasks that share it: it is a dict *)
(* on which every operation happens in one step, at some moment of the     *)
(* call.  One call of finish or freeze closes it.  The calls in progress   *)
(* at that moment may still happen, up to the moment when finish takes the *)
(* dict, or be refused; those that come later are refused.  A refused call *)
(* has done nothing.                                                       *)
(***************************************************************************)
CONSTANTS Procs, Keys, None

VARIABLES
    dict,
    phase,      \* "open", "finishing", "taken" or "frozen"
    calling,    \* the tasks whose calls began while it was open
    reply,      \* for each task, its call and what it was told, at the end
    final       \* the dict that finish returned

vars == <<dict, phase, calling, reply, final>>

Init ==
    /\ dict = [k \in Keys |-> None]
    /\ phase = "open"
    /\ calling = {}
    /\ reply = [p \in Procs |-> None]
    /\ final = [k \in Keys |-> None]

Call(p) ==
    /\ phase = "open" /\ reply[p] = None
    /\ calling' = calling \cup {p}
    /\ UNCHANGED <<dict, phase, reply, final>>

Reply(p, o, k, a, v) ==
    /\ reply[p] = None
    /\ reply' = [reply EXCEPT ![p] = [op |-> o, key |-> k, ans |-> a, val |-> v]]
    /\ calling' = calling \ {p}

(* A task inserts itself.                                                  *)
Present(p, k) == IF dict[k] = None THEN p ELSE dict[k]

Perform(p, k) ==
    /\ p \in calling /\ phase # "taken"
    /\ \/ Reply(p, "set", k, "ok", None) /\ dict' = [dict EXCEPT ![k] = p]
       \/ Reply(p, "delete", k, "ok", None) /\ dict' = [dict EXCEPT ![k] = None]
       \/ Reply(p, "get_or", k, "ok", Present(p, k)) /\ dict' = [dict EXCEPT ![k] = Present(p, k)]
       \/ Reply(p, "get", k, "ok", dict[k]) /\ dict' = dict
       \/ Reply(p, "snapshot", k, "ok", None) /\ dict' = dict
    /\ UNCHANGED <<phase, final>>

Refuse(p, o, k) ==
    /\ phase # "open"
    /\ Reply(p, o, k, "frozen", None)
    /\ UNCHANGED <<dict, phase, final>>

Freeze(p, k) ==
    /\ phase = "open" /\ phase' = "frozen"
    /\ Reply(p, "freeze", k, "ok", None)
    /\ UNCHANGED <<dict, final>>

FinishBegins ==
    /\ phase = "open" /\ phase' = "finishing"
    /\ UNCHANGED <<dict, calling, reply, final>>

Finish(p, k) ==
    /\ phase = "finishing" /\ phase' = "taken"
    /\ final' = dict
    /\ Reply(p, "finish", k, "ok", None)
    /\ UNCHANGED dict

Op == {"set", "delete", "get_or", "get", "snapshot", "finish", "freeze"}

Next ==
    \/ FinishBegins
    \/ \E p \in Procs : Call(p)
    \/ \E p \in Procs, k \in Keys :
          \/ Perform(p, k) \/ Freeze(p, k) \/ Finish(p, k)
          \/ \E o \in Op : Refuse(p, o, k)

Spec == Init /\ [][Next]_vars
=============================================================================
