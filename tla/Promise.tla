------------------------------- MODULE Promise -------------------------------
(***************************************************************************)
(* What the handle of a task promises those who await it                   *)
(* (doc/08-evaluation.md, task and await): it has one answer, which is     *)
(* decided at the moment the first of them is told it and does not change. *)
(* It is what the task has ended with, or a cancellation that the first of *)
(* them was under.  No lock and no placeholder can be seen.                *)
(***************************************************************************)
CONSTANTS Awaiters, Contexts, Ctx, Outcome, None

VARIABLES
    worker,     \* "running" or what the task has ended with
    cancelled,
    answer,     \* None until it is decided
    told        \* told[a]: what a was told

vars == <<worker, cancelled, answer, told>>

Init ==
    /\ worker = "running"
    /\ cancelled = {}
    /\ answer = None
    /\ told = [a \in Awaiters |-> None]

WorkerEnds ==
    /\ worker = "running"
    /\ worker' \in Outcome
    /\ UNCHANGED <<cancelled, answer, told>>

Cancel(c) ==
    /\ cancelled' = cancelled \cup {c}
    /\ UNCHANGED <<worker, answer, told>>

Tell(a, v) ==
    /\ told[a] = None
    /\ told' = [told EXCEPT ![a] = v]
    /\ UNCHANGED <<worker, cancelled>>

Decide(a) ==
    /\ answer = None
    /\ \/ worker # "running" /\ answer' = worker
       \/ Ctx[a] \in cancelled /\ answer' = "cancelled"
    /\ Tell(a, answer')

Repeat(a) ==
    /\ answer # None
    /\ Tell(a, answer)
    /\ UNCHANGED answer

Next ==
    \/ WorkerEnds
    \/ \E c \in Contexts : Cancel(c)
    \/ \E a \in Awaiters : Decide(a) \/ Repeat(a)

Spec == Init /\ [][Next]_vars
=============================================================================
