----------------------------- MODULE MCHandles ------------------------------
(* The handles for TLC.  Three awaiters of one handle, two of them under   *)
(* the same token.  Of the jobs: "timed" is derived from "main" and        *)
(* "inner" from "timed"; k1 is the timer of timed, l1 a loop under main,   *)
(* l2 one under inner; u1 runs under main, u2 under timed.                 *)
EXTENDS Handles

CONSTANTS a1, a2, a3, scoped, u1, u2, l1, l2, k1, main, timed, inner

MCCtx == [p \in Awaiters |-> IF p = a3 THEN scoped ELSE main]

MCBelow == [c \in Tokens |-> CASE c = main -> Tokens [] c = timed -> {timed, inner} [] OTHER -> {c}]
MCTaskCtx == [t \in Tasks |-> IF t = u1 THEN main ELSE timed]
MCJobCtx ==
    [j \in Loops \cup Timers |-> CASE j = l1 -> main [] j = l2 -> inner [] OTHER -> timed]
=============================================================================
