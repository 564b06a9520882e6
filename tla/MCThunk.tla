------------------------------ MODULE MCThunk ------------------------------
(* Small instances of Thunk: t1 uses t2, a call of a builtin named by t4   *)
(* on the strict argument t3, which uses t4 too; t5 is [a: a].  In the     *)
(* instance with crashes t3 is a builtin that calls materialize() on t4.   *)
EXTENDS Thunk

CONSTANTS a, b, c, t1, t2, t3, t4, t5

MCDemands ==
    [t \in Thunks |-> CASE t = t1 -> {t2}
                        [] t \in {t2, t3} -> {t4}
                        [] t = t4 -> {}
                        [] t = t5 -> {t5}]
MCStrictArgs == [t \in Thunks |-> IF t = t2 THEN {t3} ELSE {}]
MCDen == [t \in Thunks |-> IF t = t5 THEN "err" ELSE "val"]

(* Roots that overlap, and one that only the first task forces.           *)
MCRoots ==
    [p \in Tasks |-> CASE p = a -> {t1, t5} [] p = b -> {t1, t2} [] p = c -> {t2}]

(* Where tasks crash: one goes on where another one has lost a claim.      *)
MCCrashRoots ==
    [p \in Tasks |-> CASE p = a -> {t1, t3} [] p = b -> {t3, t5} [] p = c -> {t2}]
=============================================================================
