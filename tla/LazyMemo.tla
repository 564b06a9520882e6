------------------------------ MODULE LazyMemo ------------------------------
(***************************************************************************)
(* What a lazy cell promises, whoever forces it and in whatever order      *)
(* (doc/08-evaluation.md, Thunk Lifecycle): each thunk is given a result   *)
(* at most once, a value only after everything its body needs has a value, *)
(* and an error only if its own body fails, something it needs failed or   *)
(* it depends on itself.                                                   *)
(***************************************************************************)
CONSTANTS Thunks, Needs(_), Bad, Unset

VARIABLE memo

Init == memo = [t \in Thunks |-> Unset]

Succeed(t) ==
    /\ t \notin Bad
    /\ \A d \in Needs(t) : memo[d] = "val"
    /\ memo' = [memo EXCEPT ![t] = "val"]

(* What t needs leads back into a circle.                                  *)
Circular(t) ==
    \E S \in SUBSET Thunks : t \in S /\ \A s \in S : Needs(s) \cap S # {}

Fail(t) ==
    /\ t \in Bad \/ Circular(t) \/ \E d \in Needs(t) : memo[d] = "err"
    /\ memo' = [memo EXCEPT ![t] = "err"]

Next == \E t \in Thunks : memo[t] = Unset /\ (Succeed(t) \/ Fail(t))

Spec == Init /\ [][Next]_memo
=============================================================================
