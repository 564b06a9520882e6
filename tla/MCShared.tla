------------------------------ MODULE MCShared ------------------------------
(* The shared things for TLC.  Two calls of write-atomic are of one        *)
(* process and the third of another; three tasks share a transient dict;   *)
(* the evaluators of the profile are the main program and one task.        *)
EXTENDS Shared

CONSTANTS w1, w2, w3, k1, k2, e1, e2

MCPid == [w \in Writers |-> IF w = w3 THEN 2 ELSE 1]
=============================================================================
