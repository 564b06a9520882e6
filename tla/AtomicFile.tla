----------------------------- MODULE AtomicFile -----------------------------
(***************************************************************************)
(* What write-atomic promises whoever reads the file (prelude.llt:         *)
(* "Atomically write a string to a file"): the file has the contents of    *)
(* the last call that succeeded, from the moment it did.  A call that      *)
(* failed, or was killed, has never been seen in the file and never will.  *)
(* Only a power failure undoes a success, and then the file goes back to   *)
(* contents it has had before.                                             *)
(***************************************************************************)
CONSTANTS Calls, Contents(_), Original

VARIABLES
    contents,       \* what a reader finds
    versions,       \* all that a reader may have found so far
    told,           \* for each call, whether it has ended and how
    outage          \* the power has failed

vars == <<contents, versions, told, outage>>

Init ==
    /\ contents = Contents(Original)
    /\ versions = {contents}
    /\ told = [c \in Calls |-> "open"]
    /\ outage = FALSE

Ended(S) == [c \in Calls |-> IF c \in S THEN "failed" ELSE told[c]]

Replace(c) ==
    /\ told[c] = "open"
    /\ contents' = Contents(c)
    /\ versions' = versions \cup {contents'}
    /\ told' = [told EXCEPT ![c] = "done"]
    /\ UNCHANGED outage

(* Calls fail, by themselves or with their process.                        *)
Fail(S) ==
    /\ \A c \in S : told[c] = "open"
    /\ told' = Ended(S)
    /\ UNCHANGED <<contents, versions, outage>>

PowerFails(S) ==
    /\ ~outage
    /\ outage' = TRUE
    /\ \A c \in S : told[c] = "open"
    /\ told' = Ended(S)
    /\ contents' \in versions
    /\ UNCHANGED versions

Next ==
    \/ \E c \in Calls : Replace(c)
    \/ \E S \in SUBSET Calls : Fail(S) \/ PowerFails(S)

Spec == Init /\ [][Next]_vars
=============================================================================
