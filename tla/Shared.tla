------------------------------- MODULE Shared -------------------------------
(***************************************************************************)
(* What several writers share: the collector of spans, a file that is      *)
(* replaced, a transient dict that is built.  A run is about one of them;  *)
(* the variables of the others stay as they are.                           *)
(***************************************************************************)
EXTENDS Profile

CONSTANTS
    Writers, Pid, Blocks, Coarse, Original, Hole,   \* of AtomicWrite
    Procs, Keys, None                               \* of Builder

VARIABLES
    opened,                                                     \* which of them
    target, bound, linked, data, durable, now, wPc, stamp, handle, offset,
    outage,                                                     \* of AtomicWrite
    frozen, map, taken, bPc, op, key, ans, val, final           \* of Builder

wVars == <<<<target, bound, linked, data, durable>>, now, wPc, stamp, handle, offset, outage>>
bVars == <<frozen, map, taken, bPc, op, key, ans, val, final>>

A == INSTANCE AtomicWrite WITH pc <- wPc

B == INSTANCE Builder WITH pc <- bPc

ASSUME FileAssumption == A!ConstantsAssumption
ASSUME BuilderAssumption == B!ConstantsAssumption

SharedInit ==
    /\ Init /\ A!Init /\ B!Init
    /\ opened \in {"profile", "file", "builder"}

SharedNext ==
    \/ opened = "profile" /\ Next /\ UNCHANGED <<opened, wVars, bVars>>
    \/ opened = "file" /\ A!Next /\ UNCHANGED <<opened, vars, bVars>>
    \/ opened = "builder" /\ B!Next /\ UNCHANGED <<opened, vars, wVars>>

SharedSpec == SharedInit /\ [][SharedNext]_<<opened, vars, wVars, bVars>>

FairSharedSpec ==
    /\ SharedSpec
    /\ WF_vars(opened = "profile" /\ Flusher)
    /\ WF_vars(opened = "profile" /\ SignalExit)
    /\ WF_vars(opened = "profile" /\ Ending)

-----------------------------------------------------------------------------
(* AtomicWrite: a reader of the target finds one whole contents.           *)
TargetWhole == A!TargetWhole

(* AtomicWrite: to its readers and callers the calls of write-atomic are   *)
(* those of an atomic file.  A call is open until it returns or is killed; *)
(* the file has had the contents of every file it was bound to.            *)
FileContents(f) == A!Contents(f)
FileTold == [w \in Writers |->
    IF wPc[w] = "ok" THEN "done" ELSE IF wPc[w] \in A!Failures THEN "failed" ELSE "open"]

File == INSTANCE AtomicFile WITH
    Calls <- Writers, Contents <- FileContents,
    contents <- data[target],
    versions <- {FileContents(f) : f \in bound},
    told <- FileTold

ImplementsAtomicFile == File!Spec

(* AtomicWrite: a temporary file that stays has a cause.                   *)
LitterHasCause == A!LitterHasCause

(* Builder: one finish gets the map, with exactly the insertions that were *)
(* reported.                                                               *)
ReportedIsFinal == B!ReportedIsFinal

(* Builder: to its tasks a builder is a dict whose operations happen in    *)
(* one step, whenever they look at the flag and wait for the mutex.        *)
BuilderPhase ==
    IF taken THEN "taken" ELSE IF ~frozen THEN "open"
    ELSE IF \E p \in Procs : bPc[p] = "taking" THEN "finishing" ELSE "frozen"
BuilderReply == [p \in Procs |->
    IF bPc[p] = "done" THEN [op |-> op[p], key |-> key[p], ans |-> ans[p], val |-> val[p]]
    ELSE None]

Dict == INSTANCE AtomicDict WITH
    dict <- map,
    phase <- BuilderPhase,
    calling <- {p \in Procs : bPc[p] = "checked"},
    reply <- BuilderReply

ImplementsAtomicDict == Dict!Spec

(* Builder: those who ask for one key with a default agree.                *)
GetOrAgrees == B!GetOrAgrees
=============================================================================
