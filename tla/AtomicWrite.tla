---------------------------- MODULE AtomicWrite -----------------------------
(* write-atomic (builtins_io.rs, builtin_write_atomic): contents are       *)
(* written to a temporary file in the directory of the target, synced, and *)
(* renamed over it.  Several calls, of one process or of several, write    *)
(* one target; a process may be killed and the machine may lose its power  *)
(* at any moment.                                                          *)
(*                                                                         *)
(* The file system is external: names bound to files, files whose data is  *)
(* in memory until it is synced, and a directory that is never synced.  A  *)
(* call creates at most one file, which has the call's name here.  What it *)
(* writes is Blocks blocks, each marked with that name.                    *)
EXTENDS Naturals, Sequences, FiniteSets

CONSTANTS
    Writers,        \* the calls
    Pid,            \* the process of each
    Blocks,         \* write_all is this many writes
    Coarse,         \* two readings of the clock may agree
    Original,       \* the file that Target is bound to at first
    Hole            \* a block nobody has written

ConstantsAssumption ==
    /\ Blocks \in Nat \ {0}
    /\ Coarse \in BOOLEAN
    /\ Original \notin Writers /\ Hole \notin Writers \cup {Original}

VARIABLES
    target,         \* the file that the target's name is bound to
    bound,          \* every file it has been bound to
    linked,         \* the files that still have their temporary name
    data,           \* for each file, what a reader finds in it
    durable,        \* for each file, what of that is synced
    now,            \* the last reading of the clock
    pc,             \* where each call is, or how it has ended
    stamp,          \* the reading in temp_name
    handle,         \* temp_file: the file that is open
    offset,         \* how much of it has been written
    outage          \* history: the power has failed

disk == <<target, bound, linked, data, durable>>
vars == <<disk, now, pc, stamp, handle, offset, outage>>

Files == Writers \cup {Original}
Marks == Files \cup {Hole}
Contents(f) == [i \in 1..Blocks |-> f]
Busy == {"writing", "synced"}
Failures == {"writeFailed", "renameFailed", "cleanupFailed", "killed"}

TypeOK ==
    /\ target \in Files /\ bound \subseteq Files /\ linked \subseteq Writers
    /\ data \in [Files -> Seq(Marks)] /\ durable \in [Files -> Seq(Marks)]
    /\ now \in Nat
    /\ pc \in [Writers -> {"idle", "ok"} \cup Busy \cup Failures]
    /\ stamp \in [Writers -> Nat]
    /\ handle \in [Writers -> Writers]
    /\ offset \in [Writers -> 0..Blocks]
    /\ outage \in BOOLEAN

Init ==
    /\ target = Original /\ bound = {Original} /\ linked = {}
    /\ data = [f \in Files |-> IF f = Original THEN Contents(f) ELSE <<>>]
    /\ durable = data
    /\ now = 0
    /\ pc = [w \in Writers |-> "idle"]
    /\ stamp = [w \in Writers |-> 0]
    /\ handle = [w \in Writers |-> w]
    /\ offset = [w \in Writers |-> 0]
    /\ outage = FALSE

-----------------------------------------------------------------------------
(* The file that w's temp_name, `.tmp.{pid}.{nanos}`, is bound to.         *)
Named(w) == {f \in linked : Pid[f] = Pid[w] /\ stamp[f] = stamp[w]}

(* The name is made of the pid and the clock, and the file created under   *)
(* it; if there is one of that name it is truncated and shared.            *)
Create(w) ==
    /\ pc[w] = "idle"
    /\ now' \in {now + 1} \cup (IF Coarse THEN {now} ELSE {})
    /\ stamp' = [stamp EXCEPT ![w] = now']
    /\ LET taken == {f \in linked : Pid[f] = Pid[w] /\ stamp[f] = now'}
           file  == IF taken = {} THEN w ELSE CHOOSE f \in taken : TRUE
       IN  /\ handle' = [handle EXCEPT ![w] = file]
           /\ data' = [data EXCEPT ![file] = <<>>]
           /\ linked' = linked \cup {file}
    /\ pc' = [pc EXCEPT ![w] = "writing"]
    /\ UNCHANGED <<target, bound, durable, offset, outage>>

(* d with block k written by w.                                            *)
Larger(m, n) == IF m >= n THEN m ELSE n
Written(d, k, w) ==
    [i \in 1..Larger(Len(d), k) |->
        IF i = k THEN w ELSE IF i <= Len(d) THEN d[i] ELSE Hole]

WriteBlock(w) ==
    /\ pc[w] = "writing" /\ offset[w] < Blocks
    /\ offset' = [offset EXCEPT ![w] = @ + 1]
    /\ data' = [data EXCEPT ![handle[w]] = Written(@, offset[w] + 1, w)]
    /\ UNCHANGED <<target, bound, linked, durable, now, pc, stamp, handle, outage>>

(* Mutant: no sync_all.                                                    *)
Sync_Skipped(w) ==
    /\ pc[w] = "writing" /\ offset[w] = Blocks
    /\ pc' = [pc EXCEPT ![w] = "synced"]
    /\ UNCHANGED <<disk, now, stamp, handle, offset, outage>>

Sync(w) ==
    /\ pc[w] = "writing" /\ offset[w] = Blocks
    /\ durable' = [durable EXCEPT ![handle[w]] = data[handle[w]]]
    /\ pc' = [pc EXCEPT ![w] = "synced"]
    /\ UNCHANGED <<target, bound, linked, data, now, stamp, handle, offset, outage>>

(* write_all or sync_all fails: the error returns and the file stays.      *)
WriteFails(w) ==
    /\ pc[w] = "writing"
    /\ pc' = [pc EXCEPT ![w] = "writeFailed"]
    /\ UNCHANGED <<disk, now, stamp, handle, offset, outage>>

Rename(w) ==
    /\ pc[w] = "synced"
    /\ \E f \in Named(w) :
           /\ target' = f
           /\ bound' = bound \cup {f}
           /\ linked' = linked \ {f}
    /\ pc' = [pc EXCEPT ![w] = "ok"]
    /\ UNCHANGED <<data, durable, now, stamp, handle, offset, outage>>

(* Mutant: the temporary file is not removed.                              *)
RenameFails_NoCleanup(w) ==
    /\ pc[w] = "synced"
    /\ pc' = [pc EXCEPT ![w] = "renameFailed"]
    /\ UNCHANGED <<disk, now, stamp, handle, offset, outage>>

(* The rename fails, and then the temporary file is removed or that fails  *)
(* too.                                                                    *)
RenameFails(w) ==
    /\ pc[w] = "synced"
    /\ \/ \E f \in Named(w) :
              /\ linked' = linked \ {f}
              /\ pc' = [pc EXCEPT ![w] = "renameFailed"]
       \/ linked' = linked /\ pc' = [pc EXCEPT ![w] = "cleanupFailed"]
    /\ UNCHANGED <<target, bound, data, durable, now, stamp, handle, offset, outage>>

Killed(procs) == [w \in Writers |-> IF pc[w] \in Busy /\ Pid[w] \in procs THEN "killed" ELSE pc[w]]

(* A process is killed.  What it has written stays.                        *)
Kill(w) ==
    /\ pc[w] \in Busy
    /\ pc' = Killed({Pid[w]})
    /\ UNCHANGED <<disk, now, stamp, handle, offset, outage>>

(* The power fails.  Of each file the data is found as it was or as it had *)
(* been synced, the target is bound to any file it has ever been bound to, *)
(* and the temporary names are there or not.  The calls that have not      *)
(* begun may be made after the restart.                                    *)
PowerFails ==
    /\ ~outage
    /\ outage' = TRUE
    /\ pc' = Killed({Pid[w] : w \in Writers})
    /\ target' \in bound
    /\ linked' \in SUBSET ((linked \cup bound) \ {target', Original})
    /\ \E kept \in SUBSET Files :
           data' = [f \in Files |-> IF f \in kept THEN data[f] ELSE durable[f]]
    /\ durable' = data'
    /\ UNCHANGED <<bound, now, stamp, handle, offset>>

Call(w) == Create(w) \/ WriteBlock(w) \/ Sync(w) \/ WriteFails(w) \/ Rename(w) \/ RenameFails(w)
Over == (\A w \in Writers : pc[w] \notin {"idle"} \cup Busy) /\ UNCHANGED vars

Next == (\E w \in Writers : Call(w) \/ Kill(w)) \/ PowerFails \/ Over

Spec == Init /\ [][Next]_vars

-----------------------------------------------------------------------------
(* PROPERTIES                                                              *)

(* Whoever reads the target, at any time and after any crash, finds all    *)
(* that one call wrote or what was there first, never a part or a mixture  *)
(* (prelude.llt: "Atomically write a string to a file").                   *)
TargetWhole == \E f \in Files : data[target] = Contents(f)

(* A temporary file that stays has a cause: a call still at work, or one   *)
(* that was killed, or failed to write, or failed to remove it.  Neither   *)
(* success nor a failed rename leaves one (the cleanup after rename).      *)
LitterHasCause ==
    ~outage => \A f \in linked : pc[f] \in Busy \cup (Failures \ {"renameFailed"})

-----------------------------------------------------------------------------
(* DIVERGENCES                                                             *)

(* TargetWhole with Coarse = TRUE: "Use process ID and a random suffix to  *)
(* avoid collisions" (builtins_io.rs), but the suffix is the clock.  Two   *)
(* tasks that read the same time share a file.                             *)
=============================================================================
