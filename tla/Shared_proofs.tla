------------------------- MODULE Shared_proofs ----------------------------
(***************************************************************************)
(* Theorems about what is shared: a file, for any number of calls of any   *)
(* processes and contents of any length; a transient builder, for any      *)
(* tasks and keys; the profiler, for any number of evaluators and spans,   *)
(* any interval of the flush thread, and panics that unwind or abort.      *)
(*                                                                         *)
(* AtomicWrite: if no two readings of the clock agree, every call has a    *)
(* temporary name, and so a file, of its own: what is in it is a prefix of *)
(* that call's contents, all of it and on disk before the file is renamed, *)
(* and nobody touches it afterwards.  So the target is an AtomicFile.      *)
(*                                                                         *)
(* Builder: WinnerInv follows the flag, which one call sets for good, and  *)
(* MapInv the map: every value in it is of a call that has returned, and   *)
(* after finish has taken it nobody writes to it.  With TakenInv it is an  *)
(* AtomicDict.                                                             *)
(*                                                                         *)
(* Profile: the log, what is in the file, in the BufWriter and in the      *)
(* thread's batch, is extended only by a drain, and only when the batch is *)
(* empty: by the spans after the cursor, which have the numbers after all  *)
(* that are in it.  The thread leaves by way of a signal only if it has    *)
(* drained after the handler returned.                                     *)
(***************************************************************************)
EXTENDS Shared, SequenceLemmas

(* THE FILE                                                                *)

FileTyped ==
    /\ target \in bound /\ bound \subseteq A!Files /\ linked \subseteq Writers
    /\ data \in [A!Files -> Seq(A!Marks)] /\ durable \in [A!Files -> Seq(A!Marks)]
    /\ now \in Nat
    /\ wPc \in [Writers -> {"idle", "ok"} \cup A!Busy \cup A!Failures]
    /\ stamp \in [Writers -> Nat]
    /\ handle = [w \in Writers |-> w]
    /\ offset \in [Writers -> 0..Blocks]

(* A call that has begun has a stamp of its own.                           *)
StampsDiffer ==
    /\ \A f \in linked : wPc[f] # "idle"
    /\ \A v, w \in Writers :
           wPc[w] # "idle" =>
               /\ stamp[w] <= now
               /\ wPc[v] # "idle" /\ stamp[v] = stamp[w] => v = w

(* What a call has in its file.                                            *)
FileHolds(w) ==
    /\ wPc[w] = "idle" => offset[w] = 0
    /\ wPc[w] = "writing" => data[w] = [i \in 1..offset[w] |-> w]
    /\ wPc[w] = "synced" => data[w] = A!Contents(w) /\ durable[w] = A!Contents(w)

(* A file that was renamed is whole, on disk, and its call is over.        *)
IsWhole(f) ==
    /\ data[f] = A!Contents(f) /\ durable[f] = A!Contents(f)
    /\ f \in Writers => wPc[f] = "ok"

WriteInv ==
    /\ FileTyped
    /\ StampsDiffer
    /\ \A w \in Writers : FileHolds(w)
    /\ \A f \in bound : IsWhole(f)
    /\ A!LitterHasCause

-----------------------------------------------------------------------------
LEMMA FileConstants ==
    /\ Blocks \in Nat \ {0}
    /\ Coarse \in BOOLEAN
    /\ Original \notin Writers /\ Hole \notin Writers \cup {Original}
  BY FileAssumption DEF A!ConstantsAssumption

LEMMA ContentsAreMarks ==
    ASSUME NEW f \in A!Files
    PROVE  /\ A!Contents(f) \in [1..Blocks -> A!Marks]
           /\ A!Contents(f) \in Seq(A!Marks)
<1>1. A!Contents(f) \in [1..Blocks -> A!Marks]
    BY DEF A!Contents, A!Marks
<1> QED
    BY <1>1, FileConstants

LEMMA InitWriteInv == A!Init => WriteInv
<1> SUFFICES ASSUME A!Init PROVE WriteInv
    OBVIOUS
<1> USE FileConstants DEF A!Init
<1>1. A!Contents(Original) \in Seq(A!Marks) /\ <<>> \in Seq(A!Marks)
    BY ContentsAreMarks DEF A!Files
<1>2. FileTyped
  <2>1. data \in [A!Files -> Seq(A!Marks)] /\ durable \in [A!Files -> Seq(A!Marks)]
      BY <1>1
  <2>2. target \in bound /\ bound \subseteq A!Files /\ linked \subseteq Writers
      BY DEF A!Files
  <2>3. now \in Nat /\ stamp \in [Writers -> Nat] /\ offset \in [Writers -> 0..Blocks]
      OBVIOUS
  <2> QED
      BY <2>1, <2>2, <2>3 DEF FileTyped
<1>3. StampsDiffer
    BY DEF StampsDiffer
<1>4. \A w \in Writers : FileHolds(w)
    BY DEF FileHolds
<1>5. \A f \in bound : IsWhole(f)
  <2>1. bound = {Original} /\ data[Original] = A!Contents(Original) /\ durable[Original] = A!Contents(Original)
      BY DEF A!Files
  <2> QED
      BY <2>1 DEF IsWhole
<1>6. A!LitterHasCause
    BY DEF A!LitterHasCause
<1> QED
    BY <1>2, <1>3, <1>4, <1>5, <1>6 DEF WriteInv

(* The next block of a file that holds the ones before it.                 *)
LEMMA WrittenNext ==
    ASSUME NEW w \in Writers, NEW k \in 0..Blocks - 1
    PROVE  /\ A!Written([i \in 1..k |-> w], k + 1, w) = [i \in 1..k + 1 |-> w]
           /\ [i \in 1..k + 1 |-> w] \in Seq(A!Marks)
<1> USE FileConstants
<1> DEFINE d == [i \in 1..k |-> w]
<1>1. d \in Seq(A!Marks) /\ Len(d) = k
    BY DEF A!Marks, A!Files
<1>2. [i \in 1..k + 1 |-> w] \in Seq(A!Marks)
    BY DEF A!Marks, A!Files
<1>3. A!Larger(Len(d), k + 1) = k + 1
    BY <1>1 DEF A!Larger
<1>4. A!Written(d, k + 1, w) =
          [i \in 1..k + 1 |-> IF i = k + 1 THEN w ELSE IF i <= k THEN d[i] ELSE Hole]
    BY <1>1, <1>3 DEF A!Written
<1>5. \A i \in 1..k + 1 : (IF i = k + 1 THEN w ELSE IF i <= k THEN d[i] ELSE Hole) = w
    OBVIOUS
<1> QED
    BY <1>2, <1>4, <1>5

(* No other file has w's name.                                             *)
LEMMA OwnName ==
    ASSUME WriteInv, NEW w \in Writers, wPc[w] # "idle", NEW f \in A!Named(w)
    PROVE  f = w /\ w \in linked
BY DEF WriteInv, FileTyped, StampsDiffer, A!Named

-----------------------------------------------------------------------------
LEMMA CreateKeeps ==
    ASSUME WriteInv, ~Coarse, NEW w \in Writers, A!Create(w)
    PROVE  WriteInv'
<1> USE FileConstants DEF WriteInv
<1>1. now' = now + 1 /\ stamp' = [stamp EXCEPT ![w] = now + 1]
    BY DEF A!Create
<1>2. {f \in linked : Pid[f] = Pid[w] /\ stamp'[f] = now'} \ {w} = {}
    BY <1>1 DEF FileTyped, StampsDiffer
<1>3. {f \in linked : Pid[f] = Pid[w] /\ stamp[f] = now'} = {}
    BY <1>1 DEF FileTyped, StampsDiffer
<1>4. /\ handle' = [handle EXCEPT ![w] = w]
      /\ data' = [data EXCEPT ![w] = <<>>]
      /\ linked' = linked \cup {w}
    BY <1>3, Zenon DEF A!Create
<1>5. /\ wPc[w] = "idle" /\ wPc' = [wPc EXCEPT ![w] = "writing"]
      /\ UNCHANGED <<target, bound, durable, offset, outage>>
    BY DEF A!Create
<1>6. w \in A!Files /\ w \notin bound /\ <<>> \in Seq(A!Marks)
    BY <1>5 DEF A!Files, IsWhole
<1>7. FileTyped'
    BY <1>1, <1>4, <1>5, <1>6 DEF FileTyped, A!Busy
<1>8. StampsDiffer'
    BY <1>1, <1>4, <1>5 DEF FileTyped, StampsDiffer
<1>9. \A v \in Writers : FileHolds(v)'
  <2> SUFFICES ASSUME NEW v \in Writers PROVE FileHolds(v)'
      OBVIOUS
  <2>1. CASE v = w
    <3>1. offset'[w] = 0 /\ data'[w] = <<>> /\ wPc'[w] = "writing"
        BY <1>4, <1>5, <1>6 DEF FileTyped, FileHolds
    <3> QED
        BY <2>1, <3>1 DEF FileHolds
  <2>2. CASE v # w
    <3>1. data'[v] = data[v] /\ wPc'[v] = wPc[v] /\ offset'[v] = offset[v] /\ durable'[v] = durable[v]
        BY <1>4, <1>5, <2>2 DEF FileTyped, A!Files
    <3> QED
        BY <3>1 DEF FileHolds, A!Contents
  <2> QED
      BY <2>1, <2>2
<1>10. \A f \in bound' : IsWhole(f)'
    BY <1>4, <1>5, <1>6 DEF FileTyped, IsWhole, A!Contents
<1>11. A!LitterHasCause'
    BY <1>4, <1>5 DEF FileTyped, A!LitterHasCause, A!Busy
<1> QED
    BY <1>7, <1>8, <1>9, <1>10, <1>11

LEMMA WriteBlockKeeps ==
    ASSUME WriteInv, NEW w \in Writers, A!WriteBlock(w)
    PROVE  WriteInv'
<1> USE FileConstants DEF WriteInv
<1> DEFINE k == offset[w]
<1>1. /\ wPc[w] = "writing" /\ k \in 0..Blocks - 1 /\ handle[w] = w
      /\ data[w] = [i \in 1..k |-> w]
      /\ w \in A!Files /\ w \notin bound
  <2>1. wPc[w] = "writing" /\ k < Blocks /\ k \in 0..Blocks /\ handle[w] = w
      BY DEF A!WriteBlock, FileTyped
  <2>2. data[w] = [i \in 1..k |-> w] /\ w \in A!Files /\ w \notin bound
      BY <2>1 DEF FileHolds, IsWhole, A!Files
  <2> QED
      BY <2>1, <2>2
<1>2. /\ UNCHANGED <<target, bound, linked, durable, now, wPc, stamp, handle, outage>>
      /\ offset' = [offset EXCEPT ![w] = k + 1]
    BY DEF A!WriteBlock
<1>3. /\ data' = [data EXCEPT ![w] = [i \in 1..k + 1 |-> w]]
      /\ [i \in 1..k + 1 |-> w] \in Seq(A!Marks)
  <2>1. data' = [data EXCEPT ![w] = A!Written(data[w], k + 1, w)]
      BY <1>1 DEF A!WriteBlock
  <2> QED
      BY <2>1, <1>1, WrittenNext
<1>4. FileTyped'
  <2>1. data' \in [A!Files -> Seq(A!Marks)]
      BY <1>3 DEF FileTyped
  <2>2. offset' \in [Writers -> 0..Blocks]
    <3>1. k + 1 \in 0..Blocks
        BY <1>1
    <3> QED
        BY <1>2, <3>1, Zenon DEF FileTyped
  <2> QED
      BY <1>2, <2>1, <2>2 DEF FileTyped
<1>5. StampsDiffer'
    BY <1>2 DEF StampsDiffer
<1>6. \A v \in Writers : FileHolds(v)'
  <2> SUFFICES ASSUME NEW v \in Writers PROVE FileHolds(v)'
      OBVIOUS
  <2>1. CASE v = w
    <3>1. offset'[w] = k + 1 /\ data'[w] = [i \in 1..k + 1 |-> w] /\ wPc'[w] = "writing"
        BY <1>1, <1>2, <1>3 DEF FileTyped
    <3> QED
        BY <2>1, <3>1 DEF FileHolds
  <2>2. CASE v # w
    <3>1. data'[v] = data[v] /\ wPc'[v] = wPc[v] /\ offset'[v] = offset[v] /\ durable'[v] = durable[v]
        BY <1>2, <1>3, <2>2 DEF FileTyped, A!Files
    <3> QED
        BY <3>1 DEF FileHolds, A!Contents
  <2> QED
      BY <2>1, <2>2
<1>7. \A f \in bound' : IsWhole(f)'
    BY <1>1, <1>2, <1>3 DEF FileTyped, IsWhole, A!Contents
<1>8. A!LitterHasCause'
    BY <1>2 DEF A!LitterHasCause
<1> QED
    BY <1>4, <1>5, <1>6, <1>7, <1>8

LEMMA SyncKeeps ==
    ASSUME WriteInv, NEW w \in Writers, A!Sync(w)
    PROVE  WriteInv'
<1> USE FileConstants DEF WriteInv
<1>1. /\ wPc[w] = "writing" /\ handle[w] = w /\ data[w] = A!Contents(w)
      /\ w \in A!Files /\ w \notin bound
    BY DEF A!Sync, FileTyped, FileHolds, IsWhole, A!Files, A!Contents
<1>2. /\ UNCHANGED <<target, bound, linked, data, now, stamp, handle, offset, outage>>
      /\ durable' = [durable EXCEPT ![w] = data[w]]
      /\ wPc' = [wPc EXCEPT ![w] = "synced"]
    BY <1>1 DEF A!Sync
<1>3. FileTyped'
    BY <1>1, <1>2 DEF FileTyped, A!Busy
<1>4. StampsDiffer'
    BY <1>1, <1>2 DEF FileTyped, StampsDiffer
<1>5. \A v \in Writers : FileHolds(v)'
    BY <1>1, <1>2 DEF FileTyped, FileHolds, A!Contents, A!Files
<1>6. \A f \in bound' : IsWhole(f)'
    BY <1>1, <1>2 DEF FileTyped, IsWhole, A!Contents
<1>7. A!LitterHasCause'
    BY <1>1, <1>2 DEF FileTyped, A!LitterHasCause, A!Busy
<1> QED
    BY <1>3, <1>4, <1>5, <1>6, <1>7

LEMMA WriteFailsKeeps ==
    ASSUME WriteInv, NEW w \in Writers, A!WriteFails(w)
    PROVE  WriteInv'
<1> USE DEF WriteInv
<1>1. /\ wPc[w] = "writing" /\ wPc' = [wPc EXCEPT ![w] = "writeFailed"]
      /\ UNCHANGED <<A!disk, now, stamp, handle, offset, outage>>
    BY DEF A!WriteFails
<1>2. FileTyped'
    BY <1>1 DEF FileTyped, A!Failures, A!disk
<1>3. StampsDiffer'
    BY <1>1 DEF FileTyped, StampsDiffer, A!disk
<1>4. \A v \in Writers : FileHolds(v)'
    BY <1>1 DEF FileTyped, FileHolds, A!Contents, A!disk
<1>5. \A f \in bound' : IsWhole(f)'
    BY <1>1 DEF FileTyped, IsWhole, A!Contents, A!disk
<1>6. A!LitterHasCause'
    BY <1>1 DEF FileTyped, A!LitterHasCause, A!Failures, A!disk
<1> QED
    BY <1>2, <1>3, <1>4, <1>5, <1>6

LEMMA RenameKeeps ==
    ASSUME WriteInv, NEW w \in Writers, A!Rename(w)
    PROVE  WriteInv'
<1> USE DEF WriteInv
<1>1. /\ wPc[w] = "synced" /\ wPc' = [wPc EXCEPT ![w] = "ok"]
      /\ UNCHANGED <<data, durable, now, stamp, handle, offset, outage>>
    BY DEF A!Rename
<1>2. target' = w /\ bound' = bound \cup {w} /\ linked' = linked \ {w}
  <2>1. PICK f \in A!Named(w) : target' = f /\ bound' = bound \cup {f} /\ linked' = linked \ {f}
      BY DEF A!Rename
  <2> QED
      BY <1>1, <2>1, OwnName
<1>3. FileTyped'
    BY <1>1, <1>2 DEF FileTyped, A!Files
<1>4. StampsDiffer'
    BY <1>1, <1>2 DEF FileTyped, StampsDiffer
<1>5. \A v \in Writers : FileHolds(v)'
    BY <1>1 DEF FileTyped, FileHolds, A!Contents
<1>6. \A f \in bound' : IsWhole(f)'
  <2>1. data[w] = A!Contents(w) /\ durable[w] = A!Contents(w) /\ wPc'[w] = "ok"
      BY <1>1 DEF FileTyped, FileHolds
  <2>2. \A f \in bound : f \in Writers => wPc'[f] = "ok"
      BY <1>1 DEF FileTyped, IsWhole
  <2> QED
      BY <1>1, <1>2, <2>1, <2>2 DEF IsWhole, A!Contents
<1>7. A!LitterHasCause'
    BY <1>1, <1>2 DEF FileTyped, A!LitterHasCause
<1> QED
    BY <1>3, <1>4, <1>5, <1>6, <1>7

LEMMA RenameFailsKeeps ==
    ASSUME WriteInv, NEW w \in Writers, A!RenameFails(w)
    PROVE  WriteInv'
<1> USE DEF WriteInv
<1>1. /\ wPc[w] = "synced"
      /\ UNCHANGED <<target, bound, data, durable, now, stamp, handle, offset, outage>>
    BY DEF A!RenameFails
<1>2. \/ linked' = linked \ {w} /\ wPc' = [wPc EXCEPT ![w] = "renameFailed"]
      \/ linked' = linked /\ wPc' = [wPc EXCEPT ![w] = "cleanupFailed"]
    BY <1>1, OwnName DEF A!RenameFails
<1>3. FileTyped'
    BY <1>1, <1>2 DEF FileTyped, A!Failures
<1>4. StampsDiffer'
    BY <1>1, <1>2 DEF FileTyped, StampsDiffer
<1>5. \A v \in Writers : FileHolds(v)'
    BY <1>1, <1>2 DEF FileTyped, FileHolds, A!Contents
<1>6. \A f \in bound' : IsWhole(f)'
    BY <1>1, <1>2 DEF FileTyped, IsWhole, A!Contents
<1>7. A!LitterHasCause'
    BY <1>1, <1>2 DEF FileTyped, A!LitterHasCause, A!Failures
<1> QED
    BY <1>3, <1>4, <1>5, <1>6, <1>7

-----------------------------------------------------------------------------
(* Killing processes changes nothing but where their calls are.            *)
LEMMA KilledAre ==
    ASSUME FileTyped, NEW procs
    PROVE  /\ A!Killed(procs) \in [Writers -> {"idle", "ok"} \cup A!Busy \cup A!Failures]
           /\ \A w \in Writers :
                  A!Killed(procs)[w] = wPc[w] \/ (wPc[w] \in A!Busy /\ A!Killed(procs)[w] = "killed")
BY DEF FileTyped, A!Killed, A!Failures

LEMMA KillKeeps ==
    ASSUME WriteInv, NEW w \in Writers, A!Kill(w)
    PROVE  WriteInv'
<1> USE DEF WriteInv
<1>1. UNCHANGED <<A!disk, now, stamp, handle, offset, outage>>
    BY DEF A!Kill
<1>2. /\ wPc' \in [Writers -> {"idle", "ok"} \cup A!Busy \cup A!Failures]
      /\ \A v \in Writers : wPc'[v] = wPc[v] \/ (wPc[v] \in A!Busy /\ wPc'[v] = "killed")
    BY KilledAre DEF A!Kill
<1>3. FileTyped'
    BY <1>1, <1>2 DEF FileTyped, A!disk
<1>4. StampsDiffer'
    BY <1>1, <1>2 DEF FileTyped, StampsDiffer, A!Busy, A!disk
<1>5. \A v \in Writers : FileHolds(v)'
    BY <1>1, <1>2 DEF FileHolds, A!Contents, A!disk
<1>6. \A f \in bound' : IsWhole(f)'
    BY <1>1, <1>2 DEF IsWhole, A!Busy, A!Contents, A!disk
<1>7. A!LitterHasCause'
    BY <1>1, <1>2 DEF FileTyped, A!LitterHasCause, A!Failures, A!disk
<1> QED
    BY <1>3, <1>4, <1>5, <1>6, <1>7

LEMMA PowerFailsKeeps ==
    ASSUME WriteInv, A!PowerFails
    PROVE  WriteInv'
<1> USE FileConstants DEF WriteInv
<1>1. /\ outage' /\ target' \in bound
      /\ UNCHANGED <<bound, now, stamp, handle, offset>>
      /\ linked' \subseteq linked \cup (bound \ {Original})
    BY DEF A!PowerFails
<1>2. /\ wPc' \in [Writers -> {"idle", "ok"} \cup A!Busy \cup A!Failures]
      /\ \A v \in Writers : wPc'[v] = wPc[v] \/ (wPc[v] \in A!Busy /\ wPc'[v] = "killed")
      /\ \A v \in Writers : wPc'[v] \notin A!Busy
  <2>1. wPc' = A!Killed({Pid[v] : v \in Writers})
      BY DEF A!PowerFails
  <2>2. \A v \in Writers : wPc'[v] \notin A!Busy
      BY <2>1 DEF A!Killed, A!Busy
  <2> QED
      BY <2>1, <2>2, KilledAre
<1>3. PICK kept \in SUBSET A!Files :
          data' = [f \in A!Files |-> IF f \in kept THEN data[f] ELSE durable[f]]
    BY DEF A!PowerFails
<1>4. durable' = data' /\ data' \in [A!Files -> Seq(A!Marks)]
  <2>1. durable' = data'
      BY DEF A!PowerFails
  <2> QED
      BY <1>3, <2>1 DEF FileTyped
<1>5. FileTyped'
    BY <1>1, <1>2, <1>4 DEF FileTyped, A!Files
<1>6. StampsDiffer'
    BY <1>1, <1>2 DEF FileTyped, StampsDiffer, IsWhole, A!Busy, A!Files
<1>7. \A v \in Writers : FileHolds(v)'
    BY <1>1, <1>2 DEF FileHolds, A!Busy
<1>8. \A f \in bound' : IsWhole(f)'
  <2>1. \A f \in bound : data'[f] = A!Contents(f)
      BY <1>3 DEF FileTyped, IsWhole
  <2> QED
      BY <1>1, <1>2, <1>4, <2>1 DEF IsWhole, A!Busy, A!Contents
<1>9. A!LitterHasCause'
    BY <1>1 DEF A!LitterHasCause
<1> QED
    BY <1>5, <1>6, <1>7, <1>8, <1>9

LEMMA NextWriteInv == ~Coarse /\ WriteInv /\ [A!Next]_wVars => WriteInv'
<1> SUFFICES ASSUME ~Coarse, WriteInv, [A!Next]_wVars PROVE WriteInv'
    OBVIOUS
<1>1. ASSUME NEW w \in Writers, A!Call(w) PROVE WriteInv'
    BY <1>1, CreateKeeps, WriteBlockKeeps, SyncKeeps, WriteFailsKeeps, RenameKeeps,
       RenameFailsKeeps DEF A!Call
<1>2. ASSUME NEW w \in Writers, A!Kill(w) PROVE WriteInv'
    BY <1>2, KillKeeps
<1>3. CASE A!PowerFails
    BY <1>3, PowerFailsKeeps
<1>4. CASE UNCHANGED wVars
    BY <1>4 DEF wVars, A!vars, A!disk, WriteInv, FileTyped, StampsDiffer, FileHolds, IsWhole, A!LitterHasCause, A!Contents
<1> QED
    BY <1>1, <1>2, <1>3, <1>4 DEF A!Next, A!Over, A!vars, A!disk, wVars

-----------------------------------------------------------------------------
(* With a clock whose readings differ, whoever reads the target of         *)
(* builtin_write_atomic finds the whole of what one call wrote, or of what *)
(* was there first, in spite of kills and power failures.                  *)
THEOREM TargetIsWhole ==
    ASSUME ~Coarse
    PROVE  A!Spec => []TargetWhole
<1>1. WriteInv => TargetWhole
    BY DEF WriteInv, FileTyped, IsWhole, TargetWhole, A!TargetWhole
<1>2. WriteInv /\ [A!Next]_wVars => WriteInv'
    BY NextWriteInv
<1> QED
    BY <1>1, <1>2, InitWriteInv, PTL DEF A!Spec, wVars, A!vars, A!disk

(* And a temporary file that stays has a cause.                            *)
THEOREM LittersHaveCauses ==
    ASSUME ~Coarse
    PROVE  A!Spec => []LitterHasCause
<1>1. WriteInv => LitterHasCause
    BY DEF WriteInv, LitterHasCause
<1>2. WriteInv /\ [A!Next]_wVars => WriteInv'
    BY NextWriteInv
<1> QED
    BY <1>1, <1>2, InitWriteInv, PTL DEF A!Spec, wVars, A!vars, A!disk
-----------------------------------------------------------------------------
(* The atomic file: what the steps of a call are to those who see only the *)
(* contents of the target and how the calls end.                           *)

LEMMA ToldIs ==
    ASSUME FileTyped
    PROVE  \A w \in Writers :
               /\ FileTold[w] = "open" <=> wPc[w] \in {"idle"} \cup A!Busy
               /\ FileTold[w] = "done" <=> wPc[w] = "ok"
               /\ FileTold[w] = "failed" <=> wPc[w] \in A!Failures
BY DEF FileTyped, FileTold, A!Busy, A!Failures

(* Of calls that were open some have failed.                               *)
LEMMA ToldAfter ==
    ASSUME FileTyped, FileTyped',
           NEW S \in SUBSET Writers,
           \A w \in S : wPc[w] \in A!Busy /\ wPc'[w] \in A!Failures,
           \A w \in Writers \ S :
               wPc'[w] = wPc[w] \/ {wPc[w], wPc'[w]} \subseteq {"idle"} \cup A!Busy
    PROVE  /\ \A w \in S : FileTold[w] = "open"
           /\ FileTold' = [w \in Writers |-> IF w \in S THEN "failed" ELSE FileTold[w]]
<1>1. \A w \in S : FileTold[w] = "open"
    BY ToldIs
<1>2. \A w \in S : FileTold'[w] = "failed"
    BY DEF FileTold, A!Failures
<1>3. \A w \in Writers \ S : FileTold'[w] = FileTold[w]
    BY DEF FileTold, A!Failures, A!Busy
<1> QED
    BY <1>1, <1>2, <1>3 DEF FileTold

(* A reader finds what the file bound to the target was given.             *)
LEMMA TargetHas ==
    ASSUME WriteInv
    PROVE  /\ data[target] = FileContents(target)
           /\ data[target] \in {FileContents(f) : f \in bound}
BY DEF WriteInv, FileTyped, IsWhole, FileContents

(* A step that leaves the target and whatever it was bound to alone is     *)
(* seen, if at all, as the failure of some calls.                          *)
LEMMA SeenAsFailure ==
    ASSUME WriteInv, WriteInv',
           UNCHANGED <<target, bound, outage>>,
           NEW S \in SUBSET Writers,
           \A w \in S : wPc[w] \in A!Busy /\ wPc'[w] \in A!Failures,
           \A w \in Writers \ S :
               wPc'[w] = wPc[w] \/ {wPc[w], wPc'[w]} \subseteq {"idle"} \cup A!Busy
    PROVE  File!Fail(S)
<1>1. FileTyped /\ FileTyped'
    BY DEF WriteInv
<1>2. /\ \A w \in S : FileTold[w] = "open"
      /\ FileTold' = File!Ended(S)
    BY <1>1, ToldAfter DEF File!Ended
<1>3. data'[target'] = data[target]
    BY TargetHas DEF WriteInv, FileTyped, IsWhole, FileContents, A!Contents
<1>4. {FileContents(f) : f \in bound}' = {FileContents(f) : f \in bound}
    BY DEF FileContents, A!Contents
<1> QED
    BY <1>2, <1>3, <1>4 DEF File!Fail

LEMMA RenameReplaces ==
    ASSUME WriteInv, WriteInv', NEW w \in Writers, A!Rename(w)
    PROVE  File!Replace(w)
<1>1. /\ wPc[w] = "synced" /\ wPc' = [wPc EXCEPT ![w] = "ok"]
      /\ UNCHANGED <<data, outage>>
    BY DEF A!Rename
<1>2. target' = w /\ bound' = bound \cup {w}
  <2>1. PICK f \in A!Named(w) : target' = f /\ bound' = bound \cup {f}
      BY DEF A!Rename
  <2> QED
      BY <1>1, <2>1, OwnName
<1>3. FileTold[w] = "open" /\ FileTold' = [FileTold EXCEPT ![w] = "done"]
    BY <1>1 DEF FileTold, A!Failures, WriteInv, FileTyped
<1>4. data'[target'] = FileContents(w)
    BY <1>1, <1>2 DEF WriteInv, FileHolds, FileContents
<1>5. {FileContents(f) : f \in bound}' = {FileContents(f) : f \in bound} \cup {FileContents(w)}
    BY <1>2 DEF FileContents, A!Contents
<1> QED
    BY <1>1, <1>3, <1>4, <1>5 DEF File!Replace

LEMMA PowerFailureUndoes ==
    ASSUME WriteInv, WriteInv', A!PowerFails
    PROVE  \E S \in SUBSET Writers : File!PowerFails(S)
<1> DEFINE S == {w \in Writers : wPc[w] \in A!Busy}
<1>1. ~outage /\ outage' = TRUE /\ bound' = bound /\ target' \in bound
    BY DEF A!PowerFails
<1>2. wPc' = A!Killed({Pid[w] : w \in Writers})
    BY DEF A!PowerFails
<1>3. /\ \A w \in S : wPc'[w] = "killed"
      /\ \A w \in Writers \ S : wPc'[w] = wPc[w]
    BY <1>2 DEF A!Killed
<1>4. /\ \A w \in S : FileTold[w] = "open"
      /\ FileTold' = File!Ended(S)
    BY <1>3, ToldAfter DEF File!Ended, WriteInv, A!Failures
<1>5. data'[target'] \in {FileContents(f) : f \in bound}
    BY <1>1 DEF WriteInv, IsWhole, FileContents, A!Contents
<1>6. {FileContents(f) : f \in bound}' = {FileContents(f) : f \in bound}
    BY <1>1 DEF FileContents, A!Contents
<1>7. File!PowerFails(S)
    BY <1>1, <1>4, <1>5, <1>6 DEF File!PowerFails
<1> QED
    BY <1>7

LEMMA StepOfFile ==
    ASSUME WriteInv, WriteInv', [A!Next]_wVars
    PROVE  [File!Next]_(File!vars)
<1>0. FileTyped /\ FileTyped'
    BY DEF WriteInv
<1>1. ASSUME NEW w \in Writers, A!Create(w) \/ A!WriteBlock(w) \/ A!Sync(w)
      PROVE  File!Fail({})
  <2>1. UNCHANGED <<target, bound, outage>>
      BY <1>1 DEF A!Create, A!WriteBlock, A!Sync
  <2>2. \A v \in Writers :
            wPc'[v] = wPc[v] \/ {wPc[v], wPc'[v]} \subseteq {"idle"} \cup A!Busy
      BY <1>0, <1>1 DEF A!Create, A!WriteBlock, A!Sync, FileTyped, A!Busy
  <2> QED
      BY <2>1, <2>2, SeenAsFailure
<1>2. ASSUME NEW w \in Writers, A!WriteFails(w) \/ A!RenameFails(w)
      PROVE  File!Fail({w})
  <2>1. UNCHANGED <<target, bound, outage>>
      BY <1>2 DEF A!WriteFails, A!RenameFails, A!disk
  <2>2. /\ wPc[w] \in A!Busy /\ wPc'[w] \in A!Failures
        /\ \A v \in Writers \ {w} : wPc'[v] = wPc[v]
      BY <1>0, <1>2 DEF A!WriteFails, A!RenameFails, FileTyped, A!Busy, A!Failures
  <2> QED
      BY <2>1, <2>2, SeenAsFailure
<1>3. ASSUME NEW w \in Writers, A!Kill(w)
      PROVE  \E S \in SUBSET Writers : File!Fail(S)
  <2> DEFINE S == {v \in Writers : wPc[v] \in A!Busy /\ Pid[v] = Pid[w]}
  <2>1. UNCHANGED <<target, bound, outage>>
      BY <1>3 DEF A!Kill, A!disk
  <2>2. /\ \A v \in S : wPc'[v] = "killed"
        /\ \A v \in Writers \ S : wPc'[v] = wPc[v]
      BY <1>3 DEF A!Kill, A!Killed
  <2>3. File!Fail(S)
      BY <2>1, <2>2, SeenAsFailure DEF A!Failures
  <2> QED
      BY <2>3
<1>4. ASSUME NEW w \in Writers, A!Rename(w)
      PROVE  File!Replace(w)
    BY <1>4, RenameReplaces
<1>5. ASSUME A!PowerFails
      PROVE  \E S \in SUBSET Writers : File!PowerFails(S)
    BY <1>5, PowerFailureUndoes
<1>6. CASE UNCHANGED wVars
  <2>1. UNCHANGED <<target, bound, data, wPc, outage>>
      BY <1>6 DEF wVars
  <2>2. UNCHANGED File!vars
      BY <2>1 DEF File!vars, FileTold, FileContents, A!Contents, A!Failures
  <2> QED
      BY <2>2
<1>7. A!Over => UNCHANGED wVars
    BY DEF A!Over, A!vars, A!disk, wVars
<1> QED
    BY <1>1, <1>2, <1>3, <1>4, <1>5, <1>6, <1>7 DEF A!Next, A!Call, File!Next

(* With a clock whose readings differ, write-atomic is atomic and durable  *)
(* up to a power failure: each call replaces the whole of the file in one  *)
(* step, that of its rename, or is never seen; only the next success       *)
(* replaces what it wrote, and a power failure brings back only what has   *)
(* been there (builtins_io.rs, builtin_write_atomic).                      *)
THEOREM WritesAreAtomic ==
    ASSUME ~Coarse
    PROVE  A!Spec => ImplementsAtomicFile
<1>1. A!Init => File!Init
    BY DEF A!Init, File!Init, FileTold, FileContents, A!Failures, A!Files
<1>2. WriteInv /\ [A!Next]_wVars => WriteInv'
    BY NextWriteInv
<1>3. WriteInv /\ WriteInv' /\ [A!Next]_wVars => [File!Next]_(File!vars)
    BY StepOfFile
<1> QED
    BY <1>1, <1>2, <1>3, InitWriteInv, PTL
    DEF A!Spec, wVars, A!vars, A!disk, File!Spec, ImplementsAtomicFile
-----------------------------------------------------------------------------
(* THE TRANSIENT BUILDER                                                   *)

BuilderTyped ==
    /\ map \in B!Maps /\ final \in B!Maps
    /\ bPc \in [Procs -> {"idle", "checked", "taking", "done"}]
    /\ op \in [Procs -> B!Op \cup {None}]
    /\ key \in [Procs -> Keys \cup {None}]
    /\ ans \in [Procs -> {"ok", "frozen", None}]
    /\ val \in [Procs -> Procs \cup {None}]

(* What a task is doing agrees with how far it has come.                   *)
PhaseInv ==
    \A p \in Procs :
        /\ bPc[p] = "idle" => op[p] = None
        /\ bPc[p] = "checked" => op[p] \in B!OneShot
        /\ bPc[p] = "taking" => op[p] = "finish"
        /\ bPc[p] # "done" => ans[p] = None
        /\ bPc[p] # "idle" => key[p] \in Keys

(* The one who has set the flag.                                           *)
Winners ==
    {p \in Procs : op[p] \in {"finish", "freeze"} /\ (bPc[p] = "taking" \/ ans[p] = "ok")}

WinnerInv ==
    /\ \A p, q \in Winners : p = q
    /\ Winners # {} => frozen
    /\ B!Done("finish") # {} => taken

(* Nobody sets or deletes the key that p asks for.                         *)
Undisturbed(p) == \A r \in Procs : key[r] = key[p] => op[r] \notin {"set", "delete"}

MapInv ==
    /\ taken => final = map
    /\ \A k \in Keys : map[k] # None => ans[map[k]] = "ok"
    /\ \A p \in B!Done("set") :
           map[key[p]] # None \/ \E q \in B!Done("delete") : key[q] = key[p]
    /\ \A p \in B!Done("get_or") :
           Undisturbed(p) => map[key[p]] = val[p] /\ val[p] # None

BuilderInv == BuilderTyped /\ PhaseInv /\ WinnerInv /\ MapInv

LEMMA BuilderConstants ==
    /\ None \notin Procs
    /\ None \notin {"set", "delete", "get_or", "get", "snapshot", "finish", "freeze", "ok", "frozen"}
  BY BuilderAssumption DEF B!ConstantsAssumption, B!Op, B!OneShot

LEMMA InitBuilderInv == B!Init => BuilderInv
<1> SUFFICES ASSUME B!Init PROVE BuilderInv
    OBVIOUS
<1>1. BuilderTyped
    BY DEF B!Init, B!Empty, B!Maps, BuilderTyped
<1>2. PhaseInv
    BY DEF B!Init, PhaseInv
<1>3. \A o \in B!Op : B!Done(o) = {}
    BY BuilderConstants DEF B!Init, B!Done
<1>4. Winners = {}
    BY BuilderConstants DEF B!Init, Winners
<1>5. WinnerInv
    BY <1>3, <1>4 DEF WinnerInv, B!Op
<1>6. ~taken /\ \A k \in Keys : map[k] = None
    BY DEF B!Init, B!Empty
<1>7. MapInv
    BY <1>3, <1>6 DEF MapInv, B!Op, B!OneShot
<1> QED
    BY <1>1, <1>2, <1>5, <1>7 DEF BuilderInv

LEMMA ReturnOfTask ==
    ASSUME BuilderTyped, NEW p \in Procs, NEW a \in {"ok", "frozen"}, B!Return(p, a)
    PROVE  /\ bPc' \in [Procs -> {"idle", "checked", "taking", "done"}]
           /\ ans' \in [Procs -> {"ok", "frozen", None}]
           /\ bPc'[p] = "done" /\ ans'[p] = a
           /\ \A q \in Procs \ {p} : bPc'[q] = bPc[q] /\ ans'[q] = ans[q]
  BY DEF BuilderTyped, B!Return

LEMMA BeginOfTask ==
    ASSUME BuilderTyped, NEW p \in Procs, NEW o \in B!Op, NEW k \in Keys, B!Begin(p, o, k)
    PROVE  /\ op' \in [Procs -> B!Op \cup {None}]
           /\ key' \in [Procs -> Keys \cup {None}]
           /\ bPc[p] = "idle" /\ op'[p] = o /\ key'[p] = k
           /\ \A q \in Procs \ {p} : op'[q] = op[q] /\ key'[q] = key[q]
  BY DEF BuilderTyped, B!Begin

(* A task starts: it is refused, has passed the flag, or has set it.       *)
LEMMA StartKeepsMap ==
    ASSUME BuilderInv, NEW p \in Procs, NEW o \in B!Op, NEW k \in Keys, B!Begin(p, o, k),
           ans'[p] = "ok" => o = "freeze",
           \A q \in Procs \ {p} : ans'[q] = ans[q],
           UNCHANGED <<map, taken, val, final>>
    PROVE  MapInv'
<1> USE DEF BuilderInv
<1>1. /\ bPc[p] = "idle" /\ op'[p] = o /\ key'[p] = k /\ op[p] = None /\ ans[p] = None
      /\ \A q \in Procs \ {p} : op'[q] = op[q] /\ key'[q] = key[q]
    BY BeginOfTask DEF PhaseInv
<1>2. ASSUME NEW d \in {"set", "delete", "get_or"}
      PROVE  B!Done(d)' = B!Done(d) /\ p \notin B!Done(d)
    BY <1>1, BuilderConstants DEF B!Done
<1>3. ASSUME NEW q \in B!Done("get_or"), Undisturbed(q)'
      PROVE  Undisturbed(q)
    BY <1>1, <1>2, <1>3, BuilderConstants DEF Undisturbed, B!Done
<1>4. \A j \in Keys : map[j] # None => map[j] \in Procs \ {p}
    BY <1>1, BuilderConstants DEF MapInv, BuilderTyped, B!Maps
<1>5. \A q \in B!Done("set") : key'[q] = key[q]
    BY <1>1, <1>2 DEF B!Done
<1>6. \A q \in B!Done("delete") : key'[q] = key[q]
    BY <1>1, <1>2 DEF B!Done
<1>7. \A q \in B!Done("get_or") : key'[q] = key[q]
    BY <1>1, <1>2 DEF B!Done
<1> QED
    BY <1>2, <1>3, <1>4, <1>5, <1>6, <1>7 DEF MapInv

LEMMA CheckKeeps ==
    ASSUME BuilderInv, NEW p \in Procs, NEW o \in B!OneShot, NEW k \in Keys, B!Check(p, o, k)
    PROVE  BuilderInv'
<1> USE DEF BuilderInv
<1>0. o \in B!Op /\ o # "finish" /\ o # "freeze"
    BY DEF B!Op, B!OneShot
<1>1. /\ op' \in [Procs -> B!Op \cup {None}]
      /\ key' \in [Procs -> Keys \cup {None}]
      /\ bPc[p] = "idle" /\ op'[p] = o /\ key'[p] = k /\ op[p] = None /\ ans[p] = None
      /\ \A q \in Procs \ {p} : op'[q] = op[q] /\ key'[q] = key[q]
    BY <1>0, BeginOfTask DEF B!Check, PhaseInv
<1>2. UNCHANGED <<frozen, map, taken, val, final>> /\ B!Begin(p, o, k)
    BY DEF B!Check
<1>3. /\ bPc' \in [Procs -> {"idle", "checked", "taking", "done"}]
      /\ ans' \in [Procs -> {"ok", "frozen", None}]
      /\ \/ bPc'[p] = "done" /\ ans'[p] = "frozen"
         \/ bPc'[p] = "checked" /\ ans'[p] = None
      /\ \A q \in Procs \ {p} : bPc'[q] = bPc[q] /\ ans'[q] = ans[q]
  <2>1. CASE frozen
      BY <2>1, ReturnOfTask DEF B!Check
  <2>2. CASE ~frozen
      BY <1>1, <2>2 DEF B!Check, BuilderTyped
  <2> QED
      BY <2>1, <2>2
<1>4. BuilderTyped'
    BY <1>1, <1>2, <1>3 DEF BuilderTyped
<1>5. PhaseInv'
    BY <1>1, <1>3 DEF PhaseInv
<1>6. WinnerInv'
  <2>1. Winners' = Winners /\ B!Done("finish")' = B!Done("finish")
      BY <1>0, <1>1, <1>3, BuilderConstants DEF Winners, B!Done
  <2> QED
      BY <1>2, <2>1 DEF WinnerInv
<1>7. MapInv'
    BY <1>0, <1>2, <1>3, StartKeepsMap, BuilderConstants
<1> QED
    BY <1>4, <1>5, <1>6, <1>7

(* finish and freeze set the flag, and the first of them wins.             *)
LEMMA FlagKeeps ==
    ASSUME BuilderInv, NEW p \in Procs, NEW k \in Keys, B!FinishSwap(p, k) \/ B!Freeze(p, k)
    PROVE  BuilderInv'
<1> USE DEF BuilderInv
<1>1. PICK o \in {"finish", "freeze"} :
          /\ B!Begin(p, o, k)
          /\ frozen => B!Return(p, "frozen")
          /\ ~frozen /\ o = "freeze" => B!Return(p, "ok")
          /\ ~frozen /\ o = "finish" => bPc' = [bPc EXCEPT ![p] = "taking"] /\ ans' = ans
    BY DEF B!FinishSwap, B!Freeze
<1>2. frozen' /\ UNCHANGED <<map, taken, val, final>>
    BY DEF B!FinishSwap, B!Freeze
<1>3. o \in B!Op
    BY DEF B!Op
<1>4. /\ op' \in [Procs -> B!Op \cup {None}]
      /\ key' \in [Procs -> Keys \cup {None}]
      /\ bPc[p] = "idle" /\ op'[p] = o /\ key'[p] = k /\ op[p] = None /\ ans[p] = None
      /\ \A q \in Procs \ {p} : op'[q] = op[q] /\ key'[q] = key[q]
    BY <1>1, <1>3, BeginOfTask DEF PhaseInv
<1>5. /\ bPc' \in [Procs -> {"idle", "checked", "taking", "done"}]
      /\ ans' \in [Procs -> {"ok", "frozen", None}]
      /\ \A q \in Procs \ {p} : bPc'[q] = bPc[q] /\ ans'[q] = ans[q]
      /\ \/ frozen /\ bPc'[p] = "done" /\ ans'[p] = "frozen"
         \/ ~frozen /\ o = "freeze" /\ bPc'[p] = "done" /\ ans'[p] = "ok"
         \/ ~frozen /\ o = "finish" /\ bPc'[p] = "taking" /\ ans'[p] = None
  <2>1. CASE frozen
      BY <1>1, <2>1, ReturnOfTask
  <2>2. CASE ~frozen /\ o = "freeze"
      BY <1>1, <2>2, ReturnOfTask
  <2>3. CASE ~frozen /\ o = "finish"
      BY <1>1, <1>4, <2>3 DEF BuilderTyped
  <2> QED
      BY <2>1, <2>2, <2>3
<1>6. BuilderTyped'
    BY <1>2, <1>4, <1>5 DEF BuilderTyped
<1>7. PhaseInv'
    BY <1>4, <1>5 DEF PhaseInv
<1>8. WinnerInv'
  <2>1. Winners' \subseteq Winners \cup {p} /\ (frozen => Winners' \subseteq Winners)
      BY <1>4, <1>5, BuilderConstants DEF Winners
  <2>2. B!Done("finish")' = B!Done("finish")
      BY <1>4, <1>5, BuilderConstants DEF B!Done
  <2> QED
      BY <1>2, <2>1, <2>2 DEF WinnerInv
<1>9. MapInv'
    BY <1>1, <1>2, <1>3, <1>5, StartKeepsMap, BuilderConstants
<1> QED
    BY <1>6, <1>7, <1>8, <1>9

(* finish takes the map.                                                   *)
LEMMA TakeKeeps ==
    ASSUME BuilderInv, NEW p \in Procs, B!FinishTake(p)
    PROVE  BuilderInv'
<1> USE DEF BuilderInv
<1>1. /\ bPc[p] = "taking" /\ op[p] = "finish" /\ ans[p] = None
      /\ final' = map /\ taken' /\ UNCHANGED <<frozen, map, op, key, val>>
    BY DEF B!FinishTake, PhaseInv
<1>2. /\ bPc' \in [Procs -> {"idle", "checked", "taking", "done"}]
      /\ ans' \in [Procs -> {"ok", "frozen", None}]
      /\ bPc'[p] = "done" /\ ans'[p] = "ok"
      /\ \A q \in Procs \ {p} : bPc'[q] = bPc[q] /\ ans'[q] = ans[q]
    BY ReturnOfTask DEF B!FinishTake
<1>3. BuilderTyped'
    BY <1>1, <1>2 DEF BuilderTyped
<1>4. PhaseInv'
    BY <1>1, <1>2 DEF PhaseInv
<1>5. Winners' = Winners
    BY <1>1, <1>2 DEF Winners
<1>6. WinnerInv'
    BY <1>1, <1>5 DEF WinnerInv
<1>7. ASSUME NEW d \in {"set", "delete", "get_or"} PROVE B!Done(d)' = B!Done(d)
    BY <1>1, <1>2 DEF B!Done
<1>8. \A k \in Keys : map[k] # None => ans'[map[k]] = "ok"
    BY <1>2 DEF MapInv, BuilderTyped, B!Maps
<1>9. MapInv'
    BY <1>1, <1>7, <1>8 DEF MapInv, Undisturbed
<1> QED
    BY <1>3, <1>4, <1>6, <1>9

(* An operation that has passed the flag takes the mutex and returns.      *)
LEMMA AppliedKeeps ==
    ASSUME BuilderInv, NEW p \in Procs, NEW a \in {"ok", "frozen"},
           bPc[p] = "checked", B!Return(p, a),
           UNCHANGED <<frozen, taken, op, key, final>>,
           map' \in B!Maps, val' \in [Procs -> Procs \cup {None}], MapInv'
    PROVE  BuilderInv'
<1> USE DEF BuilderInv
<1>1. /\ bPc' \in [Procs -> {"idle", "checked", "taking", "done"}]
      /\ ans' \in [Procs -> {"ok", "frozen", None}]
      /\ bPc'[p] = "done" /\ ans'[p] = a
      /\ \A q \in Procs \ {p} : bPc'[q] = bPc[q] /\ ans'[q] = ans[q]
    BY ReturnOfTask
<1>2. BuilderTyped'
    BY <1>1 DEF BuilderTyped
<1>3. PhaseInv'
    BY <1>1 DEF PhaseInv
<1>4. op[p] # "finish" /\ op[p] # "freeze"
    BY DEF PhaseInv, B!OneShot
<1>5. Winners' = Winners /\ B!Done("finish")' = B!Done("finish")
    BY <1>1, <1>4 DEF Winners, B!Done
<1>6. WinnerInv'
    BY <1>5 DEF WinnerInv
<1> QED
    BY <1>2, <1>3, <1>6

(* Who is done, when p has done o.                                         *)
LEMMA DoneOf ==
    ASSUME BuilderInv, NEW p \in Procs, bPc[p] = "checked", NEW a \in {"ok", "frozen"},
           B!Return(p, a), op' = op
    PROVE  /\ \A d \in {"set", "delete", "get_or"} :
                 /\ op[p] = d /\ a = "ok" => B!Done(d)' = B!Done(d) \cup {p}
                 /\ ~(op[p] = d /\ a = "ok") => B!Done(d)' = B!Done(d)
                 /\ p \notin B!Done(d)
           /\ \A q \in Procs : ans[q] = "ok" => ans'[q] = "ok"
           /\ ans'[p] = a /\ key[p] \in Keys
<1>1. /\ ans'[p] = a
      /\ \A q \in Procs \ {p} : ans'[q] = ans[q]
    BY ReturnOfTask DEF BuilderInv
<1>2. ans[p] = None /\ key[p] \in Keys
    BY DEF BuilderInv, PhaseInv
<1> QED
    BY <1>1, <1>2, BuilderConstants DEF B!Done

LEMMA NoChangeKeeps ==
    ASSUME BuilderInv, NEW p \in Procs, B!ApplyLate(p) \/ B!ApplyGet(p) \/ B!ApplySnapshot(p)
    PROVE  BuilderInv'
<1> USE DEF BuilderInv
<1>1. PICK a \in {"ok", "frozen"} : B!Return(p, a) /\ (a = "ok" => op[p] \in {"get", "snapshot"})
    BY DEF B!ApplyLate, B!ApplyGet, B!ApplySnapshot, B!Apply
<1>2. bPc[p] = "checked" /\ UNCHANGED <<frozen, map, taken, op, key, final>>
    BY DEF B!ApplyLate, B!ApplyGet, B!ApplySnapshot, B!Apply
<1>3. /\ \A d \in {"set", "delete", "get_or"} : B!Done(d)' = B!Done(d) /\ p \notin B!Done(d)
      /\ \A q \in Procs : ans[q] = "ok" => ans'[q] = "ok"
      /\ key[p] \in Keys
  <2>1. \A d \in {"set", "delete", "get_or"} : ~(op[p] = d /\ a = "ok")
      BY <1>1
  <2> QED
      BY <1>1, <1>2, <2>1, DoneOf
<1>4. /\ val' \in [Procs -> Procs \cup {None}]
      /\ \A q \in Procs \ {p} : val'[q] = val[q]
  <2>1. map[key[p]] \in Procs \cup {None}
      BY <1>3 DEF BuilderTyped, B!Maps
  <2>2. val' = val \/ val' = [val EXCEPT ![p] = map[key[p]]]
      BY DEF B!ApplyLate, B!ApplyGet, B!ApplySnapshot
  <2> QED
      BY <2>1, <2>2 DEF BuilderTyped
<1>5. \A k \in Keys : map[k] # None => map[k] \in Procs
    BY DEF BuilderTyped, B!Maps
<1>6. \A q \in B!Done("get_or") : q \in Procs
    BY DEF B!Done
<1>7. MapInv'
    BY <1>2, <1>3, <1>4, <1>5, <1>6 DEF MapInv, Undisturbed
<1> QED
    BY <1>1, <1>2, <1>4, <1>7, AppliedKeeps DEF BuilderTyped

LEMMA SetKeeps ==
    ASSUME BuilderInv, NEW p \in Procs, B!ApplySet(p) PROVE BuilderInv'
<1> USE DEF BuilderInv
<1>1. /\ bPc[p] = "checked" /\ op[p] = "set" /\ ~taken /\ B!Return(p, "ok")
      /\ map' = [map EXCEPT ![key[p]] = p]
      /\ UNCHANGED <<frozen, taken, op, key, val, final>>
    BY DEF B!ApplySet, B!Apply
<1>2. /\ B!Done("set")' = B!Done("set") \cup {p}
      /\ B!Done("delete")' = B!Done("delete") /\ B!Done("get_or")' = B!Done("get_or")
      /\ \A q \in Procs : ans[q] = "ok" => ans'[q] = "ok"
      /\ ans'[p] = "ok" /\ key[p] \in Keys
    BY <1>1, DoneOf
<1>3. /\ map' \in B!Maps /\ map'[key[p]] = p
      /\ \A k \in Keys \ {key[p]} : map'[k] = map[k]
    BY <1>1, <1>2 DEF BuilderTyped, B!Maps
<1>4. \A k \in Keys : map[k] # None => map[k] \in Procs
    BY DEF BuilderTyped, B!Maps
<1>5. \A d \in {"set", "get_or"} : \A q \in B!Done(d) : q \in Procs /\ key[q] \in Keys
    BY BuilderConstants DEF B!Done, PhaseInv, BuilderTyped
<1>6. \A k \in Keys : map'[k] # None => ans'[map'[k]] = "ok"
    BY <1>2, <1>3, <1>4 DEF MapInv
<1>7. \A q \in B!Done("set")' : map'[key[q]] # None \/ \E r \in B!Done("delete") : key[r] = key[q]
    BY <1>2, <1>3, <1>5, BuilderConstants DEF MapInv
<1>8. ASSUME NEW q \in B!Done("get_or"), Undisturbed(q)
      PROVE  map'[key[q]] = val[q] /\ val[q] # None
  <2>1. key[q] # key[p]
      BY <1>1, <1>8 DEF Undisturbed
  <2> QED
      BY <1>3, <1>5, <1>8, <2>1 DEF MapInv
<1>9. MapInv'
    BY <1>1, <1>2, <1>6, <1>7, <1>8 DEF MapInv, Undisturbed
<1> QED
    BY <1>1, <1>3, <1>9, AppliedKeeps DEF BuilderTyped

LEMMA DeleteKeeps ==
    ASSUME BuilderInv, NEW p \in Procs, B!ApplyDelete(p) PROVE BuilderInv'
<1> USE DEF BuilderInv
<1>1. /\ bPc[p] = "checked" /\ op[p] = "delete" /\ ~taken /\ B!Return(p, "ok")
      /\ map' = [map EXCEPT ![key[p]] = None]
      /\ UNCHANGED <<frozen, taken, op, key, val, final>>
    BY DEF B!ApplyDelete, B!Apply
<1>2. /\ B!Done("delete")' = B!Done("delete") \cup {p}
      /\ B!Done("set")' = B!Done("set") /\ B!Done("get_or")' = B!Done("get_or")
      /\ \A q \in Procs : ans[q] = "ok" => ans'[q] = "ok"
      /\ key[p] \in Keys
    BY <1>1, DoneOf
<1>3. /\ map' \in B!Maps /\ map'[key[p]] = None
      /\ \A k \in Keys \ {key[p]} : map'[k] = map[k]
    BY <1>1, <1>2 DEF BuilderTyped, B!Maps
<1>4. \A k \in Keys : map[k] # None => map[k] \in Procs
    BY DEF BuilderTyped, B!Maps
<1>5. \A d \in {"set", "get_or"} : \A q \in B!Done(d) : q \in Procs /\ key[q] \in Keys
    BY BuilderConstants DEF B!Done, PhaseInv, BuilderTyped
<1>6. \A k \in Keys : map'[k] # None => ans'[map'[k]] = "ok"
    BY <1>2, <1>3, <1>4 DEF MapInv
<1>7. \A q \in B!Done("set") : map'[key[q]] # None \/ \E r \in B!Done("delete")' : key[r] = key[q]
    BY <1>2, <1>3, <1>5 DEF MapInv
<1>8. ASSUME NEW q \in B!Done("get_or"), Undisturbed(q)
      PROVE  map'[key[q]] = val[q] /\ val[q] # None
  <2>1. key[q] # key[p]
      BY <1>1, <1>8 DEF Undisturbed
  <2> QED
      BY <1>3, <1>5, <1>8, <2>1 DEF MapInv
<1>9. MapInv'
    BY <1>1, <1>2, <1>6, <1>7, <1>8 DEF MapInv, Undisturbed
<1> QED
    BY <1>1, <1>3, <1>9, AppliedKeeps DEF BuilderTyped

LEMMA GetOrKeeps ==
    ASSUME BuilderInv, NEW p \in Procs, B!ApplyGetOr(p) PROVE BuilderInv'
<1> USE DEF BuilderInv
<1>1. /\ bPc[p] = "checked" /\ op[p] = "get_or" /\ ~taken /\ B!Return(p, "ok")
      /\ UNCHANGED <<frozen, taken, op, key, final>>
    BY DEF B!ApplyGetOr, B!Apply
<1>2. /\ B!Done("get_or")' = B!Done("get_or") \cup {p} /\ p \notin B!Done("get_or")
      /\ B!Done("set")' = B!Done("set") /\ B!Done("delete")' = B!Done("delete")
      /\ \A q \in Procs : ans[q] = "ok" => ans'[q] = "ok"
      /\ ans'[p] = "ok" /\ key[p] \in Keys
    BY <1>1, DoneOf
<1>3. /\ map' \in B!Maps /\ val' \in [Procs -> Procs \cup {None}]
      /\ map'[key[p]] # None /\ val'[p] = map'[key[p]]
      /\ map'[key[p]] = p \/ map'[key[p]] = map[key[p]]
      /\ map[key[p]] # None => map'[key[p]] = map[key[p]]
      /\ \A k \in Keys \ {key[p]} : map'[k] = map[k]
      /\ \A q \in Procs \ {p} : val'[q] = val[q]
  <2>1. CASE map[key[p]] = None
    <3>1. map' = [map EXCEPT ![key[p]] = p] /\ val' = [val EXCEPT ![p] = p]
        BY <2>1 DEF B!ApplyGetOr
    <3> QED
        BY <1>2, <2>1, <3>1, BuilderConstants DEF BuilderTyped, B!Maps
  <2>2. CASE map[key[p]] # None
    <3>1. map' = map /\ val' = [val EXCEPT ![p] = map[key[p]]]
        BY <2>2 DEF B!ApplyGetOr
    <3> QED
        BY <1>2, <2>2, <3>1 DEF BuilderTyped, B!Maps
  <2> QED
      BY <2>1, <2>2
<1>4. \A k \in Keys : map[k] # None => map[k] \in Procs
    BY DEF BuilderTyped, B!Maps
<1>5. \A d \in {"set", "get_or"} : \A q \in B!Done(d) : q \in Procs /\ key[q] \in Keys
    BY BuilderConstants DEF B!Done, PhaseInv, BuilderTyped
<1>6. \A k \in Keys : map'[k] # None => ans'[map'[k]] = "ok"
    BY <1>2, <1>3, <1>4 DEF MapInv
<1>7. \A q \in B!Done("set") : map'[key[q]] # None \/ \E r \in B!Done("delete") : key[r] = key[q]
    BY <1>3, <1>5 DEF MapInv
<1>8. ASSUME NEW q \in B!Done("get_or")', Undisturbed(q)
      PROVE  map'[key[q]] = val'[q] /\ val'[q] # None
  <2>1. CASE q = p
      BY <1>3, <2>1
  <2>2. CASE q # p
    <3>1. q \in B!Done("get_or") /\ map[key[q]] = val[q] /\ val[q] # None
        BY <1>2, <1>8, <2>2 DEF MapInv
    <3> QED
        BY <1>3, <1>5, <2>2, <3>1
  <2> QED
      BY <2>1, <2>2
<1>9. MapInv'
    BY <1>1, <1>2, <1>6, <1>7, <1>8 DEF MapInv, Undisturbed
<1> QED
    BY <1>1, <1>3, <1>9, AppliedKeeps DEF BuilderTyped

LEMMA NextBuilderInv == BuilderInv /\ [B!Next]_bVars => BuilderInv'
<1> SUFFICES ASSUME BuilderInv, [B!Next]_bVars PROVE BuilderInv'
    OBVIOUS
<1>1. CASE UNCHANGED bVars
    BY <1>1 DEF bVars, B!vars, BuilderInv, BuilderTyped, PhaseInv, WinnerInv, Winners, MapInv,
                Undisturbed, B!Done
<1>2. ASSUME NEW p \in Procs, NEW k \in Keys, NEW o \in B!OneShot, B!Check(p, o, k)
      PROVE  BuilderInv'
    BY <1>2, CheckKeeps
<1>3. ASSUME NEW p \in Procs, NEW k \in Keys, B!FinishSwap(p, k) \/ B!Freeze(p, k)
      PROVE  BuilderInv'
    BY <1>3, FlagKeeps
<1>4. ASSUME NEW p \in Procs,
             \/ B!ApplyLate(p) \/ B!ApplySet(p) \/ B!ApplyDelete(p) \/ B!ApplyGetOr(p)
             \/ B!ApplyGet(p) \/ B!ApplySnapshot(p) \/ B!FinishTake(p)
      PROVE  BuilderInv'
    BY <1>4, NoChangeKeeps, SetKeeps, DeleteKeeps, GetOrKeeps, TakeKeeps
<1> QED
    BY <1>1, <1>2, <1>3, <1>4 DEF B!Next, bVars, B!vars

LEMMA BuilderInvImplies == BuilderInv => ReportedIsFinal /\ GetOrAgrees
<1> SUFFICES ASSUME BuilderInv PROVE ReportedIsFinal /\ GetOrAgrees
    OBVIOUS
<1> USE DEF BuilderInv
<1>1. B!Done("finish") \cup B!Done("freeze") \subseteq Winners
    BY DEF B!Done, Winners
<1>2. \A p, q \in B!Done("finish") \cup B!Done("freeze") : p = q
    BY <1>1 DEF WinnerInv
<1>3. ASSUME B!Done("finish") # {}, NEW p \in B!Done("set")
      PROVE  final[key[p]] # None \/ \E q \in B!Done("delete") : key[q] = key[p]
    BY <1>3 DEF WinnerInv, MapInv
<1>4. ASSUME B!Done("finish") # {}, NEW p \in Procs, ans[p] = "frozen"
      PROVE  final[key[p]] # p
  <2>1. key[p] \in Keys
      BY <1>4, BuilderConstants DEF PhaseInv
  <2> QED
      BY <1>4, <2>1, BuilderConstants DEF WinnerInv, MapInv
<1>5. ReportedIsFinal
    BY <1>2, <1>3, <1>4 DEF ReportedIsFinal, B!ReportedIsFinal
<1>6. GetOrAgrees
    BY DEF GetOrAgrees, B!GetOrAgrees, MapInv, Undisturbed
<1> QED
    BY <1>5, <1>6

THEOREM BuilderInvHolds == B!Spec => []BuilderInv
  BY InitBuilderInv, NextBuilderInv, PTL DEF B!Spec, bVars, B!vars

(* One call of finish or freeze wins, and the map that finish returns has  *)
(* every insertion that reported success, unless the key was deleted, and  *)
(* none that was refused (ReportedIsFinal), for any tasks and keys.        *)
THEOREM ReportsAreFinal == B!Spec => []ReportedIsFinal
<1>1. BuilderInv => ReportedIsFinal
    BY BuilderInvImplies
<1> QED
    BY <1>1, BuilderInvHolds, PTL

(* Those who get_or a key that nobody else sets or deletes have one value. *)
THEOREM DefaultsAgree == B!Spec => []GetOrAgrees
<1>1. BuilderInv => GetOrAgrees
    BY BuilderInvImplies
<1> QED
    BY <1>1, BuilderInvHolds, PTL
-----------------------------------------------------------------------------
(* The atomic dict: the flag and the mutex are not seen.                   *)

(* Who is to take the map finds it there; who has not returned has read    *)
(* nothing.                                                                *)
TakenInv ==
    /\ taken => frozen /\ \A p \in Procs : bPc[p] # "taking"
    /\ \A p \in Procs : bPc[p] # "done" => val[p] = None

LEMMA StepTakenInv == BuilderInv /\ TakenInv /\ [B!Next]_bVars => TakenInv'
<1> SUFFICES ASSUME BuilderInv, TakenInv, [B!Next]_bVars PROVE TakenInv'
    OBVIOUS
<1> USE DEF BuilderInv
<1>1. ASSUME NEW p \in Procs, NEW k \in Keys, NEW o \in B!OneShot, B!Check(p, o, k)
      PROVE  TakenInv'
    BY <1>1 DEF B!Check, B!Begin, B!Return, BuilderTyped, TakenInv
<1>2. ASSUME NEW p \in Procs, NEW k \in Keys, B!FinishSwap(p, k) \/ B!Freeze(p, k)
      PROVE  TakenInv'
    BY <1>2 DEF B!FinishSwap, B!Freeze, B!Begin, B!Return, BuilderTyped, TakenInv
<1>3. ASSUME NEW p \in Procs, B!FinishTake(p)
      PROVE  TakenInv'
  <2>1. p \in Winners /\ frozen /\ \A q \in Procs : bPc[q] = "taking" => q = p
      BY <1>3 DEF B!FinishTake, PhaseInv, WinnerInv, Winners
  <2> QED
      BY <1>3, <2>1 DEF B!FinishTake, B!Return, BuilderTyped, TakenInv
<1>4. ASSUME NEW p \in Procs,
             \/ B!ApplyLate(p) \/ B!ApplySet(p) \/ B!ApplyDelete(p) \/ B!ApplyGetOr(p)
             \/ B!ApplyGet(p) \/ B!ApplySnapshot(p)
      PROVE  TakenInv'
  <2>1. bPc' = [bPc EXCEPT ![p] = "done"] /\ UNCHANGED <<taken, frozen>>
      BY <1>4 DEF B!ApplyLate, B!ApplySet, B!ApplyDelete, B!ApplyGetOr, B!ApplyGet,
                  B!ApplySnapshot, B!Apply, B!Return
  <2>2. \A q \in Procs : q # p => val'[q] = val[q]
      BY <1>4 DEF B!ApplyLate, B!ApplySet, B!ApplyDelete, B!ApplyGetOr, B!ApplyGet,
                  B!ApplySnapshot, BuilderTyped
  <2> QED
      BY <2>1, <2>2 DEF BuilderTyped, TakenInv
<1>5. CASE UNCHANGED bVars
    BY <1>5 DEF bVars, TakenInv
<1> QED
    BY <1>1, <1>2, <1>3, <1>4, <1>5 DEF B!Next, B!vars, bVars

Calling == {p \in Procs : bPc[p] = "checked"}

(* A call returns: what it says is seen, and it is no longer in progress.  *)
LEMMA ReturnReplies ==
    ASSUME BuilderTyped, NEW p \in Procs, NEW a, NEW o, NEW k, NEW v, bPc[p] # "done",
           B!Return(p, a),
           op'[p] = o, key'[p] = k, val'[p] = v,
           \A q \in Procs : q # p => op'[q] = op[q] /\ key'[q] = key[q] /\ val'[q] = val[q]
    PROVE  /\ Dict!Reply(p, o, k, a, v)
           /\ taken = taken' /\ frozen = frozen' /\ bPc[p] # "taking" => BuilderPhase' = BuilderPhase
<1>1. /\ bPc'[p] = "done" /\ ans'[p] = a
      /\ \A q \in Procs : q # p => bPc'[q] = bPc[q] /\ ans'[q] = ans[q]
    BY DEF B!Return, BuilderTyped
<1>2. BuilderReply[p] = None
    BY DEF BuilderReply
<1>3. BuilderReply' = [BuilderReply EXCEPT ![p] = [op |-> o, key |-> k, ans |-> a, val |-> v]]
    BY <1>1 DEF BuilderReply
<1>4. Calling' = Calling \ {p}
    BY <1>1 DEF Calling
<1>5. Dict!Reply(p, o, k, a, v)
    BY <1>2, <1>3, <1>4 DEF Dict!Reply, Calling
<1>6. ASSUME taken = taken', frozen = frozen', bPc[p] # "taking"
      PROVE  BuilderPhase' = BuilderPhase
    BY <1>1, <1>6 DEF BuilderPhase
<1> QED
    BY <1>5, <1>6

LEMMA CheckIsCall ==
    ASSUME BuilderInv, TakenInv, NEW p \in Procs, NEW o \in B!OneShot, NEW k \in Keys,
           B!Check(p, o, k)
    PROVE  Dict!Call(p) \/ Dict!Refuse(p, o, k)
<1> USE DEF BuilderInv
<1>0. o \in B!Op
    BY DEF B!Op
<1>1. /\ bPc[p] = "idle" /\ op'[p] = o /\ key'[p] = k
      /\ \A q \in Procs \ {p} : op'[q] = op[q] /\ key'[q] = key[q]
    BY <1>0, BeginOfTask DEF B!Check
<1>2. UNCHANGED <<frozen, map, taken, val, final>> /\ val[p] = None
    BY <1>1 DEF B!Check, TakenInv
<1>3. CASE frozen
  <2>1. Dict!Reply(p, o, k, "frozen", None) /\ BuilderPhase' = BuilderPhase
      BY <1>1, <1>2, <1>3, ReturnReplies DEF B!Check
  <2>2. BuilderPhase # "open"
      BY <1>3 DEF BuilderPhase
  <2> QED
      BY <1>2, <2>1, <2>2 DEF Dict!Refuse
<1>4. CASE ~frozen
  <2>1. bPc' = [bPc EXCEPT ![p] = "checked"] /\ ans' = ans
      BY <1>4 DEF B!Check
  <2>2. BuilderPhase = "open" /\ BuilderPhase' = "open"
      BY <1>2, <1>4 DEF BuilderPhase, TakenInv
  <2>3. BuilderReply[p] = None /\ BuilderReply' = BuilderReply
      BY <1>1, <1>2, <2>1 DEF BuilderReply, BuilderTyped
  <2>4. Calling' = Calling \cup {p}
      BY <2>1 DEF Calling, BuilderTyped
  <2> QED
      BY <1>2, <2>2, <2>3, <2>4 DEF Dict!Call, Calling
<1> QED
    BY <1>3, <1>4

LEMMA FlagCloses ==
    ASSUME BuilderInv, TakenInv, NEW p \in Procs, NEW k \in Keys,
           B!FinishSwap(p, k) \/ B!Freeze(p, k)
    PROVE  Dict!FinishBegins \/ Dict!Freeze(p, k) \/ \E o \in Dict!Op : Dict!Refuse(p, o, k)
<1> USE DEF BuilderInv
<1>1. PICK o \in {"finish", "freeze"} :
          /\ B!Begin(p, o, k)
          /\ frozen => B!Return(p, "frozen")
          /\ ~frozen /\ o = "freeze" => B!Return(p, "ok")
          /\ ~frozen /\ o = "finish" => bPc' = [bPc EXCEPT ![p] = "taking"] /\ ans' = ans
    BY DEF B!FinishSwap, B!Freeze
<1>2. o \in B!Op /\ o \in Dict!Op
    BY DEF B!Op, Dict!Op
<1>3. /\ bPc[p] = "idle" /\ op'[p] = o /\ key'[p] = k
      /\ \A q \in Procs \ {p} : op'[q] = op[q] /\ key'[q] = key[q]
    BY <1>1, <1>2, BeginOfTask
<1>4. frozen' /\ UNCHANGED <<map, taken, val, final>> /\ val[p] = None
    BY <1>3 DEF B!FinishSwap, B!Freeze, TakenInv
<1>5. CASE frozen
  <2>1. frozen = frozen'
      BY <1>4, <1>5 DEF B!FinishSwap, B!Freeze
  <2>2. Dict!Reply(p, o, k, "frozen", None) /\ BuilderPhase' = BuilderPhase
      BY <1>1, <1>3, <1>4, <1>5, <2>1, ReturnReplies
  <2>3. BuilderPhase # "open"
      BY <1>5 DEF BuilderPhase
  <2>4. Dict!Refuse(p, o, k)
      BY <1>4, <2>2, <2>3 DEF Dict!Refuse
  <2> QED
      BY <1>2, <2>4
<1>6. CASE ~frozen
  <2>1. BuilderPhase = "open" /\ ~taken
      BY <1>6 DEF BuilderPhase, TakenInv
  <2>2. \A q \in Procs : bPc[q] # "taking"
      BY <1>6 DEF WinnerInv, Winners, PhaseInv
  <2>3. CASE o = "freeze"
    <3>1. Dict!Reply(p, "freeze", k, "ok", None)
        BY <1>1, <1>3, <1>4, <1>6, <2>3, ReturnReplies
    <3>2. \A q \in Procs : bPc'[q] # "taking"
        BY <1>1, <1>6, <2>2, <2>3 DEF B!Return, BuilderTyped
    <3>3. BuilderPhase' = "frozen"
        BY <1>4, <2>1, <3>2 DEF BuilderPhase
    <3> QED
        BY <1>4, <2>1, <3>1, <3>3 DEF Dict!Freeze
  <2>4. CASE o = "finish"
    <3>1. bPc' = [bPc EXCEPT ![p] = "taking"] /\ ans' = ans
        BY <1>1, <1>6, <2>4
    <3>2. BuilderPhase' = "finishing"
        BY <1>4, <2>1, <3>1 DEF BuilderPhase, BuilderTyped
    <3>3. Calling' = Calling /\ BuilderReply' = BuilderReply
        BY <1>3, <1>4, <3>1 DEF Calling, BuilderReply, BuilderTyped
    <3> QED
        BY <1>4, <2>1, <3>2, <3>3 DEF Dict!FinishBegins, Calling
  <2> QED
      BY <2>3, <2>4
<1> QED
    BY <1>5, <1>6

LEMMA TakeFinishes ==
    ASSUME BuilderInv, TakenInv, NEW p \in Procs, B!FinishTake(p)
    PROVE  \E k \in Keys : Dict!Finish(p, k)
<1> USE DEF BuilderInv
<1>1. /\ bPc[p] = "taking" /\ op[p] = "finish" /\ key[p] \in Keys /\ val[p] = None
      /\ final' = map /\ taken' /\ UNCHANGED <<frozen, map, op, key, val>>
    BY DEF B!FinishTake, PhaseInv, TakenInv
<1>2. frozen /\ ~taken
    BY <1>1 DEF TakenInv, WinnerInv, Winners
<1>3. BuilderPhase = "finishing" /\ BuilderPhase' = "taken"
    BY <1>1, <1>2 DEF BuilderPhase
<1>4. Dict!Reply(p, "finish", key[p], "ok", None)
    BY <1>1, ReturnReplies DEF B!FinishTake
<1> QED
    BY <1>1, <1>3, <1>4 DEF Dict!Finish

LEMMA ApplyPerforms ==
    ASSUME BuilderInv, TakenInv, NEW p \in Procs,
           \/ B!ApplyLate(p) \/ B!ApplySet(p) \/ B!ApplyDelete(p) \/ B!ApplyGetOr(p)
           \/ B!ApplyGet(p) \/ B!ApplySnapshot(p)
    PROVE  \E k \in Keys : Dict!Perform(p, k) \/ \E o \in Dict!Op : Dict!Refuse(p, o, k)
<1> USE DEF BuilderInv
<1> DEFINE k == key[p]
<1>1. /\ bPc[p] = "checked" /\ UNCHANGED <<frozen, taken, op, key, final>>
    BY DEF B!ApplyLate, B!ApplySet, B!ApplyDelete, B!ApplyGetOr, B!ApplyGet, B!ApplySnapshot, B!Apply
<1>2. k \in Keys /\ op[p] \in B!OneShot /\ val[p] = None /\ p \in Calling
    BY <1>1 DEF PhaseInv, TakenInv, Calling
<1>3. \A q \in Procs : q # p => val'[q] = val[q]
    BY DEF B!ApplyLate, B!ApplySet, B!ApplyDelete, B!ApplyGetOr, B!ApplyGet,
           B!ApplySnapshot, BuilderTyped
<1>4. ASSUME NEW a, NEW o, NEW v, B!Return(p, a), op[p] = o, val'[p] = v
      PROVE  Dict!Reply(p, o, k, a, v) /\ BuilderPhase' = BuilderPhase
  <2>1. op'[p] = o /\ key'[p] = k
      BY <1>1, <1>4
  <2>2. \A q \in Procs : q # p => op'[q] = op[q] /\ key'[q] = key[q] /\ val'[q] = val[q]
      BY <1>1, <1>3
  <2> HIDE DEF k
  <2> QED
      BY <1>1, <1>4, <2>1, <2>2, ReturnReplies
<1>5. CASE B!ApplyLate(p)
  <2>0. B!Return(p, "frozen") /\ val'[p] = None
      BY <1>2, <1>5 DEF B!ApplyLate
  <2>1. Dict!Reply(p, op[p], k, "frozen", None) /\ BuilderPhase' = BuilderPhase
      BY <2>0, <1>4
  <2>2. BuilderPhase # "open" /\ map' = map
      BY <1>5 DEF B!ApplyLate, BuilderPhase
  <2>3. op[p] \in Dict!Op
      BY <1>2 DEF Dict!Op, B!OneShot
  <2> QED
      BY <1>1, <1>2, <2>1, <2>2, <2>3 DEF Dict!Refuse
<1>6. ASSUME ~taken, B!Return(p, "ok"),
             \/ op[p] = "set" /\ map' = [map EXCEPT ![k] = p] /\ val'[p] = None
             \/ op[p] = "delete" /\ map' = [map EXCEPT ![k] = None] /\ val'[p] = None
             \/ /\ op[p] = "get_or" /\ map' = [map EXCEPT ![k] = Dict!Present(p, k)]
                /\ val'[p] = Dict!Present(p, k)
             \/ op[p] = "get" /\ map' = map /\ val'[p] = map[k]
             \/ op[p] = "snapshot" /\ map' = map /\ val'[p] = None
      PROVE  Dict!Perform(p, k)
  <2>1. \A o, v : op[p] = o /\ val'[p] = v => Dict!Reply(p, o, k, "ok", v)
      BY <1>4, <1>6
  <2>2. BuilderPhase' = BuilderPhase /\ BuilderPhase # "taken"
      BY <1>4, <1>6 DEF BuilderPhase
  <2>3. p \in {q \in Procs : bPc[q] = "checked"} /\ final' = final
      BY <1>1
  <2> HIDE DEF k
  <2>4. CASE op[p] = "set" /\ map' = [map EXCEPT ![k] = p] /\ val'[p] = None
      BY <2>1, <2>2, <2>3, <2>4 DEF Dict!Perform
  <2>5. CASE op[p] = "delete" /\ map' = [map EXCEPT ![k] = None] /\ val'[p] = None
      BY <2>1, <2>2, <2>3, <2>5 DEF Dict!Perform
  <2>6. CASE /\ op[p] = "get_or" /\ map' = [map EXCEPT ![k] = Dict!Present(p, k)]
             /\ val'[p] = Dict!Present(p, k)
      BY <2>1, <2>2, <2>3, <2>6 DEF Dict!Perform, Dict!Reply, Dict!Present
  <2>7. CASE op[p] = "get" /\ map' = map /\ val'[p] = map[k]
      BY <2>1, <2>2, <2>3, <2>7 DEF Dict!Perform, Dict!Reply
  <2>8. CASE op[p] = "snapshot" /\ map' = map /\ val'[p] = None
      BY <2>1, <2>2, <2>3, <2>8 DEF Dict!Perform
  <2> QED
      BY <1>6, <2>4, <2>5, <2>6, <2>7, <2>8
<1>7. CASE B!ApplySet(p)
  <2>1. Dict!Perform(p, k)
      BY <1>2, <1>6, <1>7 DEF B!ApplySet, B!Apply
  <2> QED
      BY <1>2, <2>1
<1>8. CASE B!ApplyDelete(p)
  <2>1. Dict!Perform(p, k)
      BY <1>2, <1>6, <1>8 DEF B!ApplyDelete, B!Apply
  <2> QED
      BY <1>2, <2>1
<1>9. CASE B!ApplyGetOr(p)
  <2>1. map' = [map EXCEPT ![k] = Dict!Present(p, k)] /\ val'[p] = Dict!Present(p, k)
    <3>1. CASE map[k] = None
        BY <1>9, <3>1 DEF B!ApplyGetOr, Dict!Present, BuilderTyped
    <3>2. CASE map[k] # None
        BY <1>9, <3>2 DEF B!ApplyGetOr, Dict!Present, BuilderTyped, B!Maps
    <3> QED
        BY <3>1, <3>2
  <2>2. Dict!Perform(p, k)
      BY <1>6, <1>9, <2>1 DEF B!ApplyGetOr, B!Apply
  <2> QED
      BY <1>2, <2>2
<1>10. CASE B!ApplyGet(p)
  <2>1. val'[p] = map[k]
      BY <1>10 DEF B!ApplyGet, BuilderTyped
  <2>2. Dict!Perform(p, k)
      BY <1>6, <1>10, <2>1 DEF B!ApplyGet, B!Apply
  <2> QED
      BY <1>2, <2>2
<1>11. CASE B!ApplySnapshot(p)
  <2>1. Dict!Perform(p, k)
      BY <1>2, <1>6, <1>11 DEF B!ApplySnapshot, B!Apply
  <2> QED
      BY <1>2, <2>1
<1> QED
    BY <1>5, <1>7, <1>8, <1>9, <1>10, <1>11

LEMMA StepOfDict ==
    ASSUME BuilderInv, TakenInv, [B!Next]_bVars
    PROVE  [Dict!Next]_(Dict!vars)
<1>1. ASSUME NEW p \in Procs, NEW k \in Keys, NEW o \in B!OneShot, B!Check(p, o, k)
      PROVE  Dict!Next
  <2>1. o \in Dict!Op
      BY DEF B!OneShot, Dict!Op
  <2> QED
      BY <1>1, <2>1, CheckIsCall DEF Dict!Next
<1>2. ASSUME NEW p \in Procs, NEW k \in Keys, B!FinishSwap(p, k) \/ B!Freeze(p, k)
      PROVE  Dict!Next
    BY <1>2, FlagCloses DEF Dict!Next
<1>3. ASSUME NEW p \in Procs, B!FinishTake(p)
      PROVE  Dict!Next
    BY <1>3, TakeFinishes DEF Dict!Next
<1>4. ASSUME NEW p \in Procs,
             \/ B!ApplyLate(p) \/ B!ApplySet(p) \/ B!ApplyDelete(p) \/ B!ApplyGetOr(p)
             \/ B!ApplyGet(p) \/ B!ApplySnapshot(p)
      PROVE  Dict!Next
    BY <1>4, ApplyPerforms DEF Dict!Next
<1>5. CASE UNCHANGED bVars
  <2>1. BuilderPhase' = BuilderPhase /\ BuilderReply' = BuilderReply /\ Calling' = Calling
      BY <1>5 DEF bVars, BuilderPhase, BuilderReply, Calling
  <2>2. UNCHANGED Dict!vars
      BY <1>5, <2>1 DEF bVars, Dict!vars, Calling
  <2> QED
      BY <2>2
<1> QED
    BY <1>1, <1>2, <1>3, <1>4, <1>5 DEF B!Next, B!vars, bVars

(* A builder is an atomic dict, for any tasks and keys: an operation that  *)
(* passes the flag and then takes the mutex happens in one step or is      *)
(* refused and does nothing, and finish returns the dict as it is at one   *)
(* moment, after which nobody is told of a success (value.rs, Builder).    *)
THEOREM BuilderIsAtomicDict == B!Spec => ImplementsAtomicDict
<1>1. B!Init => Dict!Init
    BY DEF B!Init, B!Empty, Dict!Init, BuilderPhase, BuilderReply
<1>2. B!Init => TakenInv
    BY DEF B!Init, TakenInv
<1>3. BuilderInv /\ TakenInv /\ [B!Next]_bVars => [Dict!Next]_(Dict!vars)
    BY StepOfDict
<1> QED
    BY <1>1, <1>2, <1>3, StepTakenInv, BuilderInvHolds, PTL
    DEF B!Spec, bVars, B!vars, Dict!Spec, ImplementsAtomicDict
-----------------------------------------------------------------------------
(* A program that shares one of the three: each of the specifications      *)
(* holds of it.                                                            *)
THEOREM SharedStayApart == SharedSpec => Spec /\ A!Spec /\ B!Spec
<1>1. SharedInit => Init /\ A!Init /\ B!Init
    BY DEF SharedInit
<1>2. [SharedNext]_<<opened, vars, wVars, bVars>>
      => [Next]_vars /\ [A!Next]_wVars /\ [B!Next]_bVars
    BY DEF SharedNext
<1> QED
    BY <1>1, <1>2, PTL DEF SharedSpec, Spec, A!Spec, B!Spec, wVars, bVars, A!vars, A!disk, B!vars

-----------------------------------------------------------------------------
(* THE PROFILER                                                            *)

Log == [id : Nat, ended : BOOLEAN]

ProfileTyped ==
    /\ closed \in Seq(BOOLEAN)
    /\ cursor \in 0..Len(closed)
    /\ atStop \in 0..Len(closed) /\ atSignal \in 0..Len(closed)
    /\ file \in Seq(Log) /\ pending \in Seq(Log) /\ batch \in Seq(Log)

Ascending(log) == \A i, j \in DOMAIN log : i < j => log[i].id < log[j].id
UpTo(log, n) == \A i \in DOMAIN log : log[i].id <= n

LogInv == WrittenInOrder /\ UpTo(Drained, cursor)

(* Where the batch and the BufWriter may hold something.                   *)
PlacesInv ==
    /\ flusher # "drained" => batch = <<>>
    /\ main = "joined" => flusher = "over"
    /\ ~failed => pending = <<>>

SignalInv ==
    /\ sigint \/ sigintExit => handler = "returned"
    /\ flusher \in {"drained", "written"} /\ sigintExit => atSignal <= cursor

ProfileInv == ProfileTyped /\ LogInv /\ PlacesInv /\ SignalInv /\ NothingLost

-----------------------------------------------------------------------------
(* LOGS                                                                    *)

LEMMA MarkedClosed ==
    ASSUME NEW s \in Seq(BOOLEAN), NEW i
    PROVE  [s EXCEPT ![i] = TRUE] \in Seq(BOOLEAN) /\ Len([s EXCEPT ![i] = TRUE]) = Len(s)
<1>1. CASE i \in 1..Len(s)
    BY <1>1, ExceptSeq
<1>2. CASE i \notin 1..Len(s)
  <2>1. [s EXCEPT ![i] = TRUE] = s
      BY <1>2
  <2> QED
      BY <2>1
<1> QED
    BY <1>1, <1>2

LEMMA LogEntries ==
    ASSUME NEW s \in Seq(Log)
    PROVE  \A i \in DOMAIN s : s[i].id \in Nat
<1>1. \A i \in DOMAIN s : s[i] \in Log
    BY ElementOfSeq
<1> QED
    BY <1>1 DEF Log

LEMMA AscendingConcat ==
    ASSUME NEW s \in Seq(Log), NEW t \in Seq(Log), NEW m \in Nat, NEW n \in Nat, m <= n,
           Ascending(s), UpTo(s, m),
           Ascending(t), UpTo(t, n), \A i \in DOMAIN t : t[i].id > m
    PROVE  Ascending(s \o t) /\ UpTo(s \o t, n)
<1> DEFINE st == s \o t
<1>1. /\ st \in Seq(Log) /\ Len(st) = Len(s) + Len(t)
      /\ \A i \in 1..Len(s) + Len(t) : st[i] = IF i <= Len(s) THEN s[i] ELSE t[i - Len(s)]
    BY ConcatProperties
<1>2. DOMAIN st = 1..Len(s) + Len(t) /\ DOMAIN s = 1..Len(s) /\ DOMAIN t = 1..Len(t)
      /\ Len(s) \in Nat /\ Len(t) \in Nat
    BY <1>1
<1>3. /\ \A i \in DOMAIN s : s[i].id \in Nat /\ s[i].id <= m
      /\ \A i \in DOMAIN t : t[i].id \in Nat /\ t[i].id > m /\ t[i].id <= n
    BY LogEntries DEF UpTo
<1>4. ASSUME NEW i \in DOMAIN st
      PROVE  \/ i \in DOMAIN s /\ st[i] = s[i]
             \/ i > Len(s) /\ i - Len(s) \in DOMAIN t /\ st[i] = t[i - Len(s)]
    BY <1>1, <1>2
<1>5. Ascending(st)
  <2> SUFFICES ASSUME NEW i \in DOMAIN st, NEW j \in DOMAIN st, i < j
               PROVE  st[i].id < st[j].id
      BY DEF Ascending
  <2> i \in Nat /\ j \in Nat
      BY <1>2
  <2>1. CASE i \in DOMAIN s /\ st[i] = s[i] /\ j \in DOMAIN s /\ st[j] = s[j]
      BY <2>1 DEF Ascending
  <2>2. CASE i \in DOMAIN s /\ st[i] = s[i] /\ j - Len(s) \in DOMAIN t /\ st[j] = t[j - Len(s)]
      BY <2>2, <1>3
  <2>3. CASE /\ i - Len(s) \in DOMAIN t /\ st[i] = t[i - Len(s)]
             /\ j - Len(s) \in DOMAIN t /\ st[j] = t[j - Len(s)]
      BY <2>3, <1>2 DEF Ascending
  <2> QED
      BY <1>2, <1>4, <2>1, <2>2, <2>3
<1>6. UpTo(st, n)
    BY <1>3, <1>4 DEF UpTo
<1> QED
    BY <1>5, <1>6

(* A beginning of a log is one.                                            *)
LEMMA AscendingPrefix ==
    ASSUME NEW s \in Seq(Log), NEW t \in Seq(Log), NEW n \in 0..Len(t), NEW m,
           Ascending(s \o t), UpTo(s \o t, m)
    PROVE  /\ SubSeq(t, 1, n) \in Seq(Log)
           /\ Ascending(s \o SubSeq(t, 1, n)) /\ UpTo(s \o SubSeq(t, 1, n), m)
<1> DEFINE u == SubSeq(t, 1, n)
<1>1. u \in Seq(Log) /\ Len(u) = n /\ \A i \in 1..n : u[i] = t[i]
  <2>1. \A i \in 1..n : t[i] \in Log
      BY ElementOfSeq
  <2>2. \A i \in 1..n - 1 + 1 : u[i] = t[1 + i - 1]
      BY <2>1, SubSeqProperties
  <2>3. u \in Seq(Log) /\ Len(u) = IF 1 <= n THEN n - 1 + 1 ELSE 0
      BY <2>1, SubSeqProperties
  <2> QED
      BY <2>2, <2>3
<1>2. \A i \in 1..Len(s) + n : i \in DOMAIN (s \o t) /\ (s \o u)[i] = (s \o t)[i]
  <2>1. \A i \in 1..Len(s) + n : (s \o u)[i] = IF i <= Len(s) THEN s[i] ELSE u[i - Len(s)]
      BY <1>1, ConcatProperties
  <2>2. /\ \A i \in 1..Len(s) + Len(t) : (s \o t)[i] = IF i <= Len(s) THEN s[i] ELSE t[i - Len(s)]
        /\ DOMAIN (s \o t) = 1..Len(s) + Len(t)
      BY ConcatProperties
  <2> QED
      BY <1>1, <2>1, <2>2
<1>3. DOMAIN (s \o u) = 1..Len(s) + n
    BY <1>1, ConcatProperties
<1> QED
    BY <1>1, <1>2, <1>3 DEF Ascending, UpTo

(* What a drain takes.                                                     *)
LEMMA UndrainedIs ==
    ASSUME ProfileTyped
    PROVE  /\ Undrained \in Seq(Log) /\ Len(Undrained) = Len(closed) - cursor
           /\ Ascending(Undrained) /\ UpTo(Undrained, Len(closed))
           /\ \A i \in DOMAIN Undrained : Undrained[i].id > cursor
<1>1. Len(closed) \in Nat /\ cursor \in Nat /\ Len(closed) - cursor \in Nat
    BY DEF ProfileTyped
<1>2. \A i \in 1..Len(closed) - cursor :
          [id |-> cursor + i, ended |-> closed[cursor + i]] \in Log
    BY <1>1, ElementOfSeq DEF ProfileTyped, Log
<1>3. /\ Undrained \in [1..Len(closed) - cursor -> Log]
      /\ \A i \in 1..Len(closed) - cursor : Undrained[i].id = cursor + i
    BY <1>2 DEF Undrained
<1>4. Undrained \in Seq(Log) /\ Len(Undrained) = Len(closed) - cursor
    BY <1>1, <1>3
<1> QED
    BY <1>1, <1>3, <1>4 DEF Ascending, UpTo

(* The log after a drain of any kind.                                      *)
LEMMA DrainedIs ==
    ASSUME ProfileTyped, LogInv, batch = <<>>
    PROVE  /\ file \o pending \in Seq(Log)
           /\ Ascending(file \o pending \o Undrained)
           /\ UpTo(file \o pending \o Undrained, Len(closed))
           /\ failed \/ Len(file \o pending \o Undrained) = Len(closed)
<1>1. file \o pending \in Seq(Log) /\ Drained = file \o pending
    BY ConcatProperties, ConcatEmptySeq DEF ProfileTyped, Drained
<1>2. Ascending(file \o pending) /\ UpTo(file \o pending, cursor)
    BY <1>1 DEF LogInv, WrittenInOrder, Ascending
<1>3. cursor \in Nat /\ Len(closed) \in Nat /\ cursor <= Len(closed)
    BY DEF ProfileTyped
<1>4. failed \/ Len(file \o pending) = cursor
    BY <1>1 DEF LogInv, WrittenInOrder
<1> DEFINE log == file \o pending
<1> HIDE DEF log
<1>5. log \in Seq(Log) /\ Ascending(log) /\ UpTo(log, cursor) /\ (failed \/ Len(log) = cursor)
    BY <1>1, <1>2, <1>4 DEF log
<1>6. Len(log \o Undrained) = Len(log) + Len(Undrained)
    BY <1>5, UndrainedIs, ConcatProperties
<1>7. failed \/ Len(log \o Undrained) = Len(closed)
    BY <1>3, <1>5, <1>6, UndrainedIs
<1>8. Ascending(log \o Undrained) /\ UpTo(log \o Undrained, Len(closed))
    BY <1>3, <1>5, UndrainedIs, AscendingConcat
<1> QED
    BY <1>1, <1>7, <1>8 DEF log

-----------------------------------------------------------------------------
LEMMA InitProfileInv == Init => ProfileInv
<1> SUFFICES ASSUME Init PROVE ProfileInv
    OBVIOUS
<1>1. Drained = <<>>
    BY DEF Init, Drained
<1>2. ProfileTyped
    BY DEF Init, ProfileTyped
<1>3. LogInv
    BY <1>1 DEF Init, LogInv, WrittenInOrder, UpTo
<1>4. PlacesInv /\ SignalInv /\ NothingLost
    BY DEF Init, PlacesInv, SignalInv, NothingLost
<1> QED
    BY <1>2, <1>3, <1>4 DEF ProfileInv

(* The steps of the evaluators: spans are added and closed.                *)
LEMMA EvaluatorKeeps ==
    ASSUME ProfileInv, NEW e \in Evaluators, Evaluator(e)
    PROVE  ProfileInv'
<1> USE DEF ProfileInv
<1>1. UNCHANGED <<thread, flags, main, output, cursor, atStop, atSignal>>
    BY DEF Evaluator, OpenSpan, CloseSpan, CloseMismatch, LockPoisoned, Unwind, collector, history
<1>2. closed' \in Seq(BOOLEAN) /\ Len(closed') >= Len(closed)
  <2>1. CASE OpenSpan(e)
      BY <2>1 DEF OpenSpan, ProfileTyped
  <2>2. CASE CloseSpan(e)
    <3>1. closed' = [closed EXCEPT ![Last(guards[e])] = TRUE]
        BY <2>2 DEF CloseSpan
    <3> QED
        BY <3>1, MarkedClosed DEF ProfileTyped
  <2>3. CASE CloseMismatch(e) \/ LockPoisoned(e) \/ Unwind(e)
      BY <2>3 DEF CloseMismatch, LockPoisoned, Unwind, collector, ProfileTyped
  <2> QED
      BY <2>1, <2>2, <2>3 DEF Evaluator
<1>3. exit = "no" /\ exit' \notin {"clean", "interrupted"}
    BY DEF Evaluator, OpenSpan, CloseSpan, CloseMismatch, LockPoisoned, Unwind, DropGuard,
           Evaluating, Panics
<1>4. ProfileTyped'
    BY <1>1, <1>2 DEF ProfileTyped, thread, output
<1>5. LogInv'
    BY <1>1 DEF LogInv, WrittenInOrder, UpTo, Drained, thread, output
<1>6. PlacesInv' /\ SignalInv'
    BY <1>1 DEF PlacesInv, SignalInv, thread, flags, output
<1>7. NothingLost'
    BY <1>3 DEF NothingLost
<1> QED
    BY <1>4, <1>5, <1>6, <1>7

-----------------------------------------------------------------------------
(* The steps of the thread.                                                *)

LEMMA WakeKeeps == ProfileInv /\ (Wake \/ ReadSigint) => ProfileInv'
<1> SUFFICES ASSUME ProfileInv, Wake \/ ReadSigint PROVE ProfileInv'
    OBVIOUS
<1> USE DEF ProfileInv
<1>1. /\ UNCHANGED <<collector, batch, flags, main, output, exit, history>>
      /\ exit = "no"
      /\ flusher \in {"asleep", "stopRead"}
      /\ flusher' \in {"asleep", "stopRead", "sigintRead"}
      /\ sigintExit' = sigintExit \/ sigintExit' = sigint
    BY DEF Wake, ReadSigint
<1>2. ProfileTyped'
    BY <1>1 DEF ProfileTyped, collector, output, history
<1>3. LogInv'
    BY <1>1 DEF LogInv, WrittenInOrder, UpTo, Drained, collector, output
<1>4. PlacesInv' /\ SignalInv'
    BY <1>1 DEF PlacesInv, SignalInv, flags, output
<1>5. NothingLost'
    BY <1>1 DEF NothingLost
<1> QED
    BY <1>2, <1>3, <1>4, <1>5

LEMMA DrainKeeps == ProfileInv /\ Drain => ProfileInv'
<1> SUFFICES ASSUME ProfileInv, Drain PROVE ProfileInv'
    OBVIOUS
<1> USE DEF ProfileInv
<1>1. /\ flusher = "sigintRead" /\ flusher' = "drained" /\ exit = "no"
      /\ batch' = Undrained /\ cursor' = Len(closed)
      /\ UNCHANGED <<closed, sigintExit, flags, main, output, exit, history>>
    BY DEF Drain
<1>2. batch = <<>>
    BY <1>1 DEF PlacesInv
<1>3. ProfileTyped'
    BY <1>1, UndrainedIs DEF ProfileTyped, output, history
<1>4. Drained' = file \o pending \o Undrained
    BY <1>1 DEF Drained, output
<1>5. LogInv'
    BY <1>1, <1>2, <1>4, DrainedIs DEF LogInv, WrittenInOrder, Ascending, UpTo, output
<1>6. PlacesInv' /\ SignalInv'
    BY <1>1 DEF PlacesInv, SignalInv, ProfileTyped, flags, output, history
<1>7. NothingLost'
    BY <1>1 DEF NothingLost
<1> QED
    BY <1>3, <1>5, <1>6, <1>7

(* The thread leaves, having drained or finding the mutex poisoned.        *)
LEMMA FinishKeeps == ProfileInv /\ (Finish \/ DrainPoisoned) => ProfileInv'
<1> SUFFICES ASSUME ProfileInv, Finish \/ DrainPoisoned PROVE ProfileInv'
    OBVIOUS
<1> USE DEF ProfileInv
<1>1. /\ UNCHANGED <<collector, sigintExit, batch, flags, main, output, history>>
      /\ exit = "no" /\ flusher \in {"written", "sigintRead"}
      /\ flusher' \in {"asleep", "over", flusher}
    BY DEF Finish, DrainPoisoned, Leave
<1>2. exit' = "no" \/ (exit' = "interrupted" /\ (poisoned \/ (flusher = "written" /\ sigintExit)))
    BY DEF Finish, DrainPoisoned, Leave
<1>3. main # "joined"
    BY <1>1 DEF PlacesInv
<1>4. ProfileTyped'
    BY <1>1 DEF ProfileTyped, collector, output, history
<1>5. LogInv'
    BY <1>1 DEF LogInv, WrittenInOrder, UpTo, Drained, collector, output
<1>6. PlacesInv' /\ SignalInv'
    BY <1>1, <1>3 DEF PlacesInv, SignalInv, flags, output, collector, history
<1>7. NothingLost'
  <2> SUFFICES ASSUME ~failed', exit' = "interrupted", ~poisoned' PROVE atSignal' <= Len(file')
      BY <1>2 DEF NothingLost
  <2>1. flusher = "written" /\ sigintExit /\ ~failed
      BY <1>1, <1>2 DEF output, collector
  <2>2. atSignal <= cursor /\ batch = <<>> /\ pending = <<>>
      BY <2>1 DEF SignalInv, PlacesInv
  <2>3. Drained = file
      BY <2>2, ConcatEmptySeq DEF Drained, ProfileTyped
  <2>4. Len(file) = cursor
      BY <2>1, <2>3 DEF LogInv, WrittenInOrder
  <2> QED
      BY <1>1, <2>2, <2>4 DEF output, history
<1> QED
    BY <1>4, <1>5, <1>6, <1>7

LEMMA WriteKeeps == ProfileInv /\ Write => ProfileInv'
<1> SUFFICES ASSUME ProfileInv, Write PROVE ProfileInv'
    OBVIOUS
<1> USE DEF ProfileInv
<1>1. /\ flusher = "drained" /\ flusher' = "written" /\ exit = "no" /\ batch' = <<>>
      /\ UNCHANGED <<collector, sigintExit, flags, main, failed, exit, history>>
    BY DEF Write
<1>2. /\ file' \in Seq(Log) /\ pending' \in Seq(Log) /\ Drained' = Drained
      /\ pending' = <<>> \/ pending' = pending
  <2>1. CASE batch = <<>>
      BY <1>1, <2>1 DEF Write, ProfileTyped, Drained
  <2>2. CASE batch # <<>>
    <3>1. file' = file \o pending \o batch /\ pending' = <<>>
        BY <2>2 DEF Write
    <3>2. file' \in Seq(Log)
        BY <3>1, ConcatProperties DEF ProfileTyped
    <3>3. file' \o <<>> = file'
        BY <3>2, ConcatEmptySeq
    <3> QED
        BY <1>1, <3>1, <3>2, <3>3, EmptySeq DEF Drained
  <2> QED
      BY <2>1, <2>2
<1>3. ProfileTyped'
    BY <1>1, <1>2 DEF ProfileTyped, collector, history
<1>4. LogInv'
    BY <1>1, <1>2 DEF LogInv, WrittenInOrder, UpTo, collector
<1>5. PlacesInv' /\ SignalInv'
    BY <1>1, <1>2 DEF PlacesInv, SignalInv, flags, collector, history
<1>6. NothingLost'
    BY <1>1 DEF NothingLost
<1> QED
    BY <1>3, <1>4, <1>5, <1>6

LEMMA ConcatRegroups ==
  ASSUME NEW T, NEW s \in Seq(T), NEW t \in Seq(T), NEW u \in Seq(T)
  PROVE  s \o (t \o u) = s \o t \o u
<1>1. (s \o t) \o u = s \o (t \o u)
    BY ConcatAssociative
<1> QED
    BY <1>1

LEMMA FailureKeepsProfile == ProfileInv /\ WriteFails => ProfileInv'
<1> SUFFICES ASSUME ProfileInv, WriteFails PROVE ProfileInv'
    OBVIOUS
<1> USE DEF ProfileInv
<1>1. /\ flusher = "drained" /\ flusher' = "written" /\ exit = "no" /\ batch' = <<>> /\ failed'
      /\ UNCHANGED <<collector, sigintExit, flags, main, file, exit, history>>
    BY DEF WriteFails
<1>2. PICK n \in 0..Len(batch) : pending' = pending \o SubSeq(batch, 1, n)
    BY DEF WriteFails
<1> DEFINE some == SubSeq(batch, 1, n)
<1>3. file \o pending \in Seq(Log)
    BY ConcatProperties DEF ProfileTyped
<1>4. /\ some \in Seq(Log)
      /\ Ascending(file \o pending \o some) /\ UpTo(file \o pending \o some, cursor)
    BY <1>3, AscendingPrefix DEF ProfileTyped, LogInv, WrittenInOrder, Drained, Ascending
<1>5. pending' \in Seq(Log)
    BY <1>2, <1>4, ConcatProperties DEF ProfileTyped
<1>6. Drained' = file \o pending \o some
  <2>1. Drained' = (file \o (pending \o some)) \o <<>>
      BY <1>1, <1>2 DEF Drained
  <2>2. file \o (pending \o some) \in Seq(Log)
      BY <1>2, <1>5, ConcatProperties DEF ProfileTyped
  <2>3. file \o (pending \o some) = file \o pending \o some
    <3>1. file \in Seq(Log) /\ pending \in Seq(Log) /\ SubSeq(batch, 1, n) \in Seq(Log)
        BY <1>4 DEF ProfileTyped
    <3>2. \A s, t, u \in Seq(Log) : s \o (t \o u) = s \o t \o u
        BY ConcatRegroups
    <3>3. \A u \in Seq(Log) : file \o (pending \o u) = file \o pending \o u
        BY <3>1, <3>2, Zenon
    <3> QED
        BY <3>1, <3>3, Zenon
  <2> QED
      BY <2>1, <2>2, <2>3, ConcatEmptySeq
<1>7. ProfileTyped'
    BY <1>1, <1>5, EmptySeq DEF ProfileTyped, collector, history
<1>8. LogInv'
    BY <1>1, <1>4, <1>6 DEF LogInv, WrittenInOrder, Ascending, UpTo, collector
<1>9. PlacesInv' /\ SignalInv'
    BY <1>1 DEF PlacesInv, SignalInv, flags, collector, history
<1>10. NothingLost'
    BY <1>1 DEF NothingLost
<1> QED
    BY <1>7, <1>8, <1>9, <1>10

-----------------------------------------------------------------------------
(* The handler, and the end of run_eval.                                   *)

LEMMA SignalKeeps == ProfileInv /\ (SignalStop \/ SignalExit \/ EvalEnds \/ Join) => ProfileInv'
<1> SUFFICES ASSUME ProfileInv, SignalStop \/ SignalExit \/ EvalEnds \/ Join PROVE ProfileInv'
    OBVIOUS
<1> USE DEF ProfileInv
<1>1. UNCHANGED <<collector, thread, output, exit>> /\ exit = "no"
    BY DEF SignalStop, SignalExit, EvalEnds, Join, Evaluating
<1>2. /\ atStop' \in {atStop, Len(closed)} /\ atSignal' \in {atSignal, Len(closed)}
      /\ main' # main => main' # "joined" \/ flusher = "over"
      /\ sigint' \/ sigintExit => handler' = "returned"
      /\ sigintExit => atSignal' = atSignal
    BY DEF SignalStop, SignalExit, EvalEnds, Join, SignalInv, flags, history
<1>3. ProfileTyped'
    BY <1>1, <1>2 DEF ProfileTyped, collector, thread, output
<1>4. LogInv'
    BY <1>1 DEF LogInv, WrittenInOrder, UpTo, Drained, collector, thread, output
<1>5. PlacesInv' /\ SignalInv'
    BY <1>1, <1>2 DEF PlacesInv, SignalInv, collector, thread, output
<1>6. NothingLost'
    BY <1>1 DEF NothingLost
<1> QED
    BY <1>3, <1>4, <1>5, <1>6

LEMMA FinalKeeps == ProfileInv /\ (FinalDrain \/ FinalFails \/ FinalPoisoned) => ProfileInv'
<1> SUFFICES ASSUME ProfileInv, FinalDrain \/ FinalFails \/ FinalPoisoned PROVE ProfileInv'
    OBVIOUS
<1> USE DEF ProfileInv
<1>1. /\ main = "joined" /\ exit = "no" /\ exit' # "interrupted"
      /\ UNCHANGED <<closed, thread, flags, main, history>>
    BY DEF FinalDrain, FinalFails, FinalPoisoned, collector
<1>2. flusher = "over" /\ batch = <<>>
    BY <1>1 DEF PlacesInv
<1>3. CASE FinalDrain
  <2>1. /\ cursor' = Len(closed) /\ file' = file \o pending \o Undrained /\ pending' = <<>>
        /\ failed' = failed
      BY <1>3 DEF FinalDrain
  <2>2. file' \in Seq(Log)
      BY <1>2, <2>1, DrainedIs, UndrainedIs, ConcatProperties
  <2>3. Drained' = file'
      BY <1>1, <1>2, <2>1, <2>2, ConcatEmptySeq DEF Drained, thread
  <2>4. ProfileTyped'
      BY <1>1, <2>1, <2>2, EmptySeq DEF ProfileTyped, thread, history
  <2>5. LogInv'
      BY <1>2, <2>1, <2>3, DrainedIs DEF LogInv, WrittenInOrder, Ascending
  <2>6. PlacesInv' /\ SignalInv'
      BY <1>1, <1>2, <2>1 DEF PlacesInv, SignalInv, thread, flags, history
  <2>7. NothingLost'
      BY <1>1, <1>2, <2>1, DrainedIs DEF NothingLost, ProfileTyped, history
  <2> QED
      BY <2>4, <2>5, <2>6, <2>7
<1>4. CASE FinalFails \/ FinalPoisoned
  <2>1. /\ cursor' \in {cursor, Len(closed)} /\ UNCHANGED <<file, pending>>
        /\ failed' \/ (failed' = failed /\ cursor' = cursor /\ exit' = "panicked")
      BY <1>4 DEF FinalFails, FinalPoisoned, collector, output
  <2>2. Drained' = Drained
      BY <1>1, <2>1 DEF Drained, thread
  <2>3. ProfileTyped'
      BY <1>1, <2>1 DEF ProfileTyped, thread, history
  <2>4. LogInv'
    <3>1. UpTo(Drained, cursor')
      <4>1. Drained \in Seq(Log)
          BY ConcatProperties DEF ProfileTyped, Drained
      <4>2. \A i \in DOMAIN Drained : Drained[i].id \in Nat
          BY <4>1, LogEntries
      <4> QED
          BY <2>1, <4>2 DEF LogInv, UpTo, ProfileTyped
    <3> QED
        BY <2>1, <2>2, <3>1 DEF LogInv, WrittenInOrder, UpTo
  <2>5. PlacesInv' /\ SignalInv'
      BY <1>1, <1>2, <2>1 DEF PlacesInv, SignalInv, thread, flags, history
  <2>6. NothingLost'
      BY <1>1, <2>1 DEF NothingLost
  <2> QED
      BY <2>3, <2>4, <2>5, <2>6
<1> QED
    BY <1>3, <1>4

LEMMA NextProfileInv == ProfileInv /\ [Next]_vars => ProfileInv'
<1> SUFFICES ASSUME ProfileInv, [Next]_vars PROVE ProfileInv'
    OBVIOUS
<1>1. ASSUME NEW e \in Evaluators, Evaluator(e) PROVE ProfileInv'
    BY <1>1, EvaluatorKeeps
<1>2. CASE Flusher
    BY <1>2, WakeKeeps, DrainKeeps, FinishKeeps, WriteKeeps, FailureKeepsProfile DEF Flusher
<1>3. CASE SignalStop \/ SignalExit \/ EvalEnds \/ Ending
    BY <1>3, SignalKeeps, FinalKeeps DEF Ending
<1>4. CASE UNCHANGED vars
    BY <1>4 DEF vars, collector, thread, flags, output, history, ProfileInv, ProfileTyped, LogInv,
                WrittenInOrder, UpTo, Drained, PlacesInv, SignalInv, NothingLost
<1> QED
    BY <1>1, <1>2, <1>3, <1>4 DEF Next, Over

-----------------------------------------------------------------------------
(* Each span is written once and in order, by the flush thread or by the   *)
(* final drain of run_eval.                                                *)
THEOREM SpansAreWrittenInOrder == Spec => []WrittenInOrder
<1>1. ProfileInv => WrittenInOrder
    BY DEF ProfileInv, LogInv
<1> QED
    BY <1>1, InitProfileInv, NextProfileInv, PTL DEF Spec

(* No span that was opened before the end, or before Ctrl-C, is missing in *)
(* the file unless a write has failed.                                     *)
THEOREM NoSpanIsLost == Spec => []NothingLost
<1>1. ProfileInv => NothingLost
    BY DEF ProfileInv
<1> QED
    BY <1>1, InitProfileInv, NextProfileInv, PTL DEF Spec
=============================================================================
