---------------------------- MODULE WatchChannel ----------------------------
(***************************************************************************)
(* watch-channel (src/src/builtins_async.rs, builtin_watch_channel): a     *)
(* background task looks at the modification time of a file every second   *)
(* and hands a null to a channel of one place when it differs from the one *)
(* it remembers; the consumer receives and reads the file.                 *)
(*                                                                         *)
(* Changes are numbered and give a new modification time each: the file is *)
(* known by the number of its last change, or is Absent.                   *)
(***************************************************************************)
EXTENDS Naturals

CONSTANTS
    MaxChanges      \* bound: changes of the file

ASSUME ConstantsAssumption == MaxChanges \in Nat

Absent == 0

VARIABLES
    made,       \* the number of the last change
    present,    \* it left a file behind
    task,       \* "spawned", "sleeping", "over", "failed" (an I/O error)
    last,       \* last_modified: the file remembered, or Absent (None)
    changedAt,  \* the change the task reported last; 0 if none
    full,       \* the channel holds a null
    consumer,   \* "working", "waiting" (in recv) or "notified"
    seenAt,     \* the last change when the consumer read the file
    cancelled

vars == <<made, present, task, last, changedAt, full, consumer, seenAt, cancelled>>
disk == <<made, present>>
watcher == <<task, last, changedAt>>

TypeOK ==
    /\ made \in 1..(MaxChanges + 1)
    /\ present \in BOOLEAN
    /\ task \in {"spawned", "sleeping", "over", "failed"}
    /\ last \in 0..made
    /\ changedAt \in 0..made
    /\ full \in BOOLEAN /\ (full => changedAt > 0)
    /\ consumer \in {"working", "waiting", "notified"}
    /\ seenAt \in 1..made
    /\ cancelled \in BOOLEAN

File == IF present THEN made ELSE Absent

(* watch-channel has returned and its task has not run; the consumer knows *)
(* the file.                                                               *)
Init ==
    /\ made = 1
    /\ present \in BOOLEAN
    /\ task = "spawned"
    /\ last = Absent
    /\ changedAt = 0
    /\ full = FALSE
    /\ consumer = "working"
    /\ seenAt = 1
    /\ cancelled = FALSE

-----------------------------------------------------------------------------
(* Someone writes, creates or removes the file.                            *)
Change ==
    /\ made <= MaxChanges
    /\ made' = made + 1
    /\ present' \in IF present THEN BOOLEAN ELSE {TRUE}
    /\ UNCHANGED <<watcher, full, consumer, seenAt, cancelled>>

Cancel ==
    /\ ~cancelled
    /\ cancelled' = TRUE
    /\ UNCHANGED <<disk, watcher, full, consumer, seenAt>>

-----------------------------------------------------------------------------
(* The task looks at the file for the first time.                          *)
Baseline ==
    /\ task = "spawned"
    /\ last' = File
    /\ task' = "sleeping"
    /\ UNCHANGED <<disk, changedAt, full, consumer, seenAt, cancelled>>

(* Mutants: sends nothing for a file that comes back;                      *)
(* a full channel makes it forget what it was about to report.             *)
PollFile_NeedsBaseline ==
    /\ task = "sleeping"
    /\ last' = File
    /\ full' = (full \/ (File # last /\ last # Absent))
    /\ changedAt' = IF File # last /\ last # Absent THEN made ELSE changedAt
    /\ UNCHANGED <<disk, task, consumer, seenAt, cancelled>>
PollFile_Toggles ==
    /\ task = "sleeping"
    /\ last' = File
    /\ full' = IF File # last THEN ~full ELSE full
    /\ changedAt' = IF File # last THEN made ELSE changedAt
    /\ UNCHANGED <<disk, task, consumer, seenAt, cancelled>>

(* A second has passed.  A change, a removal or a file that has come back  *)
(* is reported by try_send, and remembered even if the channel is full.    *)
PollFile ==
    /\ task = "sleeping"
    /\ last' = File
    /\ full' = (full \/ File # last)
    /\ changedAt' = IF File # last THEN made ELSE changedAt
    /\ UNCHANGED <<disk, task, consumer, seenAt, cancelled>>

(* metadata() fails with an error that is not NotFound: tx_clone is        *)
(* dropped and the task ends.                                              *)
PollFails ==
    /\ task \in {"spawned", "sleeping"}
    /\ task' = "failed"
    /\ UNCHANGED <<disk, last, changedAt, full, consumer, seenAt, cancelled>>

PollCancelled ==
    /\ task = "sleeping" /\ cancelled
    /\ task' = "over"
    /\ UNCHANGED <<disk, last, changedAt, full, consumer, seenAt, cancelled>>

-----------------------------------------------------------------------------
Recv ==
    /\ consumer = "working"
    /\ consumer' = "waiting"
    /\ UNCHANGED <<disk, watcher, full, seenAt, cancelled>>

(* Only a value or the cancellation ends the wait: the sender that the     *)
(* channel itself holds keeps it open.                                     *)
RecvReturns ==
    /\ consumer = "waiting"
    /\ \/ full /\ full' = FALSE /\ consumer' = "notified"
       \/ cancelled /\ consumer' = "working" /\ UNCHANGED full
    /\ UNCHANGED <<disk, watcher, seenAt, cancelled>>

Read ==
    /\ consumer = "notified"
    /\ seenAt' = made
    /\ consumer' = "working"
    /\ UNCHANGED <<disk, watcher, full, cancelled>>

-----------------------------------------------------------------------------
Next ==
    \/ Change \/ Cancel
    \/ Baseline \/ PollFile \/ PollFails \/ PollCancelled
    \/ Recv \/ RecvReturns \/ Read

Spec == Init /\ [][Next]_vars

(* The runtime runs the task, timers fire and the consumer goes on reading *)
(* the channel.                                                            *)
FairSpec ==
    /\ Spec
    /\ WF_vars(Baseline) /\ WF_vars(PollFile) /\ WF_vars(PollCancelled)
    /\ WF_vars(Recv) /\ WF_vars(RecvReturns) /\ WF_vars(Read)
-----------------------------------------------------------------------------
(* PROPERTIES                                                              *)

(* A consumer with nothing to receive has read the file after the last     *)
(* change the task took note of: a null dropped on a full channel loses no *)
(* change.                                                                 *)
NothingMissed == ~full /\ consumer # "notified" => changedAt <= seenAt

Interrupted == cancelled \/ task = "failed"

(* A version that the task has not taken for its baseline and that stays   *)
(* is read by the consumer.                                                *)
ChangeIsRead ==
    \A v \in 1..(MaxChanges + 1) :
        task = "sleeping" /\ File = v /\ v # last
            ~> seenAt >= v \/ File = Absent \/ Interrupted
-----------------------------------------------------------------------------
(* DIVERGENCES: what the documentation or a comment says and this code     *)
(* does not do; TLC refutes each (README, Divergences).                    *)

(* A null is sent whenever the file changes after watch-channel has        *)
(* returned (builtins_async.rs:1979), so the consumer gets to know it.     *)
EveryChangeReported == seenAt # made ~> seenAt = made \/ ~present \/ Interrupted

(* "Dropping tx_clone closes the channel so the consumer sees a closed     *)
(* channel" (builtins_async.rs:2078).                                      *)
FailureSeen == task = "failed" /\ consumer = "waiting" ~> consumer # "waiting"
=============================================================================
