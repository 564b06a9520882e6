------------------------------ MODULE Oneshot ------------------------------
(***************************************************************************)
(* A oneshot channel: src/src/value.rs, OneshotSenderInner and             *)
(* OneshotReceiverInner; builtin_oneshot_channel, the oneshot arms of      *)
(* builtin_send and builtin_recv, and builtin_try_recv_oneshot of          *)
(* src/src/builtins_async.rs.                                              *)
(*                                                                         *)
(* Each end is an Option behind a mutex.  send takes the sender out; recv  *)
(* takes the receiver out and keeps the mutex while it waits, so that      *)
(* whatever ends the wait also destroys the receiver.                      *)
(***************************************************************************)
EXTENDS Naturals, Sequences

CONSTANTS
    Senders, Receivers,     \* tasks that hold the sender / the receiver
    Contexts, Ctx,          \* the tokens the receivers run under
    None

Error == {"already used", "receiver dropped", "cancelled"}
Answers == Error \cup {"sent", "closed", "empty"}

(* No value of the channel looks like another answer: they are variants.   *)
ConstantsAssumption ==
    /\ Senders \cap Receivers = {}
    /\ None \notin Senders \cup Receivers \cup Answers
    /\ Senders \cap Answers = {}
    /\ Ctx \in [Receivers -> Contexts]

VARIABLES
    tx,         \* "here", "used" (taken by a send) or "dropped" (freed)
    rx,         \* "here", "taken" (by the recv that holds the lock), "gone"
    slot,       \* the value in transit: the sender it comes from
    holder, locking,        \* the receiver's mutex and its fair queue
    result,     \* what each task's call returned
    cancelled

vars == <<tx, rx, slot, holder, locking, result, cancelled>>

TypeOK ==
    /\ tx \in {"here", "used", "dropped"}
    /\ rx \in {"here", "taken", "gone"}
    /\ slot \in Senders \cup {None} /\ (tx = "here" => slot = None)
    /\ holder \in Receivers \cup {None}
    /\ locking \in Seq(Receivers)
    /\ result \in [Senders \cup Receivers ->
                      Senders \cup Answers \cup {None}]
    /\ cancelled \subseteq Contexts

Init ==
    /\ tx = "here"
    /\ rx = "here"
    /\ slot = None
    /\ holder = None
    /\ locking = <<>>
    /\ result = [p \in Senders \cup Receivers |-> None]
    /\ cancelled = {}

-----------------------------------------------------------------------------
Answer(p, v) == result' = [result EXCEPT ![p] = v]

Unlock ==
    IF locking = <<>>
    THEN holder' = None /\ UNCHANGED locking
    ELSE holder' = Head(locking) /\ locking' = Tail(locking)

Send(s) ==
    /\ result[s] = None /\ tx # "dropped"
    /\ IF tx = "used"
       THEN Answer(s, "already used") /\ UNCHANGED <<tx, slot>>
       ELSE /\ tx' = "used"
            /\ IF rx # "gone" THEN slot' = s /\ Answer(s, "sent")
               ELSE Answer(s, "receiver dropped") /\ UNCHANGED slot
    /\ UNCHANGED <<rx, holder, locking, cancelled>>

(* The last reference to an unused sender is freed.                        *)
DropSender ==
    /\ tx = "here"
    /\ tx' = "dropped"
    /\ UNCHANGED <<rx, slot, holder, locking, result, cancelled>>

-----------------------------------------------------------------------------
(* recv: receiver.lock().await                                             *)
RecvLock(r) ==
    /\ result[r] \in {None, "empty"} /\ r # holder
    /\ \A i \in 1..Len(locking) : locking[i] # r
    /\ IF holder = None
       THEN holder' = r /\ UNCHANGED locking
       ELSE locking' = Append(locking, r) /\ UNCHANGED holder
    /\ UNCHANGED <<tx, rx, slot, result, cancelled>>

Waiting(r) == holder = r /\ rx = "taken"

RecvTake(r) ==
    /\ holder = r /\ rx = "here"
    /\ rx' = "taken"
    /\ UNCHANGED <<tx, slot, holder, locking, result, cancelled>>

RecvUsed(r) ==
    /\ holder = r /\ rx = "gone"
    /\ Answer(r, "already used")
    /\ Unlock
    /\ UNCHANGED <<tx, rx, slot, cancelled>>

(* Mutant: the receiver is put back after it has delivered.                *)
RecvValue_PutsBack(r) ==
    /\ Waiting(r) /\ slot # None
    /\ Answer(r, slot)
    /\ rx' = "here"
    /\ Unlock
    /\ UNCHANGED <<tx, slot, cancelled>>

RecvValue(r) ==
    /\ Waiting(r) /\ slot # None
    /\ Answer(r, slot)
    /\ rx' = "gone"
    /\ Unlock
    /\ UNCHANGED <<tx, slot, cancelled>>

(* Mutant: a freed sender does not end the wait.                           *)
RecvClosed_Never(r) == FALSE /\ UNCHANGED vars

RecvClosed(r) ==
    /\ Waiting(r) /\ tx = "dropped" /\ slot = None
    /\ Answer(r, "closed")
    /\ rx' = "gone"
    /\ Unlock
    /\ UNCHANGED <<tx, slot, cancelled>>

(* Mutant: returns as if nothing had been sent.                            *)
RecvCancelled_SaysClosed(r) ==
    /\ Waiting(r) /\ Ctx[r] \in cancelled
    /\ Answer(r, "closed")
    /\ rx' = "gone"
    /\ Unlock
    /\ UNCHANGED <<tx, slot, cancelled>>

(* The cancellation drops the receiver, with the value if there is one.    *)
RecvCancelled(r) ==
    /\ Waiting(r) /\ Ctx[r] \in cancelled
    /\ Answer(r, "cancelled")
    /\ rx' = "gone"
    /\ Unlock
    /\ UNCHANGED <<tx, slot, cancelled>>

TryRecv(r) ==
    /\ result[r] \in {None, "empty"} /\ r # holder
    /\ \A i \in 1..Len(locking) : locking[i] # r
    /\ IF holder # None \/ (rx = "here" /\ slot = None /\ tx # "dropped")
       THEN Answer(r, "empty") /\ UNCHANGED rx
       ELSE /\ Answer(r, IF rx = "here" /\ slot # None THEN slot ELSE "closed")
            /\ rx' = "gone"
    /\ UNCHANGED <<tx, slot, holder, locking, cancelled>>

Cancel(c) ==
    /\ c \notin cancelled
    /\ cancelled' = cancelled \cup {c}
    /\ UNCHANGED <<tx, rx, slot, holder, locking, result>>

-----------------------------------------------------------------------------
RecvGoesOn(r) ==
    RecvTake(r) \/ RecvUsed(r) \/ RecvValue(r) \/ RecvClosed(r) \/ RecvCancelled(r)

Next ==
    \/ \E s \in Senders : Send(s)
    \/ DropSender
    \/ \E r \in Receivers : RecvLock(r) \/ RecvGoesOn(r) \/ TryRecv(r)
    \/ \E c \in Contexts : Cancel(c)

Spec == Init /\ [][Next]_vars

FairSpec == Spec /\ \A r \in Receivers : WF_vars(RecvGoesOn(r))
-----------------------------------------------------------------------------
(* PROPERTIES                                                              *)

Delivered == {r \in Receivers : result[r] \in Senders}

(* One value crosses the channel, once: a receiver that got it got the     *)
(* value of the one send that succeeded.                                   *)
OneValueOnce ==
    /\ \A s, t \in Senders : result[s] = "sent" /\ result[t] = "sent" => s = t
    /\ \A r, q \in Delivered : r = q
    /\ \A r \in Delivered : result[result[r]] = "sent"

(* If a send succeeded and no receiver is left, the value was delivered or *)
(* a receiver was told that it had been cancelled: nobody reads "closed"   *)
(* or "empty" for the last time and loses it.                              *)
NoSilentLoss ==
    slot # None /\ rx = "gone" =>
        Delivered # {} \/ \E r \in Receivers : result[r] = "cancelled"

(* A recv that has the receiver returns once a value is sent or the sender *)
(* is freed.                                                               *)
SettledRecvReturns ==
    \A r \in Receivers :
        Waiting(r) /\ (slot # None \/ tx = "dropped") ~> ~Waiting(r)
-----------------------------------------------------------------------------
(* DIVERGENCES: what the documentation or a comment says and this code     *)
(* does not do; TLC refutes each (README, Divergences).                    *)

(* A second send or recv returns [Closed] (doc/08-evaluation.md:1242).     *)
SecondUseIsClosed ==
    \A p \in Senders \cup Receivers : result[p] # "already used"

(* Cancelling a waiting recv does not close the channel: others can still  *)
(* send and receive on it (doc/08-evaluation.md:1212).                     *)
CancelLeavesOpen == \A s \in Senders : result[s] # "receiver dropped"
=============================================================================
