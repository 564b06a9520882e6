----------------------------- MODULE Broadcast -----------------------------
(***************************************************************************)
(* A broadcast channel: src/src/value.rs, BroadcastChannelInner;           *)
(* builtin_broadcast_channel, the broadcast arms of builtin_send and       *)
(* builtin_recv, and builtin_try_recv_broadcast of                         *)
(* src/src/builtins_async.rs.                                              *)
(*                                                                         *)
(* The handle keeps the sender only.  Every recv subscribes anew, takes    *)
(* one message and unsubscribes, so a task hears nothing between two calls *)
(* of recv.  Messages are numbered; tokio keeps the last Capacity of them  *)
(* (the capacity asked for, rounded up to a power of two).                 *)
(***************************************************************************)
EXTENDS Naturals, FiniteSets

CONSTANTS
    Receivers,
    Contexts, Ctx,
    Capacity,
    MaxMsg          \* bound: messages sent

ConstantsAssumption ==
    /\ Ctx \in [Receivers -> Contexts]
    /\ Capacity \in Nat \ {0}
    /\ MaxMsg \in Nat

NotListening == 0

VARIABLES
    sent,       \* messages accepted by the channel
    failed,     \* a send has reported "closed"
    from,       \* the next message of r's subscription, or NotListening
    polling,    \* the receivers inside try-recv-broadcast
    heard,      \* heard[r]: what its last call returned
    due,        \* due[r]: the message after the last it was told of; 0 at first
    cancelled

vars == <<sent, failed, from, polling, heard, due, cancelled>>

Heard == [kind : {"none", "message", "lagged", "empty", "cancelled"}, n : 0..MaxMsg]

Listening == {r \in Receivers : from[r] # NotListening}

TypeOK ==
    /\ sent \in 0..MaxMsg
    /\ failed \in BOOLEAN
    /\ from \in [Receivers -> 0..(MaxMsg + 1)]
    /\ polling \subseteq Listening
    /\ heard \in [Receivers -> Heard]
    /\ due \in [Receivers -> 0..(MaxMsg + 1)]
    /\ cancelled \subseteq Contexts

Nothing == [kind |-> "none", n |-> 0]

Init ==
    /\ sent = 0
    /\ failed = FALSE
    /\ from = [r \in Receivers |-> NotListening]
    /\ polling = {}
    /\ heard = [r \in Receivers |-> Nothing]
    /\ due = [r \in Receivers |-> 0]
    /\ cancelled = {}

-----------------------------------------------------------------------------
(* send: accepted if some recv is in progress, an error otherwise.         *)
Send ==
    /\ sent < MaxMsg
    /\ IF Listening = {}
       THEN failed' = TRUE /\ UNCHANGED sent
       ELSE sent' = sent + 1 /\ UNCHANGED failed
    /\ UNCHANGED <<from, polling, heard, due, cancelled>>

(* recv and try-recv-broadcast: subscribe() hears what is sent from now on.*)
Subscribe(r, poll) ==
    /\ from[r] = NotListening
    /\ from' = [from EXCEPT ![r] = sent + 1]
    /\ polling' = IF poll THEN polling \cup {r} ELSE polling
    /\ UNCHANGED <<sent, failed, heard, due, cancelled>>

Receiving == Listening \ polling

Oldest == IF sent > Capacity THEN sent - Capacity + 1 ELSE 1

Available(r) == Oldest <= from[r] /\ from[r] <= sent

(* The call returns v and its subscription is dropped; d is the message    *)
(* the caller expects next.                                                *)
Return(r, v, d) ==
    /\ heard' = [heard EXCEPT ![r] = v]
    /\ due' = [due EXCEPT ![r] = d]
    /\ from' = [from EXCEPT ![r] = NotListening]
    /\ polling' = polling \ {r}
    /\ UNCHANGED <<sent, failed, cancelled>>

(* Mutant: returns the oldest message that is kept, without a lag.         *)
RecvMessage_SkipsLag(r) ==
    /\ r \in Receiving /\ from[r] <= sent
    /\ LET n == IF Available(r) THEN from[r] ELSE Oldest
       IN  Return(r, [kind |-> "message", n |-> n], n + 1)

RecvMessage(r) ==
    /\ r \in Receiving /\ Available(r)
    /\ Return(r, [kind |-> "message", n |-> from[r]], from[r] + 1)

(* The message due has been overwritten: the lag is the number lost.       *)
RecvLagged(r) ==
    /\ r \in Receiving /\ from[r] < Oldest
    /\ Return(r, [kind |-> "lagged", n |-> Oldest - from[r]], Oldest)

RecvCancelled(r) ==
    /\ r \in Receiving /\ Ctx[r] \in cancelled
    /\ Return(r, [kind |-> "cancelled", n |-> 0], due[r])

(* try-recv-broadcast finds a message only if it was sent since the call   *)
(* subscribed; a lag is reported as empty.                                 *)
TryRecv(r) ==
    /\ r \in polling
    /\ IF Available(r)
       THEN Return(r, [kind |-> "message", n |-> from[r]], from[r] + 1)
       ELSE Return(r, [kind |-> "empty", n |-> 0], due[r])

Cancel(c) ==
    /\ c \notin cancelled
    /\ cancelled' = cancelled \cup {c}
    /\ UNCHANGED <<sent, failed, from, polling, heard, due>>

-----------------------------------------------------------------------------
RecvGoesOn(r) == RecvMessage(r) \/ RecvLagged(r) \/ RecvCancelled(r)

Next ==
    \/ Send
    \/ \E r \in Receivers : Subscribe(r, FALSE) \/ Subscribe(r, TRUE) \/ RecvGoesOn(r) \/ TryRecv(r)
    \/ \E c \in Contexts : Cancel(c)

Spec == Init /\ [][Next]_vars

RecvMayReturn(r) == RecvGoesOn(r) \/ TryRecv(r)

FairSpec == Spec /\ \A r \in Receivers : WF_vars(RecvMayReturn(r))

-----------------------------------------------------------------------------
(* PROPERTIES                                                              *)

(* What recv returns accounts for what was sent while it listened: the     *)
(* first message since it subscribed, or the number of messages it has     *)
(* lost.  A message that an earlier call of the receiver has returned or   *)
(* counted does not come again, though each call starts a subscription of  *)
(* its own (builtin_recv, broadcast arm).                                  *)
FirstSinceSubscribed ==
    [][\A r \in Receiving :
          from'[r] = NotListening =>
              /\ from[r] >= due[r]
              /\ \/ heard'[r] = [kind |-> "message", n |-> from[r]] /\ from[r] + Capacity > sent
                 \/ /\ heard'[r].kind = "lagged" /\ heard'[r].n > 0
                    /\ from[r] + heard'[r].n + Capacity = sent + 1
                 \/ heard'[r].kind = "cancelled" /\ Ctx[r] \in cancelled]_vars

(* A recv in progress returns once a message is sent or it is cancelled.   *)
RecvReturns ==
    \A r \in Receivers :
        r \in Receiving /\ (from[r] <= sent \/ Ctx[r] \in cancelled)
            ~> r \notin Receiving
-----------------------------------------------------------------------------
(* DIVERGENCES: what the documentation or a comment says and this code     *)
(* does not do; TLC refutes each (README, Divergences).                    *)

(* Every message is accepted: one sent before any subscriber is lost, and  *)
(* that is all (the example at builtins_async.rs:817).                     *)
SendNeverFails == ~failed

(* "Multiple subscribers each receive every sent value" or a lag in its    *)
(* place (doc/08-evaluation.md, broadcast-channel): once it has heard one, *)
(* a receiver is told of each message in turn.                             *)
HearsEverySentValue ==
    \A r \in Receivers : r \in Receiving /\ due[r] # 0 => from[r] <= due[r]
=============================================================================
