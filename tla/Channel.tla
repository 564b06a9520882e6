------------------------------ MODULE Channel ------------------------------
(***************************************************************************)
(* A bounded channel (src/src/value.rs, ChannelInner; builtin_channel,     *)
(* builtin_send, builtin_try_send, builtin_recv, builtin_try_recv of       *)
(* src/src/builtins_async.rs).                                             *)
(*                                                                         *)
(* One value holds both ends.  A send races a permit of the buffer against *)
(* the sender's cancellation.  A recv first locks the receiving end, where *)
(* nothing cancels it, and then races the buffer against its cancellation; *)
(* try_recv gives up if it cannot lock at once.  The buffer with its       *)
(* permits and the fair mutex are tokio's.                                 *)
(***************************************************************************)
EXTENDS Naturals, FiniteSets, SequencesExt

CONSTANTS
    Senders, Receivers,
    Contexts,       \* cancellation tokens
    Ctx,            \* Ctx[p]: the token p runs under
    Capacity,       \* [channel n]
    MaxItems,       \* bound: the values each sender sends, in order
    None

Procs == Senders \cup Receivers
Item == Senders \X (1..MaxItems)

ASSUME ConstantsAssumption ==
    /\ Senders \cap Receivers = {}
    /\ None \notin Procs
    /\ Ctx \in [Procs -> Contexts]
    /\ Capacity \in Nat \ {0}
    /\ MaxItems \in Nat

VARIABLES
    buf,        \* the buffered values
    permits,    \* free places nobody has been promised
    waiting,    \* senders that wait for a permit, in order
    granted,    \* senders given a permit and not scheduled since
    holder,     \* the receiver that has locked the receiving end
    locking,    \* receivers that wait for the lock, in order
    next,       \* next[s]: the number of the value s sends next
    sent,       \* values whose send reported success
    refused,    \* values whose send reported [Full] or was cancelled
    delivered,  \* values handed to receivers, in order
    cancelled   \* the cancelled tokens

vars == <<buf, permits, waiting, granted, holder, locking, next, sent,
          refused, delivered, cancelled>>
receiving == <<holder, locking>>
sending == <<permits, waiting, granted>>

TypeOK ==
    /\ buf \in Seq(Item) /\ Len(buf) <= Capacity
    /\ permits \in 0..Capacity
    /\ waiting \in Seq(Senders)
    /\ granted \subseteq Senders
    /\ holder \in Receivers \cup {None}
    /\ locking \in Seq(Receivers)
    /\ next \in [Senders -> 1..(MaxItems + 1)]
    /\ sent \subseteq Item
    /\ refused \subseteq Item
    /\ delivered \in Seq(Item)
    /\ cancelled \subseteq Contexts

Init ==
    /\ buf = <<>>
    /\ permits = Capacity
    /\ waiting = <<>>
    /\ granted = {}
    /\ holder = None
    /\ locking = <<>>
    /\ next = [s \in Senders |-> 1]
    /\ sent = {}
    /\ refused = {}
    /\ delivered = <<>>
    /\ cancelled = {}

-----------------------------------------------------------------------------
SenderIdle(s) ==
    next[s] <= MaxItems /\ s \notin granted /\ ~Contains(waiting, s)
ReceiverIdle(r) == r # holder /\ ~Contains(locking, r)

(* A permit comes back: to the sender that has waited longest, if any.     *)
Release(g) ==
    IF waiting = <<>>
    THEN permits' = permits + 1 /\ granted' = g /\ UNCHANGED waiting
    ELSE /\ granted' = g \cup {Head(waiting)}
         /\ waiting' = Tail(waiting)
         /\ UNCHANGED permits

(* The call that sends the next value of s ends.                           *)
Push(s) ==
    /\ buf' = Append(buf, <<s, next[s]>>)
    /\ sent' = sent \cup {<<s, next[s]>>}
    /\ next' = [next EXCEPT ![s] = @ + 1]
    /\ UNCHANGED refused
Refuse(s) ==
    /\ refused' = refused \cup {<<s, next[s]>>}
    /\ next' = [next EXCEPT ![s] = @ + 1]
    /\ UNCHANGED sent

(* send, with room in the buffer; also a try_send that succeeds.           *)
SendNow(s) ==
    /\ SenderIdle(s) /\ permits > 0
    /\ permits' = permits - 1
    /\ Push(s)
    /\ UNCHANGED <<waiting, granted, receiving, delivered, cancelled>>

SendWait(s) ==
    /\ SenderIdle(s) /\ permits = 0
    /\ waiting' = Append(waiting, s)
    /\ UNCHANGED <<buf, permits, granted, receiving, next, sent, refused,
                   delivered, cancelled>>

SendResume(s) ==
    /\ s \in granted
    /\ granted' = granted \ {s}
    /\ Push(s)
    /\ UNCHANGED <<permits, waiting, receiving, delivered, cancelled>>

(* Mutant: the permit of a cancelled send is not given back.               *)
SendCancelled_KeepsPermit(s) ==
    /\ Ctx[s] \in cancelled
    /\ \/ SenderIdle(s) /\ UNCHANGED sending
       \/ /\ \E i \in DOMAIN waiting :
                waiting[i] = s /\ waiting' = RemoveAt(waiting, i)
          /\ UNCHANGED <<permits, granted>>
       \/ s \in granted /\ granted' = granted \ {s} /\ UNCHANGED <<permits, waiting>>
    /\ Refuse(s)
    /\ UNCHANGED <<buf, receiving, delivered, cancelled>>

(* The select! takes the cancellation, at once or while the send waits;    *)
(* dropping the send gives up its place or its permit.                     *)
SendCancelled(s) ==
    /\ Ctx[s] \in cancelled
    /\ \/ SenderIdle(s) /\ UNCHANGED sending
       \/ /\ \E i \in DOMAIN waiting :
                waiting[i] = s /\ waiting' = RemoveAt(waiting, i)
          /\ UNCHANGED <<permits, granted>>
       \/ s \in granted /\ Release(granted \ {s})
    /\ Refuse(s)
    /\ UNCHANGED <<buf, receiving, delivered, cancelled>>

TrySendFull(s) ==
    /\ SenderIdle(s) /\ permits = 0
    /\ Refuse(s)
    /\ UNCHANGED <<buf, sending, receiving, delivered, cancelled>>

-----------------------------------------------------------------------------
(* receiver.lock().await                                                   *)
RecvLock(r) ==
    /\ ReceiverIdle(r)
    /\ IF holder = None
       THEN holder' = r /\ UNCHANGED locking
       ELSE locking' = Append(locking, r) /\ UNCHANGED holder
    /\ UNCHANGED <<buf, sending, next, sent, refused, delivered, cancelled>>

Unlock ==
    IF locking = <<>>
    THEN holder' = None /\ UNCHANGED locking
    ELSE holder' = Head(locking) /\ locking' = Tail(locking)

Pop ==
    /\ buf # <<>>
    /\ buf' = Tail(buf)
    /\ delivered' = Append(delivered, Head(buf))
    /\ Release(granted)

RecvValue(r) ==
    /\ holder = r
    /\ Pop
    /\ Unlock
    /\ UNCHANGED <<next, sent, refused, cancelled>>

(* Mutants: the value taken before the cancellation is dropped; the lock   *)
(* is released and not passed on to the next in line.                      *)
RecvCancelled_DropsValue(r) ==
    /\ holder = r /\ Ctx[r] \in cancelled
    /\ IF buf = <<>> THEN UNCHANGED <<buf, sending>>
       ELSE buf' = Tail(buf) /\ Release(granted)
    /\ Unlock
    /\ UNCHANGED <<next, sent, refused, delivered, cancelled>>
RecvCancelled_LosesHandoff(r) ==
    /\ holder = r /\ Ctx[r] \in cancelled
    /\ holder' = None
    /\ UNCHANGED <<buf, sending, locking, next, sent, refused, delivered, cancelled>>

(* The select! takes the cancellation, even with a value in the buffer.    *)
RecvCancelled(r) ==
    /\ holder = r /\ Ctx[r] \in cancelled
    /\ Unlock
    /\ UNCHANGED <<buf, sending, next, sent, refused, delivered, cancelled>>

TryRecvValue(r) ==
    /\ ReceiverIdle(r) /\ holder = None
    /\ Pop
    /\ UNCHANGED <<receiving, next, sent, refused, cancelled>>

(* {empty: []}: nothing buffered, or the lock is taken.                    *)
TryRecvEmpty(r) ==
    /\ ReceiverIdle(r)
    /\ holder # None \/ buf = <<>>
    /\ UNCHANGED vars

Cancel(c) ==
    /\ c \notin cancelled
    /\ cancelled' = cancelled \cup {c}
    /\ UNCHANGED <<buf, sending, receiving, next, sent, refused, delivered>>

-----------------------------------------------------------------------------
Call ==
    \/ \E s \in Senders : SendNow(s) \/ SendWait(s) \/ TrySendFull(s)
    \/ \E r \in Receivers : RecvLock(r) \/ TryRecvValue(r) \/ TryRecvEmpty(r)
    \/ \E c \in Contexts : Cancel(c)

(* What a call in progress goes on with.                                   *)
SendGoesOn(s) == ~SenderIdle(s) /\ (SendResume(s) \/ SendCancelled(s))
RecvGoesOn(r) == RecvValue(r) \/ RecvCancelled(r)

Next ==
    \/ Call
    \/ \E s \in Senders : SendResume(s) \/ SendCancelled(s)
    \/ \E r \in Receivers : RecvGoesOn(r)

Spec == Init /\ [][Next]_vars

(* A woken future is polled; nobody has to start a call.                   *)
FairSpec ==
    /\ Spec
    /\ \A s \in Senders : WF_vars(SendGoesOn(s))
    /\ \A r \in Receivers : WF_vars(RecvGoesOn(r))
-----------------------------------------------------------------------------
(* PROPERTIES                                                              *)

(* A value is buffered or delivered, once, exactly if its send reported    *)
(* success; one that was refused or cancelled is never seen.               *)
ExactlyOnce ==
    LET all == delivered \o buf IN
    /\ ToSet(all) = sent
    /\ Cardinality(sent) = Len(all)
    /\ sent \cap refused = {}

(* Cancelled, refused and completed calls leave the places of the buffer   *)
(* accounted for, and no sender waits while there is a free place.         *)
PlacesConserved ==
    /\ permits + Cardinality(granted) + Len(buf) = Capacity
    /\ waiting # <<>> => permits = 0

(* The values of one sender are received in the order it sent them,        *)
(* whichever receivers take them and whichever sends fail.                 *)
SenderOrder ==
    LET all == delivered \o buf IN
    \A i, j \in 1..Len(all) :
        i < j /\ all[i][1] = all[j][1] => all[i][2] < all[j][2]

(* What its users see of the channel, whoever is cancelled or refused at   *)
(* whatever moment, is a queue: the values delivered and then those in the *)
(* buffer are its log (Fifo).                                              *)
Queue == INSTANCE Fifo WITH
             Numbers <- 1..MaxItems, log <- delivered \o buf,
             taken <- Len(delivered), accepted <- sent
ImplementsFifo == Queue!Spec

(* Someone gets a value that is in the buffer while a receiver waits whose *)
(* context is not cancelled.                                               *)
WaitingReceiverServed ==
    \A r \in Receivers :
        ~ReceiverIdle(r) /\ buf # <<>> ~>
            buf = <<>> \/ ReceiverIdle(r) \/ Ctx[r] \in cancelled
-----------------------------------------------------------------------------
(* DIVERGENCES: what the documentation or a comment says and this code     *)
(* does not do; TLC refutes each (README, Divergences).                    *)

(* A recv whose context is cancelled returns (eval.rs:312-314).            *)
CancelUnblocks ==
    \A r \in Receivers :
        ~ReceiverIdle(r) /\ Ctx[r] \in cancelled ~> ReceiverIdle(r)
=============================================================================
