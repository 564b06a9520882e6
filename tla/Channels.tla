------------------------------ MODULE Channels ------------------------------
(***************************************************************************)
(* The three kinds of channel.  A program opens one of them; the variables *)
(* of the others stay as they are.  The senders of the bounded channel are *)
(* those of the oneshot channel, and its receivers those of the broadcast  *)
(* channel.                                                                *)
(***************************************************************************)
EXTENDS Channel

CONSTANTS
    OReceivers, OCtx,       \* the receivers of the oneshot channel
    BCtx,                   \* the tokens of those of the broadcast channel
    MaxMsg

VARIABLES
    opened,                                                 \* which of them
    tx, rx, slot, oHolder, oLocking, result, oCancelled,    \* of Oneshot
    bSent, failed, from, polling, heard, due, bCancelled    \* of Broadcast

oVars == <<tx, rx, slot, oHolder, oLocking, result, oCancelled>>
bVars == <<bSent, failed, from, polling, heard, due, bCancelled>>

O == INSTANCE Oneshot WITH
         Receivers <- OReceivers, Ctx <- OCtx,
         holder <- oHolder, locking <- oLocking, cancelled <- oCancelled

B == INSTANCE Broadcast WITH Ctx <- BCtx, sent <- bSent, cancelled <- bCancelled

ASSUME OneshotAssumption == O!ConstantsAssumption
ASSUME BroadcastAssumption == B!ConstantsAssumption

OpenInit ==
    /\ Init /\ O!Init /\ B!Init
    /\ opened \in {"mpsc", "oneshot", "broadcast"}

OpenNext ==
    \/ opened = "mpsc" /\ Next /\ UNCHANGED <<opened, oVars, bVars>>
    \/ opened = "oneshot" /\ O!Next /\ UNCHANGED <<opened, vars, bVars>>
    \/ opened = "broadcast" /\ B!Next /\ UNCHANGED <<opened, vars, oVars>>

OpenSpec == OpenInit /\ [][OpenNext]_<<opened, vars, oVars, bVars>>

FairOpenSpec ==
    /\ OpenSpec
    /\ \A s \in Senders : WF_vars(opened = "mpsc" /\ SendGoesOn(s))
    /\ \A r \in Receivers : WF_vars(opened = "mpsc" /\ RecvGoesOn(r))
    /\ \A r \in OReceivers : WF_oVars(opened = "oneshot" /\ O!RecvGoesOn(r))
    /\ \A r \in Receivers : WF_bVars(opened = "broadcast" /\ B!RecvMayReturn(r))

-----------------------------------------------------------------------------
(* Oneshot: one value crosses the channel, once.                           *)
OneValueOnce == O!OneValueOnce

(* Oneshot: to its users a oneshot channel is a hand-over: whoever waits   *)
(* for the lock, holds it or has taken the receiver out of its cell.       *)
Hand == INSTANCE Handoff WITH
            Receivers <- OReceivers, Ctx <- OCtx,
            source <- tx, value <- slot, open <- rx # "gone",
            told <- result, cancelled <- oCancelled

ImplementsHandoff == Hand!Spec

(* Oneshot: a value that was sent is received, or its loss is reported.    *)
NoSilentLoss == O!NoSilentLoss

(* Broadcast: recv returns the first message since it subscribed, or the   *)
(* exact lag, and none twice.                                              *)
FirstSinceSubscribed == B!FirstSinceSubscribed

(* Oneshot and broadcast: a recv returns once it can be answered, by the   *)
(* value, by a message, by a lag or by the end of the channel.             *)
RecvsReturn == O!SettledRecvReturns /\ B!RecvReturns
=============================================================================
