----------------------------- MODULE MCChannels -----------------------------
(* The channels for TLC.  Two senders and two receivers share a bounded    *)
(* channel, two and three a oneshot channel, and two receivers a broadcast *)
(* channel.  The last of each runs under a token of its own.               *)
EXTENDS Channels

CONSTANTS s1, s2, r1, r2, r3, main, scoped

MCCtx == [p \in Procs |-> IF p \in {s2, r2} THEN scoped ELSE main]
MCOCtx == [r \in OReceivers |-> IF r = r3 THEN scoped ELSE main]
MCBCtx == [r \in Receivers |-> MCCtx[r]]
=============================================================================
