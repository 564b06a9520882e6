------------------------------- MODULE Handoff -------------------------------
(***************************************************************************)
(* What a oneshot channel promises its users (doc/08-evaluation.md,        *)
(* oneshot-channel; Oneshot has where the code departs from it): it hands  *)
(* one value from one sender to one receiver.  The receiver that is told   *)
(* anything but "empty" while the channel is open closes it; it takes the  *)
(* value if there is one, hears that none will come, or had been           *)
(* cancelled, and then the value is lost.                                  *)
(***************************************************************************)
CONSTANTS Senders, Receivers, Contexts, Ctx, None

VARIABLES
    source,     \* the sender: "here", "used" or "dropped"
    value,      \* what was sent
    open,       \* there is a receiver for it
    told,       \* the answer to each task
    cancelled

vars == <<source, value, open, told, cancelled>>

Init ==
    /\ source = "here"
    /\ value = None
    /\ open = TRUE
    /\ told = [p \in Senders \cup Receivers |-> None]
    /\ cancelled = {}

Tell(p, v) == told' = [told EXCEPT ![p] = v]

Give(s) ==
    /\ told[s] = None
    /\ source = "here" /\ source' = "used"
    /\ IF open THEN value' = s /\ Tell(s, "sent")
       ELSE Tell(s, "receiver dropped") /\ UNCHANGED value
    /\ UNCHANGED <<open, cancelled>>

GiveAgain(s) ==
    /\ told[s] = None
    /\ source = "used"
    /\ Tell(s, "already used")
    /\ UNCHANGED <<source, value, open, cancelled>>

Drop ==
    /\ source = "here" /\ source' = "dropped"
    /\ UNCHANGED <<value, open, told, cancelled>>

Unanswered(r) == told[r] \in {None, "empty"}

Close(r, v) ==
    /\ Unanswered(r) /\ Tell(r, v)
    /\ open /\ open' = FALSE
    /\ UNCHANGED <<source, value, cancelled>>

Take(r) == value # None /\ Close(r, value)
End(r) == source = "dropped" /\ Close(r, "closed")
Abandon(r) == Ctx[r] \in cancelled /\ Close(r, "cancelled")

TooLate(r) ==
    /\ ~open
    /\ Unanswered(r) /\ \E v \in {"already used", "closed"} : Tell(r, v)
    /\ UNCHANGED <<source, value, open, cancelled>>

TooEarly(r) ==
    /\ Unanswered(r) /\ Tell(r, "empty")
    /\ UNCHANGED <<source, value, open, cancelled>>

Cancel(c) ==
    /\ cancelled' = cancelled \cup {c}
    /\ UNCHANGED <<source, value, open, told>>

Next ==
    \/ \E s \in Senders : Give(s) \/ GiveAgain(s)
    \/ Drop
    \/ \E r \in Receivers : Take(r) \/ End(r) \/ Abandon(r) \/ TooLate(r) \/ TooEarly(r)
    \/ \E c \in Contexts : Cancel(c)

Spec == Init /\ [][Next]_vars
=============================================================================
