-------------------------------- MODULE Fifo --------------------------------
(***************************************************************************)
(* What a bounded channel promises its users, whatever becomes of the      *)
(* calls on it: the values it accepts form one log, which is handed out    *)
(* from the front, each value once and to one receiver; it never holds     *)
(* more than its capacity; and a sender is told of each value whether it   *)
(* is in the log.                                                          *)
(***************************************************************************)
EXTENDS Naturals, Sequences

CONSTANTS
    Senders, Numbers,   \* a value is known by its sender and its number
    Capacity

Item == Senders \X Numbers

VARIABLES
    log,        \* the accepted values, in order
    taken,      \* how many of them have been handed out
    accepted,   \* the values whose sender was told that they are in the log
    refused     \* ... and that they are not

vars == <<log, taken, accepted, refused>>

Init ==
    /\ log = <<>>
    /\ taken = 0
    /\ accepted = {}
    /\ refused = {}

(* A sender offers its values one by one, in the order of their numbers.   *)
Offered(i) == \A j \in accepted \cup refused : j[1] = i[1] => j[2] < i[2]

Accept(i) ==
    /\ Offered(i)
    /\ Len(log) - taken < Capacity
    /\ log' = Append(log, i)
    /\ accepted' = accepted \cup {i}
    /\ UNCHANGED <<taken, refused>>

Refuse(i) ==
    /\ Offered(i)
    /\ refused' = refused \cup {i}
    /\ UNCHANGED <<log, taken, accepted>>

HandOut ==
    /\ taken < Len(log)
    /\ taken' = taken + 1
    /\ UNCHANGED <<log, accepted, refused>>

Next == (\E i \in Item : Accept(i) \/ Refuse(i)) \/ HandOut

Spec == Init /\ [][Next]_vars
=============================================================================
