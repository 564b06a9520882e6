------------------------------- MODULE Delays -------------------------------
(***************************************************************************)
(* The arithmetic of with-timeout and with-deadline                        *)
(* (src/src/builtins_async.rs): how long the spawned task sleeps.  Times   *)
(* are nanoseconds in two's-complement integers; a release build wraps     *)
(* (src/Cargo.toml has no overflow-checks).                                *)
(***************************************************************************)
EXTENDS Integers

CONSTANTS
    MaxI,       \* i64::MAX
    MsNanos,    \* nanoseconds in a millisecond
    MaxTs,      \* jiff::Timestamp covers more than i64 nanoseconds
    Ints,       \* the deadlines given as Int (ms since the epoch)
    Stamps,     \* the deadlines given as Timestamp (ns since the epoch)
    Durations   \* the timeouts given as Duration (ns)

ConstantsAssumption ==
    /\ MaxI \in Nat /\ MsNanos \in Nat \ {0} /\ MaxTs \in Nat
    /\ Ints \subseteq -(MaxI + 1)..MaxI
    /\ Stamps \subseteq -MaxTs..MaxTs
    /\ Durations \subseteq 0..MaxI

VARIABLES
    clock,      \* the system clock
    wanted,     \* when the context should be cancelled; -1 before the call
    called,     \* when the builtin read the clock
    wakes       \* when the spawned task wakes up

vars == <<clock, wanted, called, wakes>>

MinI == -(MaxI + 1)
Width == 2 * (MaxI + 1)

Wrap(x) == ((x - MinI) % Width) + MinI
Saturate(x) == IF x > MaxI THEN MaxI ELSE IF x < MinI THEN MinI ELSE x
AtLeast(x, low) == IF x < low THEN low ELSE x

(* Mutant: the product wraps.                                              *)
IntDeadline_Wraps(n) == Wrap(n * MsNanos)

(* n.saturating_mul(1_000_000); ts.as_nanosecond() as i64                  *)
IntDeadline(n) == Saturate(n * MsNanos)
StampDeadline(ts) == Wrap(ts)

(* (deadline_unix_ns - now_ns).max(0) as u64                               *)
Delay(deadline) == AtLeast(Wrap(deadline - clock), 0)

(* (nanos / 1_000_000).max(1)                                              *)
TimeoutMs(d) == AtLeast(d \div MsNanos, 1)

TypeOK ==
    /\ clock \in 0..MaxI
    /\ wanted \in Int
    /\ called \in 0..clock
    /\ wakes \in Nat /\ called <= wakes

NoCall == -1

Init ==
    /\ clock \in 0..MaxI
    /\ wanted = NoCall
    /\ called = 0
    /\ wakes = 0

SleepFor(delay, deadline) ==
    /\ wanted = NoCall
    /\ wanted' = AtLeast(deadline, 0)
    /\ called' = clock
    /\ wakes' = clock + delay
    /\ UNCHANGED clock

WithDeadlineInt(n) == SleepFor(Delay(IntDeadline(n)), n * MsNanos)
WithDeadlineStamp(ts) == SleepFor(Delay(StampDeadline(ts)), ts)
WithTimeout(d) == SleepFor(TimeoutMs(d) * MsNanos, clock + d)

Tick ==
    /\ clock < MaxI
    /\ clock' = clock + 1
    /\ UNCHANGED <<wanted, called, wakes>>

Next ==
    \/ \E n \in Ints : WithDeadlineInt(n)
    \/ \E ts \in Stamps : WithDeadlineStamp(ts)
    \/ \E d \in Durations : WithTimeout(d)
    \/ Tick

Spec == Init /\ [][Next]_vars
-----------------------------------------------------------------------------
(* PROPERTIES                                                              *)

Called == wanted # NoCall

(* A context whose deadline has passed is cancelled at once                *)
(* (builtins_async.rs:2521).                                               *)
PastIsImmediate == Called /\ wanted <= called => wakes <= called + MsNanos

(* Nobody is cancelled more than a millisecond before its deadline, while  *)
(* the clock itself is in range.                                           *)
NotEarly ==
    Called /\ wakes <= clock /\ clock < MaxI => clock + MsNanos > wanted

(* The spawned task is awake a millisecond after the deadline.             *)
NotLate == Called /\ wanted > called => wakes <= wanted + MsNanos

(* A context is cancelled at its deadline: at once if that is past, and    *)
(* else within a millisecond of it (with-timeout, with-deadline).          *)
OnTime == PastIsImmediate /\ NotEarly /\ NotLate
=============================================================================
