------------------------------ MODULE Profile -------------------------------
(* `tinct run --profile`: the collector of spans (profiling.rs), the       *)
(* guard that opens and closes one around each force_step                  *)
(* (eval_materialize.rs, ProfilingSpanGuard), the thread that writes them  *)
(* to a file every few seconds, the SIGINT handler and the end of run_eval *)
(* (main.rs).  All evaluators, the main program and the tasks it has       *)
(* spawned, share one collector behind one mutex.                          *)
(*                                                                         *)
(* A span is its number, counted from 1.  What is written of it is that    *)
(* number and whether it had been closed when it was drained.              *)
EXTENDS Naturals, Sequences, SequencesExt

CONSTANTS
    Evaluators,     \* those who force thunks
    Main,           \* the one that runs under block_on
    Interval,       \* flush_interval_secs, in wakeups of the thread
    Unwinds,        \* a panic unwinds (it aborts in a release build)
    MaxSpans        \* bound: the number of spans ever opened

ASSUME ConstantsAssumption ==
    /\ Main \in Evaluators
    /\ Interval \in Nat \ {0}
    /\ Unwinds \in BOOLEAN
    /\ MaxSpans \in Nat

VARIABLES
    closed,         \* spans: for each span opened, whether it is closed
    openStack,      \* open_stack
    cursor,         \* drain_cursor: how many spans have been drained
    poisoned,       \* the mutex of the collector
    guards,         \* the ProfilingSpanGuards on each evaluator's stack
    status,         \* what each evaluator is doing
    flusher,        \* where the flush thread is
    ticks,          \* its wakeups since the last flush
    shouldStop,     \* the two flags as it has read them
    sigintExit,
    batch,          \* what it has drained and not written
    stop,           \* PROFILE_FLUSH_STOP
    sigint,         \* PROFILE_SIGINT_EXIT
    handler,        \* the SIGINT handler
    main,           \* run_eval: evaluating, joining the thread, ending
    pending,        \* records in the BufWriter
    file,           \* records in the file
    failed,         \* a write or a flush has failed
    exit,           \* how the process has ended
    atStop,         \* history: the spans opened when run_eval set the flag
    atSignal        \* history: the spans opened when the handler returned

collector == <<closed, openStack, cursor, poisoned>>
evaluation == <<guards, status>>
thread == <<flusher, ticks, shouldStop, sigintExit, batch>>
flags == <<stop, sigint, handler>>
output == <<pending, file, failed>>
history == <<atStop, atSignal>>
vars == <<collector, evaluation, thread, flags, main, output, exit, history>>

Spans == 1..MaxSpans
Records == [id : Spans, ended : BOOLEAN]

TypeOK ==
    /\ closed \in Seq(BOOLEAN) /\ Len(closed) <= MaxSpans
    /\ openStack \in Seq(1..Len(closed))
    /\ cursor \in 0..Len(closed)
    /\ poisoned \in BOOLEAN
    /\ guards \in [Evaluators -> Seq(1..Len(closed))]
    /\ status \in [Evaluators -> {"running", "unwinding", "dead"}]
    /\ flusher \in {"asleep", "stopRead", "sigintRead", "drained", "written", "over"}
    /\ ticks \in 0..Interval - 1
    /\ {shouldStop, sigintExit, stop, sigint, failed} \subseteq BOOLEAN
    /\ {batch, pending, file} \subseteq Seq(Records)
    /\ handler \in {"idle", "between", "returned"}
    /\ main \in {"evaluating", "joining", "joined"}
    /\ exit \in {"no", "clean", "interrupted", "panicked", "aborted"}
    /\ {atStop, atSignal} \subseteq 0..MaxSpans

Init ==
    /\ closed = <<>> /\ openStack = <<>> /\ cursor = 0 /\ poisoned = FALSE
    /\ guards = [e \in Evaluators |-> <<>>]
    /\ status = [e \in Evaluators |-> "running"]
    /\ flusher = "asleep" /\ ticks = 0
    /\ shouldStop = FALSE /\ sigintExit = FALSE /\ batch = <<>>
    /\ stop = FALSE /\ sigint = FALSE /\ handler = "idle"
    /\ main = "evaluating"
    /\ pending = <<>> /\ file = <<>> /\ failed = FALSE
    /\ exit = "no"
    /\ atStop = 0 /\ atSignal = 0

-----------------------------------------------------------------------------
(* The evaluators.                                                         *)

Evaluating(e) ==
    /\ exit = "no"
    /\ status[e] = "running"
    /\ e = Main => main = "evaluating"

Panics(e) ==
    IF Unwinds
    THEN /\ status' = [status EXCEPT ![e] = "unwinding"]
         /\ UNCHANGED exit
    ELSE /\ exit' = "aborted"
         /\ UNCHANGED status

(* force_step makes its guard: open_span under the lock.                   *)
OpenSpan(e) ==
    /\ Evaluating(e) /\ ~poisoned
    /\ Len(closed) < MaxSpans
    /\ closed' = Append(closed, FALSE)
    /\ openStack' = Append(openStack, Len(closed'))
    /\ guards' = [guards EXCEPT ![e] = Append(@, Len(closed'))]
    /\ UNCHANGED <<cursor, poisoned, status, thread, flags, main, output, exit, history>>

(* The guard that force_step made last is dropped when it returns.         *)
DropGuard(e) ==
    /\ Evaluating(e)
    /\ guards[e] # <<>>
    /\ guards' = [guards EXCEPT ![e] = Front(@)]

CloseSpan(e) ==
    /\ DropGuard(e) /\ ~poisoned
    /\ openStack # <<>> /\ Last(openStack) = Last(guards[e])
    /\ openStack' = Front(openStack)
    /\ closed' = [closed EXCEPT ![Last(guards[e])] = TRUE]
    /\ UNCHANGED <<cursor, poisoned, status, thread, flags, main, output, exit, history>>

(* close_span finds another span on top, or none: it panics, and since it  *)
(* holds the lock the mutex is poisoned.                                   *)
CloseMismatch(e) ==
    /\ DropGuard(e) /\ ~poisoned
    /\ openStack = <<>> \/ Last(openStack) # Last(guards[e])
    /\ openStack' = IF openStack = <<>> THEN <<>> ELSE Front(openStack)
    /\ poisoned' = TRUE
    /\ Panics(e)
    /\ UNCHANGED <<closed, cursor, thread, flags, main, output, history>>

(* lock().expect() on the poisoned mutex, by a guard that is made or       *)
(* dropped.                                                                *)
LockPoisoned(e) ==
    /\ poisoned
    /\ \/ DropGuard(e)
       \/ Evaluating(e) /\ UNCHANGED guards
    /\ Panics(e)
    /\ UNCHANGED <<collector, thread, flags, main, output, history>>

(* Unwinding drops the guards below.  Their lock().expect() panics again,  *)
(* and a panic while unwinding aborts.  tokio catches the panic of a task, *)
(* nothing that of the main program.                                       *)
Unwind(e) ==
    /\ exit = "no"
    /\ status[e] = "unwinding"
    /\ status' = [status EXCEPT ![e] = "dead"]
    /\ exit' = IF guards[e] # <<>> THEN "aborted"
               ELSE IF e = Main THEN "panicked" ELSE "no"
    /\ UNCHANGED <<collector, guards, thread, flags, main, output, history>>

-----------------------------------------------------------------------------
(* The flush thread.                                                       *)

(* It wakes up after a second and looks whether to stop.                   *)
Wake ==
    /\ exit = "no" /\ flusher = "asleep"
    /\ shouldStop' = stop
    /\ IF stop \/ ticks + 1 >= Interval
       THEN flusher' = "stopRead" /\ ticks' = 0
       ELSE flusher' = "asleep" /\ ticks' = ticks + 1
    /\ UNCHANGED <<collector, evaluation, sigintExit, batch, flags, main, output, exit, history>>

ReadSigint ==
    /\ exit = "no" /\ flusher = "stopRead"
    /\ sigintExit' = sigint
    /\ flusher' = "sigintRead"
    /\ UNCHANGED <<collector, evaluation, ticks, shouldStop, batch, flags, main, output, exit, history>>

(* drain_new: the spans from the cursor on, open or closed.                *)
Undrained == [i \in 1..Len(closed) - cursor |->
                  [id |-> cursor + i, ended |-> closed[cursor + i]]]

(* Mutant: the cursor stays.                                               *)
Drain_KeepsCursor ==
    /\ exit = "no" /\ flusher = "sigintRead"
    /\ ~poisoned
    /\ batch' = Undrained
    /\ flusher' = "drained"
    /\ UNCHANGED <<collector, evaluation, ticks, shouldStop, sigintExit, flags, main, output, exit, history>>

Drain ==
    /\ exit = "no" /\ flusher = "sigintRead"
    /\ ~poisoned
    /\ batch' = Undrained
    /\ cursor' = Len(closed)
    /\ flusher' = "drained"
    /\ UNCHANGED <<closed, openStack, poisoned, evaluation, ticks, shouldStop, sigintExit,
                   flags, main, output, exit, history>>

(* The thread ends; after a signal it ends the process.                    *)
Leave ==
    IF sigintExit THEN exit' = "interrupted" /\ UNCHANGED flusher
                  ELSE flusher' = "over" /\ UNCHANGED exit

DrainPoisoned ==
    /\ exit = "no" /\ flusher = "sigintRead"
    /\ poisoned
    /\ IF shouldStop THEN Leave ELSE flusher' = "over" /\ UNCHANGED exit
    /\ UNCHANGED <<collector, evaluation, ticks, shouldStop, sigintExit, batch, flags, main, output, history>>

(* The batch is written and the BufWriter flushed.                         *)
Write ==
    /\ exit = "no" /\ flusher = "drained"
    /\ IF batch = <<>>
       THEN UNCHANGED <<file, pending>>
       ELSE file' = file \o pending \o batch /\ pending' = <<>>
    /\ batch' = <<>>
    /\ flusher' = "written"
    /\ UNCHANGED <<collector, evaluation, ticks, shouldStop, sigintExit, flags, main, failed, exit, history>>

(* writeln! fails for one record and the rest of the batch is dropped, or  *)
(* all are in the BufWriter and flush fails.                               *)
WriteFails ==
    /\ exit = "no" /\ flusher = "drained"
    /\ batch # <<>>
    /\ \E n \in 0..Len(batch) : pending' = pending \o SubSeq(batch, 1, n)
    /\ failed' = TRUE
    /\ batch' = <<>>
    /\ flusher' = "written"
    /\ UNCHANGED <<collector, evaluation, ticks, shouldStop, sigintExit, flags, main, file, exit, history>>

(* Mutant: only a signal ends the thread.                                  *)
Finish_OnSignal ==
    /\ exit = "no" /\ flusher = "written"
    /\ IF sigintExit THEN Leave ELSE flusher' = "asleep" /\ UNCHANGED exit
    /\ UNCHANGED <<collector, evaluation, ticks, shouldStop, sigintExit, batch, flags, main, output, history>>

Finish ==
    /\ exit = "no" /\ flusher = "written"
    /\ IF shouldStop THEN Leave ELSE flusher' = "asleep" /\ UNCHANGED exit
    /\ UNCHANGED <<collector, evaluation, ticks, shouldStop, sigintExit, batch, flags, main, output, history>>

-----------------------------------------------------------------------------
(* The SIGINT handler: two stores, and other threads run in between.       *)

SignalStop ==
    /\ exit = "no" /\ handler = "idle"
    /\ stop' = TRUE
    /\ handler' = "between"
    /\ UNCHANGED <<collector, evaluation, thread, sigint, main, output, exit, history>>

SignalExit ==
    /\ exit = "no" /\ handler = "between"
    /\ sigint' = TRUE
    /\ handler' = "returned"
    /\ atSignal' = Len(closed)
    /\ UNCHANGED <<collector, evaluation, thread, stop, main, output, exit, atStop>>

-----------------------------------------------------------------------------
(* The end of run_eval.                                                    *)

EvalEnds ==
    /\ Evaluating(Main)
    /\ guards[Main] = <<>>
    /\ stop' = TRUE
    /\ main' = "joining"
    /\ atStop' = Len(closed)
    /\ UNCHANGED <<collector, evaluation, thread, sigint, handler, output, exit, atSignal>>

Join ==
    /\ exit = "no" /\ main = "joining"
    /\ flusher = "over"
    /\ main' = "joined"
    /\ UNCHANGED <<collector, evaluation, thread, flags, output, exit, history>>

(* Mutant: the thread has written everything, surely.                      *)
FinalDrain_Skipped ==
    /\ exit = "no" /\ main = "joined"
    /\ ~poisoned
    /\ file' = file \o pending
    /\ pending' = <<>>
    /\ exit' = "clean"
    /\ UNCHANGED <<collector, evaluation, thread, flags, main, failed, history>>

(* The final drain and flush.  Tasks may still be opening spans.           *)
FinalDrain ==
    /\ exit = "no" /\ main = "joined"
    /\ ~poisoned
    /\ cursor' = Len(closed)
    /\ file' = file \o pending \o Undrained
    /\ pending' = <<>>
    /\ exit' = "clean"
    /\ UNCHANGED <<closed, openStack, poisoned, evaluation, thread, flags, main, failed, history>>

FinalFails ==
    /\ exit = "no" /\ main = "joined"
    /\ ~poisoned
    /\ cursor' = Len(closed)
    /\ failed' = TRUE
    /\ exit' = "clean"
    /\ UNCHANGED <<closed, openStack, poisoned, evaluation, thread, flags, main, pending, file, history>>

FinalPoisoned ==
    /\ exit = "no" /\ main = "joined"
    /\ poisoned
    /\ exit' = "panicked"
    /\ UNCHANGED <<collector, evaluation, thread, flags, main, output, history>>

-----------------------------------------------------------------------------
Evaluator(e) == OpenSpan(e) \/ CloseSpan(e) \/ CloseMismatch(e) \/ LockPoisoned(e) \/ Unwind(e)
Flusher == Wake \/ ReadSigint \/ Drain \/ DrainPoisoned \/ Write \/ WriteFails \/ Finish
Ending == Join \/ FinalDrain \/ FinalFails \/ FinalPoisoned
Over == exit # "no" /\ UNCHANGED vars

Next ==
    \/ \E e \in Evaluators : Evaluator(e)
    \/ Flusher
    \/ SignalStop \/ SignalExit
    \/ EvalEnds
    \/ Ending
    \/ Over

Spec == Init /\ [][Next]_vars

(* The thread always wakes up again and a handler that has begun returns;  *)
(* an evaluation may take for ever.                                        *)
FairSpec == Spec /\ WF_vars(Flusher) /\ WF_vars(SignalExit) /\ WF_vars(Ending)

-----------------------------------------------------------------------------
(* PROPERTIES                                                              *)

Drained == file \o pending \o batch

(* The records are written in the order of the spans and none of them      *)
(* twice, by whichever of the two drains it was taken; unless a write has  *)
(* failed, everything up to the cursor is in the file or on its way        *)
(* (main.rs: "drain_new() here picks up only the remainder").              *)
WrittenInOrder ==
    /\ \A i, j \in DOMAIN Drained : i < j => Drained[i].id < Drained[j].id
    /\ failed \/ Len(Drained) = cursor

(* Unless a write failed, a program that ends by itself leaves every span  *)
(* in the file that was opened before it stopped the thread (main.rs: "the *)
(* final spans are always written"), and one that Ctrl-C has ended every   *)
(* span that was opened before the handler returned, if the collector is   *)
(* consistent (main.rs: "the file should contain all spans written so      *)
(* far").                                                                  *)
NothingLost ==
    ~failed =>
        /\ exit = "clean" => Len(file) = cursor /\ atStop <= cursor
        /\ exit = "interrupted" /\ ~poisoned => atSignal <= Len(file)

(* Nobody waits for ever: the join of run_eval returns and the process     *)
(* ends, and so it does after a signal that finds the thread asleep, even  *)
(* if the main program never returns from block_on.                        *)
StopEnds ==
    (main = "joining" \/ (handler = "returned" /\ flusher = "asleep")) ~> (exit # "no")

-----------------------------------------------------------------------------
(* DIVERGENCES                                                             *)

(* close_span finds the span it is to close on top of the stack            *)
(* (profiling.rs: a mismatch is a panic).  Evaluators share the stack.     *)
SpansNest == ~poisoned /\ exit # "aborted"

(* A span that is closed when a program ends by itself has its end in the  *)
(* file (doc/12-tooling.md: "Wall-clock microseconds at materialization    *)
(* end").  A drain takes open spans too and never comes back to them.      *)
EndsWritten ==
    exit = "clean" /\ ~failed =>
        \A i \in DOMAIN file : closed[file[i].id] => file[i].ended

(* When the handler has returned the process ends (main.rs: "wakes within  *)
(* 1 s, flushes, and calls _exit(130)").  A thread that reads the flags    *)
(* between the two stores takes the signal for the end of run_eval.        *)
SignalEnds == (handler = "returned") ~> (exit # "no")
=============================================================================
