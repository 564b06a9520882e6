# Tinct in TLA+

Tinct (`src/`) is a lazy, dict-first language: source text is parsed, desugared,
resolved, lowered and (advisorily) type-checked, and then evaluated by a CEK
machine over lazy cells.  All of that is sequential until a program says `task`,
`par`, `channel` or `with-timeout`: then several tokio tasks force the same
cells, wait for each other and are cancelled.  Most of these modules are about
that part: what happens when the steps of the evaluator, of the asynchronous
builtins, of the profiler's threads and of other processes interleave.  The others are
about sequential parts: the subtype check of the type checker and the unions
that it normalizes, which are compared with what the types mean, and the addresses
of names, which are computed before evaluation and followed during it, and are
compared with lexical scope.

`tlc -config X.cfg M` runs a check, `tlapm M.tla` checks the proofs of a module;
`PROJECT.json` lists the runs, the theorems, the hazards and, for every
definition, the lines it models.

## 1. Inventory

| part | state | operations | what is hard | what makes it correct |
|---|---|---|---|---|
| lazy cells (`value.rs`, `ThunkInner`) | pending state and owner behind a mutex, write-once result, `Notify` | `try_claim`, `reset`, `settle`, `settled` | every access is a separate step; the owner is read late | one evaluator per unsettled cell; a sleeper is woken |
| forcing (`eval.rs` `materialize`, `eval_materialize.rs` `force_step`) | a stack of claimed cells per task, guards, a depth limit | demand, claim, wait, detect a cycle, settle, unwind | cells shared between tasks, calls put back by `reset`, panics, depth | the result does not depend on the schedule; everybody gets one |
| task handles (`task`, `par`, `await`) | `TaskState` behind an async mutex | spawn, await | the mutex is held across an await with a placeholder in the state | one answer for all awaiters |
| bounded channels | ring, semaphore, the receiver behind a mutex | `send`, `recv`, `try-send`, `try-recv` | cancellation at any await, places and lock handed on | exactly once, in order, no place lost |
| oneshot channels | sender and receiver, each in an `Option` | the same | `take` before an await | one value, no silent loss |
| broadcast channels | ring, one subscription per call | `broadcast`, `recv`, `try-recv-broadcast` | lag; what is between two calls | nothing twice, losses counted |
| contexts and jobs (`with-cancel`, `with-timeout`, `with-deadline`, `cancel-task`, `cancel-root`, `drain`) | token tree, task registry | as named | jobs are spawned before they are registered; two drains | each job has an owner; drain returns and what it took is over |
| deadlines | none | conversion of times to a delay | width of i64 | never early, never late |
| event sources (`signal-channel`, `timer-channel`, `watch-channel`) | a loop task, a channel of one place, a baseline | poll, `try_send` | the channel is full; cancellation is ready too | the consumer is woken and reads what changed |
| transient builders (`value.rs`, `TransientBuilder`) | a frozen flag and a mutex around a map | `set`, `get-or`, `finish`, `freeze`, ... | the flag is read before the mutex is taken | one map, and it has what was reported as set |
| profiler (`profiling.rs`; `main.rs`, the flush thread and the SIGINT handler) | spans, a stack of the open ones and a drain cursor behind a mutex; two flags; a buffered file | open, close, drain, signal, stop and join | evaluators share one stack; two drains follow one cursor; a panic under the lock; a write fails | each span is written once, in order, and none is lost at the end or at Ctrl-C; the process ends |
| `write-atomic` (`builtins_io.rs`) | a temporary file and the target's name | create, write, sync, rename, remove | another call or process, a kill or a power failure between any two system calls | a reader finds one whole contents; what is left behind has a cause |
| subtype check (`bas.rs`) and unions (`type_infer.rs`) | the set of pairs assumed, two caps | `is_subtype`, union normalization | normal forms that grow past a cap, negation, coinduction | what is accepted holds of the values; a union keeps its meaning |
| names (`resolve.rs`, `symbol_table.rs`; `eval_core.rs`, `eval_dict.rs`, `eval_call.rs`, `eval_materialize.rs`) | the resolver's stack of frames; the evaluator's chains of frames with write-once slots, its continuations and cells | resolve, lower, evaluate, bind, match | two programs push frames, at different times, and only their number makes an address right; a frame is shared by all evaluations of a literal | a program has the value that lexical scope gives it |

How they interact: a task body forces cells; a channel operation forces its
arguments first; everything that waits races the wait against the cancellation
token of the calling context; the event sources register their loop in the
registry that `drain` empties; every `force_step` opens and closes a span of the
profiler.  The other components (parser, inference, formatter, networking, CLI)
are sequential or handed to the operating system and are listed in
`PROJECT.json` with the reason they are left out.

## 2. The modules

Every module says at its head which code it stands for.  Steps are as small as
the code's: a lock that is released between two accesses, an `await`, or a
separate atomic access each end a step; what happens under one lock without an
await is one action.  A system call is an action too.

| module | models | abstraction |
|---|---|---|
| `Thunk` | cells and forcing | a body is the set of cells it demands, the strict arguments of a builtin call it may turn into, and its own outcome |
| `LazyMemo` | the promise of a cell (abstract) | a write-once table of outcomes |
| `Promise` | the promise of a handle (abstract) | one answer, decided when the first awaiter is told |
| `TaskHandle` | `task`/`await` | the worker's outcome is one of ok, err, panicked |
| `Channel` | mpsc channels | a value is its sender and its number |
| `Fifo` | the promise of an mpsc channel (abstract) | a log, and how much of it has been handed out |
| `Oneshot`, `Broadcast` | the other two kinds | likewise |
| `Handoff` | the promise of a oneshot channel (abstract) | a value, and whether there is a receiver for it |
| `Shutdown` | tokens, jobs, registry, drain | a job is a loop or a timer |
| `Delays` | deadline arithmetic | integers of `MaxI`, milliseconds of `MsNanos` |
| `EventChannel`, `WatchChannel` | event sources | an event is its source and its number; a file is the number of its last change |
| `Builder` | transient builders | a value is the process that set it |
| `AtomicDict` | the promise of a builder (abstract) | a dict on which each call happens in one step |
| `Profile` | the profiler, its thread and its signal handler | a span is its number and whether it was closed when it was drained |
| `AtomicWrite` | `write-atomic` | contents are blocks marked with the call that wrote them; a file is named after the call that made it |
| `AtomicFile` | the promise of `write-atomic` (abstract) | what a reader finds, and what readers may have found before |
| `Subtype` | the subtype check, function by function, and what types mean | a fixed environment of type constructors; literals of ints and strings; a function that calls itself is a constant, with its rule as a definition |
| `SubtypeCheck` | questions and answers of `is_subtype_bas` | a question is a pair of types |
| `UnionNorm` | the normalization of unions, loop by loop | a member is a type of `Subtype` |
| `Surface` | the terms whose scoping is at issue | a literal is a number; a name is itself |
| `Scope` | resolution, and the machine that evaluates what is resolved | functions have one clause, as the lowerer makes them, and one rest at most; no guards, annotations other than defaults, or type classes; one task (`Thunk` has several) |
| `Handles`, `Channels`, `Sources`, `Shared` | compositions: the handle that is awaited and the jobs that are drained; the three kinds of channel; the event sources and the deadlines; the profiler, `write-atomic` and the builders | a behaviour opens one of them and the variables of the others stay as they are |
| `MCPrograms` | the programs that TLC runs | two names, binders two deep |
| `MC*` | instances for TLC | the constants; `MCLanguage` also composes the three sequential modules as `Channels` does the channels |
| `*_proofs`, `SequenceLemmas` | theorems and the lemmas they share | |

What is external (tokio's mpsc, oneshot, broadcast, `Mutex`, `Notify`,
`CancellationToken`) is modelled from how the code uses it: FIFO mutex and
semaphore queues, a value that a dropped `recv` has not taken, a `Notify` that
wakes those registered.  So is the file system of `AtomicWrite`: names bound to
files, data in memory until it is synced, and after a power failure any mixture
of what was and was not.  `map` marks such definitions as external.

`Thunk`, action by action: `Demand` and `DepthExceeded` are the
`Action::Materialize` arm of `run_with_stack`, or a call of `materialize()` from
Rust code (`Nested`); `CheckHit` / `CheckMiss` / `Claim` / `ClaimLost` /
`Recheck` / `OwnerIsSelf` / `OwnerIsOther` are the loop of `materialize` and
`force_step` line by line; `Listen` / `Confirm` / `Wake` are `settled()`;
`SetResult` / `ClearOwner` / `Notify` are `settle()`; `Reset` is the call put
back in `apply_cont`; `Panic` / `Unwind` are the drop of a `ThunkPanicGuard`.  A
frame with depth 1 is one that `materialize()` opened, with its guard; the others
are continuations, those of a call's function and strict arguments
(`PendingCallDispatch`, `BuiltinForceArg`) among them.  `Nested` are the cells
whose body is Rust code that calls `materialize()`.
Three approximations: unwinding a panic is one step per frame; the loops of
`force_step` and `materialize`, which differ only in who keeps the frame, share
their actions; and a body forces all that it demands in one of the two ways, so that a
builtin which has strict arguments and then calls `materialize()` is left out
(`Nested` cells have no strict arguments).  Its arguments can be written as demands
of the call, and the body as a cell of its own that the call demands.

`Profile`: `OpenSpan` / `CloseSpan` / `CloseMismatch` / `LockPoisoned` are the
`ProfilingSpanGuard` of `force_step`; the flush thread is a loop of wakeups that
reads the flags one after the other, drains, writes, and ends; the handler sets
its flags in two stores; run_eval sets the stop flag, joins and drains the rest.

`Subtype`: `RdnfRule`, `Distribute` and `NegateRdnf` bring a type into normal
form, `AtomRule` has a disjunct for each arm of `is_atom_subtype`, `sigma` is
threaded through the pairs of atoms in the order in which the code tries them,
and `MeaningRule` is the reference: whether a value has a type.  The functions that
call themselves or each other (`ToRdnf`, `IsAtomSubtype`, `IsSubtype`, `HasType`, ...)
are declared as constants, and what a call of one does is its rule.  Each `.cfg` gives
a function its rule for a value (`ToRdnf <- RdnfRule`), which ties the recursion, and
TLC evaluates it; the theorems assume that the functions follow their rules.  The
state machine of `SubtypeCheck` only puts one query to the check.

`UnionNorm`: `Flatten`, `Dedup`, `Strike` and `Collect` are the loops of
`typevalue_normalize_union_ctx`, one pass a step; a call without an
`InferenceContext` skips the third.  A member strikes out those below it only
while it is still there itself.

`Scope`: `Resolve` is the walk of `resolve.rs` and `lower.rs` over a term with the
stack of frames, and leaves in each `var` a depth and a slot.  `Eval*` are the
arms of `eval_core_expr` and `force_step`; `ForceCell` and `Memoize` claim and
settle a cell; `NextKey` / `DictDone` are `eval_dict_core`, which computes the
keys in the outer scope and then ties the knot; `Invoke` is `bind_args_thunks`,
with positional and named arguments, defaults and a rest, and `Refused` the calls
that it does not accept; `LetrecChainStep`, `MatchDispatch` and the pattern actions are the continuations
and the structural patterns of `eval_materialize.rs`.  A recursive call of
`materialize` from Rust code is a continuation here.  `Meaning` is the reference:
environments of named bindings, call by name, no addresses, no frames and no
cells; what a call binds is stated as the constraints of
`doc/04-functions.md` ("valid binding").

## 3. The runs

Distinct states in brackets.

| run | asks | bounds |
|---|---|---|
| `thunk_spawned` (121,185) | do three spawned tasks that share five cells agree, with no task evaluating what another does, no lost claim, no lost wakeup, no false cycle, every demand answered; is every settle a step of `LazyMemo` | three tasks with overlapping roots; a diamond, a builtin call with a strict argument, a self-cycle |
| `thunk_crashes` (267,678) | when bodies panic or hit the depth limit: is every value the right one, has a lost claim a failure as its cause, is every task that survives answered unless it waits for a lost claim | one body calls `materialize()`, the others force by continuations, two on a stack; one task under `block_on`; roots such that one task goes on where another has lost a claim |
| `thunk_stranded` (violation) | is what is claimed settled | see section 6 |
| `thunk_false_cycle` (violation) | is an apparent cycle one | see section 6 |
| `handles` (132,292) | awaited: is every step one of `Promise`, do awaiters agree, whatever is cancelled, does every await return; drained: ownership of handles, what a drain took is over, drain returns | three awaiters in two contexts: one in the race, one next, one behind; two tasks, two loops (one may panic), one timer, a chain of three contexts |
| `channels` (173,271) | mpsc: is every step one of `Fifo`, are places conserved, is a waiting receiver served; oneshot: is every step one of `Handoff`, no silent loss, a settled recv returns; broadcast: what a recv returns accounts for what was sent, and it returns | mpsc: two senders, two receivers in two contexts, capacity 2, three values each; oneshot: two senders, three receivers in two contexts; broadcast: two receivers, capacity 2, four messages, so a lag of one and of more |
| `sources` (517,203) | a watched file: nothing dropped that the consumer has not read, a version that stays is read; signals: a consumer is woken, at most one event is late, the tasks end; deadlines: not early, not late | four changes, each at any point of the polling; two signals, two events each; 7-bit integers, milliseconds of 4, every value from the epoch on |
| `shared` (802,936) | `write-atomic`: is every step one of `AtomicFile`, litter has a cause; builder: is every step one of `AtomicDict`; profiler: spans in order, once, none lost, the process ends | three calls of two processes, two blocks each, a kill of either process and a power failure anywhere; three processes, two keys; two evaluators, three spans, a flush at every second wakeup |
| `profile_nesting` (violation) | does each span close on top of the stack | see section 6 |
| `language` (336,105) | types: is what is accepted true of the values, is what is true of Boolean combinations accepted; does a normalized union keep its meaning, and has it no member too many; scoping: does each program end, with the value that lexical scope gives it | each of the 16,690 queries is a state, and 739 unions are normalized, with and without a context; caps of 64 conjunctions and depth 16 in place of 1024 and 256; 10,624 programs |
| `subtype_assumption` (violation) | soundness for two recursive types of which one holds the other | see section 6 |
| `scoping_reuse` (violation) | lexical scope when a dict literal is evaluated twice | see section 6 |

Why these bounds: each protocol has at most three roles that can be in
different positions (a holder, the next in line, one that arrives or is
cancelled), and each buffer is small enough to be full and to be drained within
the bound.  Messages, events, spans and blocks are numbered only to tell them
apart.  The values of `language` are enough to tell its types apart: for each
kind of type there is a value with and one without it, at the depth the types
have, and for functions every table over three results.  `TyCons` has a
constructor of each variance.

The programs of `language` nest two binders out of nine, under a call or a dict
that binds both names: a parameter (the only one, or the last, by name, after one
with a default), an arm (first or third, after arms that declare nothing and do
not match), an arm with a dict pattern that binds in the order opposite to the
slots, a dict entry (before or after its use), and dicts of a sequence with
positional and computed entries.  What is bound and what uses it are references,
leading dots among them, and literals.  Two binders are enough for a frame too
many or too few at one of them to show in a name that the other, or the outermost,
binds.  Calls are tried apart: six lists of parameters with none, one or two of
them optional or a rest, each with up to three positional and two named arguments;
functions called twice, and called where the names stand for something else.
Thirteen more programs are small, and most of them fail, each in its own way: a
wrong number of arguments, a missing or doubled key, a circle, no arm.  `Fuel`
bounds the reference semantics; 60 steps are more than any of the programs that
end need.

Deadlock is checked in `thunk_spawned`, `handles`, `shared` and
`language`, whose specifications let a finished system stutter and nothing else
(of `handles` this holds of the handle that is awaited; the jobs may stop anywhere):
in `language` this says that the machine is never stuck in the middle of a
program.  It is not checked in `thunk_crashes`, where tasks may wait for a lost claim
for ever; `SurvivorsAnswered` says that they stop for nothing else.  The others
model programs that may stop calling.

## 4. Fairness

tokio polls every woken task: a step that a task can take without anybody else's
help has weak fairness, per task (`Step`, `Await`, `RecvGoesOn`, `DrainGoesOn`,
`Poll`).  Not fair: starting a call, cancelling, dropping a sender, a panic, a
timer of unknown length, an event of the operating system.  `select!` chooses at
random between ready branches unless it is `biased`, so no liveness property
relies on one branch winning: fairness is of their disjunction.  Three runs
assume more and say so: `handles` that the task ends (`EndingSpec` of `TaskHandle`) for `EveryAwaitReturns`, the
consumer of `WatchChannel` goes on receiving, and a receiver of a broadcast
channel is polled (`RecvMayReturn`).  In `Profile` the flush thread, the end of
the process after its `_exit` and the steps of run_eval after the evaluation are
fair, for they are threads of the operating system that wait for nothing but
each other; evaluation is not, for it may run for ever.

Where a module composes several components (`FairHandlesSpec`, `FairOpenSpec` of
`Channels`, `FairSourceSpec`, `FairSharedSpec`) the fairness of each is that of its
own specification under the condition that it is the one opened
(`WF_oVars(opened = "oneshot" /\ ...)`); the others never take a step, so this
asks of them nothing and of the one opened what it asks for itself.

## 5. The proofs

The theorems hold for every value of the constants that satisfies the assumptions
of the module (TLC evaluates them in the runs), with no bound on tasks, cells,
channels, contexts, calls or spans.  What a theorem assumes beyond that is in its
statement: `Orderly`, `Ordinary`, `~Coarse` and `InRange`, and of types
what is explained below.  Of the 40 properties that the passing runs check, the
theorems state every invariant but `Lexical` and `LostHasCause`, every action
property, and all six refinements.

* `Thunk_proofs`: `TypeCorrect` needs `DepthBound` (a frame is no deeper in its
  continuation stack than in the whole stack), without which the guarded frame
  that `DepthExceeded` cuts back to might not exist.  With the types,
  `NoLostWakeup` is inductive: a task falls asleep only after it has seen no
  result, and whoever sets the result is then at `clear` or `notify` with that
  cell as its target until it has woken the listeners.
  `EvaluatorIsUnique` rests on `ClaimInv`: a thunk that a frame evaluates is
  `taken`, so the next claim finds nothing, and `Reset` parks or pops the frame
  in the step that puts a state back; every other step only cuts stacks (`Cut`).
  `ClaimedAreEvaluated` and `CyclesAreReal` need to know why a frame leaves a
  stack.  `StackInv` says that each frame is there because the one below still
  wants its thunk, and that what a task settles is its top frame or a thunk that
  frame wants; hence the frame `Notify` pops is settled.  `Held` adds that what
  is taken or owned is evaluated by a frame on a stack, not only by one that has put
  its call back (`Reset`), and that a task which notifies owns its target
  no more.  Both theorems assume `Orderly`: no abnormal exits, or every forcing
  guarded.  Without it `ClaimedIsEvaluated` is false (`thunk_stranded`); what
  is left of it then, `LostHasCause`, is model-checked.  The false cycle is what remains
  of `CycleIsReal` under `block_on`, which `CyclesAreReal` excludes.
  `ForcingImplementsMemo` shows that every step of `Thunk` is a step of `LazyMemo`
  or leaves the results alone, and `ForcingIsConfluent` that a result, and whatever
  a task was given, is `Den`, the one outcome that the graph of demands gives the
  cell.  Both assume `Ordinary`: no abnormal exits and no task under `block_on`.
  The invariant is `MemoStrong`.  What a frame no longer demands has a value
  (`FramesInv`), so a task that settles its top frame with a value has what
  `Succeed` asks for; a task that settles with an error has a body that fails, or
  a need that did, or is on a circle (`SettleInv`).  That it is on a circle when
  `CycleIsReal` reports one takes `StackInv`: from the frame that owns the cell up to
  the top each frame needs the one above, and the top needs the first again.  That
  set of cells witnesses `Circular` of `LazyMemo`, and `DenAssumption` gives every
  cell on it the outcome err.  The delicate part is a cell that is settled while a
  frame for it is still on a stack: `Doomed` says that it is then settled as err
  and its task is failing, frame by frame, or that its task is between `SetResult`
  and `Notify` for it, so that no second settle changes a result.
  Without `Ordinary` both are false: a depth error is not the outcome of the
  graph, and neither is the false cycle of section 6.  What is left of them then is
  `NoWrongValue`, which assumes nothing: whatever panics, grows too deep or is
  taken for a cycle, what is settled or returned as a value is right; only the
  errors depend on the schedule.  `RightInv` is why: what a frame no longer demands
  has a value in `Den`, except for the top frame of a task that is failing it, and
  a call that `reset()` has put back is one whose body's demands have been met.
* `TaskHandle_proofs`: `HandleInv` ties the mutex to the state: an awaiter races
  exactly when it holds the mutex, the placeholder is in the cell exactly while
  somebody does, nobody is answered while the cell is unsettled, and what the
  cell caches is the outcome or a cancellation with a cause among those
  answered.  `AnswersAgree`, `AnswersAreEarned` and `AnswerIsFinal`, an action
  property, follow from it.
  `HandleIsPromise` is the refinement: the answer of `Promise` is that of the awaiters
  that have been told one, which `OneAnswer` makes one (`UntoldInv`: the others have
  none).  The step that tells the first is `Decide`; `HandleInv` is why what it
  tells is the outcome or a cancellation of its own, and why a later one, which
  reads the cell after another has filled it, is a `Repeat`.
* `Channel_proofs`: `ChannelInv` is `TypeOK /\ LogInv /\ PlacesInv`.  `LogInv`
  adds to `ExactlyOnce` and `SenderOrder` that a number a sender has used is
  below its next one, so that what is appended is new and the latest of its
  sender; `PlacesInv` adds to `PlacesConserved` that a sender stands in the
  queue once and not at all while a place is granted to it.
  `ChannelIsFifo` is the refinement: what has been delivered, followed by the
  buffer, is the log of `Fifo`.  A send that ends is `Accept` or `Refuse`, a receive
  that takes a value `HandOut`; waiting, locking and a receive that is cancelled
  are not seen.  That `Accept` finds room and the next number takes both parts of
  `ChannelInv`.  It implies `ExactlyOnce` and `SenderOrder`, and `channels` checks
  it in place of them; both are proved apart too (`ValuesPassOnce`,
  `ValuesPassInOrder`), being what it is proved from.
  Of the oneshot channel, `OneshotInv` is `LockInv` (who waits in line for the lock
  or holds it has no answer yet, and the receiver is out of its cell only while
  somebody holds the lock) and `CrossInv` (the value in the slot is that of the one
  sender that was told so, and whoever got a value has taken the receiver with it).
  `OneshotIsHandoff` maps it to `Handoff`: the channel is open while the receiver is
  not dropped, whether it is in its cell or a call has it, so that the step in which
  a call answers is the one that closes.  It implies the older action property,
  that one value crosses once, which is proved apart (`OneshotCrossesOnce`).
  Of the broadcast channel, `HeardInv`: a subscription starts behind the last
  message sent, and never before one that its receiver has accounted for.
  `FirstSinceSubscribed`, an action property, follows.
  `ChannelsStayApart` says that a behaviour of `Channels` is one of each kind, so
  that what is proved of the specification of a kind holds in the composition that
  `channels` checks; `HandlesStayApart`, `SourcesStayApart` and `SharedStayApart` say
  so of theirs.
* `Shutdown_proofs`: `ShutdownInv` adds to `OneOwner` that a handle anywhere is
  that of a started job, that one not yet registered is nowhere else, that a
  task which is not draining has an empty list, and that what a drain has taken
  is still on its list or has ended.
* `WatchChannel_proofs`: `WatchInv`, which is `TypeOK /\ NothingMissed`: the
  type invariant knows that a full channel means a reported change.
  Of signals and timers, `EventInv`: an event that has been dropped found the
  channel full, and a task that has sent one after the cancellation looks for the
  cancellation before it polls again (`LateInv`), which is what the `biased` of its
  `select!` is for.  Of deadlines, `DelaysInv`: in range, neither the wrapping of
  the subtraction nor the truncation to milliseconds moves the wakeup by more than
  a millisecond.  `DeadlinesAreKept` assumes `InRange`: deadlines that are not
  before the epoch and fit an i64 of nanoseconds.  The two instances of `OnTime` in
  section 6 are those outside, and there it is false.
* `Shared_proofs`, of `write-atomic`: `WriteInv` says what is in which file.  A call writes to
  the file with its own name (`StampsDiffer`: two calls of a process have not
  read the same time, which is the assumption `~Coarse`), that file holds the
  blocks the call has written so far (`FileHolds`), and every file that the
  target's name has been bound to, before or after a power failure, is whole and
  synced (`IsWhole`).  The code syncs before it renames: without that step
  `IsWhole` is lost at a power failure, and that is what the mutant does.
  `WritesAreAtomic` is the refinement of `AtomicFile`: the rename is `Replace`, and it
  gives the file the contents of a call because the file it renames is whole; every
  other step of a call changes nothing that a reader sees, and after a power failure
  the name is bound to a file that it was bound to before, whose data, being
  synced, are there.  `TargetIsWhole` follows and is proved apart.
  Of the builders, `BuilderInv` is `PhaseInv`, `WinnerInv` (one task has set the
  flag, and the map is taken by it alone) and `MapInv` (once taken the map does not
  change, whatever is in it was put there by a call that reported it, and who asked
  for a key with a default was given what is there).
  `BuilderIsAtomicDict` is the refinement of `AtomicDict`.  An operation happens
  when it has the mutex; the flag it has read before that is why the calls that began
  while the dict was open may still happen until `finish` takes the map
  (`TakenInv`: the one that takes it finds it there).  `ReportsAreFinal` (a key
  reported as set is in the final map, unless a call reported that it deleted it,
  and a refused call has left nothing there) and `DefaultsAgree` follow and are proved apart.
  Of the profiler, `ProfileInv` is `Typed`, `LogInv`, `PlacesInv`, `SignalInv`
  and `NothingLost`.  `LogInv` says that file, buffer and batch, one after the
  other, are in order and, unless a write failed, are exactly the spans up to
  the cursor; `PlacesInv` where the thread can be for what it holds and has read
  of the flags; `SignalInv` that a handler that has returned has set both flags
  and that a thread which leaves for the signal has drained after that.  These
  are about any number of evaluators and spans, panics included; they assume
  nothing.  `shared` checks the same two properties, `WrittenInOrder` and
  `NothingLost`, of its instance.
* `Types_proofs`: `AcceptedIsWithin` is `Sound` for all types but the recursive ones: a
  type that the check takes for a subtype has no value that the other has not.
  The check answers by looking for what one type has and the other has not
  (`Difference`).  `RdnfIsExact` says that the normal form of a type holds for its
  values and no others, by induction on the size of types, with one lemma for each
  operation on normal forms (`HoldsAll`, `DistributeHolds`, `ProductHolds`,
  `NegateHolds`), themselves inductions over lists; so it is enough that a
  conjunction which is refuted has no values (`ConjunctionIsSound`).  It is refuted
  by two atoms that are disjoint (`DisjointIsSound`), or by an atom that is below
  another (`AtomIsSound`), which is right if the verdicts are on what the two are
  made of, contravariant in the parameters of functions and in the arguments of some
  constructors.  These verdicts are taken one deeper, and at the limit no pair of
  atoms is accepted: from there the verdicts are right at each depth, down to the 0 at which
  the check begins (`CheckIsSound`).
  It assumes that the functions of the check follow the rules of `Subtype`
  (`Rules`), as those do that the configurations give; that types are finite and without
  inference variables (`Built`), apply constructors that there are, and are not named
  like the built-in forms (`WellFormed`); that what a value is made of is a value;
  that no product reaches the cap (`WithinTheCap`, in `Rules`); and that
  no pair of atoms comes up, in any comparison on the way
  (`ClosedUnderQuestions`), that the code takes for what it is not (`NothingMisjudged`).
  `Misjudged` and `Alias` are the six kinds of such pairs; section 6 has each.  Of the
  16,690 queries of `language` 16,595 have no recursive type in them, and all of these
  satisfy what the theorem assumes: 6,949 of them are accepted, of the others 40.
  `sigma` plays no part in this, for only recursive types are assumed; what it does is
  model-checked (`language`), and wrong in `subtype_assumption`.
  `ContainedIsAccepted` is `Complete`, which asks two things.  Of a Boolean combination
  of nominal types and integers that has no value which the other has not
  (`BooleansAreComplete`): by `RdnfIsExact` each conjunction of the difference is empty,
  and one that is not refuted is not, by `ConjunctionIsComplete`.  That is where the
  values count (`EnoughValues`): there is one of each integer of the types, one
  of each nominal type that is none of these integers, and one that is of none of the
  types.  And of a finite type that is compared with its copy (`CopiesAreAccepted`):
  `ProductIsMadeOf` says that each conjunction of a product has one of each factor in
  it, so one of the type without itself has some conjunction of the type in it, and
  the opposite of an atom of that (`CopyIsRefuted`); the two refute it, for an atom is
  below itself if the types it is made of are (`AtomIsBelowItself`), by induction on how
  deep that goes.  `Copyable` says that this is less than the depth limit and that
  there is no variant among them, which the code does not find below its copy:
  `is_atom_subtype` compares a variant with nominal types only (section 6).  The values
  have no part in the second of the two, nor does `NothingMisjudged` in either.  All 16,595
  finite queries of `language` satisfy these assumptions too: 12,997 of them compare Boolean
  combinations, of which 6,051 are subtypes, and 201 a type with its copy.
  `UnionsKeepTheirMeaning` and `NothingIsLeftOver` are about the normalization.  The
  invariant of the first, `Meaning`, says at each loop that the values of the members
  given are those of what it has not come to and of what it has made.  For the third
  loop this says that a member that has been struck out is below one that is left: it
  was struck out by one that was left then, and if that one goes later, it goes for
  one above it.  That of the second, `Reduced`, says that a member that the loop has
  passed and that is left has nothing below it that is left.
  The first assumes that the verdicts are sound (`VerdictsAreSound`) on a set of types that
  holds the members of the unions given and of the unions among them (`Closed`), and
  that a union has the values of its members (`UnionsMeanMembers`).
  `CheckedUnionsKeepTheirMeaning` puts the two parts together: it takes both from
  the subtype check, under the assumptions of `AcceptedIsWithin`.  `NothingIsLeftOver`
  assumes nothing of the verdicts, not even that they are transitive.

Three theorems are the part of a liveness property that is an invariant.
`LockIsPassedOn`, of the handle and of the bounded channel, and
`OneshotLockIsPassedOn` say that whoever waits for a lock that is held across an
await stands in line once, and that some call can always go on: one that has the
lock, or in `TaskHandle` the next in line, free to take it.  What
fairness then makes of that (`EveryAwaitReturns`, `WaitingReceiverServed`,
`RecvsReturn`) is model-checked.  A call that left without handing the lock on would
break the invariant (`LineInv`, and `LockInv` of the oneshot channel).

`SequenceLemmas` states once what appending, taking the tail and removing an
element do to the set of elements, to injectivity and to concatenation.

Only model-checked: the nine liveness properties of the runs, for fairness and
ENABLED are out of the prover's reach; `LostHasCause`; `Sound` of recursive types, which have no
size to make an induction on, and `Complete` of their copies; and
`Lexical`, for `Scope` is recursive in its terms and compares two machines on every program.  The instances outside
`Orderly` and `Ordinary` in which something still holds are those of `thunk_crashes`.

## 6. Divergences

Where a document or a comment of the repository says something that the code
does not do.  Five are runs of their own:

* **Lost claims** (`thunk_stranded`, `ClaimedIsEvaluated`).  Only a cell that
  `materialize()` has claimed has a guard.  Those that `force_step` claims
  (`eval_materialize.rs:604`) are held by a continuation, and when `run_with_stack`
  gives up at the depth limit (`eval_materialize.rs:3901`) it drops its continuations:
  the cells stay claimed, unsettled, and nobody evaluates them.
  `doc/internals/thunk.md:65` says that the winner of `try_claim()` must settle and that
  the guard enforces it.  A panic loses claims in the same way (`Crashes = {"panic"}` in the
  same cfg; against `doc/proofs/thunk_lifecycle.md:14`).  The consequence: every
  task that demands such a cell later waits for ever, or, if the owner it reads is
  its own id, reports a circular dependency that is none.  So `EveryDemandAnswered`, and even
  that every task which survives is answered, fail here; `thunk_crashes` shows
  how far it goes: a claim is lost only below a failure (`LostHasCause`), only those wait
  that need a lost cell, directly or through tasks that do (`SurvivorsAnswered`), and nobody
  is given a wrong value.

* **False cycle** (`thunk_false_cycle`, `CycleIsReal`).  `eval.rs:1964` takes
  "no owner, and I run under `block_on`" for "I am the owner".  `settle()`
  clears the owner after it sets the result, so a main program that misses the
  result and reads the owner a moment later reports a circular dependency for a
  cell that another task has just settled; the comment at `eval.rs:1917` says
  that it waits.  A cell that is settled keeps its value, but the error is what
  the force returns.  `reset()` clears the owner too.
* **Spans that do not nest** (`profile_nesting`, `SpansNest`).  The stack of open
  spans is one for all evaluators: with `--profile`, a program whose tasks force
  at the same time closes a span that is not on top, and `close_span`
  (`profiling.rs:426`) panics under the lock.
* **A hypothesis that outlives its proof** (`subtype_assumption`, `Sound`).  The
  pair of recursive types that `is_atom_subtype` assumes stays in `sigma` when the
  comparison has failed (`bas.rs:1324`), and the alternatives tried next are
  tried under it.  The comment at `bas.rs:1316` excludes it.
* **A literal has one frame** (`scoping_reuse`, `Lexical`).  `eval_dict_core`
  takes the frame that the resolver made for the literal, for every evaluation of
  it (`eval_dict.rs:626`), and a slot that is set stays as it is
  (`symbol_table.rs:174`, the result is ignored at `eval_dict.rs:639`).  So a
  function with a dict in it, or with a dict before its last expression, gives its
  second caller the first caller's values, wherever they are read by name; by key
  they are right.  `doc/internals/evaluator.md:452` has a frame allocated for each
  evaluation.

The others are at the end of their modules, under DIVERGENCES, or are
properties of a run that fail in another instance.  To see one, put the
property, or the constants given here, in the module's cfg.

| property or instance | the code | what it disagrees with |
|---|---|---|
| `TaskHandle!OwnContextOnly`: a cancelled awaiter's error becomes everyone's answer | `builtins_async.rs:335` | its doc comment, `:253`, `:262` |
| `TaskHandle!CancelUnblocks`, `Channel!CancelUnblocks`: a call queued for the lock cannot be cancelled | `:294`, `:649` | `doc/08-evaluation.md:1189`, `eval.rs:312` |
| `Oneshot!SecondUseIsClosed`: the second use is an error, not `[Closed]` | `:576`, `:751` | `doc/08-evaluation.md:1242` |
| `Oneshot!CancelLeavesOpen`: a cancelled recv closes the channel | `:757` | `doc/08-evaluation.md:1212` |
| `Broadcast!SendNeverFails`: a broadcast without subscribers is an error | `:542` | the example at `:816` |
| `Broadcast!HearsEverySentValue`: what is sent between two calls of recv is not heard | `:686` | `doc/08-evaluation.md:1241` |
| `Shutdown!ToldLoopsExitCleanly`: drain aborts loops that have been told to stop and had no time to | `:2892` | its comment, `:2889`, `doc/08-evaluation.md:1233` |
| `EventChannel!EverySignalHeard`: a signal that finds another one's event in the channel is dropped | `:1776` | `:1621` |
| `EventChannel!LastTickWins` with `Sources = {tick}`: the oldest tick is kept | `:1939` | `:1938` |
| `WatchChannel!EveryChangeReported`: a change before the first poll of the task is its baseline | `:2079` | `:1979` |
| `WatchChannel!FailureSeen`: the channel does not close when the task fails | `:2105` | `:2078` |
| `OnTime` with all integers for `Ints` and no `Stamps`: the difference to the clock overflows (a panic in a debug build) | `:2633` | `:2520` |
| `OnTime` with no `Ints` and `Stamps <- 0..MaxTs`: a Timestamp after 2262 is truncated | `:2604` | `:2514` |
| `Profile!EndsWritten`: a span drained while it is open is never written with its end | `profiling.rs:484` | `doc/12-tooling.md` ("Wall-clock microseconds at materialization end") |
| `Profile!SignalEnds`: a thread that reads the flags between the handler's two stores takes Ctrl-C for the end of run_eval, and the evaluation goes on | `main.rs:523` | its comment, "wakes within 1 s, flushes, and calls _exit(130)" |
| `TargetWhole` with `Coarse = TRUE`: two tasks that read the same time write one temporary file | `builtins_io.rs:999` | its comment, "Use process ID and a random suffix to avoid collisions" |
| `EveryDemandAnswered` with two tasks that enter a circle at different cells: they wait for each other | `eval_materialize.rs:675` | `doc/08-evaluation.md:54` |

`Cargo.toml` sets `panic = "abort"` for release builds: there a panic ends the
program, and the runs with panics are about builds that unwind (the tests).

Two more were met while reading and are not modelled: `with-context`
(`builtins_async.rs:3048-3118`) never calls the function it is given (against
`doc/08-evaluation.md:1184`), so the `finally` of the prelude never runs its
cleanup; and `with_replaced_ctx` (`value.rs:2217`) copies the pending state of a
cell, so that a body may be evaluated twice (against
`doc/proofs/thunk_lifecycle.md:12`).

Of names, also read and outside the programs of `language`:

* A dict without static keys in a sequence gets a frame from the resolver
  (`resolve.rs:446`), but none from `LetrecChainStep` (`eval_materialize.rs:2440`):
  what is bound outside it is then looked up one frame too far out, which the comparison of
  names usually turns into an error.
* `.x` passes over the first binding of `x`, whatever binds it
  (`resolve.rs:489`), not over the nearest dict as `doc/internals/expand.md:93`
  says: the two differ in a dict that does not bind `x`.
* `[let n v]` in a sequence reaches a panic (`eval_materialize.rs:2449`, "has no
  resolver scope"); `doc/08-evaluation.md:72` recommends it.
* A function with two rests that have no type is accepted by the parser
  (`parser.rs:7751`), and the first of them gets no value: a call panics
  (`eval_call.rs:1041`, "param slot invariant violated").
  `doc/04-functions.md:476` says that the parser enforces one, and that it is last.
* `doc/04-functions.md:622` gives defaults the scope of the caller, or of the
  function for `$apply`.  There is one way to bind arguments, and it evaluates
  defaults in an empty scope (`eval_call.rs:868`), as `:606` of that document says.
* A name that an arm declares and its pattern does not bind is left out of the
  frame at run time, so that the later ones move up (`eval_materialize.rs:2607`).

Past the cap on conjunctions the subtype check is not sound: a product that is
too large becomes `Top`, and the negation of `Top` is `Never` (`bas.rs:636`), so
that the subtype is accepted; the comment at `bas.rs:46` calls the cap safe
because it rejects.  To see it, check `Sound` with `MaxRdnf = 3` and the queries
`Zero` or `StrT` against `Inter(<<u, u>>)` and its negation, where `u` is a union
of two integer literals.

`atoms_are_disjoint` (`bas.rs:1845`) calls types disjoint that are not, against its
own comment (`bas.rs:1833`, "no value can inhabit both"): a nominal type and a variant
of it, an alias and a recursive type that unfolds to it, a constructor
and its application (the arms at `:1896` and `:1932`).  So the intersection of
`Option` and its variant `none` is accepted below `Never`, and `Int` below the negation
of a recursive type that has the integers.  A bare constructor is also accepted
below each of its applications.  To see it, check `Sound` with such `Queries`.

The rules for atoms accept three more kinds of pairs that the values do not
bear out; they are what `AcceptedIsWithin` had to exclude as `Misjudged`, and to
see each, check `Sound` with the pair as `Queries`:

* A uniform record above one with a uniform tail: only the types of the tails are compared
  (`bas.rs:1128`), not those of the fields that the first one has and the other has
  not.  So a record of integers with a `y` that is a string is accepted
  below a record of integers, where a closed one with that `y` is refused (`:1147`).
* A uniform record above a closed one: its fields are compared (`:1149`), but a closed record
  may stand for one with more fields (`:1178` asks for no more than that the other one
  is closed, against the comment at `:1175`).  So `{x: Int, y: Str}` is below `{x: Int}`, that is below
  a record of integers, and the first is not: `<:` is not transitive there.
* A variadic function above one that takes the same fixed parameters and no more (`:924`):
  the arity guard looks at whether the first is variadic, not whether the second is,
  so a function of one parameter may be called with two.

A variant is below a nominal type whose registered body has it (`bas.rs:746`);
whether the name means its body is up to the registration, and `Misjudged` asks for it.

Of the subtype check, also read and outside the queries of `language`: a nominal
variant is not a subtype of a copy of itself (`bas.rs:838`, against S-REFL,
`doc/06-type-inference.md:916`); the arm for a nominal alias comes after one that
has answered already; and two unrollings of one recursive type that differ in
period are not recognised as equal, which rejects and so is safe.

## 7. Not modelled

* Type inference, parsing and printing: sequential recursions over unbounded
  trees and strings.
* Of expressions, outside `Scope`: guards, constructors, rests with a type,
  annotations, type classes, splices and quotes.
  Guards and type classes go through instances that programs define.
* Of the type checker, outside `Subtype`: unification, row solving, gradual
  consistency, annotations; float literals and operator types.
* Diagnostics that travel beside a value.
* `exit-now`, `non-cancellable`, the reactive cells: one step each.
* How `with-context` forks cells, and `select-once`: see the plan.
* A tail call that drops a cell which nothing else refers to without settling it
  (`eval_materialize.rs:1453`): no other task can see such a cell.
* Weak memory: the atomics of `Builder` are `Relaxed`, and what the properties
  need is ordered by its mutex; a schedule in which the flag is seen late is one
  in which it is read early, and those are explored.  The handler's two flags are
  `Relaxed` as well; that their stores are seen in the order of the code is an
  assumption of `Profile`.
* The operations of the profiler that nothing calls while spans are open, and the
  other file builtins: one system call each.

## 8. Plan

In order; the first three blocks are done.

1. `Thunk` and `LazyMemo`; `TaskHandle`; `Channel`, `Oneshot`, `Broadcast`;
   `Shutdown`, `Delays`; `EventChannel`, `WatchChannel`; `Builder`.  Runs and
   bounds as in section 3.
2. `AtomicWrite`, `Profile`, `Subtype`, `UnionNorm`, the abstract specifications
   (`Promise`, `Handoff`, `AtomicDict`, `AtomicFile`), and the proofs about what the
   runs check, the soundness of the subtype check among them.
3. `Surface`, `Scope`: the resolver's addresses and the frames of the evaluator.
4. Extend the model:
   * `Scope` with guards and constructors, which each push a frame or evaluate in
     one.
   * `Thunk` with forked cells (`with_replaced_ctx`) and the letrec patch of
     `eval_dict.rs`; the abstract specification is `LazyMemo` over the forks.
   * A composition of `Channel`, `Oneshot` and `Broadcast` under `select-once`:
     the first ready source is served, closed is reported only when all are.
   * `TaskHandle` with `Thunk`: a task body that forces the awaiter's cells.
5. Prove more: an abstract specification of the broadcast channels, as `Handoff` is
   one of the oneshot channels, with its refinement; soundness of the subtype check
   for recursive types, by an approximation of what they mean to a finite depth.
