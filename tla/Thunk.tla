------------------------------- MODULE Thunk -------------------------------
(***************************************************************************)
(* The lazy evaluation cell (src/src/value.rs, ThunkInner) and the         *)
(* protocol by which concurrent tasks force it: materialize()              *)
(* (src/src/eval.rs) and force_step / dispatch_state / apply_cont of the   *)
(* CEK machine (src/src/eval_materialize.rs).                              *)
(*                                                                         *)
(* A task holds a stack of thunks it has claimed.  A frame opened by       *)
(* materialize() carries a ThunkPanicGuard and a continuation stack of its *)
(* own; a frame opened by force_step is a continuation on the stack of the *)
(* nearest guarded frame below it.  Every access to a cell that the code   *)
(* makes separately (OnceCell get, the mutex, OnceCell set, the Notify) is *)
(* a step of its own.                                                      *)
(*                                                                         *)
(* A body is abstracted to the thunks it demands and to its own outcome.   *)
(* A call's function and strict arguments are forced by continuations      *)
(* (PendingCallDispatch, BuiltinForceArg); materialize() is what Rust code *)
(* calls, that of a builtin for instance.                                  *)
(***************************************************************************)
EXTENDS Naturals, FiniteSets, SequencesExt

CONSTANTS
    Tasks,       \* the evaluating tasks
    BlockOn,     \* those running under block_on, where task::try_id() is None
    Thunks,      \* the cells
    Demands,     \* Demands[t]: the thunks the body of t forces
    StrictArgs,  \* StrictArgs[t]: strict arguments of a call that turns out
                 \*   to be a call of a builtin ({}: not such a call)
    Nested,      \* thunks whose body is Rust code that calls materialize()
    Bad,         \* thunks whose body raises an error of its own
    Den,         \* the denotation: "val" or "err"
    Roots,       \* Roots[p]: the thunks task p was started to force
    MaxStack,    \* MAX_CONTINUATION_STACK
    Crashes,     \* the abnormal exits to consider, within {"depth", "panic"}
    NoTask,      \* None of Option<tokio::task::Id>
    Unset        \* the empty OnceCell

Outcome == {"val", "err"}

Needs(t) == Demands[t] \cup StrictArgs[t]

(* A body forces all it needs in one of the two ways: a builtin that has   *)
(* strict arguments and calls materialize() too is two thunks here.        *)
ASSUME ConstantsAssumption ==
    /\ Thunks # {}
    /\ BlockOn \subseteq Tasks
    /\ Demands \in [Thunks -> SUBSET Thunks]
    /\ StrictArgs \in [Thunks -> SUBSET Thunks]
    /\ Nested \subseteq Thunks
    /\ \A t \in Nested : StrictArgs[t] = {}
    /\ Bad \subseteq Thunks
    /\ Roots \in [Tasks -> SUBSET Thunks]
    /\ MaxStack \in Nat \ {0}
    /\ Crashes \subseteq {"depth", "panic"}
    /\ NoTask \notin Tasks
    /\ Unset \notin Outcome

(* What evaluating t on its own, with no other task, would produce: a      *)
(* thunk that needs a failing one fails, and so does one that needs itself. *)
ASSUME DenAssumption ==
    /\ Den \in [Thunks -> Outcome]
    /\ \A t \in Thunks :
          Den[t] = "err" <=> t \in Bad \/ \E d \in Needs(t) : Den[d] = "err"
    /\ \A S \in SUBSET Thunks :
          (\A s \in S : Needs(s) \cap S # {}) => \A s \in S : Den[s] = "err"

VARIABLES
    state,      \* unevaluated.0: "fresh", "redispatch" (after reset) or "taken"
    owner,      \* unevaluated.1: the evaluating task's id
    result,     \* the OnceCell
    listeners,  \* tasks registered with the cell's Notify
    pc,         \* where each task is in the protocol
    target,     \* the cell that step is about
    stack,      \* the claimed thunks, innermost last
    verdict,    \* the outcome the task is about to settle its target with
    wanted,     \* roots a task has yet to force
    seen        \* seen[p][t]: what forcing root t returned to p

cell == <<state, owner, result, listeners>>
vars == <<state, owner, result, listeners, pc, target, stack, verdict, wanted, seen>>

(* A parked frame has put its call back and forces its own thunk again.    *)
Frame == [thunk : Thunks, phase : {"fresh", "redispatch", "parked"},
          todo : SUBSET Thunks, depth : Nat \ {0}]

PCs == {"run", "check", "claim", "recheck", "owner", "listen", "confirm",
        "asleep", "set", "clear", "notify", "unwind", "done", "dead"}

TypeOK ==
    /\ state \in [Thunks -> {"fresh", "redispatch", "taken"}]
    /\ owner \in [Thunks -> Tasks \cup {NoTask}]
    /\ result \in [Thunks -> Outcome \cup {Unset}]
    /\ listeners \in [Thunks -> SUBSET Tasks]
    /\ pc \in [Tasks -> PCs]
    /\ target \in [Tasks -> Thunks]
    /\ stack \in [Tasks -> Seq(Frame)]
    /\ verdict \in [Tasks -> Outcome]
    /\ wanted \in [Tasks -> SUBSET Thunks]
    /\ seen \in [Tasks -> [Thunks -> Outcome \cup {Unset}]]

Init ==
    /\ state = [t \in Thunks |-> "fresh"]
    /\ owner = [t \in Thunks |-> NoTask]
    /\ result = [t \in Thunks |-> Unset]
    /\ listeners = [t \in Thunks |-> {}]
    /\ pc = [p \in Tasks |-> "run"]
    /\ target = [p \in Tasks |-> CHOOSE t \in Thunks : TRUE]
    /\ stack = [p \in Tasks |-> <<>>]
    /\ verdict = [p \in Tasks |-> "val"]
    /\ wanted = Roots
    /\ seen = [p \in Tasks |-> [t \in Thunks |-> Unset]]

-----------------------------------------------------------------------------
TaskId(p) == IF p \in BlockOn THEN NoTask ELSE p    \* tokio::task::try_id()

Top(p) == Last(stack[p])
SetTop(s, f) == [s EXCEPT ![Len(s)] = f]

(* What the code running in p demands: the top body, or p's own program.   *)
Wanted(p) == IF stack[p] = <<>> THEN wanted[p] ELSE Top(p).todo

(* p is about to force through materialize(): a new guard and a new stack. *)
Fresh(p) == stack[p] # <<>> => Top(p).thunk \in Nested

(* The place of the top frame in the continuation stack of the innermost   *)
(* run_with_stack, and the guarded frame that stack began with.            *)
Depth(p) == IF stack[p] = <<>> THEN 0 ELSE Top(p).depth
Base(p) == Len(stack[p]) - Depth(p) + 1
Guarded(f) == f.depth = 1
TooDeep(p) == "depth" \in Crashes /\ ~Fresh(p) /\ Depth(p) >= MaxStack

Goto(p, from, to) == pc[p] = from /\ pc' = [pc EXCEPT ![p] = to]

(* p leaves the frames s and gives v, the outcome of t, to what demanded   *)
(* t: the program of p records it, a body goes on or fails with it.        *)
Return(p, s, t, v) ==
    IF s = <<>>
    THEN /\ seen' = [seen EXCEPT ![p][t] = v]
         /\ wanted' = [wanted EXCEPT ![p] = @ \ {t}]
         /\ stack' = [stack EXCEPT ![p] = s]
         /\ pc' = [pc EXCEPT ![p] = "run"]
         /\ UNCHANGED <<target, verdict>>
    ELSE LET f == s[Len(s)] IN
         /\ IF v = "err"
            THEN /\ stack' = [stack EXCEPT ![p] = SetTop(s, [f EXCEPT !.todo = {}])]
                 /\ verdict' = [verdict EXCEPT ![p] = "err"]
                 /\ target' = [target EXCEPT ![p] = f.thunk]
                 /\ pc' = [pc EXCEPT ![p] = "set"]
            ELSE /\ stack' = [stack EXCEPT ![p] =
                                 SetTop(s, [f EXCEPT !.todo = @ \ {t}])]
                 /\ pc' = [pc EXCEPT ![p] = "run"]
                 /\ UNCHANGED <<target, verdict>>
         /\ UNCHANGED <<seen, wanted>>

-----------------------------------------------------------------------------
(* The body on top demands one more thunk (Action::Materialize, or a call  *)
(* of materialize()).  run_with_stack checks its depth first.              *)
Demand(p) ==
    /\ ~TooDeep(p)
    /\ \E d \in Wanted(p) : target' = [target EXCEPT ![p] = d]
    /\ Goto(p, "run", "check")
    /\ UNCHANGED <<cell, stack, verdict, wanted, seen>>

(* Mutant: the error is returned past the guarded thunk, unsettled.        *)
DepthExceeded_Unsettled(p) ==
    /\ pc[p] = "run" /\ TooDeep(p) /\ Wanted(p) # {}
    /\ Return(p, SubSeq(stack[p], 1, Base(p) - 1), stack[p][Base(p)].thunk, "err")
    /\ UNCHANGED cell

(* The depth check fails: run_with_stack returns an error and drops its    *)
(* continuations; materialize() settles the guarded thunk with it.         *)
DepthExceeded(p) ==
    /\ TooDeep(p) /\ Wanted(p) # {}
    /\ Goto(p, "run", "set")
    /\ stack' = [stack EXCEPT ![p] =
          SetTop(SubSeq(@, 1, Base(p)), [@[Base(p)] EXCEPT !.todo = {}])]
    /\ target' = [target EXCEPT ![p] = stack[p][Base(p)].thunk]
    /\ verdict' = [verdict EXCEPT ![p] = "err"]
    /\ UNCHANGED <<cell, wanted, seen>>

(* Mutant: settles without waiting for what the body still demands.        *)
Complete_Early(p) ==
    /\ stack[p] # <<>>
    /\ target' = [target EXCEPT ![p] = Top(p).thunk]
    /\ verdict' = [verdict EXCEPT ![p] = IF Top(p).thunk \in Bad THEN "err" ELSE "val"]
    /\ Goto(p, "run", "set")
    /\ UNCHANGED <<cell, stack, wanted, seen>>

(* The body needs nothing more: settle with its own outcome.               *)
Complete(p) ==
    /\ stack[p] # <<>> /\ Top(p).todo = {}
    /\ LET t == Top(p).thunk IN
       /\ Top(p).phase # "fresh"
             \/ \A a \in StrictArgs[t] : result[a] = "val"
       /\ target' = [target EXCEPT ![p] = t]
       /\ verdict' = [verdict EXCEPT ![p] = IF t \in Bad THEN "err" ELSE "val"]
    /\ Goto(p, "run", "set")
    /\ UNCHANGED <<cell, stack, wanted, seen>>

(* Mutant: the call is not put back into the cell.                         *)
Reset_StaysTaken(p) ==
    /\ stack[p] # <<>> /\ Top(p).todo = {} /\ Top(p).phase = "fresh"
    /\ LET t == Top(p).thunk IN
       /\ \E a \in StrictArgs[t] : result[a] # "val"
       /\ owner' = [owner EXCEPT ![t] = NoTask]
       /\ target' = [target EXCEPT ![p] = t]
       /\ stack' = [stack EXCEPT ![p] =
             IF Guarded(Top(p))
             THEN SetTop(@, [Top(p) EXCEPT !.todo = {t}, !.phase = "parked"])
             ELSE Front(@)]
    /\ Goto(p, "run", "check")
    /\ UNCHANGED <<state, result, listeners, verdict, wanted, seen>>

(* The called function is a builtin with strict arguments not evaluated    *)
(* yet: put the call back as a builtin call and force the thunk again.     *)
(* The continuation is consumed; a guarded frame keeps its Memoize.        *)
Reset(p) ==
    /\ stack[p] # <<>> /\ Top(p).todo = {} /\ Top(p).phase = "fresh"
    /\ LET t == Top(p).thunk IN
       /\ \E a \in StrictArgs[t] : result[a] # "val"
       /\ state' = [state EXCEPT ![t] = "redispatch"]
       /\ owner' = [owner EXCEPT ![t] = NoTask]
       /\ target' = [target EXCEPT ![p] = t]
       /\ stack' = [stack EXCEPT ![p] =
             IF Guarded(Top(p))
             THEN SetTop(@, [Top(p) EXCEPT !.todo = {t}, !.phase = "parked"])
             ELSE Front(@)]
    /\ Goto(p, "run", "check")
    /\ UNCHANGED <<result, listeners, verdict, wanted, seen>>

Finish(p) ==
    /\ stack[p] = <<>> /\ wanted[p] = {}
    /\ Goto(p, "run", "done")
    /\ UNCHANGED <<cell, target, stack, verdict, wanted, seen>>

-----------------------------------------------------------------------------
(* result.get() at the head of the loop.                                   *)
CheckHit(p) ==
    /\ pc[p] = "check" /\ result[target[p]] # Unset
    /\ Return(p, stack[p], target[p], result[target[p]])
    /\ UNCHANGED cell

CheckMiss(p) ==
    /\ result[target[p]] = Unset
    /\ Goto(p, "check", "claim")
    /\ UNCHANGED <<cell, target, stack, verdict, wanted, seen>>

(* Mutant: clones the pending state instead of taking it.                  *)
Claim_Clones(p) ==
    /\ LET t == target[p] IN
       /\ state[t] # "taken"
       /\ owner' = [owner EXCEPT ![t] = TaskId(p)]
       /\ stack' = [stack EXCEPT ![p] = Append(@,
             [thunk |-> t, phase |-> state[t], depth |-> IF Fresh(p) THEN 1 ELSE Depth(p) + 1,
              todo |-> IF state[t] = "fresh" THEN Demands[t] ELSE StrictArgs[t]])]
    /\ Goto(p, "claim", "run")
    /\ UNCHANGED <<state, result, listeners, target, verdict, wanted, seen>>

(* try_claim() finds a state: take it, and dispatch_state starts the body. *)
Claim(p) ==
    /\ LET t == target[p] IN
       /\ state[t] # "taken"
       /\ state' = [state EXCEPT ![t] = "taken"]
       /\ owner' = [owner EXCEPT ![t] = TaskId(p)]
       /\ stack' = [stack EXCEPT ![p] = Append(@,
             [thunk |-> t, phase |-> state[t], depth |-> IF Fresh(p) THEN 1 ELSE Depth(p) + 1,
              todo |-> IF state[t] = "fresh" THEN Demands[t] ELSE StrictArgs[t]])]
    /\ Goto(p, "claim", "run")
    /\ UNCHANGED <<result, listeners, target, verdict, wanted, seen>>

ClaimLost(p) ==
    /\ state[target[p]] = "taken"
    /\ Goto(p, "claim", "recheck")
    /\ UNCHANGED <<cell, target, stack, verdict, wanted, seen>>

(* result.get() again, between the claim and the owner.                    *)
Recheck(p) ==
    /\ pc[p] = "recheck"
    /\ pc' = [pc EXCEPT ![p] = IF result[target[p]] # Unset THEN "check" ELSE "owner"]
    /\ UNCHANGED <<cell, target, stack, verdict, wanted, seen>>

(* Mutant: no owner is taken for this task (the conservative rule of       *)
(* doc/internals/thunk.md).                                                *)
SameTask_Conservative(p) == owner[target[p]] \in {NoTask, TaskId(p)}

(* The same task: a circular dependency, settled as an error.              *)
SameTask(p) == owner[target[p]] = TaskId(p)

(* Mutants: settles the cycle without an error; takes it for a thunk that  *)
(* will be settled soon and looks again.                                   *)
OwnerIsSelf_NoError(p) ==
    /\ SameTask(p)
    /\ Goto(p, "owner", "set")
    /\ verdict' = [verdict EXCEPT ![p] = "val"]
    /\ UNCHANGED <<cell, target, stack, wanted, seen>>

OwnerIsSelf_Retries(p) ==
    /\ SameTask(p)
    /\ Goto(p, "owner", "check")
    /\ UNCHANGED <<cell, target, stack, verdict, wanted, seen>>

OwnerIsSelf(p) ==
    /\ SameTask(p)
    /\ Goto(p, "owner", "set")
    /\ verdict' = [verdict EXCEPT ![p] = "err"]
    /\ UNCHANGED <<cell, target, stack, wanted, seen>>

OwnerIsOther(p) ==
    /\ ~SameTask(p)
    /\ Goto(p, "owner", "listen")
    /\ UNCHANGED <<cell, target, stack, verdict, wanted, seen>>

-----------------------------------------------------------------------------
(* settled(): create and enable the Notified, then look, then sleep.       *)
Listen(p) ==
    /\ Goto(p, "listen", "confirm")
    /\ listeners' = [listeners EXCEPT ![target[p]] = @ \cup {p}]
    /\ UNCHANGED <<state, owner, result, target, stack, verdict, wanted, seen>>

(* Mutant: sleeps without looking at the result first.                     *)
Confirm_Blindly(p) ==
    /\ Goto(p, "confirm", "asleep")
    /\ UNCHANGED <<cell, target, stack, verdict, wanted, seen>>

Confirm(p) ==
    /\ pc[p] = "confirm"
    /\ IF result[target[p]] # Unset
       THEN /\ pc' = [pc EXCEPT ![p] = "check"]
            /\ listeners' = [listeners EXCEPT ![target[p]] = @ \ {p}]
       ELSE /\ pc' = [pc EXCEPT ![p] = "asleep"]
            /\ UNCHANGED listeners
    /\ UNCHANGED <<state, owner, result, target, stack, verdict, wanted, seen>>

Wake(p) ==
    /\ pc[p] = "asleep" /\ p \notin listeners[target[p]]
    /\ pc' = [pc EXCEPT ![p] = IF result[target[p]] # Unset THEN "check" ELSE "listen"]
    /\ UNCHANGED <<cell, target, stack, verdict, wanted, seen>>

-----------------------------------------------------------------------------
(* settle(): OnceCell::set, then the owner, then notify_waiters().         *)
SetResult(p) ==
    /\ Goto(p, "set", "clear")
    /\ result' = [result EXCEPT ![target[p]] = IF @ = Unset THEN verdict[p] ELSE @]
    /\ UNCHANGED <<state, owner, listeners, target, stack, verdict, wanted, seen>>

ClearOwner(p) ==
    /\ Goto(p, "clear", "notify")
    /\ owner' = [owner EXCEPT ![target[p]] = NoTask]
    /\ UNCHANGED <<state, result, listeners, target, stack, verdict, wanted, seen>>

(* The settled thunk is the top frame, or one found in progress (a cycle). *)
Finished(p) == stack[p] # <<>> /\ Top(p).todo = {}

(* Memoize continues with the outcome it computed, even if it lost the     *)
(* cell to another; materialize() loops and reads the cell.                *)
Notify(p) ==
    /\ pc[p] = "notify"
    /\ listeners' = [listeners EXCEPT ![target[p]] = {}]
    /\ IF Finished(p) /\ Guarded(Top(p))
       THEN /\ stack' = [stack EXCEPT ![p] = Front(@)]
            /\ pc' = [pc EXCEPT ![p] = "check"]
            /\ UNCHANGED <<target, verdict, wanted, seen>>
       ELSE Return(p, IF Finished(p) THEN Front(stack[p]) ELSE stack[p],
                   target[p], verdict[p])
    /\ UNCHANGED <<state, owner, result>>

-----------------------------------------------------------------------------
(* A body panics.  Unwinding drops the frames, innermost first; only a     *)
(* guarded frame settles its thunk.                                        *)
Panic(p) ==
    /\ "panic" \in Crashes
    /\ p \notin BlockOn /\ stack[p] # <<>>
    /\ Goto(p, "run", "unwind")
    /\ UNCHANGED <<cell, target, stack, verdict, wanted, seen>>

(* Mutant: the guard sets the result and wakes nobody.                     *)
Unwind_NoNotify(p) ==
    /\ pc[p] = "unwind"
    /\ IF stack[p] = <<>>
       THEN /\ pc' = [pc EXCEPT ![p] = "dead"]
            /\ UNCHANGED <<owner, result, stack>>
       ELSE LET t == Top(p).thunk IN
            /\ stack' = [stack EXCEPT ![p] = Front(@)]
            /\ IF Guarded(Top(p))
               THEN /\ result' = [result EXCEPT ![t] = IF @ = Unset THEN "err" ELSE @]
                    /\ owner' = [owner EXCEPT ![t] = NoTask]
               ELSE UNCHANGED <<owner, result>>
            /\ UNCHANGED pc
    /\ UNCHANGED <<state, listeners, target, verdict, wanted, seen>>

Unwind(p) ==
    /\ pc[p] = "unwind"
    /\ IF stack[p] = <<>>
       THEN /\ pc' = [pc EXCEPT ![p] = "dead"]
            /\ UNCHANGED <<owner, result, listeners, stack>>
       ELSE LET t == Top(p).thunk IN
            /\ stack' = [stack EXCEPT ![p] = Front(@)]
            /\ IF Guarded(Top(p))
               THEN /\ result' = [result EXCEPT ![t] = IF @ = Unset THEN "err" ELSE @]
                    /\ owner' = [owner EXCEPT ![t] = NoTask]
                    /\ listeners' = [listeners EXCEPT ![t] = {}]
               ELSE UNCHANGED <<owner, result, listeners>>
            /\ UNCHANGED pc
    /\ UNCHANGED <<state, target, verdict, wanted, seen>>

-----------------------------------------------------------------------------
(* The steps of a task the scheduler runs; a panic is not owed.            *)
Step(p) ==
    \/ Demand(p) \/ DepthExceeded(p) \/ Complete(p) \/ Reset(p) \/ Finish(p)
    \/ CheckHit(p) \/ CheckMiss(p) \/ Claim(p) \/ ClaimLost(p) \/ Recheck(p)
    \/ OwnerIsSelf(p) \/ OwnerIsOther(p)
    \/ Listen(p) \/ Confirm(p) \/ Wake(p)
    \/ SetResult(p) \/ ClearOwner(p) \/ Notify(p)
    \/ Unwind(p)

Terminated == \A p \in Tasks : pc[p] \in {"done", "dead"}

Next ==
    \/ \E p \in Tasks : Step(p) \/ Panic(p)
    \/ Terminated /\ UNCHANGED vars

Spec == Init /\ [][Next]_vars

FairSpec == Spec /\ \A p \in Tasks : WF_vars(Step(p))
-----------------------------------------------------------------------------
(* PROPERTIES                                                              *)

(* The frames of a task that are evaluating thunk t: those that are not    *)
(* parked.                                                                 *)
Evaluating(p, t) ==
    {i \in 1..Len(stack[p]) : stack[p][i].thunk = t /\ stack[p][i].phase # "parked"}

(* Two tasks never run the body of one unsettled thunk, and neither does   *)
(* one task twice: the claim (try_claim) is exclusive across reset().      *)
SingleEvaluator ==
    \A t \in Thunks : result[t] = Unset =>
        \A p, q \in Tasks : \A i \in Evaluating(p, t), j \in Evaluating(q, t) :
            p = q /\ i = j

(* A claim that is lost: nobody can claim the thunk again, nobody          *)
(* evaluates it, and it is not settled.                                    *)
Lost(t) ==
    /\ state[t] = "taken" /\ result[t] = Unset
    /\ \A p \in Tasks : Evaluating(p, t) = {}

(* Whoever wins try_claim() settles the thunk or puts it back: no claim is *)
(* lost, whatever is put back, claimed by another or found in a circle.    *)
ClaimedIsEvaluated == \A t \in Thunks : ~Lost(t)

(* u has failed, or a task is on its way to settle it with an error.       *)
Fails(u) ==
    \/ result[u] = "err"
    \/ \E p \in Tasks :
          \/ pc[p] = "set" /\ target[p] = u /\ verdict[p] = "err"
          \/ pc[p] = "unwind" /\ \E i \in 1..Len(stack[p]) :
                 stack[p][i].thunk = u /\ Guarded(stack[p][i])

(* No claim is lost silently: of the thunks that need the lost one, or     *)
(* that need one that does, one has failed or is about to (the guarded one *)
(* that run_with_stack and ThunkPanicGuard settle).                        *)
LostHasCause ==
    \A t \in Thunks : Lost(t) =>
        \A S \in SUBSET Thunks :
            t \in S /\ (\A u \in Thunks : Needs(u) \cap S # {} => u \in S) =>
                \E u \in S : Fails(u)

(* A task that reads its own id as the owner, and is about to report a     *)
(* circular dependency, really is evaluating that thunk.                   *)
CycleIsReal ==
    \A p \in Tasks : pc[p] = "owner" /\ SameTask(p) =>
        \E i \in 1..Len(stack[p]) : stack[p][i].thunk = target[p]

(* settle() checks for a Notify after it sets the result, settled() for a  *)
(* result after it registers: a sleeper whose thunk is settled still has   *)
(* the settling task's notify_waiters() ahead of it.                       *)
NoLostWakeup ==
    \A p \in Tasks :
        pc[p] = "asleep" /\ p \in listeners[target[p]] /\ result[target[p]] # Unset =>
            \E q \in Tasks : pc[q] \in {"clear", "notify"} /\ target[q] = target[p]

(* Whatever the interleaving, a cell holds the denotation of its thunk and *)
(* so does every value a task was given (doc/08-evaluation.md:531).        *)
Confluence ==
    /\ \A t \in Thunks : result[t] \in {Unset, Den[t]}
    /\ \A p \in Tasks, t \in Thunks : seen[p][t] \in {Unset, Den[t]}

(* Even when bodies panic, the depth limit is reached or a cycle is seen   *)
(* where there is none, no thunk and no task gets a wrong value: the body  *)
(* is completed only with what it needs (apply_cont, reset, settle).       *)
ValuesAreRight ==
    /\ \A t \in Thunks : result[t] = "val" => Den[t] = "val"
    /\ \A p \in Tasks, t \in Thunks : seen[p][t] = "val" => Den[t] = "val"

(* Every task gets an answer for each of its roots.                        *)
EveryDemandAnswered == \A p \in Tasks : <>(pc[p] = "done")

(* A task that waits for a lost claim, or for a thunk that is evaluated by *)
(* one that does, and so on.                                               *)
Stuck(p) ==
    \A Z \in SUBSET Tasks :
        (\A q \in Tasks :
            /\ pc[q] = "asleep"
            /\ Lost(target[q]) \/ \E r \in Z : Evaluating(r, target[q]) # {}
            => q \in Z)
        => p \in Z

(* A task that does not crash is answered, or waits for a lost claim and   *)
(* for nothing else: whoever else crashes, the guards wake those who wait  *)
(* for what they settle.                                                   *)
SurvivorsAnswered == \A p \in Tasks : <>[](pc[p] \in {"done", "dead"} \/ Stuck(p))

(* Forcing implements the write-once cell: every change of a result is a   *)
(* step of LazyMemo.                                                       *)
Memo == INSTANCE LazyMemo WITH memo <- result
MemoSpec == Memo!Spec
=============================================================================
