---------------------------- MODULE Thunk_proofs ----------------------------
(***************************************************************************)
(* Theorems about Thunk, for any tasks, thunks and graph of demands.       *)
(*                                                                         *)
(* In order: the types with DepthBound; the wakeups; ClaimInv, one frame   *)
(* evaluates a thunk; StackInv and Held, who claims a thunk has it on its  *)
(* stack, without abnormal exits or with every force guarded; MemoStrong,  *)
(* the step of a cell is one of LazyMemo and its result is Den, without    *)
(* abnormal exits; RightInv, a value is right whatever happens.            *)
(***************************************************************************)
EXTENDS Thunk, SequenceTheorems, TLAPS

-----------------------------------------------------------------------------
(* The stack operators on a non-empty stack.                               *)
LEMMA PopType ==
    ASSUME NEW F, NEW s \in Seq(F), s # <<>>
    PROVE /\ Front(s) \in Seq(F)
          /\ Len(Front(s)) = Len(s) - 1
          /\ \A i \in 1..(Len(s) - 1) : Front(s)[i] = s[i]
          /\ Front(s) # <<>> => Len(s) > 1
<1>1. Len(s) \in Nat /\ Len(s) > 0 /\ \A i \in 1..Len(s) : s[i] \in F
  BY EmptySeq, LenProperties, ElementOfSeq
<1>2. \A i \in 1..(Len(s) - 1) : s[i] \in F
  BY <1>1
<1> DEFINE n == Len(s) - 1
<1>a. n \in Int /\ 1 \in Int /\ \A i \in 1..n : s[i] \in F
  BY <1>1, <1>2
<1> HIDE DEF n
<1>b. /\ SubSeq(s, 1, n) \in Seq(F)
      /\ Len(SubSeq(s, 1, n)) = IF 1 <= n THEN n - 1 + 1 ELSE 0
      /\ \A i \in 1..(n - 1 + 1) : SubSeq(s, 1, n)[i] = s[1 + i - 1]
  BY <1>a, SubSeqProperties
<1>3. /\ Front(s) \in Seq(F)
      /\ Len(Front(s)) = Len(s) - 1
      /\ \A i \in 1..(Len(s) - 1) : Front(s)[i] = s[i]
  <2>1. Front(s) = SubSeq(s, 1, n)
    BY DEF Front, n
  <2>2. n \in Nat /\ n = Len(s) - 1
    BY <1>1 DEF n
  <2>3. \A i \in 1..n : 1 + i - 1 = i /\ i \in 1..(n - 1 + 1)
    BY <2>2
  <2> QED BY <1>b, <2>1, <2>2, <2>3
<1> QED BY <1>1, <1>3, EmptySeq

LEMMA SetTopType ==
    ASSUME NEW F, NEW s \in Seq(F), s # <<>>, NEW f \in F
    PROVE /\ SetTop(s, f) \in Seq(F)
          /\ Len(SetTop(s, f)) = Len(s)
          /\ SetTop(s, f)[Len(s)] = f
          /\ \A i \in 1..(Len(s) - 1) : SetTop(s, f)[i] = s[i]
<1>1. Len(s) \in 1..Len(s)
  BY EmptySeq, LenProperties
<1> QED BY <1>1, ExceptSeq DEF SetTop

LEMMA TopType ==
    ASSUME NEW F, NEW s \in Seq(F), s # <<>>
    PROVE /\ Len(s) \in 1..Len(s)
          /\ 1 \in 1..Len(s)
          /\ s[Len(s)] \in F
          /\ s[1] \in F
BY EmptySeq, LenProperties, ElementOfSeq
-----------------------------------------------------------------------------
(* Type correctness.  A frame is no deeper in its continuation stack than  *)
(* in the whole stack, so the guarded frame below it (Base) exists.        *)
DepthBound == \A p \in Tasks : \A i \in 1..Len(stack[p]) : stack[p][i].depth <= i

Typed == TypeOK /\ DepthBound

StackOK(s) == s \in Seq(Frame) /\ \A i \in 1..Len(s) : s[i].depth <= i

LEMMA InitTyped == Init => Typed
<1> SUFFICES ASSUME Init PROVE Typed
  OBVIOUS
<1>1. (CHOOSE t \in Thunks : TRUE) \in Thunks
  BY ConstantsAssumption
<1>2. <<>> \in Seq(Frame) /\ Len(<<>>) = 0
  BY EmptySeq
<1> QED BY <1>1, <1>2, ConstantsAssumption
        DEF Init, Typed, TypeOK, DepthBound, PCs, Outcome

LEMMA PopOK ==
    ASSUME NEW s, StackOK(s), s # <<>>
    PROVE StackOK(Front(s))
<1>1. /\ Front(s) \in Seq(Frame)
      /\ Len(Front(s)) = Len(s) - 1
      /\ \A i \in 1..(Len(s) - 1) : Front(s)[i] = s[i]
  BY PopType DEF StackOK
<1>2. Len(s) \in Nat
  BY LenProperties DEF StackOK
<1> QED BY <1>1, <1>2 DEF StackOK

LEMMA SetTopOK ==
    ASSUME NEW s, StackOK(s), s # <<>>, NEW f \in Frame, f.depth <= Len(s)
    PROVE StackOK(SetTop(s, f))
<1>1. /\ SetTop(s, f) \in Seq(Frame)
      /\ Len(SetTop(s, f)) = Len(s)
      /\ SetTop(s, f)[Len(s)] = f
      /\ \A i \in 1..(Len(s) - 1) : SetTop(s, f)[i] = s[i]
  BY SetTopType DEF StackOK
<1>2. Len(s) \in Nat
  BY LenProperties DEF StackOK
<1> QED BY <1>1, <1>2 DEF StackOK

LEMMA TopOK ==
    ASSUME NEW s, StackOK(s), s # <<>>
    PROVE /\ s[Len(s)] \in Frame
          /\ s[Len(s)].depth <= Len(s)
          /\ Len(s) \in Nat \ {0}
BY TopType DEF StackOK

LEMMA PushOK ==
    ASSUME NEW s, StackOK(s), NEW f \in Frame, f.depth <= Len(s) + 1
    PROVE StackOK(Append(s, f))
BY AppendProperties, LenProperties DEF StackOK

LEMMA PrefixOK ==
    ASSUME NEW s, StackOK(s), NEW b \in 1..Len(s)
    PROVE /\ StackOK(SubSeq(s, 1, b))
          /\ Len(SubSeq(s, 1, b)) = b
          /\ \A i \in 1..b : SubSeq(s, 1, b)[i] = s[i]
          /\ SubSeq(s, 1, b) # <<>>
<1>1. 1 \in Int /\ b \in Int /\ b \in Nat \ {0} /\ \A i \in 1..b : s[i] \in Frame
  BY ElementOfSeq, LenProperties DEF StackOK
<1>2. /\ SubSeq(s, 1, b) \in Seq(Frame)
      /\ Len(SubSeq(s, 1, b)) = IF 1 <= b THEN b - 1 + 1 ELSE 0
      /\ \A i \in 1..(b - 1 + 1) : SubSeq(s, 1, b)[i] = s[1 + i - 1]
  BY <1>1, SubSeqProperties
<1>3. \A i \in 1..b : 1 + i - 1 = i /\ i \in 1..(b - 1 + 1) /\ i \in 1..Len(s)
  BY <1>1, LenProperties DEF StackOK
<1>4. Len(SubSeq(s, 1, b)) = b /\ \A i \in 1..b : SubSeq(s, 1, b)[i] = s[i]
  BY <1>1, <1>2, <1>3
<1>5. SubSeq(s, 1, b) # <<>>
  BY <1>1, <1>4, EmptySeq
<1> QED BY <1>2, <1>3, <1>4, <1>5 DEF StackOK

LEMMA TypedStack ==
    ASSUME Typed, NEW p \in Tasks
    PROVE StackOK(stack[p])
BY DEF Typed, TypeOK, DepthBound, StackOK

(* An action that gives p the stack s and leaves the other stacks alone.   *)
LEMMA StackUpdate ==
    ASSUME Typed, NEW p \in Tasks, NEW s, StackOK(s),
           stack' = [stack EXCEPT ![p] = s]
    PROVE /\ stack' \in [Tasks -> Seq(Frame)]
          /\ DepthBound'
<1>1. \A q \in Tasks : StackOK(stack[q])
  BY TypedStack
<1>2. stack \in [Tasks -> Seq(Frame)]
  BY DEF Typed, TypeOK
<1>3. \A q \in Tasks : stack'[q] = IF q = p THEN s ELSE stack[q]
  BY <1>2
<1>4. \A q \in Tasks : StackOK(stack'[q])
  BY <1>1, <1>3
<1>5. stack' \in [Tasks -> Seq(Frame)]
  BY <1>2 DEF StackOK
<1> QED BY <1>4, <1>5 DEF DepthBound, StackOK

LEMMA ReturnTyped ==
    ASSUME Typed, NEW p \in Tasks, NEW s, StackOK(s), NEW t \in Thunks,
           NEW v \in Outcome, Return(p, s, t, v),
           UNCHANGED <<state, owner, result>>,
           listeners' \in [Thunks -> SUBSET Tasks]
    PROVE Typed'
<1>0. TypeOK
  BY DEF Typed
<1>1. CASE s = <<>>
  <2>1. stack' = [stack EXCEPT ![p] = s]
    BY <1>1 DEF Return
  <2>2. seen' \in [Tasks -> [Thunks -> Outcome \cup {Unset}]] /\ wanted' \in [Tasks -> SUBSET Thunks]
    <3>1. seen \in [Tasks -> [Thunks -> Outcome \cup {Unset}]] /\ wanted \in [Tasks -> SUBSET Thunks]
      BY <1>0 DEF TypeOK
    <3>2. seen' = [seen EXCEPT ![p][t] = v] /\ wanted' = [wanted EXCEPT ![p] = @ \ {t}]
      BY <1>1 DEF Return
    <3>3. seen' \in [Tasks -> [Thunks -> Outcome \cup {Unset}]]
      BY <3>1, <3>2
    <3>4. wanted[p] \ {t} \in SUBSET Thunks
      BY <3>1
    <3>5. wanted' \in [Tasks -> SUBSET Thunks]
      BY <3>1, <3>2, <3>4
    <3> QED BY <3>3, <3>5
  <2>3. stack' \in [Tasks -> Seq(Frame)] /\ DepthBound'
    BY <2>1, StackUpdate
  <2>4. pc' = [pc EXCEPT ![p] = "run"] /\ UNCHANGED <<target, verdict>>
    BY <1>1 DEF Return
  <2> QED BY <1>0, <2>2, <2>3, <2>4 DEF Typed, TypeOK, PCs
<1>2. CASE s # <<>>
  <2> DEFINE f == s[Len(s)]
  <2>1. f \in Frame /\ f.depth <= Len(s) /\ Len(s) \in Nat
    BY <1>2, TopOK
  <2>2. CASE v = "err"
    <3> DEFINE g == [f EXCEPT !.todo = {}]
    <3>1. g \in Frame /\ g.depth <= Len(s)
      BY <2>1 DEF Frame
    <3>2. StackOK(SetTop(s, g))
      BY <1>2, <3>1, SetTopOK
    <3>3. stack' = [stack EXCEPT ![p] = SetTop(s, g)]
      BY <1>2, <2>2 DEF Return
    <3>4. f.thunk \in Thunks
      BY <2>1 DEF Frame
    <3>5. target' = [target EXCEPT ![p] = f.thunk] /\ verdict' = [verdict EXCEPT ![p] = "err"]
          /\ pc' = [pc EXCEPT ![p] = "set"] /\ UNCHANGED <<seen, wanted>>
      BY <1>2, <2>2 DEF Return
    <3>6. StackOK(SetTop(s, g)) /\ stack' \in [Tasks -> Seq(Frame)] /\ DepthBound'
      BY <3>2, <3>3, StackUpdate
    <3> HIDE DEF f, g
    <3> QED BY <1>0, <3>4, <3>5, <3>6 DEF Typed, TypeOK, PCs, Outcome
  <2>3. CASE v # "err"
    <3> DEFINE g == [f EXCEPT !.todo = @ \ {t}]
    <3>1. g \in Frame /\ g.depth <= Len(s)
      BY <2>1 DEF Frame
    <3>2. StackOK(SetTop(s, g))
      BY <1>2, <3>1, SetTopOK
    <3>3. stack' = [stack EXCEPT ![p] = SetTop(s, g)]
      BY <1>2, <2>3 DEF Return
    <3>5. pc' = [pc EXCEPT ![p] = "run"] /\ UNCHANGED <<target, verdict, seen, wanted>>
      BY <1>2, <2>3 DEF Return
    <3>6. stack' \in [Tasks -> Seq(Frame)] /\ DepthBound'
      BY <3>2, <3>3, StackUpdate
    <3> HIDE DEF f, g
    <3> QED BY <1>0, <3>5, <3>6 DEF Typed, TypeOK, PCs
  <2> QED BY <2>2, <2>3
<1> QED BY <1>1, <1>2
(* The actions that only move p within the protocol.                       *)
LEMMA MoveTyped ==
    ASSUME Typed, NEW p \in Tasks, NEW to \in PCs,
           pc' = [pc EXCEPT ![p] = to],
           listeners' \in [Thunks -> SUBSET Tasks],
           UNCHANGED <<state, owner, result, stack, verdict, wanted, seen>>,
           target' \in [Tasks -> Thunks]
    PROVE Typed'
BY DEF Typed, TypeOK, DepthBound

LEMMA TopTyped ==
    ASSUME Typed, NEW p \in Tasks, stack[p] # <<>>
    PROVE /\ Top(p).thunk \in Thunks
          /\ Top(p).phase \in {"fresh", "redispatch", "parked"}
          /\ Top(p).todo \subseteq Thunks
          /\ Top(p).depth \in Nat \ {0}
          /\ Top(p).depth <= Len(stack[p])
          /\ Len(stack[p]) \in Nat \ {0}
          /\ Top(p) \in Frame
<1>1. StackOK(stack[p])
  BY TypedStack
<1>2. Top(p) \in Frame /\ Top(p).depth <= Len(stack[p]) /\ Len(stack[p]) \in Nat \ {0}
  BY <1>1, TopOK DEF Top, Last
<1> QED BY <1>2 DEF Frame

LEMMA WantedTyped ==
    ASSUME Typed, NEW p \in Tasks
    PROVE Wanted(p) \subseteq Thunks
BY TopTyped DEF Wanted, Typed, TypeOK

LEMMA StepTyped ==
    ASSUME Typed, NEW p \in Tasks, Step(p) \/ Panic(p)
    PROVE Typed'
<1>0. TypeOK /\ StackOK(stack[p]) /\ target[p] \in Thunks /\ verdict[p] \in Outcome
  BY TypedStack DEF Typed, TypeOK
<1>1. CASE Demand(p)
  <2>1. PICK d \in Wanted(p) : target' = [target EXCEPT ![p] = d]
    BY <1>1 DEF Demand
  <2>2. d \in Thunks
    BY WantedTyped
  <2>3. target' \in [Tasks -> Thunks]
    BY <1>0, <2>1, <2>2 DEF TypeOK
  <2>4. listeners' \in [Thunks -> SUBSET Tasks]
    BY <1>0, <1>1 DEF Demand, cell, TypeOK
  <2> QED BY <1>1, <2>3, <2>4, MoveTyped DEF Demand, Goto, cell, PCs
<1>2. CASE DepthExceeded(p)
  <2>1. stack[p] # <<>>
    BY <1>2 DEF DepthExceeded, TooDeep, Fresh
  <2> DEFINE b == Base(p)
             s == SubSeq(stack[p], 1, b)
             f == [stack[p][b] EXCEPT !.todo = {}]
  <2>2. b \in 1..Len(stack[p])
    BY <2>1, TopTyped DEF Base, Depth
  <2>3. stack[p][b] \in Frame /\ stack[p][b].depth <= b /\ b \in Nat \ {0}
    BY <1>0, <2>2, ElementOfSeq DEF StackOK
  <2>4. StackOK(s) /\ Len(s) = b /\ s # <<>>
    BY <1>0, <2>2, PrefixOK
  <2>5. f \in Frame /\ f.depth <= b
    BY <2>3 DEF Frame
  <2>6. StackOK(SetTop(s, f))
    BY <2>4, <2>5, SetTopOK
  <2>7. stack' = [stack EXCEPT ![p] = SetTop(s, f)]
    BY <1>2, <1>0 DEF DepthExceeded, TypeOK
  <2>8. stack' \in [Tasks -> Seq(Frame)] /\ DepthBound'
    BY <2>6, <2>7, StackUpdate
  <2>9. stack[p][b].thunk \in Thunks
    BY <2>3 DEF Frame
  <2> QED BY <1>0, <1>2, <2>8, <2>9 DEF DepthExceeded, Goto, cell, Typed, TypeOK, PCs, Outcome
<1>3. CASE Complete(p)
  <2>1. Top(p).thunk \in Thunks
    BY <1>3, TopTyped DEF Complete
  <2> QED BY <1>0, <1>3, <2>1 DEF Complete, Goto, cell, Typed, TypeOK, PCs, Outcome, DepthBound
<1>4. CASE Reset(p)
  <2> DEFINE t == Top(p).thunk
             f == [Top(p) EXCEPT !.todo = {t}, !.phase = "parked"]
             s == IF Guarded(Top(p)) THEN SetTop(stack[p], f) ELSE Front(stack[p])
  <2>1. stack[p] # <<>>
    BY <1>4 DEF Reset
  <2>2. t \in Thunks /\ f \in Frame /\ f.depth <= Len(stack[p])
    BY <2>1, TopTyped DEF Frame
  <2>3. StackOK(s)
    BY <1>0, <2>1, <2>2, PopOK, SetTopOK
  <2>4. stack' = [stack EXCEPT ![p] = s]
    BY <1>4, <1>0 DEF Reset, TypeOK
  <2>5. stack' \in [Tasks -> Seq(Frame)] /\ DepthBound'
    BY <2>3, <2>4, StackUpdate
  <2>6. /\ state' = [state EXCEPT ![t] = "redispatch"]
        /\ owner' = [owner EXCEPT ![t] = NoTask]
        /\ target' = [target EXCEPT ![p] = t]
        /\ pc' = [pc EXCEPT ![p] = "check"]
        /\ UNCHANGED <<result, listeners, verdict, wanted, seen>>
    BY <1>4 DEF Reset, Goto
  <2> HIDE DEF s, t, f
  <2> QED BY <1>0, <2>2, <2>5, <2>6 DEF Typed, TypeOK, PCs
<1>5. CASE Finish(p)
  BY <1>5, <1>0, MoveTyped DEF Finish, Goto, cell, PCs, TypeOK
<1>6. CASE CheckHit(p)
  <2>1. result[target[p]] \in Outcome
    BY <1>6, <1>0 DEF CheckHit, TypeOK
  <2> QED BY <1>0, <1>6, <2>1, ReturnTyped DEF CheckHit, cell, TypeOK
<1>7. CASE CheckMiss(p)
  BY <1>7, <1>0, MoveTyped DEF CheckMiss, Goto, cell, PCs, TypeOK
<1>8. CASE Claim(p)
  <2> DEFINE t == target[p]
             f == [thunk |-> t, phase |-> state[t], depth |-> IF Fresh(p) THEN 1 ELSE Depth(p) + 1,
                   todo |-> IF state[t] = "fresh" THEN Demands[t] ELSE StrictArgs[t]]
  <2>1. state[t] \in {"fresh", "redispatch"}
    BY <1>0, <1>8 DEF Claim, TypeOK
  <2>2. f.depth \in Nat \ {0} /\ f.depth <= Len(stack[p]) + 1
    BY <1>0, TopTyped, EmptySeq DEF Depth, Fresh, Top, Last
  <2>3. f \in Frame
    BY <1>0, <2>1, <2>2, ConstantsAssumption DEF Frame
  <2>4. StackOK(Append(stack[p], f))
    BY <1>0, <2>2, <2>3, PushOK
  <2>5. stack' = [stack EXCEPT ![p] = Append(stack[p], f)]
    BY <1>8, <1>0 DEF Claim, TypeOK
  <2>6. stack' \in [Tasks -> Seq(Frame)] /\ DepthBound'
    BY <2>4, <2>5, StackUpdate
  <2>7. TaskId(p) \in Tasks \cup {NoTask}
    BY DEF TaskId
  <2>8. /\ state' = [state EXCEPT ![t] = "taken"]
        /\ owner' = [owner EXCEPT ![t] = TaskId(p)]
        /\ pc' = [pc EXCEPT ![p] = "run"]
        /\ UNCHANGED <<result, listeners, target, verdict, wanted, seen>>
    BY <1>8 DEF Claim, Goto
  <2> HIDE DEF f, t
  <2> QED BY <1>0, <2>6, <2>7, <2>8 DEF Typed, TypeOK, PCs
<1>9. CASE ClaimLost(p)
  BY <1>9, <1>0, MoveTyped DEF ClaimLost, Goto, cell, PCs, TypeOK
<1>10. CASE Recheck(p)
  BY <1>10, <1>0, MoveTyped DEF Recheck, cell, PCs, TypeOK
<1>11. CASE OwnerIsSelf(p)
  BY <1>11, <1>0 DEF OwnerIsSelf, Goto, cell, Typed, TypeOK, PCs, Outcome, DepthBound
<1>12. CASE OwnerIsOther(p)
  BY <1>12, <1>0, MoveTyped DEF OwnerIsOther, Goto, cell, PCs, TypeOK
<1>13. CASE Listen(p)
  BY <1>13, <1>0, MoveTyped DEF Listen, Goto, PCs, TypeOK
<1>14. CASE Confirm(p)
  <2>0. listeners \in [Thunks -> SUBSET Tasks] /\ target' \in [Tasks -> Thunks]
    BY <1>14, <1>0 DEF Confirm, TypeOK
  <2>a. listeners[target[p]] \ {p} \in SUBSET Tasks
    BY <1>0, <2>0
  <2>1. listeners' \in [Thunks -> SUBSET Tasks] /\ target' \in [Tasks -> Thunks]
    BY <1>14, <2>0, <2>a DEF Confirm
  <2>2. \E to \in {"check", "asleep"} : pc' = [pc EXCEPT ![p] = to]
    BY <1>14 DEF Confirm
  <2>3. UNCHANGED <<state, owner, result, stack, verdict, wanted, seen>>
    BY <1>14 DEF Confirm
  <2> QED BY <2>1, <2>2, <2>3, MoveTyped DEF PCs
<1>15. CASE Wake(p)
  BY <1>15, <1>0, MoveTyped DEF Wake, cell, PCs, TypeOK
<1>16. CASE SetResult(p)
  BY <1>16, <1>0 DEF SetResult, Goto, Typed, TypeOK, PCs, DepthBound
<1>17. CASE ClearOwner(p)
  BY <1>17, <1>0 DEF ClearOwner, Goto, Typed, TypeOK, PCs, DepthBound
<1>18. CASE Notify(p)
  <2>1. listeners' \in [Thunks -> SUBSET Tasks]
    BY <1>18, <1>0 DEF Notify, TypeOK
  <2>2. CASE Finished(p) /\ Guarded(Top(p))
    <3>1. stack[p] # <<>>
      BY <2>2 DEF Finished
    <3>2. StackOK(Front(stack[p]))
      BY <3>1, <1>0, PopOK
    <3>3. stack' = [stack EXCEPT ![p] = Front(stack[p])]
      BY <1>18, <2>2, <1>0 DEF Notify, TypeOK
    <3>4. stack' \in [Tasks -> Seq(Frame)] /\ DepthBound'
      BY <3>2, <3>3, StackUpdate
    <3> QED BY <1>18, <1>0, <2>1, <2>2, <3>4 DEF Notify, Typed, TypeOK, PCs
  <2>3. CASE ~(Finished(p) /\ Guarded(Top(p)))
    <3> DEFINE s == IF Finished(p) THEN Front(stack[p]) ELSE stack[p]
    <3>1. StackOK(s)
      BY <1>0, PopOK DEF Finished
    <3>2. Return(p, s, target[p], verdict[p]) /\ UNCHANGED <<state, owner, result>>
      BY <1>18, <2>3 DEF Notify
    <3> HIDE DEF s
    <3> QED BY <1>0, <2>1, <3>1, <3>2, ReturnTyped
  <2> QED BY <2>2, <2>3
<1>19. CASE Unwind(p)
  <2>1. CASE stack[p] = <<>>
    BY <1>19, <2>1, <1>0 DEF Unwind, Typed, TypeOK, PCs, DepthBound
  <2>2. CASE stack[p] # <<>>
    <3>1. Top(p).thunk \in Thunks
      BY <2>2, TopTyped
    <3>2. StackOK(Front(stack[p]))
      BY <2>2, <1>0, PopOK
    <3>3. stack' = [stack EXCEPT ![p] = Front(stack[p])]
      BY <1>19, <2>2, <1>0 DEF Unwind, TypeOK
    <3>4. stack' \in [Tasks -> Seq(Frame)] /\ DepthBound'
      BY <3>2, <3>3, StackUpdate
    <3> QED BY <1>19, <1>0, <2>2, <3>1, <3>4 DEF Unwind, Typed, TypeOK, PCs, Outcome
  <2> QED BY <2>1, <2>2
<1>20. CASE Panic(p)
  BY <1>20, <1>0, MoveTyped DEF Panic, Goto, cell, PCs, TypeOK
<1> QED BY <1>1, <1>2, <1>3, <1>4, <1>5, <1>6, <1>7, <1>8, <1>9, <1>10, <1>11,
           <1>12, <1>13, <1>14, <1>15, <1>16, <1>17, <1>18, <1>19, <1>20 DEF Step

(* Every variable keeps its type in every behaviour of the protocol,       *)
(* whatever the tasks, the graph of thunks and the abnormal exits.         *)
THEOREM TypeCorrect == Spec => []TypeOK
<1>1. Init => Typed
  BY InitTyped
<1>2. Typed /\ [Next]_vars => Typed'
  <2> SUFFICES ASSUME Typed, [Next]_vars PROVE Typed'
    OBVIOUS
  <2>1. CASE \E p \in Tasks : Step(p) \/ Panic(p)
    BY <2>1, StepTyped
  <2>2. CASE UNCHANGED vars
    BY <2>2 DEF vars, Typed, TypeOK, DepthBound
  <2> QED BY <2>1, <2>2 DEF Next
<1>3. Typed => TypeOK
  BY DEF Typed
<1> QED BY <1>1, <1>2, <1>3, PTL DEF Spec
-----------------------------------------------------------------------------
(* A thread asleep on a settled thunk has a notify_waiters() coming: the   *)
(* order in settle() (result, then notify) against the order in settled()  *)
(* (register, then look at the result) loses no wakeup.                    *)
LEMMA ReturnWakes ==
    ASSUME Typed, NEW p \in Tasks, NEW s, NEW t, NEW v, Return(p, s, t, v)
    PROVE /\ pc'[p] \in {"run", "set"}
          /\ \A q \in Tasks \ {p} : pc'[q] = pc[q] /\ target'[q] = target[q]
<1>1. pc \in [Tasks -> PCs] /\ target \in [Tasks -> Thunks]
  BY DEF Typed, TypeOK
<1>2. \/ pc' = [pc EXCEPT ![p] = "run"] /\ target' = target
      \/ /\ pc' = [pc EXCEPT ![p] = "set"]
         /\ target' = [target EXCEPT ![p] = s[Len(s)].thunk]
  BY DEF Return
<1> QED BY <1>1, <1>2

LEMMA StepWakes ==
    ASSUME Typed, NoLostWakeup, NEW p \in Tasks, Step(p) \/ Panic(p)
    PROVE NoLostWakeup'
<1>0. /\ pc \in [Tasks -> PCs] /\ target \in [Tasks -> Thunks]
      /\ result \in [Thunks -> Outcome \cup {Unset}]
      /\ listeners \in [Thunks -> SUBSET Tasks]
  BY DEF Typed, TypeOK
<1>1. ASSUME UNCHANGED <<listeners, result>>,
             pc[p] \notin {"clear", "notify"}, pc'[p] # "asleep",
             \A q \in Tasks \ {p} : pc'[q] = pc[q] /\ target'[q] = target[q]
      PROVE NoLostWakeup'
  BY <1>1 DEF NoLostWakeup
<1>2. CASE \/ Demand(p) \/ DepthExceeded(p) \/ Complete(p) \/ Reset(p) \/ Finish(p)
           \/ CheckMiss(p) \/ Claim(p) \/ ClaimLost(p) \/ OwnerIsSelf(p)
           \/ OwnerIsOther(p) \/ Panic(p)
  BY <1>0, <1>1, <1>2 DEF Demand, DepthExceeded, Complete, Reset, Finish, CheckMiss, Claim,
       ClaimLost, OwnerIsSelf, OwnerIsOther, Panic, Goto, cell
<1>3. CASE CheckHit(p)
  BY <1>0, <1>1, <1>3, ReturnWakes DEF CheckHit, cell
<1>4. CASE Recheck(p) \/ Wake(p)
  BY <1>0, <1>1, <1>4 DEF Recheck, Wake, cell
<1>5. CASE Listen(p)
  BY <1>0, <1>5 DEF Listen, Goto, NoLostWakeup
<1>6. CASE Confirm(p)
  <2>1. \A q \in Tasks \ {p} : pc'[q] = pc[q]
    BY <1>0, <1>6 DEF Confirm
  <2>2. pc'[p] = "asleep" => result[target[p]] = Unset
    BY <1>0, <1>6 DEF Confirm
  <2>3. \A t \in Thunks : listeners'[t] \subseteq listeners[t]
    BY <1>0, <1>6 DEF Confirm
  <2>4. pc[p] = "confirm" /\ UNCHANGED <<result, target>>
    BY <1>6 DEF Confirm
  <2> QED BY <1>0, <2>1, <2>2, <2>3, <2>4 DEF NoLostWakeup
<1>7. CASE SetResult(p)
  <2>1. /\ \A q \in Tasks : pc'[q] = IF q = p THEN "clear" ELSE pc[q]
        /\ \A t \in Thunks \ {target[p]} : result'[t] = result[t]
        /\ UNCHANGED <<listeners, target>> /\ pc[p] = "set"
    BY <1>0, <1>7 DEF SetResult, Goto
  <2> QED BY <1>0, <2>1 DEF NoLostWakeup
<1>8. CASE ClearOwner(p)
  BY <1>0, <1>8 DEF ClearOwner, Goto, NoLostWakeup
<1>9. CASE Notify(p)
  <2>1. /\ \A t \in Thunks : listeners'[t] = IF t = target[p] THEN {} ELSE listeners[t]
        /\ result' = result /\ pc[p] = "notify"
    BY <1>0, <1>9 DEF Notify
  <2>2. pc'[p] # "asleep" /\ \A q \in Tasks \ {p} : pc'[q] = pc[q] /\ target'[q] = target[q]
    <3>1. CASE Finished(p) /\ Guarded(Top(p))
      BY <1>0, <1>9, <3>1 DEF Notify
    <3>2. CASE ~(Finished(p) /\ Guarded(Top(p)))
      BY <1>9, <3>2, ReturnWakes DEF Notify
    <3> QED BY <3>1, <3>2
  <2> QED BY <1>0, <2>1, <2>2 DEF NoLostWakeup
<1>10. CASE Unwind(p)
  <2>0. pc' = pc \/ pc' = [pc EXCEPT ![p] = "dead"]
    BY <1>10 DEF Unwind
  <2>1. pc[p] = "unwind" /\ target' = target
        /\ \A q \in Tasks : pc'[q] = pc[q] \/ (q = p /\ pc'[q] = "dead")
    <3>1. pc[p] = "unwind" /\ target' = target
      BY <1>10 DEF Unwind
    <3> QED BY <1>0, <2>0, <3>1
  <2>2. \A t \in Thunks : \/ listeners'[t] = listeners[t] /\ result'[t] = result[t]
                          \/ listeners'[t] = {}
    BY <1>0, <1>10 DEF Unwind
  <2> QED BY <1>0, <2>1, <2>2 DEF NoLostWakeup
<1> QED BY <1>2, <1>3, <1>4, <1>5, <1>6, <1>7, <1>8, <1>9, <1>10 DEF Step

(* In every behaviour a task asleep on a settled thunk is about to be      *)
(* woken: settle() and settled() together lose no wakeup.                  *)
THEOREM WakeupsAreNotLost == Spec => []NoLostWakeup
<1> DEFINE Inv == Typed /\ NoLostWakeup
<1>1. Init => Inv
  BY InitTyped DEF Init, NoLostWakeup
<1>2. Inv /\ [Next]_vars => Inv'
  <2> SUFFICES ASSUME Inv, [Next]_vars PROVE Inv'
    OBVIOUS
  <2>1. CASE \E p \in Tasks : Step(p) \/ Panic(p)
    BY <2>1, StepTyped, StepWakes
  <2>2. CASE UNCHANGED vars
    BY <2>2 DEF vars, Typed, TypeOK, DepthBound, NoLostWakeup
  <2> QED BY <2>1, <2>2 DEF Next
<1>3. Inv => NoLostWakeup
  OBVIOUS
<1> QED BY <1>1, <1>2, <1>3, PTL DEF Spec
-----------------------------------------------------------------------------
(* One task evaluates a thunk.  A frame that is not parked was pushed by   *)
(* the claim that took the pending state, and Reset parks or pops it in    *)
(* the step that puts a state back.                                        *)
EvaluatedIsTaken ==
    \A t \in Thunks : result[t] = Unset =>
        \A p \in Tasks : Evaluating(p, t) # {} => state[t] = "taken"

ClaimInv == SingleEvaluator /\ EvaluatedIsTaken

(* What most steps do to a stack: it loses frames, and no frame below      *)
(* those changes, but for what it still demands.                           *)
Cut(s, r) ==
    /\ Len(s) <= Len(r)
    /\ \A i \in 1..Len(s) :
          s[i].thunk = r[i].thunk /\ s[i].phase = r[i].phase /\ s[i].depth = r[i].depth

LEMMA CutRefl ==
    ASSUME NEW s, StackOK(s)
    PROVE  Cut(s, s)
BY LenProperties DEF Cut, StackOK

LEMMA CutFront ==
    ASSUME NEW s, StackOK(s), s # <<>>
    PROVE  Cut(Front(s), s)
<1>1. Len(s) \in Nat
  BY LenProperties DEF StackOK
<1> QED BY <1>1, PopType DEF Cut, StackOK

LEMMA CutTodo ==
    ASSUME NEW s, StackOK(s), s # <<>>, NEW D \in SUBSET Thunks
    PROVE  Cut(SetTop(s, [s[Len(s)] EXCEPT !.todo = D]), s)
<1> DEFINE f == [s[Len(s)] EXCEPT !.todo = D]
<1>1. s[Len(s)] \in Frame /\ Len(s) \in Nat
  BY TopOK
<1>2. f \in Frame /\ f.thunk = s[Len(s)].thunk /\ f.phase = s[Len(s)].phase
      /\ f.depth = s[Len(s)].depth
  BY <1>1 DEF Frame
<1> HIDE DEF f
<1>3. /\ Len(SetTop(s, f)) = Len(s)
      /\ SetTop(s, f)[Len(s)] = f
      /\ \A i \in 1..(Len(s) - 1) : SetTop(s, f)[i] = s[i]
  BY <1>2, SetTopType DEF StackOK
<1>4. \A i \in 1..Len(s) : i = Len(s) \/ i \in 1..(Len(s) - 1)
  BY <1>1
<1>5. Cut(SetTop(s, f), s)
  BY <1>1, <1>2, <1>3, <1>4 DEF Cut
<1> QED BY <1>5 DEF f

LEMMA CutTransitive ==
    ASSUME NEW s, StackOK(s), NEW r, StackOK(r), NEW q, StackOK(q), Cut(s, r), Cut(r, q)
    PROVE  Cut(s, q)
<1>1. Len(s) \in Nat /\ Len(r) \in Nat /\ Len(q) \in Nat
  BY LenProperties DEF StackOK
<1> QED BY <1>1 DEF Cut

LEMMA ReturnCuts ==
    ASSUME Typed, NEW p \in Tasks, NEW s, StackOK(s), NEW t \in Thunks, NEW v,
           Return(p, s, t, v)
    PROVE  \E r : StackOK(r) /\ Cut(r, s) /\ stack' = [stack EXCEPT ![p] = r]
<1>1. CASE s = <<>>
  BY <1>1, CutRefl DEF Return
<1>2. CASE s # <<>>
  <2> DEFINE f == s[Len(s)]
  <2>1. f \in Frame /\ f.depth <= Len(s) /\ f.todo \subseteq Thunks
    BY <1>2, TopOK DEF Frame
  <2>2. \E D \in SUBSET Thunks :
            stack' = [stack EXCEPT ![p] = SetTop(s, [f EXCEPT !.todo = D])]
    <3>1. CASE v = "err"
      <4>1. stack' = [stack EXCEPT ![p] = SetTop(s, [f EXCEPT !.todo = {}])]
        BY <1>2, <3>1 DEF Return
      <4> QED BY <4>1
    <3>2. CASE v # "err"
      <4>1. stack' = [stack EXCEPT ![p] = SetTop(s, [f EXCEPT !.todo = @ \ {t}])]
        BY <1>2, <3>2 DEF Return
      <4>2. [f EXCEPT !.todo = @ \ {t}] = [f EXCEPT !.todo = f.todo \ {t}]
        OBVIOUS
      <4>3. f.todo \ {t} \in SUBSET Thunks
        BY <2>1
      <4> HIDE DEF f
      <4> QED BY <4>1, <4>2, <4>3
    <3> QED BY <3>1, <3>2
  <2>3. PICK D \in SUBSET Thunks :
            stack' = [stack EXCEPT ![p] = SetTop(s, [f EXCEPT !.todo = D])]
    BY <2>2
  <2> DEFINE g == [f EXCEPT !.todo = D]
  <2>4. g \in Frame /\ g.depth <= Len(s)
    BY <2>1 DEF Frame
  <2>5. StackOK(SetTop(s, g))
    BY <1>2, <2>4, SetTopOK
  <2>6. Cut(SetTop(s, g), s)
    BY <1>2, CutTodo
  <2>7. stack' = [stack EXCEPT ![p] = SetTop(s, g)]
    BY <2>3
  <2> HIDE DEF g
  <2> QED BY <2>5, <2>6, <2>7
<1> QED BY <1>1, <1>2

(* A cut disturbs neither part of the invariant.                           *)
LEMMA CutKeepsClaims ==
    ASSUME Typed, ClaimInv, NEW p \in Tasks, NEW s, StackOK(s), Cut(s, stack[p]),
           stack' = [stack EXCEPT ![p] = s], state' = state,
           \A t \in Thunks : result'[t] = Unset => result[t] = Unset
    PROVE  ClaimInv'
<1>1. stack \in [Tasks -> Seq(Frame)] /\ \A q \in Tasks : Len(stack[q]) \in Nat
  BY LenProperties DEF Typed, TypeOK
<1>2. stack'[p] = s /\ \A q \in Tasks : q # p => stack'[q] = stack[q]
  BY <1>1
<1>3. Len(s) \in Nat
  BY LenProperties DEF StackOK
<1>4. \A q \in Tasks, t \in Thunks : Evaluating(q, t)' \subseteq Evaluating(q, t)
  <2> SUFFICES ASSUME NEW q \in Tasks, NEW t \in Thunks
               PROVE  Evaluating(q, t)' \subseteq Evaluating(q, t)
    OBVIOUS
  <2>1. CASE q = p
    BY <1>1, <1>2, <1>3, <2>1 DEF Evaluating, Cut
  <2>2. CASE q # p
    BY <1>2, <2>2 DEF Evaluating
  <2> QED BY <2>1, <2>2
<1>5. SingleEvaluator'
  BY <1>4 DEF ClaimInv, SingleEvaluator
<1>6. EvaluatedIsTaken'
  BY <1>4 DEF ClaimInv, EvaluatedIsTaken
<1> QED BY <1>5, <1>6 DEF ClaimInv

LEMMA DepthExceededStack ==
    ASSUME Typed, NEW p \in Tasks, DepthExceeded(p)
    PROVE  /\ stack[p] # <<>> /\ Base(p) \in 1..Len(stack[p])
           /\ stack' = [stack EXCEPT ![p] = SetTop(SubSeq(stack[p], 1, Base(p)),
                           [stack[p][Base(p)] EXCEPT !.todo = {}])]
<1>1. stack[p] # <<>>
  BY DEF DepthExceeded, TooDeep, Fresh
<1>2. Base(p) \in 1..Len(stack[p])
  BY <1>1, TopTyped DEF Base, Depth
<1>3. stack \in [Tasks -> Seq(Frame)]
  BY DEF Typed, TypeOK
<1> QED BY <1>1, <1>2, <1>3 DEF DepthExceeded

(* Every step of p but a claim and a reset cuts its stack.                 *)
LEMMA StepCuts ==
    ASSUME Typed, NEW p \in Tasks, Step(p) \/ Panic(p), ~Claim(p), ~Reset(p)
    PROVE  /\ \E r : StackOK(r) /\ Cut(r, stack[p]) /\ stack' = [stack EXCEPT ![p] = r]
           /\ state' = state
<1>0. /\ stack \in [Tasks -> Seq(Frame)] /\ StackOK(stack[p]) /\ target[p] \in Thunks
      /\ Cut(stack[p], stack[p])
  BY TypedStack, CutRefl DEF Typed, TypeOK
<1>1. CASE stack' = stack /\ state' = state
  <2>1. stack' = [stack EXCEPT ![p] = stack[p]]
    BY <1>0, <1>1
  <2> QED BY <1>0, <1>1, <2>1
<1>2. CASE DepthExceeded(p)
  <2> DEFINE b == Base(p)
             s == SubSeq(stack[p], 1, b)
             f == [stack[p][b] EXCEPT !.todo = {}]
  <2>1. b \in 1..Len(stack[p]) /\ stack' = [stack EXCEPT ![p] = SetTop(s, f)]
    BY <1>2, DepthExceededStack
  <2>2. StackOK(s) /\ Len(s) = b /\ s # <<>> /\ \A i \in 1..b : s[i] = stack[p][i]
    BY <1>0, <2>1, PrefixOK
  <2>3. b \in Nat \ {0} /\ Len(stack[p]) \in Nat /\ b <= Len(stack[p])
    BY <1>0, <2>1, LenProperties DEF StackOK
  <2>4. s[Len(s)] = stack[p][b]
    BY <2>2, <2>3
  <2>5. Cut(SetTop(s, f), s)
    BY <2>2, <2>4, CutTodo
  <2>6. f \in Frame /\ f.depth <= b
    BY <2>2, <2>4, TopOK DEF Frame
  <2>7. StackOK(SetTop(s, f))
    BY <2>2, <2>6, SetTopOK
  <2>8. Cut(s, stack[p])
    BY <2>2, <2>3 DEF Cut
  <2>9. Cut(SetTop(s, f), stack[p]) /\ state' = state
    BY <1>0, <1>2, <2>2, <2>5, <2>7, <2>8, CutTransitive DEF DepthExceeded, cell
  <2> HIDE DEF s, f
  <2> QED BY <2>1, <2>7, <2>9
<1>3. CASE CheckHit(p)
  BY <1>0, <1>3, ReturnCuts DEF CheckHit, cell
<1>4. CASE Notify(p)
  <2>1. CASE Finished(p) /\ Guarded(Top(p))
    <3>1. stack[p] # <<>>
      BY <2>1 DEF Finished
    <3>2. stack' = [stack EXCEPT ![p] = Front(stack[p])] /\ state' = state
      BY <1>0, <1>4, <2>1 DEF Notify
    <3> QED BY <1>0, <3>1, <3>2, PopOK, CutFront
  <2>2. CASE ~(Finished(p) /\ Guarded(Top(p)))
    <3> DEFINE s == IF Finished(p) THEN Front(stack[p]) ELSE stack[p]
    <3>1. StackOK(s) /\ Cut(s, stack[p])
      BY <1>0, PopOK, CutFront DEF Finished
    <3>2. Return(p, s, target[p], verdict[p]) /\ state' = state
      BY <1>4, <2>2 DEF Notify
    <3> HIDE DEF s
    <3>3. PICK r : StackOK(r) /\ Cut(r, s) /\ stack' = [stack EXCEPT ![p] = r]
      BY <1>0, <3>1, <3>2, ReturnCuts
    <3>4. Cut(r, stack[p])
      BY <1>0, <3>1, <3>3, CutTransitive
    <3> QED BY <3>2, <3>3, <3>4
  <2> QED BY <2>1, <2>2
<1>5. CASE Unwind(p)
  <2>1. CASE stack[p] = <<>>
    BY <1>1, <1>5, <2>1 DEF Unwind
  <2>2. CASE stack[p] # <<>>
    <3>1. stack' = [stack EXCEPT ![p] = Front(stack[p])] /\ state' = state
      BY <1>0, <1>5, <2>2 DEF Unwind
    <3> QED BY <1>0, <2>2, <3>1, PopOK, CutFront
  <2> QED BY <2>1, <2>2
<1>6. CASE \/ Demand(p) \/ Complete(p) \/ Finish(p) \/ CheckMiss(p) \/ ClaimLost(p)
           \/ Recheck(p) \/ OwnerIsSelf(p) \/ OwnerIsOther(p) \/ Listen(p) \/ Confirm(p)
           \/ Wake(p) \/ SetResult(p) \/ ClearOwner(p) \/ Panic(p)
  BY <1>1, <1>6 DEF Demand, Complete, Finish, CheckMiss, ClaimLost, Recheck, OwnerIsSelf,
       OwnerIsOther, Listen, Confirm, Wake, SetResult, ClearOwner, Panic, cell
<1> QED BY <1>2, <1>3, <1>4, <1>5, <1>6 DEF Step

LEMMA ResultsStay ==
    ASSUME Typed, NEW p \in Tasks, Step(p) \/ Panic(p), NEW t \in Thunks, result[t] # Unset
    PROVE  result'[t] = result[t]
<1>1. result \in [Thunks -> Outcome \cup {Unset}]
  BY DEF Typed, TypeOK
<1>2. CASE SetResult(p)
  BY <1>1, <1>2 DEF SetResult
<1>3. CASE Unwind(p)
  BY <1>1, <1>3 DEF Unwind
<1>4. CASE ~SetResult(p) /\ ~Unwind(p)
  BY <1>4 DEF Step, Demand, DepthExceeded, Complete, Reset, Finish, CheckHit, CheckMiss, Claim,
       ClaimLost, Recheck, OwnerIsSelf, OwnerIsOther, Listen, Confirm, Wake, ClearOwner, Notify,
       Panic, cell
<1> QED BY <1>2, <1>3, <1>4

(* The frame a claim pushes.                                               *)
Pushed(p) ==
    [thunk |-> target[p], phase |-> state[target[p]],
     depth |-> IF Fresh(p) THEN 1 ELSE Depth(p) + 1,
     todo |-> IF state[target[p]] = "fresh" THEN Demands[target[p]] ELSE StrictArgs[target[p]]]

LEMMA ClaimPushes ==
    ASSUME Typed, NEW p \in Tasks, Claim(p)
    PROVE  /\ target[p] \in Thunks /\ Pushed(p) \in Frame
           /\ state[target[p]] \in {"fresh", "redispatch"}
           /\ stack' = [stack EXCEPT ![p] = Append(stack[p], Pushed(p))]
           /\ Len(stack'[p]) = Len(stack[p]) + 1 /\ Len(stack[p]) \in Nat
           /\ stack'[p][Len(stack[p]) + 1] = Pushed(p)
           /\ \A i \in 1..Len(stack[p]) : stack'[p][i] = stack[p][i]
           /\ \A q \in Tasks : q # p => stack'[q] = stack[q]
<1>1. TypeOK /\ StackOK(stack[p]) /\ target[p] \in Thunks /\ stack \in [Tasks -> Seq(Frame)]
  BY TypedStack DEF Typed, TypeOK
<1>2. state[target[p]] \in {"fresh", "redispatch"}
  BY <1>1 DEF Claim, TypeOK
<1>3. Pushed(p).depth \in Nat \ {0}
  BY TopTyped DEF Pushed, Depth
<1>4. Pushed(p) \in Frame
  BY <1>1, <1>2, <1>3, ConstantsAssumption DEF Frame, Pushed
<1>5. stack' = [stack EXCEPT ![p] = Append(stack[p], Pushed(p))]
  BY <1>1 DEF Claim, Pushed
<1>6. /\ Len(stack[p]) \in Nat
      /\ Len(Append(stack[p], Pushed(p))) = Len(stack[p]) + 1
      /\ Append(stack[p], Pushed(p))[Len(stack[p]) + 1] = Pushed(p)
      /\ \A i \in 1..Len(stack[p]) : Append(stack[p], Pushed(p))[i] = stack[p][i]
  BY <1>1, <1>4, AppendProperties, LenProperties DEF StackOK
<1>7. stack'[p] = Append(stack[p], Pushed(p)) /\ \A q \in Tasks : q # p => stack'[q] = stack[q]
  BY <1>1, <1>5
<1> QED BY <1>1, <1>2, <1>4, <1>5, <1>6, <1>7

(* A claim finds a pending state, so no frame evaluates the thunk yet.     *)
LEMMA ClaimKeepsClaims ==
    ASSUME Typed, ClaimInv, NEW p \in Tasks, Claim(p)
    PROVE  ClaimInv'
<1> DEFINE t == target[p]
           n == Len(stack[p]) + 1
<1>1. /\ t \in Thunks /\ n \in Nat \ {0} /\ state \in [Thunks -> {"fresh", "redispatch", "taken"}]
      /\ Pushed(p).thunk = t
  BY ClaimPushes DEF Typed, TypeOK, Pushed
<1>2. result' = result /\ state[t] # "taken" /\ state' = [state EXCEPT ![t] = "taken"]
  BY DEF Claim
<1>3. state'[t] = "taken" /\ \A u \in Thunks : u # t => state'[u] = state[u]
  BY <1>1, <1>2
<1>4. \A q \in Tasks, u \in Thunks :
          Evaluating(q, u)' \subseteq Evaluating(q, u) \cup (IF q = p /\ u = t THEN {n} ELSE {})
  <2> SUFFICES ASSUME NEW q \in Tasks, NEW u \in Thunks, NEW i \in Evaluating(q, u)',
                      i \notin Evaluating(q, u)
               PROVE  q = p /\ u = t /\ i = n
    OBVIOUS
  <2>1. q = p
    BY ClaimPushes DEF Evaluating
  <2>2. i \in 1..n /\ ~(i \in 1..Len(stack[p]))
    BY <2>1, ClaimPushes DEF Evaluating
  <2>3. i = n
    BY <1>1, <2>2, ClaimPushes
  <2> QED BY <1>1, <2>1, <2>3, ClaimPushes DEF Evaluating
<1>5. result[t] = Unset => \A q \in Tasks : Evaluating(q, t) = {}
  BY <1>1, <1>2 DEF ClaimInv, EvaluatedIsTaken
<1> HIDE DEF t, n
<1>6. SingleEvaluator'
  <2> SUFFICES ASSUME NEW u \in Thunks, result[u] = Unset, NEW q \in Tasks, NEW r \in Tasks,
                      NEW i \in Evaluating(q, u)', NEW j \in Evaluating(r, u)'
               PROVE  q = r /\ i = j
    BY <1>2 DEF SingleEvaluator
  <2>1. CASE u = t
    BY <1>4, <1>5, <2>1
  <2>2. CASE u # t
    BY <1>4, <2>2 DEF ClaimInv, SingleEvaluator
  <2> QED BY <2>1, <2>2
<1>7. EvaluatedIsTaken'
  <2> SUFFICES ASSUME NEW u \in Thunks, result[u] = Unset, NEW q \in Tasks, Evaluating(q, u)' # {}
               PROVE  state'[u] = "taken"
    BY <1>2 DEF EvaluatedIsTaken
  <2>1. CASE u = t
    BY <1>3, <2>1
  <2>2. CASE u # t
    <3>1. Evaluating(q, u) # {}
      BY <1>4, <2>2
    <3> QED BY <1>3, <2>2, <3>1 DEF ClaimInv, EvaluatedIsTaken
  <2> QED BY <2>1, <2>2
<1> QED BY <1>6, <1>7 DEF ClaimInv

(* What a reset does to the stack: the top frame is parked or popped.      *)
LEMMA ResetParks ==
    ASSUME Typed, NEW p \in Tasks, Reset(p)
    PROVE  /\ stack[p] # <<>> /\ Len(stack[p]) \in Nat \ {0} /\ Top(p).thunk \in Thunks
           /\ Top(p).phase = "fresh" /\ Top(p) = stack[p][Len(stack[p])]
           /\ Len(stack'[p]) \in Nat
           /\ \/ Len(stack'[p]) = Len(stack[p]) - 1 /\ ~Guarded(Top(p))
              \/ /\ Len(stack'[p]) = Len(stack[p]) /\ Guarded(Top(p))
                 /\ stack'[p][Len(stack[p])] =
                       [Top(p) EXCEPT !.todo = {Top(p).thunk}, !.phase = "parked"]
           /\ \A i \in 1..(Len(stack[p]) - 1) : stack'[p][i] = stack[p][i]
           /\ \A q \in Tasks : q # p => stack'[q] = stack[q]
<1> DEFINE f == [Top(p) EXCEPT !.todo = {Top(p).thunk}, !.phase = "parked"]
<1>1. stack[p] # <<>> /\ StackOK(stack[p]) /\ stack \in [Tasks -> Seq(Frame)]
  BY TypedStack DEF Reset, Typed, TypeOK
<1>2. f \in Frame /\ Len(stack[p]) \in Nat \ {0} /\ Top(p).thunk \in Thunks
  BY <1>1, TopTyped DEF Frame
<1>3. stack' = [stack EXCEPT ![p] = IF Guarded(Top(p)) THEN SetTop(stack[p], f)
                                    ELSE Front(stack[p])]
  BY <1>1 DEF Reset
<1>4. Top(p).phase = "fresh"
  BY DEF Reset
<1>5. Top(p) = stack[p][Len(stack[p])]
  BY DEF Top, Last
<1> HIDE DEF f
<1>6. \A q \in Tasks : q # p => stack'[q] = stack[q]
  BY <1>1, <1>3
<1>7. CASE Guarded(Top(p))
  <2>1. stack'[p] = SetTop(stack[p], f)
    BY <1>1, <1>3, <1>7
  <2>2. /\ Len(SetTop(stack[p], f)) = Len(stack[p])
        /\ SetTop(stack[p], f)[Len(stack[p])] = f
        /\ \A i \in 1..(Len(stack[p]) - 1) : SetTop(stack[p], f)[i] = stack[p][i]
    BY <1>1, <1>2, SetTopType DEF StackOK
  <2> QED BY <1>1, <1>2, <1>4, <1>5, <1>6, <1>7, <2>1, <2>2 DEF f
<1>8. CASE ~Guarded(Top(p))
  <2>1. stack'[p] = Front(stack[p])
    BY <1>1, <1>3, <1>8
  <2> QED BY <1>1, <1>2, <1>4, <1>5, <1>6, <1>8, <2>1, PopType, LenProperties DEF StackOK
<1> QED BY <1>7, <1>8

(* The frame that a reset parks or pops was the only one of its thunk.     *)
LEMMA ParkedPhase ==
    ASSUME NEW f \in Frame, NEW D
    PROVE  [f EXCEPT !.todo = D, !.phase = "parked"].phase = "parked"
BY DEF Frame

LEMMA ResetKeepsClaims ==
    ASSUME Typed, ClaimInv, NEW p \in Tasks, Reset(p)
    PROVE  ClaimInv'
<1>0. PICK t \in Thunks, n \in Nat \ {0} : t = Top(p).thunk /\ n = Len(stack[p])
  BY ResetParks
<1>1. result' = result /\ state' = [state EXCEPT ![t] = "redispatch"]
  BY <1>0 DEF Reset
<1>2. /\ Top(p).phase = "fresh" /\ Top(p) = stack[p][n]
      /\ Len(stack'[p]) \in Nat
      /\ \/ Len(stack'[p]) = n - 1
         \/ /\ Len(stack'[p]) = n
            /\ stack'[p][n] = [Top(p) EXCEPT !.todo = {t}, !.phase = "parked"]
      /\ \A i \in 1..(n - 1) : stack'[p][i] = stack[p][i]
      /\ \A q \in Tasks : q # p => stack'[q] = stack[q]
  BY <1>0, ResetParks
<1>3. Len(stack'[p]) = n => stack'[p][n].phase = "parked"
  <2>1. Top(p) \in Frame
    BY ResetParks, TopTyped
  <2> DEFINE g == [Top(p) EXCEPT !.todo = {t}, !.phase = "parked"]
  <2>2. g.phase = "parked"
    BY <2>1, ParkedPhase
  <2>3. Len(stack'[p]) = n - 1 \/ stack'[p][n] = g
    BY <1>2
  <2>4. CASE Len(stack'[p]) = n - 1
    BY <1>0, <2>4
  <2> HIDE DEF g
  <2>5. CASE stack'[p][n] = g
    BY <2>2, <2>5
  <2> QED BY <2>3, <2>4, <2>5
<1>4. \A u \in Thunks : u # t => state'[u] = state[u]
  BY <1>1 DEF Typed, TypeOK
<1>5. n \in Evaluating(p, t)
  BY <1>0, <1>2 DEF Evaluating
<1>6. ASSUME NEW q \in Tasks, NEW u \in Thunks, NEW i \in Evaluating(q, u)'
      PROVE  i \in Evaluating(q, u) /\ (q = p => i # n)
  <2>1. CASE q # p
    BY <1>2, <1>6, <2>1 DEF Evaluating
  <2>2. CASE q = p
    <3>1. i \in 1..Len(stack'[p]) /\ stack'[p][i].phase # "parked" /\ stack'[p][i].thunk = u
      BY <1>6, <2>2 DEF Evaluating
    <3>2. i # n /\ i \in 1..(n - 1)
      BY <1>2, <1>3, <3>1
    <3>3. stack'[p][i] = stack[p][i] /\ i \in 1..Len(stack[p])
      BY <1>0, <1>2, <3>2
    <3> QED BY <2>2, <3>1, <3>2, <3>3 DEF Evaluating
  <2> QED BY <2>1, <2>2
<1>7. ASSUME result[t] = Unset, NEW q \in Tasks, NEW i \in Evaluating(q, t)'
      PROVE  FALSE
  <2>1. i \in Evaluating(q, t) /\ (q = p => i # n)
    BY <1>2, <1>6, <1>7
  <2>2. q = p /\ i = n
    BY <1>2, <1>5, <1>7, <2>1 DEF ClaimInv, SingleEvaluator
  <2> QED BY <2>1, <2>2
<1>8. SingleEvaluator'
  <2> SUFFICES ASSUME NEW u \in Thunks, result[u] = Unset, NEW q \in Tasks, NEW r \in Tasks,
                      NEW i \in Evaluating(q, u)', NEW j \in Evaluating(r, u)'
               PROVE  q = r /\ i = j
    BY <1>1 DEF SingleEvaluator
  <2>1. i \in Evaluating(q, u) /\ j \in Evaluating(r, u)
    BY <1>6
  <2> QED BY <2>1 DEF ClaimInv, SingleEvaluator
<1>9. EvaluatedIsTaken'
  <2> SUFFICES ASSUME NEW u \in Thunks, result[u] = Unset, NEW q \in Tasks,
                      NEW i \in Evaluating(q, u)'
               PROVE  state'[u] = "taken"
    BY <1>1 DEF EvaluatedIsTaken
  <2>1. u # t
    BY <1>7
  <2>2. i \in Evaluating(q, u)
    BY <1>6
  <2>3. state[u] = "taken"
    BY <2>2 DEF ClaimInv, EvaluatedIsTaken
  <2> QED BY <1>4, <2>1, <2>3
<1> QED BY <1>8, <1>9 DEF ClaimInv

LEMMA StepKeepsClaims ==
    ASSUME Typed, ClaimInv, NEW p \in Tasks, Step(p) \/ Panic(p)
    PROVE  ClaimInv'
<1>1. CASE Claim(p) \/ Reset(p)
  BY <1>1, ClaimKeepsClaims, ResetKeepsClaims
<1>2. CASE ~Claim(p) /\ ~Reset(p)
  <2>1. \A t \in Thunks : result'[t] = Unset => result[t] = Unset
    BY ResultsStay
  <2> QED BY <1>2, <2>1, StepCuts, CutKeepsClaims
<1> QED BY <1>1, <1>2

(* In every behaviour, with or without abnormal exits, the body of an      *)
(* unsettled thunk is run by one frame of one task.                        *)
THEOREM EvaluatorIsUnique == Spec => []SingleEvaluator
<1> DEFINE Inv == Typed /\ ClaimInv
<1>1. Init => Inv
  <2> SUFFICES ASSUME Init PROVE Inv
    OBVIOUS
  <2>1. \A p \in Tasks, t \in Thunks : Evaluating(p, t) = {}
    <3>1. \A p \in Tasks : Len(stack[p]) = 0
      BY EmptySeq DEF Init
    <3> QED BY <3>1 DEF Evaluating
  <2> QED BY <2>1, InitTyped DEF ClaimInv, SingleEvaluator, EvaluatedIsTaken
<1>2. Inv /\ [Next]_vars => Inv'
  <2> SUFFICES ASSUME Inv, [Next]_vars PROVE Inv'
    OBVIOUS
  <2>1. ASSUME NEW p \in Tasks, Step(p) \/ Panic(p) PROVE Inv'
    BY <2>1, StepTyped, StepKeepsClaims
  <2>2. CASE UNCHANGED vars
    BY <2>2 DEF vars, cell, Typed, TypeOK, DepthBound, ClaimInv, SingleEvaluator,
         EvaluatedIsTaken, Evaluating
  <2> QED BY <2>1, <2>2 DEF Next
<1>3. Inv => SingleEvaluator
  BY DEF ClaimInv
<1> QED BY <1>1, <1>2, <1>3, PTL DEF Spec
-----------------------------------------------------------------------------
(* How a task's stack hangs together.  Each frame is there because the one *)
(* below it still wants its thunk; a task that demands or settles a thunk  *)
(* does so for its top frame, or settles the top frame itself.             *)
Demanding == {"check", "claim", "recheck", "owner", "listen", "confirm", "asleep"}
Settling == {"set", "clear", "notify"}

ChainOK(s) == \A i \in 1..(Len(s) - 1) : s[i + 1].thunk \in s[i].todo

TopFits(s, c, t) ==
    s # <<>> =>
        /\ c \in Demanding => t \in s[Len(s)].todo
        /\ c \in Settling =>
              \/ t \in s[Len(s)].todo
              \/ s[Len(s)].todo = {} /\ t = s[Len(s)].thunk

TaskInv(p) ==
    /\ ChainOK(stack[p])
    /\ TopFits(stack[p], pc[p], target[p])
    /\ pc[p] \in {"clear", "notify"} => result[target[p]] # Unset
    /\ pc[p] \in {"done", "dead"} => stack[p] = <<>>

StackInv == \A p \in Tasks : TaskInv(p)

LEMMA ChainFront ==
    ASSUME NEW s, StackOK(s), s # <<>>, ChainOK(s)
    PROVE  /\ ChainOK(Front(s))
           /\ Front(s) # <<>> => s[Len(s)].thunk \in Front(s)[Len(Front(s))].todo
<1>1. /\ Front(s) \in Seq(Frame)
      /\ Len(Front(s)) = Len(s) - 1
      /\ \A i \in 1..(Len(s) - 1) : Front(s)[i] = s[i]
      /\ Front(s) # <<>> => Len(s) > 1
  BY PopType DEF StackOK
<1>2. Len(s) \in Nat
  BY LenProperties DEF StackOK
<1>3. ChainOK(Front(s))
  BY <1>1, <1>2 DEF ChainOK
<1>4. ASSUME Front(s) # <<>>
      PROVE  s[Len(s)].thunk \in Front(s)[Len(Front(s))].todo
  <2>1. Len(s) - 1 \in 1..(Len(s) - 1) /\ Len(s) - 1 + 1 = Len(s)
    BY <1>1, <1>2, <1>4
  <2>2. s[Len(s)].thunk \in s[Len(s) - 1].todo
    BY <2>1 DEF ChainOK
  <2> QED BY <1>1, <2>1, <2>2
<1> QED BY <1>3, <1>4

LEMMA ChainSetTop ==
    ASSUME NEW s, StackOK(s), s # <<>>, ChainOK(s), NEW f \in Frame, f.thunk = s[Len(s)].thunk
    PROVE  /\ ChainOK(SetTop(s, f))
           /\ SetTop(s, f)[Len(SetTop(s, f))] = f
<1>1. /\ Len(SetTop(s, f)) = Len(s)
      /\ SetTop(s, f)[Len(s)] = f
      /\ \A i \in 1..(Len(s) - 1) : SetTop(s, f)[i] = s[i]
  BY SetTopType DEF StackOK
<1>2. Len(s) \in Nat
  BY LenProperties DEF StackOK
<1>3. ASSUME NEW i \in 1..(Len(s) - 1)
      PROVE  SetTop(s, f)[i + 1].thunk \in SetTop(s, f)[i].todo
  <2>1. s[i + 1].thunk \in s[i].todo
    BY <1>3 DEF ChainOK
  <2>2. SetTop(s, f)[i] = s[i]
    BY <1>1, <1>3
  <2>3. CASE i + 1 = Len(s)
    BY <1>1, <2>1, <2>2, <2>3
  <2>4. CASE i + 1 # Len(s)
    <3>1. i + 1 \in 1..(Len(s) - 1)
      BY <1>2, <1>3, <2>4
    <3> QED BY <1>1, <2>1, <2>2, <3>1
  <2> QED BY <2>3, <2>4
<1> QED BY <1>1, <1>3 DEF ChainOK

LEMMA ChainPrefix ==
    ASSUME NEW s, StackOK(s), ChainOK(s), NEW b \in 1..Len(s)
    PROVE  ChainOK(SubSeq(s, 1, b))
<1>1. Len(SubSeq(s, 1, b)) = b /\ \A i \in 1..b : SubSeq(s, 1, b)[i] = s[i]
  BY PrefixOK
<1>2. Len(s) \in Nat
  BY LenProperties DEF StackOK
<1> QED BY <1>1, <1>2 DEF ChainOK

(* The frame that is handed an outcome hangs together as before.           *)
LEMMA ReturnFits ==
    ASSUME Typed, NEW p \in Tasks, NEW s, StackOK(s), ChainOK(s), NEW t \in Thunks, NEW v,
           Return(p, s, t, v)
    PROVE  /\ ChainOK(stack'[p])
           /\ TopFits(stack'[p], pc'[p], target'[p])
           /\ pc'[p] \in {"run", "set"}
<1>0. /\ stack \in [Tasks -> Seq(Frame)] /\ pc \in [Tasks -> PCs]
      /\ target \in [Tasks -> Thunks]
  BY DEF Typed, TypeOK
<1>1. CASE s = <<>>
  <2>1. stack'[p] = s /\ pc'[p] = "run"
    BY <1>0, <1>1 DEF Return
  <2> QED BY <1>1, <2>1 DEF TopFits
<1>2. CASE s # <<>>
  <2> DEFINE f == s[Len(s)]
  <2>1. f \in Frame
    BY <1>2, TopOK
  <2>2. CASE v = "err"
    <3> DEFINE g == [f EXCEPT !.todo = {}]
    <3>1. g \in Frame /\ g.thunk = f.thunk /\ g.todo = {}
      BY <2>1 DEF Frame
    <3>2. stack'[p] = SetTop(s, g) /\ pc'[p] = "set" /\ target'[p] = f.thunk
      BY <1>0, <1>2, <2>2 DEF Return
    <3> HIDE DEF g
    <3>3. ChainOK(SetTop(s, g)) /\ SetTop(s, g)[Len(SetTop(s, g))] = g
      BY <1>2, <3>1, ChainSetTop
    <3> QED BY <3>1, <3>2, <3>3 DEF TopFits, Demanding
  <2>3. CASE v # "err"
    <3> DEFINE g == [f EXCEPT !.todo = @ \ {t}]
    <3>1. g \in Frame /\ g.thunk = f.thunk
      BY <2>1 DEF Frame
    <3>2. stack'[p] = SetTop(s, g) /\ pc'[p] = "run"
      BY <1>0, <1>2, <2>3 DEF Return
    <3> HIDE DEF g
    <3>3. ChainOK(SetTop(s, g))
      BY <1>2, <3>1, ChainSetTop
    <3> QED BY <3>2, <3>3 DEF TopFits, Demanding, Settling
  <2> QED BY <2>2, <2>3
<1> QED BY <1>1, <1>2

(* A step of p moves p only.                                               *)
LEMMA StepIsLocal ==
    ASSUME Typed, NEW p \in Tasks, Step(p) \/ Panic(p), NEW q \in Tasks, q # p
    PROVE  stack'[q] = stack[q] /\ pc'[q] = pc[q] /\ target'[q] = target[q]
<1>0. /\ stack \in [Tasks -> Seq(Frame)] /\ pc \in [Tasks -> PCs]
      /\ target \in [Tasks -> Thunks]
  BY DEF Typed, TypeOK
<1>1. stack'[q] = stack[q]
  <2>1. CASE Claim(p)
    BY <2>1, ClaimPushes
  <2>2. CASE Reset(p)
    BY <2>2, ResetParks
  <2>3. CASE ~Claim(p) /\ ~Reset(p)
    BY <1>0, <2>3, StepCuts
  <2> QED BY <2>1, <2>2, <2>3
<1>2. pc'[q] = pc[q] /\ target'[q] = target[q]
  <2>1. CASE CheckHit(p)
    BY <2>1, ReturnWakes DEF CheckHit
  <2>2. CASE Notify(p)
    <3>1. CASE Finished(p) /\ Guarded(Top(p))
      BY <1>0, <2>2, <3>1 DEF Notify
    <3>2. CASE ~(Finished(p) /\ Guarded(Top(p)))
      BY <2>2, <3>2, ReturnWakes DEF Notify
    <3> QED BY <3>1, <3>2
  <2>3. CASE Unwind(p)
    BY <1>0, <2>3 DEF Unwind
  <2>4. CASE Confirm(p)
    BY <1>0, <2>4 DEF Confirm
  <2>5. CASE \/ Demand(p) \/ DepthExceeded(p) \/ Complete(p) \/ Reset(p) \/ Finish(p)
             \/ CheckMiss(p) \/ Claim(p) \/ ClaimLost(p) \/ Recheck(p) \/ OwnerIsSelf(p)
             \/ OwnerIsOther(p) \/ Listen(p) \/ Wake(p) \/ SetResult(p) \/ ClearOwner(p)
             \/ Panic(p)
    BY <1>0, <2>5 DEF Demand, DepthExceeded, Complete, Reset, Finish, CheckMiss, Claim, ClaimLost,
         Recheck, OwnerIsSelf, OwnerIsOther, Listen, Wake, SetResult, ClearOwner, Panic, Goto
  <2> QED BY <2>1, <2>2, <2>3, <2>4, <2>5 DEF Step
<1> QED BY <1>1, <1>2

LEMMA TaskInvIntro ==
    ASSUME NEW p \in Tasks,
           ChainOK(stack'[p]), TopFits(stack'[p], pc'[p], target'[p]),
           pc'[p] \in {"clear", "notify"} => result'[target'[p]] # Unset,
           pc'[p] \in {"done", "dead"} => stack'[p] = <<>>
    PROVE  TaskInv(p)'
BY DEF TaskInv, ChainOK, TopFits

LEMMA TaskInvElim ==
    ASSUME NEW p \in Tasks, TaskInv(p)
    PROVE  /\ ChainOK(stack[p])
           /\ TopFits(stack[p], pc[p], target[p])
           /\ pc[p] \in {"clear", "notify"} => result[target[p]] # Unset
           /\ pc[p] \in {"done", "dead"} => stack[p] = <<>>
BY DEF TaskInv

LEMMA StepKeepsStack ==
    ASSUME Typed, StackInv, NEW p \in Tasks, Step(p) \/ Panic(p)
    PROVE  StackInv'
<1>0. /\ stack \in [Tasks -> Seq(Frame)] /\ pc \in [Tasks -> PCs] /\ target \in [Tasks -> Thunks]
      /\ result \in [Thunks -> Outcome \cup {Unset}] /\ verdict \in [Tasks -> Outcome]
      /\ StackOK(stack[p]) /\ target[p] \in Thunks /\ TaskInv(p)
      /\ ChainOK(stack[p]) /\ TopFits(stack[p], pc[p], target[p])
  BY TypedStack, TaskInvElim DEF Typed, TypeOK, StackInv
<1>1. ASSUME NEW q \in Tasks, q # p PROVE TaskInv(q)'
  <2>1. stack'[q] = stack[q] /\ pc'[q] = pc[q] /\ target'[q] = target[q]
    BY <1>1, StepIsLocal
  <2>2. \A t \in Thunks : result[t] # Unset => result'[t] # Unset
    BY ResultsStay
  <2>3. TaskInv(q) /\ target[q] \in Thunks
    BY <1>0 DEF StackInv
  <2> QED BY <2>1, <2>2, <2>3, TaskInvElim, TaskInvIntro
<1> SUFFICES TaskInv(p)'
  BY <1>1 DEF StackInv
<1>2. ASSUME stack' = stack, pc'[p] \notin {"clear", "notify", "done", "dead"},
             TopFits(stack[p], pc'[p], target'[p])
      PROVE  TaskInv(p)'
  BY <1>0, <1>2, TaskInvIntro
<1>3. CASE Demand(p)
  <2>1. stack' = stack /\ pc'[p] = "check" /\ target'[p] \in Wanted(p)
    BY <1>0, <1>3 DEF Demand, Goto
  <2>2. stack[p] # <<>> => target'[p] \in stack[p][Len(stack[p])].todo
    BY <2>1 DEF Wanted, Top, Last
  <2> QED BY <1>2, <2>1, <2>2 DEF TopFits, Settling
<1>4. CASE DepthExceeded(p)
  <2> DEFINE b == Base(p)
             s == SubSeq(stack[p], 1, b)
             f == [stack[p][b] EXCEPT !.todo = {}]
  <2>1. b \in 1..Len(stack[p]) /\ stack' = [stack EXCEPT ![p] = SetTop(s, f)]
    BY <1>4, DepthExceededStack
  <2>2. StackOK(s) /\ Len(s) = b /\ s # <<>> /\ \A i \in 1..b : s[i] = stack[p][i]
    BY <1>0, <2>1, PrefixOK
  <2>3. s[Len(s)] = stack[p][b]
    BY <2>1, <2>2
  <2>4. f \in Frame /\ f.thunk = stack[p][b].thunk /\ f.todo = {}
    BY <2>2, <2>3, TopOK DEF Frame
  <2>5. ChainOK(s)
    BY <1>0, <2>1, ChainPrefix
  <2>6. pc'[p] = "set" /\ target'[p] = stack[p][b].thunk /\ stack'[p] = SetTop(s, f)
    BY <1>0, <1>4, <2>1 DEF DepthExceeded, Goto
  <2> HIDE DEF s, f
  <2>7. ChainOK(SetTop(s, f)) /\ SetTop(s, f)[Len(SetTop(s, f))] = f
    BY <2>2, <2>3, <2>4, <2>5, ChainSetTop
  <2> QED BY <2>4, <2>6, <2>7, TaskInvIntro DEF TopFits, Demanding
<1>5. CASE Complete(p)
  <2>1. stack' = stack /\ pc'[p] = "set" /\ Top(p).todo = {} /\ target'[p] = Top(p).thunk
    BY <1>0, <1>5 DEF Complete, Goto
  <2> QED BY <1>2, <2>1 DEF TopFits, Demanding, Top, Last
<1>6. CASE Reset(p)
  <2> DEFINE f == [Top(p) EXCEPT !.todo = {Top(p).thunk}, !.phase = "parked"]
  <2>1. stack[p] # <<>> /\ pc'[p] = "check" /\ target'[p] = Top(p).thunk
        /\ Top(p) = stack[p][Len(stack[p])]
    BY <1>0, <1>6 DEF Reset, Goto, Top, Last
  <2>2. f \in Frame /\ f.thunk = Top(p).thunk /\ f.todo = {Top(p).thunk}
    BY <2>1, TopTyped DEF Frame
  <2>3. stack'[p] = IF Guarded(Top(p)) THEN SetTop(stack[p], f) ELSE Front(stack[p])
    BY <1>0, <1>6 DEF Reset
  <2> HIDE DEF f
  <2>4. CASE Guarded(Top(p))
    <3>1. ChainOK(SetTop(stack[p], f)) /\ SetTop(stack[p], f)[Len(SetTop(stack[p], f))] = f
      BY <1>0, <2>1, <2>2, ChainSetTop
    <3> QED BY <2>1, <2>2, <2>3, <2>4, <3>1, TaskInvIntro DEF TopFits, Settling
  <2>5. CASE ~Guarded(Top(p))
    <3>1. /\ ChainOK(Front(stack[p]))
          /\ Front(stack[p]) # <<>> =>
                Top(p).thunk \in Front(stack[p])[Len(Front(stack[p]))].todo
      BY <1>0, <2>1, ChainFront
    <3> QED BY <2>1, <2>3, <2>5, <3>1, TaskInvIntro DEF TopFits, Settling
  <2> QED BY <2>4, <2>5
<1>7. CASE Finish(p)
  <2>1. stack' = stack /\ stack[p] = <<>> /\ pc'[p] = "done"
    BY <1>0, <1>7 DEF Finish, Goto
  <2> QED BY <1>0, <2>1, TaskInvIntro DEF TopFits
<1>8. CASE CheckHit(p)
  <2>1. Return(p, stack[p], target[p], result[target[p]])
    BY <1>8 DEF CheckHit
  <2>2. /\ ChainOK(stack'[p]) /\ TopFits(stack'[p], pc'[p], target'[p])
        /\ pc'[p] \in {"run", "set"}
    BY <1>0, <2>1, ReturnFits
  <2> QED BY <2>2, TaskInvIntro
<1>9. CASE Claim(p)
  <2>1. pc[p] = "claim" /\ pc'[p] = "run"
    BY <1>0, <1>9 DEF Claim, Goto
  <2>2. /\ Len(stack'[p]) = Len(stack[p]) + 1 /\ Len(stack[p]) \in Nat
        /\ stack'[p][Len(stack[p]) + 1] = Pushed(p) /\ Pushed(p).thunk = target[p]
        /\ \A i \in 1..Len(stack[p]) : stack'[p][i] = stack[p][i]
    BY <1>9, ClaimPushes DEF Pushed
  <2>3. ChainOK(stack'[p])
    <3> SUFFICES ASSUME NEW i \in 1..Len(stack[p])
                 PROVE  stack'[p][i + 1].thunk \in stack'[p][i].todo
      BY <2>2 DEF ChainOK
    <3>1. CASE i = Len(stack[p])
      <4>1. stack[p] # <<>>
        BY <2>2, EmptySeq
      <4>2. target[p] \in stack[p][Len(stack[p])].todo
        BY <1>0, <2>1, <4>1 DEF TopFits, Demanding
      <4> QED BY <2>2, <3>1, <4>2
    <3>2. CASE i # Len(stack[p])
      <4>1. i \in 1..(Len(stack[p]) - 1) /\ i + 1 \in 1..Len(stack[p])
        BY <2>2, <3>2
      <4> QED BY <1>0, <2>2, <4>1, TaskInvIntro DEF ChainOK
    <3> QED BY <3>1, <3>2
  <2> QED BY <2>1, <2>3, TaskInvIntro DEF TopFits, Demanding, Settling
<1>10. CASE \/ CheckMiss(p) \/ ClaimLost(p) \/ Recheck(p) \/ OwnerIsSelf(p) \/ OwnerIsOther(p)
            \/ Listen(p) \/ Confirm(p) \/ Wake(p)
  <2>1. pc[p] \in Demanding /\ pc'[p] \in Demanding \cup {"set"} /\ UNCHANGED <<stack, target>>
    <3>1. CASE CheckMiss(p) \/ ClaimLost(p) \/ OwnerIsSelf(p) \/ OwnerIsOther(p) \/ Listen(p)
      BY <1>0, <3>1 DEF CheckMiss, ClaimLost, OwnerIsSelf, OwnerIsOther, Listen, Goto, Demanding
    <3>2. CASE Recheck(p) \/ Wake(p)
      BY <1>0, <3>2 DEF Recheck, Wake, Demanding
    <3>3. CASE Confirm(p)
      <4>1. pc[p] = "confirm" /\ UNCHANGED <<stack, target>>
        BY <3>3 DEF Confirm
      <4>2. pc' = [pc EXCEPT ![p] = "check"] \/ pc' = [pc EXCEPT ![p] = "asleep"]
        BY <3>3 DEF Confirm
      <4> QED BY <1>0, <4>1, <4>2 DEF Demanding
    <3> QED BY <1>10, <3>1, <3>2, <3>3
  <2>2. TopFits(stack[p], pc'[p], target'[p])
    BY <1>0, <2>1 DEF TopFits, Demanding, Settling
  <2> QED BY <1>2, <2>1, <2>2 DEF Demanding
<1>11. CASE SetResult(p)
  <2>1. /\ pc[p] = "set" /\ pc'[p] = "clear" /\ UNCHANGED <<stack, target>>
        /\ result'[target[p]] # Unset
    BY <1>0, <1>11, ConstantsAssumption DEF SetResult, Goto
  <2> QED BY <1>0, <2>1, TaskInvIntro DEF TopFits, Demanding, Settling
<1>12. CASE ClearOwner(p)
  <2>1. pc[p] = "clear" /\ pc'[p] = "notify" /\ UNCHANGED <<stack, target, result>>
    BY <1>0, <1>12 DEF ClearOwner, Goto
  <2>2. result'[target'[p]] # Unset
    BY <1>0, <2>1, TaskInvElim
  <2> QED BY <1>0, <2>1, <2>2, TaskInvIntro DEF TopFits, Demanding, Settling
<1>13. CASE Notify(p)
  <2>0. pc[p] = "notify"
    BY <1>13 DEF Notify
  <2>1. CASE Finished(p) /\ Guarded(Top(p))
    <3>1. /\ stack[p] # <<>> /\ stack[p][Len(stack[p])].todo = {}
          /\ stack'[p] = Front(stack[p]) /\ pc'[p] = "check" /\ target' = target
      BY <1>0, <1>13, <2>1 DEF Notify, Finished, Top, Last
    <3>2. target[p] = stack[p][Len(stack[p])].thunk
      BY <1>0, <2>0, <3>1 DEF TopFits, Settling
    <3>3. /\ ChainOK(Front(stack[p]))
          /\ Front(stack[p]) # <<>> => target[p] \in Front(stack[p])[Len(Front(stack[p]))].todo
      BY <1>0, <3>1, <3>2, ChainFront
    <3> QED BY <3>1, <3>3, TaskInvIntro DEF TopFits, Settling
  <2>2. CASE ~(Finished(p) /\ Guarded(Top(p)))
    <3> DEFINE s == IF Finished(p) THEN Front(stack[p]) ELSE stack[p]
    <3>1. StackOK(s) /\ ChainOK(s)
      BY <1>0, PopOK, ChainFront DEF Finished
    <3>2. Return(p, s, target[p], verdict[p])
      BY <1>13, <2>2 DEF Notify
    <3> HIDE DEF s
    <3>3. /\ ChainOK(stack'[p]) /\ TopFits(stack'[p], pc'[p], target'[p])
          /\ pc'[p] \in {"run", "set"}
      BY <1>0, <3>1, <3>2, ReturnFits
    <3> QED BY <3>3, TaskInvIntro
  <2> QED BY <2>1, <2>2
<1>14. CASE Panic(p)
  <2>1. stack' = stack /\ pc'[p] = "unwind"
    BY <1>0, <1>14 DEF Panic, Goto
  <2> QED BY <1>2, <2>1 DEF TopFits, Demanding, Settling
<1>15. CASE Unwind(p)
  <2>1. CASE stack[p] = <<>>
    <3>1. stack' = stack /\ pc'[p] = "dead"
      BY <1>0, <1>15, <2>1 DEF Unwind
    <3> QED BY <1>0, <2>1, <3>1, TaskInvIntro DEF TopFits
  <2>2. CASE stack[p] # <<>>
    <3>1. stack'[p] = Front(stack[p]) /\ pc'[p] = "unwind"
      BY <1>0, <1>15, <2>2 DEF Unwind
    <3>2. ChainOK(Front(stack[p]))
      BY <1>0, <2>2, ChainFront
    <3> QED BY <3>1, <3>2, TaskInvIntro DEF TopFits, Demanding, Settling
  <2> QED BY <2>1, <2>2
<1> QED BY <1>3, <1>4, <1>5, <1>6, <1>7, <1>8, <1>9, <1>10, <1>11, <1>12, <1>13, <1>14, <1>15 DEF Step
-----------------------------------------------------------------------------
(* Who holds what.  Without abnormal exits, or when every forcing goes     *)
(* through materialize(), a frame never leaves a stack before its thunk is *)
(* settled or put back.                                                    *)
Orderly == Crashes = {} \/ Nested = Thunks

Has(s, t) == \E i \in 1..Len(s) : s[i].thunk = t /\ s[i].phase # "parked"

AllGuarded ==
    Nested = Thunks => \A p \in Tasks : \A i \in 1..Len(stack[p]) : Guarded(stack[p][i])
UnwindIsCrash == \A p \in Tasks : pc[p] = "unwind" => Crashes # {}

Shape == AllGuarded /\ UnwindIsCrash

(* Only Panic leads to the unwinding, only ClearOwner to the notification. *)
LEMMA Enters ==
    ASSUME Typed, NEW p \in Tasks, Step(p) \/ Panic(p)
    PROVE  /\ pc'[p] = "unwind" => Crashes # {} \/ pc[p] = "unwind"
           /\ pc'[p] = "notify" => ClearOwner(p)
<1>0. pc \in [Tasks -> PCs]
  BY DEF Typed, TypeOK
<1>2. CASE CheckHit(p)
  BY <1>2, ReturnWakes DEF CheckHit
<1>3. CASE Notify(p)
  BY <1>0, <1>3, ReturnWakes DEF Notify
<1>4. CASE Recheck(p) \/ Wake(p)
  BY <1>0, <1>4 DEF Recheck, Wake
<1>5. CASE Confirm(p)
  <2>1. pc' = [pc EXCEPT ![p] = "check"] \/ pc' = [pc EXCEPT ![p] = "asleep"]
    BY <1>5 DEF Confirm
  <2> QED BY <1>0, <2>1
<1>6. CASE Panic(p) \/ Unwind(p)
  <2>1. CASE Panic(p)
    BY <1>0, <2>1 DEF Panic, Goto
  <2>2. CASE Unwind(p)
    <3>1. pc[p] = "unwind" /\ (pc' = [pc EXCEPT ![p] = "dead"] \/ pc' = pc)
      BY <2>2 DEF Unwind
    <3> QED BY <1>0, <3>1
  <2> QED BY <1>6, <2>1, <2>2
<1>7. CASE \/ Demand(p) \/ DepthExceeded(p) \/ Complete(p) \/ Reset(p) \/ Finish(p)
           \/ CheckMiss(p) \/ Claim(p) \/ ClaimLost(p) \/ OwnerIsSelf(p) \/ OwnerIsOther(p)
           \/ Listen(p) \/ SetResult(p) \/ ClearOwner(p)
  BY <1>0, <1>7 DEF Demand, DepthExceeded, Complete, Reset, Finish, CheckMiss, Claim, ClaimLost,
       OwnerIsSelf, OwnerIsOther, Listen, SetResult, ClearOwner, Goto
<1> QED BY <1>2, <1>3, <1>4, <1>5, <1>6, <1>7 DEF Step

LEMMA StepKeepsShape ==
    ASSUME Typed, Shape, NEW p \in Tasks, Step(p) \/ Panic(p)
    PROVE  Shape'
<1>1. UnwindIsCrash'
  BY Enters, StepIsLocal DEF Shape, UnwindIsCrash
<1>2. ASSUME Nested = Thunks, NEW q \in Tasks, NEW i \in 1..Len(stack'[q])
      PROVE  stack'[q][i].depth = 1
  <2>0. /\ \A r \in Tasks : \A j \in 1..Len(stack[r]) : stack[r][j].depth = 1
        /\ stack \in [Tasks -> Seq(Frame)]
    BY <1>2 DEF Shape, AllGuarded, Guarded, Typed, TypeOK
  <2>1. CASE q # p
    BY <1>2, <2>0, <2>1, StepIsLocal
  <2>2. CASE q = p /\ Claim(p)
    <3>1. Fresh(p)
      BY <1>2, TopTyped DEF Fresh
    <3>2. Pushed(p).depth = 1
      BY <3>1 DEF Pushed
    <3> QED BY <1>2, <2>0, <2>2, <3>2, ClaimPushes
  <2>3. CASE q = p /\ Reset(p)
    <3>1. PICK n \in Nat \ {0} : n = Len(stack[p])
      BY <2>3, ResetParks
    <3>2. Top(p) \in Frame /\ Top(p) = stack[p][n]
      BY <2>3, <3>1, ResetParks, TopTyped
    <3>3. Top(p).depth = 1
      BY <2>0, <3>1, <3>2
    <3>4. [Top(p) EXCEPT !.todo = {Top(p).thunk}, !.phase = "parked"].depth = 1
      BY <3>2, <3>3 DEF Frame
    <3>5. /\ Guarded(Top(p))
          /\ Len(stack'[p]) = n
          /\ stack'[p][n] = [Top(p) EXCEPT !.todo = {Top(p).thunk}, !.phase = "parked"]
          /\ \A j \in 1..(n - 1) : stack'[p][j] = stack[p][j]
      BY <2>3, <3>1, <3>3, ResetParks DEF Guarded
    <3>6. CASE i = n
      BY <2>3, <3>4, <3>5, <3>6
    <3>7. CASE i # n
      <4>1. i \in 1..(n - 1) /\ i \in 1..Len(stack[p])
        BY <1>2, <2>3, <3>1, <3>5, <3>7
      <4> QED BY <2>0, <2>3, <3>5, <4>1
    <3> QED BY <3>6, <3>7
  <2>4. CASE q = p /\ ~Claim(p) /\ ~Reset(p)
    <3>1. PICK r : StackOK(r) /\ Cut(r, stack[p]) /\ stack' = [stack EXCEPT ![p] = r]
      BY <2>4, StepCuts
    <3>2. stack'[p] = r /\ Len(r) <= Len(stack[p]) /\ Len(r) \in Nat /\ Len(stack[p]) \in Nat
      BY <2>0, <3>1, LenProperties DEF Cut, StackOK
    <3> QED BY <1>2, <2>0, <2>4, <3>1, <3>2 DEF Cut
  <2> QED BY <2>1, <2>2, <2>3, <2>4
<1>3. AllGuarded'
  BY <1>2 DEF AllGuarded, Guarded
<1> QED BY <1>1, <1>3 DEF Shape

(* What is taken or owned is held; a task that notifies has let go.        *)
ClaimedIsHeld ==
    \A t \in Thunks : state[t] = "taken" /\ result[t] = Unset =>
        \E p \in Tasks : Has(stack[p], t)
OwnedIsHeld == \A p \in Tasks, t \in Thunks : owner[t] = p => Has(stack[p], t)
Released == \A p \in Tasks : pc[p] = "notify" => owner[target[p]] # p

Held == ClaimedIsHeld /\ OwnedIsHeld /\ Released

LEMMA FrontHas ==
    ASSUME NEW s, StackOK(s), s # <<>>, NEW t, Has(s, t), t # s[Len(s)].thunk
    PROVE  Has(Front(s), t)
<1>1. /\ Len(Front(s)) = Len(s) - 1 /\ Len(s) \in Nat
      /\ \A i \in 1..(Len(s) - 1) : Front(s)[i] = s[i]
  BY PopType, LenProperties DEF StackOK
<1>2. PICK i \in 1..Len(s) : s[i].thunk = t /\ s[i].phase # "parked"
  BY DEF Has
<1>3. i # Len(s)
  BY <1>2
<1>4. i \in 1..(Len(s) - 1)
  BY <1>1, <1>2, <1>3
<1> QED BY <1>1, <1>2, <1>4 DEF Has

LEMMA SetTopHas ==
    ASSUME NEW s, StackOK(s), s # <<>>, NEW f \in Frame, NEW t, Has(s, t),
           \/ t # s[Len(s)].thunk
           \/ f.thunk = s[Len(s)].thunk /\ f.phase = s[Len(s)].phase
    PROVE  Has(SetTop(s, f), t)
<1>1. /\ Len(SetTop(s, f)) = Len(s) /\ Len(s) \in Nat
      /\ SetTop(s, f)[Len(s)] = f
      /\ \A i \in 1..(Len(s) - 1) : SetTop(s, f)[i] = s[i]
  BY SetTopType, LenProperties DEF StackOK
<1>2. PICK i \in 1..Len(s) : s[i].thunk = t /\ s[i].phase # "parked"
  BY DEF Has
<1>3. SetTop(s, f)[i].thunk = t /\ SetTop(s, f)[i].phase # "parked"
  <2>1. CASE i = Len(s)
    BY <1>1, <1>2, <2>1
  <2>2. CASE i # Len(s)
    <3>1. i \in 1..(Len(s) - 1)
      BY <1>1, <1>2, <2>2
    <3> QED BY <1>1, <1>2, <3>1
  <2> QED BY <2>1, <2>2
<1> QED BY <1>1, <1>2, <1>3 DEF Has

LEMMA ReturnHas ==
    ASSUME Typed, NEW p \in Tasks, NEW s, StackOK(s), NEW t \in Thunks, NEW v,
           Return(p, s, t, v), NEW u, Has(s, u)
    PROVE  Has(stack'[p], u)
<1>0. stack \in [Tasks -> Seq(Frame)]
  BY DEF Typed, TypeOK
<1>1. CASE s = <<>>
  <2>1. stack'[p] = s
    BY <1>0, <1>1 DEF Return
  <2> QED BY <2>1
<1>2. CASE s # <<>>
  <2>1. PICK f \in Frame : f = s[Len(s)]
    BY <1>2, TopOK
  <2>2. PICK D \in SUBSET Thunks : stack'[p] = SetTop(s, [f EXCEPT !.todo = D])
    <3>1. CASE v = "err"
      <4>1. stack'[p] = SetTop(s, [f EXCEPT !.todo = {}])
        BY <1>0, <1>2, <2>1, <3>1 DEF Return
      <4> QED BY <4>1
    <3>2. CASE v # "err"
      <4>1. stack'[p] = SetTop(s, [f EXCEPT !.todo = f.todo \ {t}])
        BY <1>0, <1>2, <2>1, <3>2 DEF Return
      <4>2. f.todo \ {t} \in SUBSET Thunks
        BY <2>1 DEF Frame
      <4> QED BY <4>1, <4>2
    <3> QED BY <3>1, <3>2
  <2>a. /\ [f EXCEPT !.todo = D] \in Frame
        /\ [f EXCEPT !.todo = D].thunk = f.thunk /\ [f EXCEPT !.todo = D].phase = f.phase
    BY <2>1, <2>2 DEF Frame
  <2>3. PICK g \in Frame : /\ g = [f EXCEPT !.todo = D]
                           /\ g.thunk = f.thunk /\ g.phase = f.phase
    BY <2>a
  <2>4. Has(SetTop(s, g), u)
    BY <1>2, <2>1, <2>3, SetTopHas
  <2> QED BY <2>2, <2>3, <2>4
<1> QED BY <1>1, <1>2

(* Only a claim makes a task the owner, and only a claim takes a state.    *)
LEMMA OnlyClaimTakes ==
    ASSUME Typed, NEW p \in Tasks, Step(p) \/ Panic(p), NEW t \in Thunks,
           ~(Claim(p) /\ t = target[p])
    PROVE  /\ owner'[t] \in {owner[t], NoTask}
           /\ state'[t] = "taken" => state[t] = "taken"
<1>0. /\ owner \in [Thunks -> Tasks \cup {NoTask}]
      /\ state \in [Thunks -> {"fresh", "redispatch", "taken"}]
  BY DEF Typed, TypeOK
<1>1. CASE Claim(p)
  BY <1>0, <1>1 DEF Claim
<1>2. CASE Reset(p)
  BY <1>0, <1>2 DEF Reset
<1>3. CASE ClearOwner(p) \/ Unwind(p)
  BY <1>0, <1>3 DEF ClearOwner, Unwind
<1>4. CASE ~(Claim(p) \/ Reset(p) \/ ClearOwner(p) \/ Unwind(p))
  <2>1. UNCHANGED <<state, owner>>
    BY <1>4 DEF Step, Demand, DepthExceeded, Complete, Finish, CheckHit, CheckMiss, ClaimLost,
       Recheck, OwnerIsSelf, OwnerIsOther, Listen, Confirm, Wake, SetResult, Notify, Panic, cell
  <2> QED BY <2>1
<1> QED BY <1>1, <1>2, <1>3, <1>4

(* A thunk leaves the stack of p only when it is settled or put back, and  *)
(* p has given up its ownership by then.                                   *)
LEMMA Drops ==
    ASSUME Orderly, Typed, StackInv, Shape, Held, NEW p \in Tasks, Step(p) \/ Panic(p),
           NEW t \in Thunks, Has(stack[p], t), ~Has(stack'[p], t)
    PROVE  /\ owner'[t] # p
           /\ state'[t] # "taken" \/ result'[t] # Unset
<1>0. /\ stack \in [Tasks -> Seq(Frame)] /\ StackOK(stack[p]) /\ target[p] \in Thunks
      /\ owner \in [Thunks -> Tasks \cup {NoTask}] /\ NoTask # p
      /\ state \in [Thunks -> {"fresh", "redispatch", "taken"}]
      /\ result \in [Thunks -> Outcome \cup {Unset}]
  BY TypedStack, ConstantsAssumption DEF Typed, TypeOK
<1>1. stack[p] # <<>>
  BY EmptySeq DEF Has
<1>2. CASE UNCHANGED stack
  BY <1>2
<1>3. CASE Claim(p)
  <2>1. PICK i \in 1..Len(stack[p]) : stack[p][i].thunk = t /\ stack[p][i].phase # "parked"
    BY DEF Has
  <2>2. i \in 1..Len(stack'[p]) /\ stack'[p][i] = stack[p][i]
    BY <1>3, <2>1, ClaimPushes
  <2> QED BY <2>1, <2>2 DEF Has
<1>4. CASE DepthExceeded(p)
  <2>1. "depth" \in Crashes /\ ~Fresh(p)
    BY <1>4 DEF DepthExceeded, TooDeep
  <2>2. Top(p).thunk \notin Nested
    BY <2>1 DEF Fresh
  <2> QED BY <1>1, <2>1, <2>2, TopTyped DEF Orderly
<1>5. CASE Reset(p)
  <2> DEFINE f == [Top(p) EXCEPT !.todo = {Top(p).thunk}, !.phase = "parked"]
  <2>1. Top(p) \in Frame /\ Top(p) = stack[p][Len(stack[p])] /\ Top(p).thunk \in Thunks
    BY <1>1, TopTyped DEF Top, Last
  <2>2. f \in Frame
    BY <2>1 DEF Frame
  <2>3. stack'[p] = IF Guarded(Top(p)) THEN SetTop(stack[p], f) ELSE Front(stack[p])
    BY <1>0, <1>5 DEF Reset
  <2> HIDE DEF f
  <2>4. t = Top(p).thunk
    BY <1>0, <1>1, <2>1, <2>2, <2>3, SetTopHas, FrontHas
  <2>5. owner'[t] = NoTask /\ state'[t] = "redispatch"
    BY <1>0, <1>5, <2>4 DEF Reset
  <2> QED BY <1>0, <2>5
<1>6. CASE CheckHit(p)
  BY <1>0, <1>6, ReturnHas DEF CheckHit
<1>7. CASE Notify(p)
  <2>1. pc[p] = "notify" /\ UNCHANGED <<state, owner, result>>
    BY <1>7 DEF Notify
  <2>2. t = Top(p).thunk /\ Finished(p)
    <3>1. CASE Finished(p) /\ Guarded(Top(p))
      <4>1. stack'[p] = Front(stack[p])
        BY <1>0, <1>7, <3>1 DEF Notify
      <4> QED BY <1>0, <1>1, <3>1, <4>1, FrontHas DEF Top, Last
    <3>2. CASE ~(Finished(p) /\ Guarded(Top(p)))
      <4> DEFINE s == IF Finished(p) THEN Front(stack[p]) ELSE stack[p]
      <4>1. Return(p, s, target[p], verdict[p]) /\ StackOK(s)
        BY <1>0, <1>1, <1>7, <3>2, PopOK DEF Notify
      <4>2. ~Has(s, t)
        BY <1>0, <4>1, ReturnHas
      <4> QED BY <1>0, <1>1, <4>2, FrontHas DEF Top, Last
    <3> QED BY <3>1, <3>2
  <2>3. TaskInv(p)
    BY DEF StackInv
  <2>4. t = target[p]
    BY <1>1, <2>1, <2>2, <2>3, TaskInvElim DEF TopFits, Settling, Finished, Top, Last
  <2>5. result[t] # Unset /\ owner[t] # p
    BY <2>1, <2>3, <2>4, TaskInvElim DEF Held, Released
  <2> QED BY <2>1, <2>5
<1>8. CASE Unwind(p)
  <2>1. stack'[p] = Front(stack[p])
    BY <1>0, <1>1, <1>8 DEF Unwind
  <2>2. t = Top(p).thunk
    BY <1>0, <1>1, <2>1, FrontHas DEF Top, Last
  <2>3. Nested = Thunks
    BY <1>8 DEF Unwind, Shape, UnwindIsCrash, Orderly
  <2>4. Guarded(Top(p))
    <3>1. Len(stack[p]) \in 1..Len(stack[p])
      BY <1>1, TopTyped
    <3> QED BY <2>3, <3>1 DEF Shape, AllGuarded, Top, Last
  <2>5. owner'[t] = NoTask /\ result'[t] # Unset
    BY <1>0, <1>1, <1>8, <2>2, <2>4, ConstantsAssumption DEF Unwind, Outcome
  <2> QED BY <1>0, <2>5
<1>9. CASE \/ Demand(p) \/ Complete(p) \/ Finish(p) \/ CheckMiss(p) \/ ClaimLost(p)
           \/ Recheck(p) \/ OwnerIsSelf(p) \/ OwnerIsOther(p) \/ Listen(p) \/ Confirm(p)
           \/ Wake(p) \/ SetResult(p) \/ ClearOwner(p) \/ Panic(p)
  BY <1>2, <1>9 DEF Demand, Complete, Finish, CheckMiss, ClaimLost, Recheck, OwnerIsSelf,
       OwnerIsOther, Listen, Confirm, Wake, SetResult, ClearOwner, Panic
<1> QED BY <1>3, <1>4, <1>5, <1>6, <1>7, <1>8, <1>9 DEF Step

LEMMA StepKeepsHeld ==
    ASSUME Orderly, Typed, StackInv, Shape, Held, NEW p \in Tasks, Step(p) \/ Panic(p)
    PROVE  Held'
<1>0. /\ owner \in [Thunks -> Tasks \cup {NoTask}] /\ NoTask \notin Tasks
      /\ result \in [Thunks -> Outcome \cup {Unset}] /\ target \in [Tasks -> Thunks]
      /\ target' \in [Tasks -> Thunks] /\ pc \in [Tasks -> PCs]
  BY StepTyped, ConstantsAssumption DEF Typed, TypeOK
<1>1. ASSUME Claim(p)
      PROVE  /\ Has(stack'[p], target[p])
             /\ owner'[target[p]] = TaskId(p)
  <2>1. Has(stack'[p], target[p])
    <3>1. Pushed(p).thunk = target[p] /\ Pushed(p).phase # "parked"
      BY <1>0, <1>1 DEF Pushed, Claim, Typed, TypeOK
    <3>2. Len(stack[p]) + 1 \in 1..Len(stack'[p])
      BY <1>1, ClaimPushes
    <3> QED BY <1>1, <3>1, <3>2, ClaimPushes DEF Has
  <2> QED BY <1>0, <1>1, <2>1 DEF Claim
<1>2. ASSUME NEW t \in Thunks, state'[t] = "taken", result'[t] = Unset
      PROVE  \E q \in Tasks : Has(stack'[q], t)
  <2>1. CASE Claim(p) /\ t = target[p]
    BY <1>1, <2>1
  <2>2. CASE ~(Claim(p) /\ t = target[p])
    <3>1. state[t] = "taken" /\ result[t] = Unset
      BY <1>2, <2>2, OnlyClaimTakes, ResultsStay
    <3>2. PICK q \in Tasks : Has(stack[q], t)
      BY <3>1 DEF Held, ClaimedIsHeld
    <3>3. CASE q = p
      BY <1>2, <3>2, <3>3, Drops
    <3>4. CASE q # p
      BY <3>2, <3>4, StepIsLocal
    <3> QED BY <3>3, <3>4
  <2> QED BY <2>1, <2>2
<1>3. ASSUME NEW q \in Tasks, NEW t \in Thunks, owner'[t] = q
      PROVE  Has(stack'[q], t)
  <2>1. CASE Claim(p) /\ t = target[p]
    <3>1. q = p
      BY <1>0, <1>1, <1>3, <2>1 DEF TaskId
    <3> QED BY <1>1, <2>1, <3>1
  <2>2. CASE ~(Claim(p) /\ t = target[p])
    <3>1. owner[t] = q
      BY <1>0, <1>3, <2>2, OnlyClaimTakes
    <3>2. Has(stack[q], t)
      BY <3>1 DEF Held, OwnedIsHeld
    <3>3. CASE q = p
      BY <1>3, <3>2, <3>3, Drops
    <3>4. CASE q # p
      BY <3>2, <3>4, StepIsLocal
    <3> QED BY <3>3, <3>4
  <2> QED BY <2>1, <2>2
<1>4. ASSUME NEW q \in Tasks, pc'[q] = "notify"
      PROVE  owner'[target'[q]] # q
  <2>1. CASE q = p
    <3>1. ClearOwner(p)
      BY <1>4, <2>1, Enters
    <3>2. owner'[target'[p]] = NoTask
      BY <1>0, <3>1 DEF ClearOwner
    <3> QED BY <1>0, <2>1, <3>2
  <2>2. CASE q # p
    <3>1. target'[q] = target[q] /\ pc[q] = "notify"
      BY <1>4, <2>2, StepIsLocal
    <3>2. owner[target[q]] # q /\ target[q] \in Thunks
      BY <1>0, <3>1 DEF Held, Released
    <3>3. CASE Claim(p) /\ target[q] = target[p]
      BY <1>0, <1>1, <2>2, <3>1, <3>3 DEF TaskId
    <3>4. CASE ~(Claim(p) /\ target[q] = target[p])
      <4>1. owner'[target[q]] \in {owner[target[q]], NoTask}
        BY <3>2, <3>4, OnlyClaimTakes
      <4> QED BY <1>0, <3>1, <3>2, <4>1
    <3> QED BY <3>3, <3>4
  <2> QED BY <2>1, <2>2
<1>5. ClaimedIsHeld'
  BY <1>2 DEF ClaimedIsHeld, Has
<1>6. OwnedIsHeld'
  BY <1>3 DEF OwnedIsHeld, Has
<1>7. Released'
  BY <1>4 DEF Released
<1> QED BY <1>5, <1>6, <1>7 DEF Held

HeldInv == Typed /\ StackInv /\ Shape /\ Held

LEMMA InitHeld == Init => HeldInv
<1> SUFFICES ASSUME Init PROVE HeldInv
  OBVIOUS
<1>1. Typed
  BY InitTyped
<1>2. \A p \in Tasks : stack[p] = <<>> /\ Len(stack[p]) = 0 /\ pc[p] = "run"
  BY EmptySeq DEF Init
<1>3. StackInv
  BY <1>2 DEF StackInv, TaskInv, ChainOK, TopFits
<1>4. Shape
  BY <1>2 DEF Shape, AllGuarded, UnwindIsCrash
<1>5. Held
  BY <1>2, ConstantsAssumption DEF Init, Held, ClaimedIsHeld, OwnedIsHeld, Released
<1> QED BY <1>1, <1>3, <1>4, <1>5 DEF HeldInv

LEMMA NextHeld ==
    ASSUME Orderly, HeldInv, [Next]_vars
    PROVE  HeldInv'
<1>1. ASSUME NEW p \in Tasks, Step(p) \/ Panic(p) PROVE HeldInv'
  BY <1>1, StepTyped, StepKeepsStack, StepKeepsShape, StepKeepsHeld DEF HeldInv
<1>2. CASE UNCHANGED vars
  <2>1. UNCHANGED <<state, owner, result, listeners, pc, target, stack, verdict, wanted, seen>>
    BY <1>2 DEF vars
  <2>2. Typed'
    BY <2>1 DEF HeldInv, Typed, TypeOK, DepthBound
  <2>3. StackInv'
    BY <2>1 DEF HeldInv, StackInv, TaskInv, ChainOK, TopFits
  <2>4. Shape'
    BY <2>1 DEF HeldInv, Shape, AllGuarded, Guarded, UnwindIsCrash
  <2>5. Held'
    BY <2>1 DEF HeldInv, Held, ClaimedIsHeld, OwnedIsHeld, Released, Has
  <2> QED BY <2>2, <2>3, <2>4, <2>5 DEF HeldInv
<1> QED BY <1>1, <1>2 DEF Next

LEMMA HeldAlways ==
    ASSUME Orderly
    PROVE  Spec => []HeldInv
<1>1. Init => HeldInv
  BY InitHeld
<1>2. HeldInv /\ [Next]_vars => HeldInv'
  BY NextHeld
<1> QED BY <1>1, <1>2, PTL DEF Spec

(* When no forcing is abandoned, or when each has a guard of its own, no   *)
(* claim is lost: who takes a thunk settles it or puts it back (try_claim, *)
(* reset, settle).                                                         *)
THEOREM ClaimedAreEvaluated == Orderly => (Spec => []ClaimedIsEvaluated)
<1> SUFFICES ASSUME Orderly PROVE Spec => []ClaimedIsEvaluated
  OBVIOUS
<1>1. HeldInv => ClaimedIsEvaluated
  <2> SUFFICES ASSUME HeldInv, NEW t \in Thunks, Lost(t) PROVE FALSE
    BY DEF ClaimedIsEvaluated
  <2>1. PICK p \in Tasks : Has(stack[p], t)
    BY DEF HeldInv, Held, ClaimedIsHeld, Lost
  <2> QED BY <2>1 DEF Has, Lost, Evaluating
<1> QED BY <1>1, HeldAlways, PTL

(* If besides every task has an id, a task that reports a circular         *)
(* dependency is itself in the middle of evaluating that thunk.            *)
THEOREM CyclesAreReal == Orderly /\ BlockOn = {} => (Spec => []CycleIsReal)
<1> SUFFICES ASSUME Orderly, BlockOn = {} PROVE Spec => []CycleIsReal
  OBVIOUS
<1>1. HeldInv => CycleIsReal
  <2> SUFFICES ASSUME HeldInv, NEW p \in Tasks, SameTask(p)
               PROVE  \E i \in 1..Len(stack[p]) : stack[p][i].thunk = target[p]
    BY DEF CycleIsReal
  <2>1. owner[target[p]] = p /\ target[p] \in Thunks
    BY DEF SameTask, TaskId, HeldInv, Typed, TypeOK
  <2> QED BY <2>1 DEF HeldInv, Held, OwnedIsHeld, Has
<1> QED BY <1>1, HeldAlways, PTL
-----------------------------------------------------------------------------
(* Forcing implements the write-once cell.  Without abnormal exits, and    *)
(* when every task has an id, what a frame no longer demands has a value,  *)
(* and a task settles a thunk with what its body and its needs justify.    *)
Ordinary == Crashes = {} /\ BlockOn = {}

Val(D) == \A d \in D : result[d] = "val"
Faulty(t) == t \in Bad \/ Memo!Circular(t) \/ \E d \in Needs(t) : result[d] = "err"

CellInv ==
    \A t \in Thunks :
        /\ result[t] # Unset => state[t] = "taken"
        /\ state[t] = "redispatch" => Val(Demands[t])
        /\ result[t] = "val" => t \notin Bad /\ Val(Needs(t))
        /\ result[t] = "err" => Faulty(t)

(* A frame demands only what its thunk needs, a parked one its own thunk,  *)
(* whose state is not fresh any more; what it demands no longer it has.    *)
FrameFits(f) ==
    IF f.phase = "parked" THEN f.todo \subseteq {f.thunk} /\ state[f.thunk] # "fresh"
                          ELSE f.todo \subseteq Needs(f.thunk)

FrameGot(f) ==
    /\ f.phase = "fresh" => Val(Demands[f.thunk] \ f.todo)
    /\ f.phase = "redispatch" => Val(Needs(f.thunk) \ f.todo)
    /\ f.phase = "parked" /\ f.todo = {} => result[f.thunk] = "val"

(* A task that fails its top frame has emptied what the frame demands.     *)
FailingTop(p) == pc[p] \in Settling /\ verdict[p] = "err" /\ Finished(p)

FramesInv(p) ==
    /\ \A i \in 1..Len(stack[p]) : FrameFits(stack[p][i])
    /\ \A i \in 1..Len(stack[p]) :
          FrameGot(stack[p][i]) \/ (i = Len(stack[p]) /\ FailingTop(p))
    /\ \A i \in 1..(Len(stack[p]) - 1) :
          stack[p][i].phase = "parked" => stack[p][i + 1].phase = "redispatch"

SettleInv(p) ==
    pc[p] \in Settling =>
        /\ verdict[p] = "val" => /\ Finished(p) /\ target[p] = Top(p).thunk
                                 /\ target[p] \notin Bad /\ Val(Needs(target[p]))
        /\ verdict[p] = "err" => Faulty(target[p])
        /\ pc[p] = "set" =>
              \/ result[target[p]] = Unset /\ Evaluating(p, target[p]) # {}
              \/ result[target[p]] = verdict[p]
        /\ pc[p] # "set" => result[target[p]] = verdict[p]

(* A frame whose thunk is settled is on its way out: its task is settling  *)
(* it, or a circle has been found above it and its task is failing.        *)
Failing(p) ==
    \/ pc[p] \in Settling /\ verdict[p] = "err"
    \/ pc[p] = "check" /\ result[target[p]] = "err"

Doomed(p) ==
    \A t \in Thunks : result[t] # Unset => \A i \in Evaluating(p, t) :
        \/ result[t] = "err" /\ Failing(p)
        \/ i = Len(stack[p]) /\ Finished(p) /\ target[p] = t /\ pc[p] \in {"clear", "notify"}

OwnInv(p) == \A t \in Thunks : owner[t] = p => Evaluating(p, t) # {}

SeenInv(p) == \A t \in Thunks : seen[p][t] \in {Unset, result[t]}

TaskMemo(p) == FramesInv(p) /\ SettleInv(p) /\ Doomed(p) /\ OwnInv(p) /\ SeenInv(p)

MemoInv == CellInv /\ \A p \in Tasks : TaskMemo(p)

LEMMA OrdinaryIsOrderly == Ordinary => Orderly
BY DEF Ordinary, Orderly

LEMMA NoExits ==
    ASSUME Ordinary, Shape, NEW p \in Tasks, Step(p) \/ Panic(p)
    PROVE  ~DepthExceeded(p) /\ ~Panic(p) /\ ~Unwind(p)
BY DEF Ordinary, Shape, UnwindIsCrash, DepthExceeded, TooDeep, Panic, Unwind

(* Results stay, and a cell never becomes fresh again.                     *)
Grow ==
    /\ \A t \in Thunks : result[t] # Unset => result'[t] = result[t]
    /\ \A t \in Thunks : state[t] # "fresh" => state'[t] # "fresh"

LEMMA StepGrows ==
    ASSUME Typed, NEW p \in Tasks, Step(p) \/ Panic(p)
    PROVE  Grow
<1>0. state \in [Thunks -> {"fresh", "redispatch", "taken"}]
  BY DEF Typed, TypeOK
<1>1. \A t \in Thunks : state[t] # "fresh" => state'[t] # "fresh"
  <2>1. CASE Claim(p)
    BY <1>0, <2>1 DEF Claim
  <2>2. CASE Reset(p)
    BY <1>0, <2>2 DEF Reset
  <2>3. CASE ~Claim(p) /\ ~Reset(p)
    BY <2>3, StepCuts
  <2> QED BY <2>1, <2>2, <2>3
<1> QED BY <1>1, ResultsStay DEF Grow

LEMMA NeedsType ==
    ASSUME NEW t \in Thunks
    PROVE  /\ Needs(t) \subseteq Thunks /\ Demands[t] \subseteq Thunks
           /\ StrictArgs[t] \subseteq Thunks
BY ConstantsAssumption DEF Needs

LEMMA UnsetIsNoOutcome == Unset # "val" /\ Unset # "err"
BY ConstantsAssumption DEF Outcome

LEMMA ValStays ==
    ASSUME Grow, NEW D \in SUBSET Thunks, Val(D)
    PROVE  Val(D)'
BY UnsetIsNoOutcome DEF Grow, Val

LEMMA FaultyStays ==
    ASSUME Grow, NEW t \in Thunks, Faulty(t)
    PROVE  Faulty(t)'
BY NeedsType, UnsetIsNoOutcome DEF Grow, Faulty, Memo!Circular, Needs

LEMMA FrameStays ==
    ASSUME Grow, NEW f \in Frame
    PROVE  /\ FrameFits(f) => FrameFits(f)'
           /\ FrameGot(f) => FrameGot(f)'
<1>1. f.thunk \in Thunks
  BY DEF Frame
<1>2. FrameFits(f) => FrameFits(f)'
  BY <1>1 DEF FrameFits, Grow, Needs
<1>3. Demands[f.thunk] \ f.todo \in SUBSET Thunks /\ Needs(f.thunk) \ f.todo \in SUBSET Thunks
  BY <1>1, NeedsType
<1>4. ASSUME FrameGot(f) PROVE FrameGot(f)'
  <2>1. f.phase = "fresh" => Val(Demands[f.thunk] \ f.todo)'
    BY <1>3, <1>4, ValStays DEF FrameGot
  <2>2. f.phase = "redispatch" => Val(Needs(f.thunk) \ f.todo)'
    BY <1>3, <1>4, ValStays DEF FrameGot, Needs
  <2>3. f.phase = "parked" /\ f.todo = {} => result'[f.thunk] = "val"
    BY <1>1, <1>4, UnsetIsNoOutcome DEF FrameGot, Grow
  <2> QED BY <2>1, <2>2, <2>3 DEF FrameGot
<1> QED BY <1>2, <1>4

LEMMA FrameAt ==
    ASSUME Typed, NEW p \in Tasks, NEW i \in 1..Len(stack[p])
    PROVE  stack[p][i] \in Frame /\ stack[p][i].thunk \in Thunks
<1>1. stack[p][i] \in Frame
  BY TypedStack, ElementOfSeq DEF StackOK
<1> QED BY <1>1 DEF Frame

(* Only SetResult gives a result, for a thunk its task evaluates.          *)
LEMMA ResultChanges ==
    ASSUME Typed, NEW p \in Tasks, Step(p) \/ Panic(p), ~Unwind(p), SettleInv(p),
           NEW t \in Thunks, result'[t] # result[t]
    PROVE  /\ SetResult(p) /\ t = target[p] /\ pc[p] = "set" /\ result[t] = Unset
           /\ result'[t] = verdict[p] /\ verdict[p] \in Outcome
           /\ Evaluating(p, t) # {}
<1>0. result \in [Thunks -> Outcome \cup {Unset}] /\ verdict[p] \in Outcome
  BY DEF Typed, TypeOK
<1>1. SetResult(p)
  BY DEF Step, Demand, DepthExceeded, Complete, Reset, Finish, CheckHit, CheckMiss, Claim,
       ClaimLost, Recheck, OwnerIsSelf, OwnerIsOther, Listen, Confirm, Wake, ClearOwner, Notify,
       Panic, cell
<1>2. /\ pc[p] = "set"
      /\ result' = [result EXCEPT ![target[p]] = IF @ = Unset THEN verdict[p] ELSE @]
  BY <1>1 DEF SetResult, Goto
<1>3. t = target[p] /\ result[t] = Unset /\ result'[t] = verdict[p]
  BY <1>0, <1>2
<1>4. Evaluating(p, t) # {}
  BY <1>0, <1>2, <1>3, ConstantsAssumption DEF SettleInv, Settling
<1> QED BY <1>0, <1>1, <1>2, <1>3, <1>4

(* A task that is not failing or settling evaluates unsettled thunks.      *)
LEMMA NotDoomed ==
    ASSUME NEW p \in Tasks, Doomed(p), ~Failing(p), pc[p] \notin Settling,
           NEW t \in Thunks, Evaluating(p, t) # {}
    PROVE  result[t] = Unset
BY DEF Doomed, Settling

(* The tasks that do not move.                                             *)
LEMMA OthersUnmoved ==
    ASSUME Typed, NEW p \in Tasks, Step(p) \/ Panic(p), NEW q \in Tasks, q # p
    PROVE  verdict'[q] = verdict[q] /\ seen'[q] = seen[q]
<1>0. verdict \in [Tasks -> Outcome] /\ seen \in [Tasks -> [Thunks -> Outcome \cup {Unset}]]
  BY DEF Typed, TypeOK
<1>1. ASSUME NEW s, NEW t, NEW v, Return(p, s, t, v)
      PROVE  verdict'[q] = verdict[q] /\ seen'[q] = seen[q]
  BY <1>0, <1>1 DEF Return
<1>2. CASE CheckHit(p) \/ Notify(p)
  BY <1>1, <1>2 DEF CheckHit, Notify
<1>3. CASE ~CheckHit(p) /\ ~Notify(p)
  BY <1>0, <1>3 DEF Step, Demand, DepthExceeded, Complete, Reset, Finish, CheckMiss, Claim,
       ClaimLost, Recheck, OwnerIsSelf, OwnerIsOther, Listen, Confirm, Wake, SetResult,
       ClearOwner, Unwind, Panic, cell
<1> QED BY <1>2, <1>3

LEMMA OthersKeepMemo ==
    ASSUME Ordinary, Typed, ClaimInv, Shape, MemoInv, NEW p \in Tasks, Step(p) \/ Panic(p),
           NEW q \in Tasks, q # p
    PROVE  TaskMemo(q)'
<1>0. /\ TaskMemo(p) /\ TaskMemo(q) /\ Grow /\ ~Unwind(p) /\ target[q] \in Thunks
      /\ stack'[q] = stack[q] /\ pc'[q] = pc[q] /\ target'[q] = target[q]
      /\ verdict'[q] = verdict[q] /\ seen'[q] = seen[q]
  BY StepGrows, NoExits, StepIsLocal, OthersUnmoved DEF MemoInv, Typed, TypeOK
<1>1. \A t \in Thunks : Evaluating(q, t)' = Evaluating(q, t)
  BY <1>0 DEF Evaluating
<1>2. \A t \in Thunks : Evaluating(q, t) # {} => result'[t] = result[t]
  <2> SUFFICES ASSUME NEW t \in Thunks, NEW i \in Evaluating(q, t), result'[t] # result[t]
               PROVE  FALSE
    OBVIOUS
  <2>1. result[t] = Unset /\ Evaluating(p, t) # {}
    BY <1>0, ResultChanges DEF TaskMemo
  <2> QED BY <2>1 DEF ClaimInv, SingleEvaluator
<1>3. FailingTop(q) => FailingTop(q)'
  BY <1>0 DEF FailingTop, Finished, Top
<1>4. FramesInv(q)'
  BY <1>0, <1>3, FrameAt, FrameStays DEF TaskMemo, FramesInv
<1>5. SettleInv(q)'
  <2> SUFFICES ASSUME pc[q] \in Settling PROVE SettleInv(q)'
    BY <1>0 DEF SettleInv
  <2> DEFINE t == target[q]
  <2>1. verdict[q] = "val" => /\ Finished(q)' /\ t = Top(q).thunk /\ Top(q)' = Top(q)
                              /\ t \notin Bad /\ Val(Needs(t))'
    <3>1. Needs(t) \in SUBSET Thunks
      BY <1>0, NeedsType
    <3> QED BY <1>0, <3>1, ValStays DEF TaskMemo, SettleInv, Finished, Top, Needs
  <2>2. verdict[q] = "err" => Faulty(t)'
    BY <1>0, FaultyStays DEF TaskMemo, SettleInv
  <2>3. pc[q] = "set" => \/ result'[t] = Unset /\ Evaluating(q, t)' # {}
                         \/ result'[t] = verdict[q]
    BY <1>0, <1>1, <1>2, ConstantsAssumption DEF TaskMemo, SettleInv, Grow, Typed, TypeOK
  <2>4. pc[q] # "set" => result'[t] = verdict[q]
    BY <1>0, ConstantsAssumption DEF TaskMemo, SettleInv, Grow, Typed, TypeOK
  <2> QED BY <1>0, <2>1, <2>2, <2>3, <2>4 DEF SettleInv, Faulty, Val, Evaluating, Finished, Top
<1>6. Failing(q) => Failing(q)'
  BY <1>0, UnsetIsNoOutcome DEF Failing, Grow
<1>7. Doomed(q)'
  BY <1>0, <1>1, <1>2, <1>6 DEF TaskMemo, Doomed, Finished, Top
<1>8. OwnInv(q)'
  <2> SUFFICES ASSUME NEW t \in Thunks, owner'[t] = q PROVE Evaluating(q, t)' # {}
    BY DEF OwnInv
  <2>1. ~(Claim(p) /\ t = target[p])
    BY ConstantsAssumption DEF Claim, TaskId, Typed, TypeOK
  <2>2. owner[t] = q
    BY <2>1, OnlyClaimTakes, ConstantsAssumption
  <2> QED BY <1>0, <1>1, <2>2 DEF TaskMemo, OwnInv
<1>9. SeenInv(q)'
  BY <1>0 DEF TaskMemo, SeenInv, Grow
<1> QED BY <1>4, <1>5, <1>7, <1>8, <1>9 DEF TaskMemo

(* A step of p that leaves its stack and every result alone, when p is not *)
(* failing or settling before.                                             *)
LEMMA MoveKeepsMemo ==
    ASSUME Typed, Grow, NEW p \in Tasks, TaskMemo(p), ~Failing(p), pc[p] \notin Settling,
           stack'[p] = stack[p], result' = result, seen' = seen,
           \A t \in Thunks : owner'[t] \in {owner[t], NoTask}, SettleInv(p)'
    PROVE  TaskMemo(p)'
<1>1. \A t \in Thunks : Evaluating(p, t)' = Evaluating(p, t)
  BY DEF Evaluating
<1>2. ~FailingTop(p)
  BY DEF FailingTop
<1>3. FramesInv(p)'
  BY <1>2, FrameAt, FrameStays DEF TaskMemo, FramesInv
<1>4. Doomed(p)'
  BY <1>1, NotDoomed DEF TaskMemo, Doomed
<1>5. OwnInv(p)'
  BY <1>1, ConstantsAssumption DEF TaskMemo, OwnInv
<1>6. SeenInv(p)'
  BY DEF TaskMemo, SeenInv
<1> QED BY <1>3, <1>4, <1>5, <1>6 DEF TaskMemo

LEMMA TopFrame ==
    ASSUME Typed, NEW p \in Tasks, stack[p] # <<>>
    PROVE  /\ Top(p) = stack[p][Len(stack[p])] /\ Top(p) \in Frame /\ Top(p).thunk \in Thunks
           /\ Len(stack[p]) \in 1..Len(stack[p]) /\ Len(stack[p]) \in Nat \ {0}
           /\ Top(p).phase # "parked" => Len(stack[p]) \in Evaluating(p, Top(p).thunk)
<1>1. Top(p) = stack[p][Len(stack[p])]
  BY DEF Top, Last
<1> QED BY <1>1, TopTyped DEF Evaluating

(* Complete settles what all it needs allows, and the frame it settles is  *)
(* the evaluator, or was parked and has found the value.                   *)
LEMMA CompleteKeepsMemo ==
    ASSUME Ordinary, Typed, MemoInv, NEW p \in Tasks, Complete(p)
    PROVE  TaskMemo(p)'
<1> DEFINE t == Top(p).thunk
<1>0. /\ TaskMemo(p) /\ pc[p] = "run" /\ Grow /\ ~Failing(p) /\ pc[p] \notin Settling
      /\ stack[p] # <<>> /\ Top(p).todo = {} /\ CellInv
  BY StepGrows DEF MemoInv, Complete, Goto, Step, Failing, Settling
<1>1. /\ UNCHANGED <<state, owner, result, stack, seen>> /\ pc'[p] = "set" /\ target'[p] = t
      /\ verdict'[p] = IF t \in Bad THEN "err" ELSE "val"
      /\ Top(p).phase # "fresh" \/ \A a \in StrictArgs[t] : result[a] = "val"
  BY DEF Complete, Goto, cell, Typed, TypeOK
<1>2. /\ Top(p) \in Frame /\ t \in Thunks /\ FrameGot(Top(p))
      /\ Top(p).phase # "parked" => Evaluating(p, t) # {}
  BY <1>0, TopFrame DEF TaskMemo, FramesInv, FailingTop
<1>3. Val(Needs(t)) \/ t \in Bad
  <2>1. CASE Top(p).phase = "fresh"
    BY <1>0, <1>1, <1>2, <2>1 DEF FrameGot, Val, Needs
  <2>2. CASE Top(p).phase = "redispatch"
    BY <1>0, <1>2, <2>2 DEF FrameGot, Val
  <2>3. CASE Top(p).phase = "parked"
    BY <1>0, <1>2, <2>3 DEF FrameGot, CellInv
  <2> QED BY <1>2, <2>1, <2>2, <2>3 DEF Frame
<1>4. \/ result[t] = Unset /\ Evaluating(p, t) # {}
      \/ result[t] = verdict'[p]
  <2>1. CASE Top(p).phase # "parked"
    BY <1>0, <1>2, <2>1, NotDoomed DEF TaskMemo
  <2>2. CASE Top(p).phase = "parked"
    <3>1. result[t] = "val"
      BY <1>0, <1>2, <2>2 DEF FrameGot
    <3> QED BY <1>0, <1>1, <1>2, <3>1 DEF CellInv
  <2> QED BY <2>1, <2>2
<1>5. SettleInv(p)'
  <2>1. Finished(p)' /\ Top(p)' = Top(p) /\ Val(Needs(t))' = Val(Needs(t))
        /\ Evaluating(p, t)' = Evaluating(p, t)
    BY <1>0, <1>1 DEF Finished, Top, Val, Needs, Evaluating
  <2>2. t \in Bad => Faulty(t)'
    BY <2>1 DEF Faulty
  <2> HIDE DEF t
  <2>3. verdict'[p] = "val" => t \notin Bad /\ Val(Needs(t))'
    BY <1>1, <1>3, <2>1
  <2>4. verdict'[p] = "err" => Faulty(t)'
    BY <1>1, <2>2
  <2>5. target'[p] = Top(p)'.thunk
    BY <1>1, <2>1 DEF t
  <2> QED BY <1>1, <1>4, <2>1, <2>3, <2>4, <2>5 DEF SettleInv, Val, Faulty, Evaluating, Needs
<1> QED BY <1>0, <1>1, <1>5, MoveKeepsMemo

(* From a frame that evaluates t upwards, each thunk needs the next, and   *)
(* the body on top demands t: the thunks in between are a circle.          *)
LEMMA OwnedIsCircular ==
    ASSUME Typed, StackInv, NEW p \in Tasks, TaskMemo(p), pc[p] \in Demanding,
           Evaluating(p, target[p]) # {}
    PROVE  Memo!Circular(target[p])
<1> DEFINE t == target[p]
           n == Len(stack[p])
<1>1. PICK i \in Evaluating(p, t) : TRUE
  OBVIOUS
<1>2. i \in 1..n /\ n \in Nat /\ stack[p] # <<>>
  <2>1. n \in Nat
    BY TypedStack, LenProperties DEF StackOK
  <2> QED BY <1>1, <2>1, EmptySeq DEF Evaluating
<1>3. ChainOK(stack[p]) /\ t \in stack[p][n].todo
  BY <1>2, TaskInvElim DEF StackInv, TopFits
<1>4. FramesInv(p)
  BY DEF TaskMemo
<1> DEFINE Ev(k) == stack[p][k].phase # "parked"
           S == {stack[p][k].thunk : k \in {j \in i..n : Ev(j)}}
<1>5. S \subseteq Thunks /\ t \in S
  <2>1. \A k \in i..n : stack[p][k].thunk \in Thunks
    BY <1>2, FrameAt
  <2>2. i \in i..n /\ Ev(i) /\ stack[p][i].thunk = t
    BY <1>1, <1>2 DEF Evaluating
  <2> QED BY <2>1, <2>2
<1>6. ASSUME NEW s \in S PROVE Needs(s) \cap S # {}
  <2>1. PICK k \in i..n : Ev(k) /\ stack[p][k].thunk = s
    BY <1>6
  <2>2. k \in 1..n /\ stack[p][k].todo \subseteq Needs(s)
    BY <1>2, <1>4, <2>1 DEF FramesInv, FrameFits
  <2>3. CASE k = n
    BY <1>3, <1>5, <2>2, <2>3
  <2>4. CASE k # n
    <3> DEFINE u == stack[p][k + 1].thunk
    <3>1. k \in 1..(n - 1) /\ k + 1 \in i..n /\ k + 1 \in 1..n
      BY <1>2, <2>1, <2>4
    <3>2. u \in Needs(s)
      BY <1>3, <2>2, <3>1 DEF ChainOK
    <3>3. CASE Ev(k + 1)
      BY <3>1, <3>2, <3>3
    <3>4. CASE ~Ev(k + 1)
      <4>1. stack[p][k + 1].todo \subseteq {u}
        BY <1>4, <3>1, <3>4 DEF FramesInv, FrameFits
      <4>2. CASE k + 1 = n
        BY <1>3, <1>5, <3>2, <4>1, <4>2
      <4>3. CASE k + 1 # n
        <5>1. k + 1 \in 1..(n - 1) /\ k + 1 + 1 \in i..n
          BY <1>2, <3>1, <4>3
        <5>2. Ev(k + 1 + 1)
          BY <1>4, <3>4, <5>1 DEF FramesInv
        <5>3. stack[p][k + 1 + 1].thunk = u
          BY <1>3, <4>1, <5>1 DEF ChainOK
        <5> QED BY <3>2, <5>1, <5>2, <5>3
      <4> QED BY <4>2, <4>3
    <3> QED BY <3>3, <3>4
  <2> QED BY <2>3, <2>4
<1> HIDE DEF S, t
<1>7. S \in SUBSET Thunks /\ t \in S /\ \A s \in S : Needs(s) \cap S # {}
  BY <1>5, <1>6
<1>8. Memo!Circular(t)
  BY <1>7 DEF Memo!Circular
<1> QED BY <1>8 DEF t

LEMMA SelfKeepsMemo ==
    ASSUME Ordinary, Typed, StackInv, MemoInv, NEW p \in Tasks, OwnerIsSelf(p)
    PROVE  TaskMemo(p)'
<1> DEFINE t == target[p]
<1>0. /\ TaskMemo(p) /\ pc[p] = "owner" /\ Grow /\ ~Failing(p) /\ pc[p] \notin Settling
      /\ t \in Thunks /\ pc[p] \in Demanding
  BY StepGrows DEF MemoInv, OwnerIsSelf, Goto, Step, Failing, Settling, Demanding, Typed, TypeOK
<1>1. /\ UNCHANGED <<state, owner, result, stack, seen, target>> /\ pc'[p] = "set"
      /\ verdict'[p] = "err" /\ owner[t] = p
  BY DEF OwnerIsSelf, Goto, cell, Typed, TypeOK, SameTask, TaskId, Ordinary
<1>2. Evaluating(p, t) # {} /\ Evaluating(p, t)' = Evaluating(p, t) /\ result[t] = Unset
  <2>1. Evaluating(p, t) # {} /\ Evaluating(p, t)' = Evaluating(p, t)
    BY <1>0, <1>1 DEF TaskMemo, OwnInv, Evaluating
  <2> QED BY <1>0, <2>1, NotDoomed DEF TaskMemo
<1>3. Memo!Circular(t)
  BY <1>0, <1>2, OwnedIsCircular
<1>4. Faulty(t)
  BY <1>3 DEF Faulty
<1>5. Faulty(t)'
  BY <1>0, <1>1, <1>4, FaultyStays
<1>6. SettleInv(p)'
  BY <1>1, <1>2, <1>5 DEF SettleInv, Evaluating, Faulty, Val
<1> QED BY <1>0, <1>1, <1>6, MoveKeepsMemo

(* SetResult: the evaluating frame, if the thunk had no result, is the top *)
(* one and is on its way out, or the task fails because of a circle.       *)
LEMMA SetResultKeepsMemo ==
    ASSUME Ordinary, Typed, StackInv, ClaimInv, Shape, MemoInv, NEW p \in Tasks, SetResult(p)
    PROVE  TaskMemo(p)'
<1> DEFINE t == target[p]
           v == verdict[p]
<1>0. /\ TaskMemo(p) /\ pc[p] = "set" /\ Grow /\ t \in Thunks /\ pc[p] \in Settling
      /\ result \in [Thunks -> Outcome \cup {Unset}] /\ v \in Outcome
  BY StepGrows DEF MemoInv, SetResult, Goto, Step, Settling, Typed, TypeOK
<1>1. /\ UNCHANGED <<state, owner, stack, seen, target, verdict>> /\ pc'[p] = "clear"
      /\ result' = [result EXCEPT ![t] = IF @ = Unset THEN v ELSE @]
  BY DEF SetResult, Goto, Typed, TypeOK
<1>2. /\ \A u \in Thunks : Evaluating(p, u)' = Evaluating(p, u)
      /\ \A u \in Thunks \ {t} : result'[u] = result[u]
      /\ result'[t] = v
  BY <1>0, <1>1 DEF Evaluating, TaskMemo, SettleInv
<1>3. FailingTop(p) => FailingTop(p)'
  BY <1>1 DEF FailingTop, Settling, Finished, Top
<1>4. FramesInv(p)'
  BY <1>0, <1>1, <1>3, FrameAt, FrameStays DEF TaskMemo, FramesInv
<1>5. SettleInv(p)'
  <2>1. Needs(t) \in SUBSET Thunks
    BY <1>0, NeedsType
  <2>2. v = "val" => /\ Finished(p)' /\ t = Top(p).thunk /\ Top(p)' = Top(p)
                     /\ t \notin Bad /\ Val(Needs(t))'
    BY <1>0, <1>1, <2>1, ValStays DEF TaskMemo, SettleInv, Finished, Top, Needs
  <2>3. v = "err" => Faulty(t)'
    BY <1>0, <1>1, FaultyStays DEF TaskMemo, SettleInv
  <2> QED BY <1>1, <1>2, <2>2, <2>3 DEF SettleInv, Val, Faulty, Finished, Top
<1>6. Doomed(p)'
  <2> SUFFICES ASSUME NEW u \in Thunks, result'[u] # Unset, NEW i \in Evaluating(p, u)
               PROVE  \/ result'[u] = "err" /\ Failing(p)'
                      \/ i = Len(stack[p]) /\ Finished(p) /\ t = u
    BY <1>1, <1>2 DEF Doomed, Finished, Top
  <2>1. CASE v = "err"
    <3>1. Failing(p)'
      BY <1>1, <2>1 DEF Failing, Settling
    <3>2. result'[u] = "err"
      BY <1>0, <1>2, <2>1, <3>1 DEF TaskMemo, Doomed
    <3> QED BY <3>1, <3>2
  <2>2. CASE v = "val"
    <3>1. ~Failing(p) /\ Finished(p) /\ t = Top(p).thunk
      BY <1>0, <2>2 DEF Failing, TaskMemo, SettleInv
    <3>2. result[u] = Unset
      BY <1>0, <3>1 DEF TaskMemo, Doomed
    <3>3. u = t
      BY <1>2, <3>2
    <3>4. stack[p] # <<>>
      BY <3>1 DEF Finished
    <3>5. Top(p).phase # "parked"
      <4> SUFFICES ASSUME Top(p).phase = "parked" PROVE FALSE
        OBVIOUS
      <4>1. FrameGot(Top(p))
        BY <2>2, <3>4, <1>0, TopFrame DEF TaskMemo, FramesInv, FailingTop
      <4> QED BY <3>1, <3>2, <3>3, <4>1, UnsetIsNoOutcome DEF FrameGot, Finished
    <3>6. Len(stack[p]) \in Evaluating(p, t)
      BY <3>1, <3>4, <3>5, TopFrame
    <3>7. i = Len(stack[p])
      BY <1>0, <3>2, <3>3, <3>6 DEF ClaimInv, SingleEvaluator
    <3> QED BY <3>1, <3>3, <3>7
  <2> QED BY <1>0, <2>1, <2>2 DEF Outcome
<1>7. OwnInv(p)'
  BY <1>0, <1>1, <1>2 DEF OwnInv, TaskMemo
<1>8. SeenInv(p)'
  BY <1>0, <1>1 DEF SeenInv, TaskMemo, Grow
<1> QED BY <1>4, <1>5, <1>6, <1>7, <1>8 DEF TaskMemo

LEMMA ClearKeepsMemo ==
    ASSUME Ordinary, Typed, MemoInv, NEW p \in Tasks, ClearOwner(p)
    PROVE  TaskMemo(p)'
<1> DEFINE t == target[p]
<1>0. TaskMemo(p) /\ pc[p] = "clear" /\ Grow /\ t \in Thunks
  BY StepGrows DEF MemoInv, ClearOwner, Goto, Step, Typed, TypeOK
<1>1. /\ UNCHANGED <<state, result, stack, seen, target, verdict>> /\ pc'[p] = "notify"
      /\ \A u \in Thunks : owner'[u] \in {owner[u], NoTask}
  BY DEF ClearOwner, Goto, Typed, TypeOK
<1>2. \A u \in Thunks : Evaluating(p, u)' = Evaluating(p, u)
  BY <1>1 DEF Evaluating
<1>3. (FailingTop(p) => FailingTop(p)') /\ (Failing(p) => Failing(p)')
      /\ Finished(p)' = Finished(p)
  BY <1>0, <1>1 DEF FailingTop, Failing, Settling, Finished, Top
<1>4. FramesInv(p)'
  BY <1>0, <1>1, <1>3, FrameAt, FrameStays DEF TaskMemo, FramesInv
<1>5. SettleInv(p)'
  BY <1>0, <1>1 DEF SettleInv, TaskMemo, Settling, Finished, Top, Val, Faulty, Needs, Memo!Circular
<1>6. Doomed(p)'
  BY <1>0, <1>1, <1>2, <1>3 DEF Doomed, TaskMemo
<1>7. OwnInv(p)'
  BY <1>0, <1>1, <1>2, ConstantsAssumption DEF OwnInv, TaskMemo
<1>8. SeenInv(p)'
  BY <1>0, <1>1 DEF SeenInv, TaskMemo
<1> QED BY <1>4, <1>5, <1>6, <1>7, <1>8 DEF TaskMemo

(* What holds of the frames that get an outcome v of t, and what a stack   *)
(* that hangs together gives the invariant.                                *)
EvaluatesIn(s, t) == {i \in 1..Len(s) : s[i].thunk = t /\ s[i].phase # "parked"}

Sound(s) ==
    /\ \A i \in 1..Len(s) : FrameFits(s[i]) /\ FrameGot(s[i])
    /\ \A i \in 1..(Len(s) - 1) : s[i].phase = "parked" => s[i + 1].phase = "redispatch"

LEMMA SoundPart ==
    ASSUME Typed, NEW p \in Tasks, FramesInv(p)
    PROVE  /\ ~FailingTop(p) => Sound(stack[p])
           /\ stack[p] # <<>> => Sound(Front(stack[p]))
<1>0. Len(stack[p]) \in Nat
  BY TypedStack, LenProperties DEF StackOK
<1>1. ~FailingTop(p) => Sound(stack[p])
  BY DEF FramesInv, Sound
<1>2. ASSUME stack[p] # <<>> PROVE Sound(Front(stack[p]))
  <2>1. /\ Len(Front(stack[p])) = Len(stack[p]) - 1
        /\ \A i \in 1..(Len(stack[p]) - 1) : Front(stack[p])[i] = stack[p][i]
    BY <1>2, TypedStack, PopType DEF StackOK
  <2> QED BY <1>0, <2>1 DEF FramesInv, Sound
<1> QED BY <1>1, <1>2

LEMMA ReturnKeepsMemo ==
    ASSUME Typed, CellInv, NEW p \in Tasks, SeenInv(p), NEW s, StackOK(s), Sound(s),
           NEW t \in Thunks, NEW v \in Outcome, Return(p, s, t, v),
           result[t] = v, s # <<>> => t \in s[Len(s)].todo,
           UNCHANGED <<state, owner, result>>,
           \A u \in Thunks : \A i \in EvaluatesIn(s, u) :
               result[u] # Unset => result[u] = "err" /\ v = "err",
           \A u \in Thunks : owner[u] = p => EvaluatesIn(s, u) # {}
    PROVE  TaskMemo(p)'
<1>0. /\ stack \in [Tasks -> Seq(Frame)] /\ pc \in [Tasks -> PCs] /\ target \in [Tasks -> Thunks]
      /\ seen \in [Tasks -> [Thunks -> Outcome \cup {Unset}]] /\ Grow /\ verdict \in [Tasks -> Outcome]
  BY DEF Typed, TypeOK, Grow
<1>1. CASE s = <<>>
  <2>1. stack'[p] = <<>> /\ pc'[p] = "run" /\ seen'[p] = [seen[p] EXCEPT ![t] = v]
    BY <1>0, <1>1 DEF Return
  <2>2. Len(<<>>) = 0
    BY EmptySeq
  <2>3. FramesInv(p)'
    BY <2>1, <2>2 DEF FramesInv
  <2>4. SettleInv(p)'
    BY <2>1 DEF SettleInv, Settling
  <2>5. \A u \in Thunks : EvaluatesIn(s, u) = {} /\ Evaluating(p, u)' = {}
    BY <1>1, <2>1, <2>2 DEF EvaluatesIn, Evaluating
  <2>6. Doomed(p)' /\ OwnInv(p)'
    BY <2>5 DEF Doomed, OwnInv
  <2>7. \A u \in Thunks : seen'[p][u] \in {Unset, result'[u]}
    BY <1>0, <2>1 DEF SeenInv
  <2>8. SeenInv(p)'
    BY <2>7 DEF SeenInv
  <2> QED BY <2>3, <2>4, <2>6, <2>8 DEF TaskMemo
<1>2. CASE s # <<>>
  <2> DEFINE n == Len(s)
  <2>1. PICK f \in Frame : f = s[n]
    BY <1>2, TopOK
  <2>2. /\ n \in Nat \ {0} /\ n \in 1..n /\ f.depth <= n /\ f.thunk \in Thunks
        /\ t \in f.todo /\ FrameFits(f) /\ FrameGot(f)
    BY <1>2, <2>1, TopOK DEF Frame, Sound
  <2>a. PICK D \in SUBSET Thunks : D = IF v = "err" THEN {} ELSE f.todo \ {t}
    BY <2>1 DEF Frame
  <2>b. /\ [f EXCEPT !.todo = D] \in Frame /\ [f EXCEPT !.todo = D].thunk = f.thunk
        /\ [f EXCEPT !.todo = D].phase = f.phase /\ [f EXCEPT !.todo = D].todo = D
    BY <2>1 DEF Frame
  <2>3. PICK g \in Frame : /\ g = [f EXCEPT !.todo = D]
                           /\ g.thunk = f.thunk /\ g.phase = f.phase /\ g.todo = D
    BY <2>b
  <2>4. stack'[p] = SetTop(s, g) /\ seen' = seen
    <3>1. CASE v = "err"
      BY <1>0, <1>2, <2>1, <2>a, <2>3, <3>1 DEF Return
    <3>2. CASE v # "err"
      BY <1>0, <1>2, <2>1, <2>a, <2>3, <3>2 DEF Return
    <3> QED BY <3>1, <3>2
  <2>5. PICK r \in Seq(Frame) :
            /\ r = stack'[p] /\ r # <<>>
            /\ Len(r) = n /\ r[n] = g
            /\ \A i \in 1..(n - 1) : r[i] = s[i]
    BY <1>2, <2>2, <2>4, SetTopType, EmptySeq DEF StackOK
  <2>6. \A i \in 1..n : r[i].thunk = s[i].thunk /\ r[i].phase = s[i].phase
    <3> SUFFICES ASSUME NEW i \in 1..n PROVE r[i].thunk = s[i].thunk /\ r[i].phase = s[i].phase
      OBVIOUS
    <3>1. i = n \/ i \in 1..(n - 1)
      BY <2>2
    <3> QED BY <2>1, <2>3, <2>5, <3>1
  <2> HIDE DEF n
  <2>7. \A u \in Thunks : Evaluating(p, u)' = EvaluatesIn(s, u)
    <3>1. 1..Len(stack'[p]) = 1..Len(s)
      BY <2>5 DEF n
    <3>2. \A i \in 1..Len(s) : stack'[p][i].thunk = s[i].thunk /\ stack'[p][i].phase = s[i].phase
      BY <2>5, <2>6 DEF n
    <3> QED BY <3>1, <3>2 DEF Evaluating, EvaluatesIn
  <2>8. OwnInv(p)' /\ SeenInv(p)'
    BY <2>4, <2>7 DEF OwnInv, SeenInv
  <2>9. /\ \A i \in 1..(n - 1) : FrameFits(r[i])' /\ FrameGot(r[i])'
        /\ FrameFits(g)'
        /\ \A i \in 1..(n - 1) : r[i].phase = "parked" => r[i + 1].phase = "redispatch"
    <3>1. ASSUME NEW i \in 1..(n - 1) PROVE FrameFits(r[i])' /\ FrameGot(r[i])'
      <4>1. PICK h \in Frame : h = s[i] /\ FrameFits(h) /\ FrameGot(h)
        BY <2>2, <3>1, ElementOfSeq DEF StackOK, Sound, n
      <4>2. FrameFits(h)' /\ FrameGot(h)'
        BY <1>0, <4>1, FrameStays
      <4>3. r[i] = h
        BY <2>5, <3>1, <4>1
      <4> QED BY <4>2, <4>3
    <3>2. FrameFits(g)'
      BY <2>2, <2>a, <2>3 DEF FrameFits, Needs
    <3>3. ASSUME NEW i \in 1..(n - 1), r[i].phase = "parked" PROVE r[i + 1].phase = "redispatch"
      <4>1. i \in 1..n /\ i + 1 \in 1..n
        BY <2>2, <3>3
      <4> QED BY <2>6, <3>3, <4>1 DEF Sound, n
    <3> QED BY <3>1, <3>2, <3>3
  <2>10. \A i \in 1..n : FrameFits(r[i])' /\ (i # n => FrameGot(r[i])')
    BY <2>2, <2>5, <2>9
  <2>11. CASE v = "err"
    <3>1. pc'[p] = "set" /\ target'[p] = f.thunk /\ verdict'[p] = "err"
      BY <1>0, <1>2, <2>1, <2>11 DEF Return, n
    <3>2. FailingTop(p)' /\ Failing(p)'
      BY <2>a, <2>3, <2>5, <2>11, <3>1 DEF FailingTop, Failing, Settling, Finished, Top, Last
    <3>3. FramesInv(p)'
      BY <2>5, <2>9, <2>10, <3>2 DEF FramesInv
    <3>4. Faulty(f.thunk)
      <4>1. CASE f.phase = "parked"
        <5>1. t = f.thunk
          BY <2>2, <4>1 DEF FrameFits
        <5> QED BY <2>11, <5>1 DEF CellInv
      <4>2. CASE f.phase # "parked"
        BY <2>2, <2>11, <4>2 DEF FrameFits, Faulty
      <4> QED BY <4>1, <4>2
    <3>5. Faulty(f.thunk)'
      BY <1>0, <2>2, <3>4, FaultyStays
    <3>6. \/ result'[f.thunk] = Unset /\ Evaluating(p, f.thunk)' # {}
          \/ result'[f.thunk] = "err"
      <4>1. CASE f.phase = "parked"
        <5>1. t = f.thunk
          BY <2>2, <4>1 DEF FrameFits
        <5> QED BY <2>11, <5>1
      <4>2. CASE f.phase # "parked"
        <5>1. n \in EvaluatesIn(s, f.thunk)
          BY <2>1, <2>2, <4>2 DEF EvaluatesIn, n
        <5> QED BY <2>2, <2>7, <5>1
      <4> QED BY <4>1, <4>2
    <3>7. SettleInv(p)'
      <4>1. Faulty(target[p])'
        BY <3>1, <3>5
      <4>2. \/ result'[target'[p]] = Unset /\ Evaluating(p, target[p])' # {}
            \/ result'[target'[p]] = verdict'[p]
        BY <3>1, <3>6
      <4> QED BY <3>1, <4>1, <4>2 DEF SettleInv
    <3>8. Doomed(p)'
      BY <2>7, <3>2 DEF Doomed
    <3> QED BY <2>8, <3>3, <3>7, <3>8 DEF TaskMemo
  <2>12. CASE v = "val"
    <3>1. pc'[p] = "run"
      BY <1>0, <1>2, <2>12 DEF Return
    <3>2. FrameGot(g)'
      <4>1. result' = result /\ result[t] = "val" /\ g.todo = f.todo \ {t}
        BY <2>a, <2>3, <2>12
      <4>2. f.phase = "parked" => t = f.thunk
        BY <2>2 DEF FrameFits
      <4>3. f.phase = "fresh" => \A d \in Demands[f.thunk] \ g.todo : result'[d] = "val"
        BY <2>2, <4>1 DEF FrameGot, Val
      <4>4. f.phase = "redispatch" => \A d \in Needs(f.thunk) \ g.todo : result'[d] = "val"
        BY <2>2, <4>1 DEF FrameGot, Val
      <4>5. f.phase = "parked" => result'[f.thunk] = "val"
        BY <4>1, <4>2
      <4> QED BY <2>3, <4>3, <4>4, <4>5 DEF FrameGot, Val, Needs
    <3>3. \A i \in 1..n : FrameGot(r[i])'
      BY <2>5, <2>10, <3>2
    <3>4. FramesInv(p)'
      BY <2>5, <2>9, <2>10, <3>3 DEF FramesInv
    <3>5. SettleInv(p)'
      BY <3>1 DEF SettleInv, Settling
    <3>6. Doomed(p)'
      BY <2>7, <2>12 DEF Doomed
    <3> QED BY <2>8, <3>4, <3>5, <3>6 DEF TaskMemo
  <2> QED BY <2>11, <2>12 DEF Outcome
<1> QED BY <1>1, <1>2

LEMMA EvaluatingIsIn ==
    ASSUME NEW p, NEW t
    PROVE  Evaluating(p, t) = EvaluatesIn(stack[p], t)
BY DEF Evaluating, EvaluatesIn

LEMMA HitKeepsMemo ==
    ASSUME Ordinary, Typed, StackInv, MemoInv, NEW p \in Tasks, CheckHit(p)
    PROVE  TaskMemo(p)'
<1> DEFINE t == target[p]
<1>0. /\ TaskMemo(p) /\ CellInv /\ pc[p] = "check" /\ t \in Thunks /\ StackOK(stack[p])
      /\ result[t] \in Outcome /\ UNCHANGED <<state, owner, result>>
      /\ Return(p, stack[p], t, result[t])
  BY TypedStack DEF MemoInv, CheckHit, Typed, TypeOK, cell
<1>1. Sound(stack[p])
  BY <1>0, SoundPart DEF TaskMemo, FailingTop, Settling
<1>2. stack[p] # <<>> => t \in stack[p][Len(stack[p])].todo
  BY <1>0, TaskInvElim DEF StackInv, TopFits, Demanding
<1>3. \A u \in Thunks : \A i \in EvaluatesIn(stack[p], u) :
          result[u] # Unset => result[u] = "err" /\ result[t] = "err"
  BY <1>0, EvaluatingIsIn DEF TaskMemo, Doomed, Failing, Settling
<1>4. \A u \in Thunks : owner[u] = p => EvaluatesIn(stack[p], u) # {}
  BY <1>0, EvaluatingIsIn DEF TaskMemo, OwnInv
<1>5. SeenInv(p)
  BY <1>0 DEF TaskMemo
<1> HIDE DEF t
<1> QED BY <1>0, <1>1, <1>2, <1>3, <1>4, <1>5, ReturnKeepsMemo

LEMMA NotifyKeepsMemo ==
    ASSUME Ordinary, Typed, StackInv, Held, MemoInv, NEW p \in Tasks, Notify(p)
    PROVE  TaskMemo(p)'
<1>a. PICK t \in Thunks, v \in Outcome, n \in Nat :
          t = target[p] /\ v = verdict[p] /\ n = Len(stack[p])
  BY TypedStack, LenProperties DEF Typed, TypeOK, StackOK
<1>0. /\ TaskMemo(p) /\ CellInv /\ pc[p] = "notify" /\ StackOK(stack[p])
      /\ UNCHANGED <<state, owner, result>> /\ Grow /\ result[t] = v
      /\ SeenInv(p) /\ FramesInv(p) /\ Doomed(p) /\ stack \in [Tasks -> Seq(Frame)]
      /\ pc \in [Tasks -> PCs]
  BY <1>a, TypedStack, StepGrows
     DEF Step, MemoInv, Notify, TaskMemo, SettleInv, Settling, Typed, TypeOK
<1>1. ~Failing(p) => v = "val"
  BY <1>0, <1>a DEF Failing, Settling, Outcome
<1>2. \A u \in Thunks : \A i \in Evaluating(p, u) : result[u] # Unset =>
          \/ result[u] = "err" /\ v = "err"
          \/ i = n /\ Finished(p)
  BY <1>0, <1>a, UnsetIsNoOutcome DEF Doomed, Failing, Settling
<1>3. owner[t] # p
  BY <1>0, <1>a DEF Held, Released
<1>4. CASE Finished(p)
  <2>1. PICK s \in Seq(Frame) :
            /\ s = Front(stack[p]) /\ StackOK(s) /\ Sound(s)
            /\ stack[p] # <<>> /\ n \in Nat \ {0}
    BY <1>0, <1>4, <1>a, PopOK, SoundPart, TopFrame DEF Finished, StackOK
  <2>2. Len(s) = n - 1 /\ \A i \in 1..(n - 1) : s[i] = stack[p][i]
    BY <1>0, <1>a, <2>1, PopType DEF StackOK
  <2>3. Top(p).thunk = t /\ Top(p) = stack[p][n]
    <3>1. TaskInv(p)
      BY DEF StackInv
    <3>2. Top(p) = stack[p][n] /\ Top(p).todo = {}
      BY <1>4, <1>a, <2>1, TopFrame DEF Finished
    <3> QED BY <1>0, <1>a, <2>1, <3>1, <3>2, TaskInvElim DEF TopFits, Settling
  <2>4. s # <<>> => t \in s[Len(s)].todo
    <3>1. ChainOK(stack[p])
      BY TaskInvElim DEF StackInv
    <3> QED BY <1>0, <1>a, <2>1, <2>3, <3>1, ChainFront
  <2>5. \A u \in Thunks : /\ EvaluatesIn(s, u) \subseteq Evaluating(p, u) \ {n}
                          /\ u # t => EvaluatesIn(s, u) = Evaluating(p, u)
    <3>1. \A i : i \in 1..n <=> i = n \/ i \in 1..(n - 1)
      BY <2>1
    <3>2. ~(n \in 1..(n - 1))
      BY <2>1
    <3> QED BY <1>a, <2>2, <2>3, <3>1, <3>2 DEF EvaluatesIn, Evaluating
  <2>6. \A u \in Thunks : \A i \in EvaluatesIn(s, u) :
            result[u] # Unset => result[u] = "err" /\ v = "err"
    BY <1>2, <2>5
  <2>7. \A u \in Thunks : owner[u] = p => EvaluatesIn(s, u) # {}
    BY <1>0, <1>3, <2>5 DEF TaskMemo, OwnInv
  <2>8. CASE Guarded(Top(p))
    <3>1. /\ stack'[p] = s /\ pc'[p] = "check" /\ target' = target /\ seen' = seen
      BY <1>0, <1>4, <2>1, <2>8 DEF Notify
    <3>2. \A u \in Thunks : Evaluating(p, u)' = EvaluatesIn(s, u)
      BY <3>1 DEF Evaluating, EvaluatesIn
    <3>3. FramesInv(p)'
      <4>1. \A i \in 1..Len(s) : s[i] \in Frame
        BY <2>1, ElementOfSeq DEF StackOK
      <4>2. \A i \in 1..Len(s) : FrameFits(s[i])' /\ FrameGot(s[i])'
        <5> SUFFICES ASSUME NEW i \in 1..Len(s) PROVE FrameFits(s[i])' /\ FrameGot(s[i])'
          OBVIOUS
        <5>1. PICK h \in Frame : h = s[i]
          BY <4>1
        <5>2. FrameFits(h) /\ FrameGot(h)
          BY <2>1, <5>1 DEF Sound
        <5> QED BY <1>0, <5>1, <5>2, UnsetIsNoOutcome DEF FrameFits, FrameGot, Val, Needs
      <4> QED BY <2>1, <3>1, <4>2, <1>0 DEF FramesInv, Sound, FrameFits, FrameGot, Val, Needs
    <3>4. SettleInv(p)'
      BY <3>1 DEF SettleInv, Settling
    <3>5. v = "err" => Failing(p)'
      BY <1>0, <1>a, <3>1 DEF Failing
    <3>6. Doomed(p)'
      BY <1>0, <2>6, <3>2, <3>5 DEF Doomed
    <3>7. OwnInv(p)' /\ SeenInv(p)'
      BY <1>0, <2>7, <3>1, <3>2 DEF OwnInv, SeenInv
    <3> QED BY <3>3, <3>4, <3>6, <3>7 DEF TaskMemo
  <2>9. CASE ~Guarded(Top(p))
    <3>1. Return(p, s, t, v)
      BY <1>4, <1>a, <2>1, <2>9 DEF Notify
    <3> QED BY <1>0, <2>1, <2>4, <2>6, <2>7, <3>1, ReturnKeepsMemo
  <2> QED BY <2>8, <2>9
<1>5. CASE ~Finished(p)
  <2>1. Return(p, stack[p], t, v)
    BY <1>5, <1>a DEF Notify
  <2>2. Sound(stack[p])
    BY <1>0, <1>5, SoundPart DEF FailingTop
  <2>3. stack[p] # <<>> => t \in stack[p][Len(stack[p])].todo
    BY <1>0, <1>5, <1>a, TaskInvElim DEF StackInv, TopFits, Settling, Finished, Top, Last
  <2>4. \A u \in Thunks : \A i \in EvaluatesIn(stack[p], u) :
            result[u] # Unset => result[u] = "err" /\ v = "err"
    BY <1>2, <1>5, EvaluatingIsIn
  <2>5. \A u \in Thunks : owner[u] = p => EvaluatesIn(stack[p], u) # {}
    BY <1>0, EvaluatingIsIn DEF TaskMemo, OwnInv
  <2> QED BY <1>0, <2>1, <2>2, <2>3, <2>4, <2>5, ReturnKeepsMemo
<1> QED BY <1>4, <1>5

LEMMA ClaimKeepsMemo ==
    ASSUME Ordinary, Typed, StackInv, MemoInv, NEW p \in Tasks, Claim(p)
    PROVE  TaskMemo(p)'
<1>a. PICK t \in Thunks, n \in Nat, g \in Frame :
          /\ t = target[p] /\ n = Len(stack[p]) /\ g = Pushed(p)
          /\ g.thunk = t /\ g.phase = state[t] /\ state[t] \in {"fresh", "redispatch"}
          /\ g.todo = IF state[t] = "fresh" THEN Demands[t] ELSE StrictArgs[t]
  <2>1. /\ target[p] \in Thunks /\ Len(stack[p]) \in Nat /\ Pushed(p) \in Frame
        /\ state[target[p]] \in {"fresh", "redispatch"}
    BY ClaimPushes
  <2>2. /\ Pushed(p).thunk = target[p] /\ Pushed(p).phase = state[target[p]]
        /\ Pushed(p).todo =
              IF state[target[p]] = "fresh" THEN Demands[target[p]] ELSE StrictArgs[target[p]]
    BY DEF Pushed
  <2> QED BY <2>1, <2>2
<1>0. /\ TaskMemo(p) /\ CellInv /\ pc[p] = "claim" /\ Grow /\ ~Failing(p) /\ pc[p] \notin Settling
      /\ state \in [Thunks -> {"fresh", "redispatch", "taken"}] /\ ~FailingTop(p)
  BY StepGrows DEF MemoInv, Claim, Goto, Step, Failing, FailingTop, Settling, Typed, TypeOK
<1>1. /\ Len(stack'[p]) = n + 1 /\ stack'[p][n + 1] = g
      /\ \A i \in 1..n : stack'[p][i] = stack[p][i]
  BY <1>a, ClaimPushes
<1>2. /\ result' = result /\ seen' = seen /\ pc'[p] = "run"
      /\ state' = [state EXCEPT ![t] = "taken"]
      /\ owner' = [owner EXCEPT ![t] = p]
  BY <1>a DEF Claim, Goto, Typed, TypeOK, TaskId, Ordinary
<1>3. \A i \in 1..(n + 1) : i = n + 1 \/ i \in 1..n
  BY <1>a
<1>4. \A u \in Thunks : Evaluating(p, u)' =
          IF u = t THEN Evaluating(p, u) \cup {n + 1} ELSE Evaluating(p, u)
  BY <1>a, <1>1, <1>3 DEF Evaluating
<1>5. FrameFits(g)' /\ FrameGot(g)'
  <2>1. state'[t] = "taken"
    BY <1>0, <1>2
  <2>2. g.todo \subseteq Needs(t)
    BY <1>a DEF Needs
  <2>3. FrameFits(g)
    BY <1>a, <2>2 DEF FrameFits
  <2>4. FrameGot(g)
    BY <1>0, <1>a DEF FrameGot, CellInv, Val, Needs
  <2> QED BY <1>0, <2>3, <2>4, FrameStays
<1>6. FramesInv(p)'
  <2>1. \A i \in 1..n : FrameFits(stack[p][i])' /\ FrameGot(stack[p][i])'
    <3> SUFFICES ASSUME NEW i \in 1..n PROVE FrameFits(stack[p][i])' /\ FrameGot(stack[p][i])'
      OBVIOUS
    <3>1. PICK h \in Frame : h = stack[p][i]
      BY <1>a, FrameAt
    <3>2. FrameFits(h) /\ FrameGot(h)
      BY <1>0, <1>a, <3>1 DEF TaskMemo, FramesInv
    <3>3. FrameFits(h)' /\ FrameGot(h)'
      BY <1>0, <3>2, FrameStays
    <3> QED BY <1>1, <3>1, <3>3
  <2>2. \A i \in 1..Len(stack'[p]) : FrameFits(stack[p][i])' /\ FrameGot(stack[p][i])'
    BY <1>1, <1>3, <1>5, <2>1
  <2>3. ASSUME NEW i \in 1..n, stack'[p][i].phase = "parked"
        PROVE  stack'[p][i + 1].phase = "redispatch"
    <3>1. stack[p][i].phase = "parked"
      BY <1>1, <2>3
    <3>2. CASE i = n
      <4>1. t \in stack[p][n].todo
        <5>1. stack[p] # <<>>
          BY <1>a, <2>3, EmptySeq
        <5> QED BY <1>0, <1>a, <5>1, TaskInvElim DEF StackInv, TopFits, Demanding
      <4>2. stack[p][n].todo \subseteq {stack[p][n].thunk} /\ state[stack[p][n].thunk] # "fresh"
        BY <1>0, <1>a, <2>3, <3>1, <3>2 DEF TaskMemo, FramesInv, FrameFits
      <4>3. state[t] = "redispatch"
        BY <1>a, <4>1, <4>2
      <4> QED BY <1>a, <1>1, <3>2, <4>3
    <3>3. CASE i # n
      <4>1. i \in 1..(n - 1) /\ i + 1 \in 1..n
        BY <2>3, <3>3
      <4> QED BY <1>0, <1>a, <1>1, <3>1, <4>1 DEF TaskMemo, FramesInv
    <3> QED BY <3>2, <3>3
  <2> QED BY <1>a, <1>1, <2>2, <2>3 DEF FramesInv
<1>7. SettleInv(p)'
  BY <1>2 DEF SettleInv, Settling
<1>8. Doomed(p)'
  <2>1. result[t] = Unset
    BY <1>0, <1>a DEF CellInv
  <2> QED BY <1>0, <1>2, <1>4, <2>1, NotDoomed DEF TaskMemo, Doomed
<1>9. OwnInv(p)'
  BY <1>0, <1>2, <1>4 DEF OwnInv, TaskMemo, Typed, TypeOK
<1>10. SeenInv(p)'
  BY <1>0, <1>2 DEF SeenInv, TaskMemo
<1> QED BY <1>6, <1>7, <1>8, <1>9, <1>10 DEF TaskMemo

(* A reset parks or pops the evaluating frame on top, whose demands all    *)
(* have values; no parked frame is right below it.                         *)
LEMMA ResetKeepsMemo ==
    ASSUME Ordinary, Typed, MemoInv, NEW p \in Tasks, Reset(p)
    PROVE  /\ TaskMemo(p)'
           /\ result[Top(p).thunk] = Unset /\ Val(Demands[Top(p).thunk])
<1>a. PICK t \in Thunks, n \in Nat \ {0}, f \in Frame :
          /\ t = Top(p).thunk /\ n = Len(stack[p]) /\ f = Top(p) /\ f = stack[p][n]
          /\ f.phase = "fresh" /\ f.todo = {} /\ f.thunk = t
  <2>1. /\ Top(p).thunk \in Thunks /\ Len(stack[p]) \in Nat \ {0}
        /\ Top(p) = stack[p][Len(stack[p])] /\ stack[p] # <<>>
        /\ Top(p).phase = "fresh"
    BY ResetParks
  <2>2. Top(p) \in Frame
    BY <2>1, TopTyped
  <2>3. Top(p).todo = {}
    BY DEF Reset
  <2> QED BY <2>1, <2>2, <2>3
<1>0. /\ TaskMemo(p) /\ CellInv /\ pc[p] = "run" /\ Grow /\ ~Failing(p) /\ pc[p] \notin Settling
      /\ ~FailingTop(p)
  BY StepGrows DEF MemoInv, Reset, Goto, Step, Failing, FailingTop, Settling
<1>1. /\ Len(stack'[p]) \in Nat
      /\ \/ Len(stack'[p]) = n - 1
         \/ /\ Len(stack'[p]) = n
            /\ stack'[p][n] = [f EXCEPT !.todo = {t}, !.phase = "parked"]
      /\ \A i \in 1..(n - 1) : stack'[p][i] = stack[p][i]
  BY <1>a, ResetParks
<1>2. /\ result' = result /\ seen' = seen /\ pc'[p] = "check"
      /\ state' = [state EXCEPT ![t] = "redispatch"]
      /\ owner' = [owner EXCEPT ![t] = NoTask]
  BY <1>a DEF Reset, Goto, Typed, TypeOK
<1>b. PICK g \in Frame : /\ g = [f EXCEPT !.todo = {t}, !.phase = "parked"]
                         /\ g.thunk = t /\ g.todo = {t} /\ g.phase = "parked"
  <2>1. [f EXCEPT !.todo = {t}, !.phase = "parked"] \in Frame
    BY <1>a DEF Frame
  <2>2. [f EXCEPT !.todo = {t}, !.phase = "parked"].thunk = t
    BY <1>a DEF Frame
  <2>3. [f EXCEPT !.todo = {t}, !.phase = "parked"].todo = {t}
    BY <1>a DEF Frame
  <2>4. [f EXCEPT !.todo = {t}, !.phase = "parked"].phase = "parked"
    BY <1>a DEF Frame
  <2> QED BY <2>1, <2>2, <2>3, <2>4
<1>3. Len(stack'[p]) = n => stack'[p][n] = g
  BY <1>a, <1>1, <1>b
<1>4. \A i \in 1..Len(stack'[p]) : i \in 1..(n - 1) \/ (i = n /\ Len(stack'[p]) = n)
  BY <1>a, <1>1
<1>5. \A i \in 1..(n - 1) : i \in 1..Len(stack'[p]) /\ i \in 1..n
  BY <1>a, <1>1
<1>6. /\ \A u \in Thunks : Evaluating(p, u)' \subseteq Evaluating(p, u)
      /\ \A u \in Thunks \ {t} : Evaluating(p, u)' = Evaluating(p, u)
  <2>1. \A u \in Thunks : Evaluating(p, u)' \subseteq Evaluating(p, u)
    BY <1>a, <1>b, <1>1, <1>3, <1>4, <1>5 DEF Evaluating
  <2>2. \A u \in Thunks \ {t} : Evaluating(p, u) \subseteq Evaluating(p, u)'
    <3>1. \A i \in 1..n : i \in 1..(n - 1) \/ i = n
      BY <1>a
    <3> QED BY <1>a, <1>1, <1>5, <3>1 DEF Evaluating
  <2> QED BY <2>1, <2>2
<1>7. FrameGot(f) /\ n \in Evaluating(p, t)
  <2>1. n \in 1..Len(stack[p])
    BY <1>a
  <2> QED BY <1>0, <1>a, <2>1 DEF TaskMemo, FramesInv, Evaluating
<1>8. result[t] = Unset /\ Val(Demands[t])
  BY <1>0, <1>a, <1>7, NotDoomed DEF TaskMemo, FrameGot, Val
<1>9. FramesInv(p)'
  <2>1. ASSUME NEW i \in 1..(n - 1) PROVE FrameFits(stack[p][i])' /\ FrameGot(stack[p][i])'
    <3>1. PICK h \in Frame : h = stack[p][i]
      BY <1>a, <1>5, FrameAt
    <3>2. FrameFits(h) /\ FrameGot(h)
      BY <1>0, <1>a, <1>5, <3>1 DEF TaskMemo, FramesInv
    <3>3. FrameFits(h)' /\ FrameGot(h)'
      BY <1>0, <3>2, FrameStays
    <3> QED BY <1>1, <3>1, <3>3
  <2>2. FrameFits(g)' /\ FrameGot(g)'
    BY <1>b, <1>2 DEF FrameFits, FrameGot, Typed, TypeOK
  <2>3. \A i \in 1..Len(stack'[p]) : FrameFits(stack[p][i])' /\ FrameGot(stack[p][i])'
    BY <1>3, <1>4, <2>1, <2>2
  <2>4. ASSUME NEW i \in 1..(Len(stack'[p]) - 1), stack'[p][i].phase = "parked"
        PROVE  stack'[p][i + 1].phase = "redispatch"
    <3>1. i \in 1..(n - 1) /\ stack[p][i].phase = "parked"
      BY <1>a, <1>1, <2>4
    <3>2. stack[p][i + 1].phase = "redispatch"
      BY <1>0, <1>a, <3>1 DEF TaskMemo, FramesInv
    <3>3. i + 1 # n
      BY <1>a, <3>2
    <3>4. i + 1 \in 1..(n - 1)
      BY <1>a, <3>1, <3>3
    <3> QED BY <1>1, <3>2, <3>4
  <2> QED BY <2>3, <2>4 DEF FramesInv
<1>10. SettleInv(p)'
  BY <1>2 DEF SettleInv, Settling
<1>11. Doomed(p)'
  BY <1>0, <1>2, <1>6, NotDoomed DEF TaskMemo, Doomed
<1>12. OwnInv(p)'
  BY <1>0, <1>2, <1>6, ConstantsAssumption DEF OwnInv, TaskMemo, Typed, TypeOK
<1>13. SeenInv(p)'
  BY <1>0, <1>2 DEF SeenInv, TaskMemo
<1> QED BY <1>a, <1>8, <1>9, <1>10, <1>11, <1>12, <1>13 DEF TaskMemo

(* The steps that move p within the protocol of materialize().             *)
LEMMA WalkKeepsMemo ==
    ASSUME Ordinary, Typed, MemoInv, NEW p \in Tasks,
           \/ Demand(p) \/ Finish(p) \/ CheckMiss(p) \/ ClaimLost(p) \/ Recheck(p)
           \/ OwnerIsOther(p) \/ Listen(p) \/ Confirm(p) \/ Wake(p)
    PROVE  TaskMemo(p)'
<1>0. TaskMemo(p) /\ Grow /\ pc \in [Tasks -> PCs]
  BY StepGrows DEF MemoInv, Step, Typed, TypeOK
<1>1. UNCHANGED <<stack, result, seen, owner>>
  BY DEF Demand, Finish, CheckMiss, ClaimLost, Recheck, OwnerIsOther, Listen, Confirm, Wake, cell
<1>2. /\ pc[p] \in {"run", "check", "claim", "recheck", "owner", "listen", "confirm", "asleep"}
      /\ pc[p] = "check" => result[target[p]] = Unset
      /\ pc'[p] \notin Settling
  <2>1. CASE \/ Demand(p) \/ Finish(p) \/ CheckMiss(p) \/ ClaimLost(p) \/ OwnerIsOther(p)
             \/ Listen(p)
    BY <1>0, <2>1 DEF Demand, Finish, CheckMiss, ClaimLost, OwnerIsOther, Listen, Goto, Settling
  <2>2. CASE Recheck(p) \/ Wake(p)
    BY <1>0, <2>2 DEF Recheck, Wake, Settling
  <2>3. CASE Confirm(p)
    <3>1. /\ pc[p] = "confirm"
          /\ pc' = [pc EXCEPT ![p] = "check"] \/ pc' = [pc EXCEPT ![p] = "asleep"]
      BY <2>3 DEF Confirm
    <3> QED BY <1>0, <3>1 DEF Settling
  <2> QED BY <2>1, <2>2, <2>3
<1>3. ~Failing(p) /\ pc[p] \notin Settling
  BY <1>2, UnsetIsNoOutcome DEF Failing, Settling
<1>4. SettleInv(p)'
  BY <1>2 DEF SettleInv
<1> QED BY <1>0, <1>1, <1>3, <1>4, MoveKeepsMemo

LEMMA StepKeepsCells ==
    ASSUME Ordinary, Typed, StackInv, ClaimInv, Shape, MemoInv, NEW p \in Tasks,
           Step(p) \/ Panic(p)
    PROVE  CellInv'
<1>0. /\ CellInv /\ Grow /\ ~Unwind(p) /\ SettleInv(p)
      /\ state \in [Thunks -> {"fresh", "redispatch", "taken"}]
  BY StepGrows, NoExits DEF MemoInv, TaskMemo, Typed, TypeOK
<1> SUFFICES ASSUME NEW t \in Thunks
             PROVE  /\ result'[t] # Unset => state'[t] = "taken"
                    /\ state'[t] = "redispatch" => Val(Demands[t])'
                    /\ result'[t] = "val" => t \notin Bad /\ Val(Needs(t))'
                    /\ result'[t] = "err" => Faulty(t)'
  BY DEF CellInv, Val, Faulty, Needs
<1>1. Demands[t] \in SUBSET Thunks /\ Needs(t) \in SUBSET Thunks
  BY NeedsType
<1>2. /\ result'[t] # Unset => state[t] = "taken"
      /\ result'[t] = "val" => t \notin Bad /\ Val(Needs(t))
      /\ result'[t] = "err" => Faulty(t)
  <2>1. CASE result'[t] = result[t]
    BY <1>0, <2>1 DEF CellInv
  <2>2. CASE result'[t] # result[t]
    <3>1. /\ t = target[p] /\ pc[p] = "set" /\ result[t] = Unset /\ result'[t] = verdict[p]
          /\ Evaluating(p, t) # {}
      BY <1>0, <2>2, ResultChanges
    <3>2. state[t] = "taken"
      BY <3>1 DEF ClaimInv, EvaluatedIsTaken
    <3> QED BY <1>0, <3>1, <3>2 DEF SettleInv, Settling
  <2> QED BY <2>1, <2>2
<1>3. /\ result'[t] = "val" => t \notin Bad /\ Val(Needs(t))'
      /\ result'[t] = "err" => Faulty(t)'
  BY <1>0, <1>1, <1>2, ValStays, FaultyStays DEF Val, Needs
<1>4. CASE Reset(p)
  <2>1. /\ \A u \in Thunks : state'[u] = IF u = Top(p).thunk THEN "redispatch" ELSE state[u]
        /\ result' = result
    BY <1>0, <1>4 DEF Reset
  <2>2. result[Top(p).thunk] = Unset /\ Val(Demands[Top(p).thunk])
    BY <1>4, ResetKeepsMemo
  <2>3. state'[t] = "redispatch" => Val(Demands[t])
    BY <1>0, <2>1, <2>2 DEF CellInv
  <2> QED BY <1>0, <1>1, <1>2, <1>3, <2>1, <2>2, <2>3, ValStays DEF Val
<1>5. CASE ~Reset(p)
  <2>1. state'[t] = state[t] \/ state'[t] = "taken"
    <3>1. CASE Claim(p)
      BY <1>0, <3>1 DEF Claim
    <3>2. CASE ~Claim(p)
      BY <1>5, <3>2, StepCuts
    <3> QED BY <3>1, <3>2
  <2>2. state'[t] = "redispatch" => Val(Demands[t])
    BY <1>0, <2>1 DEF CellInv
  <2> QED BY <1>0, <1>1, <1>2, <1>3, <2>1, <2>2, ValStays DEF Val
<1> QED BY <1>4, <1>5

LEMMA StepKeepsMemo ==
    ASSUME Ordinary, Typed, StackInv, ClaimInv, Shape, Held, MemoInv, NEW p \in Tasks,
           Step(p) \/ Panic(p)
    PROVE  MemoInv'
<1>1. CellInv'
  BY StepKeepsCells
<1>2. \A q \in Tasks : q # p => TaskMemo(q)'
  BY OthersKeepMemo
<1>3. TaskMemo(p)'
  BY NoExits, CompleteKeepsMemo, SelfKeepsMemo, SetResultKeepsMemo, ClearKeepsMemo, HitKeepsMemo,
     NotifyKeepsMemo, ClaimKeepsMemo, ResetKeepsMemo, WalkKeepsMemo DEF Step
<1> QED BY <1>1, <1>2, <1>3 DEF MemoInv

MemoStrong == HeldInv /\ ClaimInv /\ MemoInv

LEMMA InitMemoStrong ==
    ASSUME Init
    PROVE  MemoStrong
<1>1. \A p \in Tasks : stack[p] = <<>> /\ Len(stack[p]) = 0 /\ pc[p] = "run"
  BY EmptySeq DEF Init
<1>2. \A p \in Tasks, t \in Thunks : Evaluating(p, t) = {}
  BY <1>1 DEF Evaluating
<1>3. HeldInv
  BY InitHeld
<1>4. ClaimInv
  BY <1>2 DEF ClaimInv, SingleEvaluator, EvaluatedIsTaken
<1>5. CellInv
  BY UnsetIsNoOutcome DEF Init, CellInv
<1>6. ASSUME NEW p \in Tasks PROVE TaskMemo(p)
  <2>1. FramesInv(p)
    BY <1>1 DEF FramesInv
  <2>2. SettleInv(p) /\ Doomed(p)
    BY <1>1, <1>2 DEF SettleInv, Settling, Doomed
  <2>3. OwnInv(p) /\ SeenInv(p)
    BY ConstantsAssumption DEF Init, OwnInv, SeenInv
  <2> QED BY <2>1, <2>2, <2>3 DEF TaskMemo
<1> QED BY <1>3, <1>4, <1>5, <1>6 DEF MemoInv, MemoStrong

LEMMA NextMemo ==
    ASSUME Ordinary, MemoStrong, [Next]_vars
    PROVE  MemoStrong'
<1>1. HeldInv'
  BY NextHeld, OrdinaryIsOrderly DEF MemoStrong
<1>2. ASSUME NEW p \in Tasks, Step(p) \/ Panic(p) PROVE ClaimInv' /\ MemoInv'
  BY <1>2, StepKeepsClaims, StepKeepsMemo DEF MemoStrong, HeldInv
<1>3. CASE UNCHANGED vars
  <2>1. UNCHANGED <<state, owner, result, listeners, pc, target, stack, verdict, wanted, seen>>
    BY <1>3 DEF vars, cell
  <2>2. ClaimInv'
    BY <2>1 DEF MemoStrong, ClaimInv, SingleEvaluator, EvaluatedIsTaken, Evaluating
  <2>3. CellInv'
    BY <2>1 DEF MemoStrong, MemoInv, CellInv, Val, Faulty, Needs, Memo!Circular
  <2>4. ASSUME NEW p \in Tasks PROVE TaskMemo(p)'
    <3>0. TaskMemo(p)
      BY DEF MemoStrong, MemoInv
    <3>1. FramesInv(p)'
      BY <2>1, <3>0 DEF TaskMemo, FramesInv, FrameFits, FrameGot, FailingTop, Finished, Top, Val, Needs
    <3>2. SettleInv(p)'
      BY <2>1, <3>0 DEF TaskMemo, SettleInv, Finished, Top, Val, Needs, Faulty, Memo!Circular,
         Evaluating
    <3>3. Doomed(p)'
      BY <2>1, <3>0 DEF TaskMemo, Doomed, Failing, Finished, Top, Evaluating
    <3>4. OwnInv(p)' /\ SeenInv(p)'
      BY <2>1, <3>0 DEF TaskMemo, OwnInv, SeenInv, Evaluating
    <3> QED BY <3>1, <3>2, <3>3, <3>4 DEF TaskMemo
  <2> QED BY <1>1, <2>2, <2>3, <2>4 DEF MemoInv, MemoStrong
<1> QED BY <1>1, <1>2, <1>3 DEF Next, MemoStrong

LEMMA MemoAlways ==
    ASSUME Ordinary
    PROVE  Spec => []MemoStrong
<1>1. Init => MemoStrong
  BY InitMemoStrong
<1>2. MemoStrong /\ [Next]_vars => MemoStrong'
  BY NextMemo
<1> QED BY <1>1, <1>2, PTL DEF Spec

(* Forcing implements the write-once cell: each step either leaves every   *)
(* result alone, or is the settling that LazyMemo allows for one thunk.    *)
LEMMA StepIsMemo ==
    ASSUME Ordinary, MemoStrong, [Next]_vars
    PROVE  [Memo!Next]_result
<1>1. ASSUME NEW p \in Tasks, Step(p) \/ Panic(p), result' # result
      PROVE  Memo!Next
  <2>0. /\ Typed /\ Shape /\ SettleInv(p) /\ result \in [Thunks -> Outcome \cup {Unset}]
        /\ result' \in [Thunks -> Outcome \cup {Unset}] /\ ~Unwind(p)
    BY <1>1, NoExits, StepTyped DEF MemoStrong, HeldInv, MemoInv, TaskMemo, Typed, TypeOK
  <2>1. PICK t \in Thunks : result'[t] # result[t]
    BY <1>1, <2>0
  <2>2. /\ SetResult(p) /\ t = target[p] /\ pc[p] = "set" /\ result[t] = Unset
        /\ result'[t] = verdict[p] /\ verdict[p] \in Outcome
    BY <1>1, <2>0, <2>1, ResultChanges
  <2>3. result' = [result EXCEPT ![t] = verdict[p]]
    BY <2>0, <2>2 DEF SetResult
  <2>4. CASE verdict[p] = "val"
    <3>1. Memo!Succeed(t)
      BY <2>0, <2>2, <2>3, <2>4 DEF Memo!Succeed, SettleInv, Settling, Val
    <3> QED BY <2>2, <3>1 DEF Memo!Next
  <2>5. CASE verdict[p] = "err"
    <3>1. Memo!Fail(t)
      BY <2>0, <2>2, <2>3, <2>5 DEF Memo!Fail, SettleInv, Settling, Faulty
    <3> QED BY <2>2, <3>1 DEF Memo!Next
  <2> QED BY <2>2, <2>4, <2>5 DEF Outcome
<1>2. CASE UNCHANGED vars
  BY <1>2 DEF vars, cell
<1> QED BY <1>1, <1>2 DEF Next

(* In every run without abnormal exits in which each task has an id, the   *)
(* results change as LazyMemo says: once per thunk, to a value when its    *)
(* needs have values, to an error when it or a need fails or in a circle.  *)
THEOREM ForcingImplementsMemo == Ordinary => (Spec => MemoSpec)
<1> SUFFICES ASSUME Ordinary PROVE Spec => MemoSpec
  OBVIOUS
<1>1. Init => Memo!Init
  BY DEF Init, Memo!Init
<1>2. MemoStrong /\ [Next]_vars => [Memo!Next]_result
  BY StepIsMemo
<1> QED BY <1>1, <1>2, MemoAlways, PTL DEF Spec, MemoSpec, Memo!Spec

(* A step of LazyMemo gives a thunk its denotation if what is settled      *)
(* already has its own; what a task has seen is the result of the cell.    *)
LEMMA NextConfluent ==
    ASSUME Ordinary, MemoStrong, MemoStrong', Confluence, [Next]_vars
    PROVE  Confluence'
<1>0. result \in [Thunks -> Outcome \cup {Unset}] /\ result' \in [Thunks -> Outcome \cup {Unset}]
  BY DEF MemoStrong, HeldInv, Typed, TypeOK
<1>1. ASSUME NEW t \in Thunks PROVE result'[t] \in {Unset, Den[t]}
  <2>1. CASE result'[t] = result[t]
    BY <2>1 DEF Confluence
  <2>2. CASE result'[t] # result[t]
    <3>1. [Memo!Next]_result
      BY StepIsMemo
    <3>2. PICK u \in Thunks : result[u] = Unset /\ (Memo!Succeed(u) \/ Memo!Fail(u))
      BY <2>2, <3>1 DEF Memo!Next
    <3>3. u = t
      BY <1>0, <2>2, <3>2 DEF Memo!Succeed, Memo!Fail
    <3>4. \A d \in Needs(t) : d \in Thunks /\ result[d] \in {Unset, Den[d]}
      BY NeedsType DEF Confluence
    <3>5. CASE Memo!Succeed(t)
      <4>1. t \notin Bad /\ (\A d \in Needs(t) : result[d] = "val") /\ result'[t] = "val"
        BY <1>0, <3>5 DEF Memo!Succeed
      <4>2. \A d \in Needs(t) : Den[d] # "err"
        BY <3>4, <4>1, UnsetIsNoOutcome
      <4>3. Den[t] # "err" /\ Den[t] \in Outcome
        BY <4>1, <4>2, DenAssumption
      <4> QED BY <4>1, <4>3 DEF Outcome
    <3>6. CASE Memo!Fail(t)
      <4>1. /\ t \in Bad \/ Memo!Circular(t) \/ \E d \in Needs(t) : result[d] = "err"
            /\ result'[t] = "err"
        BY <1>0, <3>6 DEF Memo!Fail
      <4>2. CASE t \in Bad \/ \E d \in Needs(t) : result[d] = "err"
        <5>1. t \in Bad \/ \E d \in Needs(t) : Den[d] = "err"
          BY <3>4, <4>2, UnsetIsNoOutcome
        <5> QED BY <4>1, <5>1, DenAssumption
      <4>3. CASE Memo!Circular(t)
        BY <4>1, <4>3, DenAssumption DEF Memo!Circular
      <4> QED BY <4>1, <4>2, <4>3
    <3> QED BY <3>2, <3>3, <3>5, <3>6
  <2> QED BY <2>1, <2>2
<1>2. ASSUME NEW p \in Tasks, NEW t \in Thunks PROVE seen'[p][t] \in {Unset, Den[t]}
  <2>1. seen'[p][t] \in {Unset, result'[t]}
    BY DEF MemoStrong, MemoInv, TaskMemo, SeenInv
  <2> QED BY <1>1, <2>1
<1> QED BY <1>1, <1>2 DEF Confluence

(* In every such run every cell that is settled holds the denotation of    *)
(* its thunk, and every answer a task was given is that denotation.        *)
THEOREM ForcingIsConfluent == Ordinary => (Spec => []Confluence)
<1> SUFFICES ASSUME Ordinary PROVE Spec => []Confluence
  OBVIOUS
<1>1. Init => Confluence
  BY DEF Init, Confluence
<1>2. MemoStrong /\ MemoStrong' /\ Confluence /\ [Next]_vars => Confluence'
  BY NextConfluent
<1> QED BY <1>1, <1>2, MemoAlways, PTL DEF Spec
-----------------------------------------------------------------------------
(* Panics, the depth limit and false cycles turn values into errors, never *)
(* an error or another value into a value: what a frame no longer demands  *)
(* has a value in Den, unless its task is failing it.                      *)
Right(D) == \A d \in D : Den[d] = "val"

FrameRight(f) ==
    /\ f.phase = "fresh" => Right(Demands[f.thunk] \ f.todo)
    /\ f.phase = "redispatch" => Right(Needs(f.thunk) \ f.todo)
    /\ f.phase = "parked" /\ f.thunk \notin f.todo => Den[f.thunk] = "val"

AllRight(s) == \A i \in 1..Len(s) : FrameRight(s[i])

CellsRight ==
    \A t \in Thunks :
        /\ result[t] = "val" => Den[t] = "val"
        /\ state[t] = "redispatch" => Right(Demands[t])

TaskRight(p) ==
    /\ \A i \in 1..Len(stack[p]) :
          \/ FrameRight(stack[p][i])
          \/ /\ i = Len(stack[p]) /\ stack[p][i].todo = {}
             /\ pc[p] \in Settling /\ verdict[p] = "err"
    /\ pc[p] \in Settling /\ verdict[p] = "val" => Den[target[p]] = "val"
    /\ \A t \in Thunks : seen[p][t] = "val" => Den[t] = "val"

RightInv == Typed /\ CellsRight /\ \A p \in Tasks : TaskRight(p)

LEMMA NotFailingIsRight ==
    ASSUME NEW p \in Tasks, TaskRight(p),
           pc[p] \notin Settling \/ verdict[p] # "err" \/ ~Finished(p), StackOK(stack[p])
    PROVE  AllRight(stack[p])
<1> SUFFICES ASSUME NEW i \in 1..Len(stack[p]), ~FrameRight(stack[p][i]) PROVE FALSE
  BY DEF AllRight
<1>1. /\ i = Len(stack[p]) /\ stack[p][i].todo = {}
      /\ pc[p] \in Settling /\ verdict[p] = "err"
  BY DEF TaskRight
<1>2. stack[p] # <<>>
  BY EmptySeq
<1> QED BY <1>1, <1>2 DEF Finished, Top, Last

LEMMA FrontIsRight ==
    ASSUME NEW p \in Tasks, TaskRight(p), StackOK(stack[p]), stack[p] # <<>>
    PROVE  AllRight(Front(stack[p]))
<1>1. /\ Len(stack[p]) \in Nat \ {0} /\ Len(Front(stack[p])) = Len(stack[p]) - 1
      /\ \A i \in 1..(Len(stack[p]) - 1) : Front(stack[p])[i] = stack[p][i]
  BY PopType, EmptySeq, LenProperties DEF StackOK
<1> QED BY <1>1 DEF AllRight, TaskRight

LEMMA SetTopAt ==
    ASSUME NEW s, StackOK(s), s # <<>>, NEW f \in Frame
    PROVE  /\ Len(SetTop(s, f)) = Len(s) /\ SetTop(s, f)[Len(s)] = f
           /\ \A i \in 1..(Len(s) - 1) : SetTop(s, f)[i] = s[i]
BY SetTopType DEF StackOK

(* The top frame of a stack that is right, after it was given t.           *)
LEMMA ReturnIsRight ==
    ASSUME Typed, NEW p \in Tasks, TaskRight(p), NEW s, StackOK(s), AllRight(s),
           NEW t \in Thunks, NEW v \in Outcome, v = "val" => Den[t] = "val",
           Return(p, s, t, v)
    PROVE  TaskRight(p)'
<1>0. /\ stack \in [Tasks -> Seq(Frame)] /\ pc \in [Tasks -> PCs] /\ target \in [Tasks -> Thunks]
      /\ seen \in [Tasks -> [Thunks -> Outcome \cup {Unset}]] /\ verdict \in [Tasks -> Outcome]
  BY DEF Typed, TypeOK
<1>1. CASE s = <<>>
  <2>1. stack'[p] = <<>> /\ pc'[p] = "run" /\ seen'[p] = [seen[p] EXCEPT ![t] = v]
    BY <1>0, <1>1 DEF Return
  <2>2. Len(<<>>) = 0
    BY EmptySeq
  <2>3. \A u \in Thunks : seen'[p][u] = "val" => Den[u] = "val"
    BY <1>0, <2>1 DEF TaskRight
  <2> QED BY <2>1, <2>2, <2>3 DEF TaskRight, Settling
<1>2. CASE s # <<>>
  <2> DEFINE n == Len(s)
  <2>1. PICK f \in Frame : f = s[n]
    BY <1>2, TopOK
  <2>2. n \in Nat \ {0} /\ n \in 1..n /\ f.thunk \in Thunks /\ FrameRight(f)
    BY <1>2, <2>1, TopOK DEF Frame, AllRight
  <2>a. PICK D \in SUBSET Thunks : D = IF v = "err" THEN {} ELSE f.todo \ {t}
    BY <2>1 DEF Frame
  <2>b. /\ [f EXCEPT !.todo = D] \in Frame /\ [f EXCEPT !.todo = D].thunk = f.thunk
        /\ [f EXCEPT !.todo = D].phase = f.phase /\ [f EXCEPT !.todo = D].todo = D
    BY <2>1 DEF Frame
  <2>3. PICK g \in Frame : /\ g = [f EXCEPT !.todo = D]
                           /\ g.thunk = f.thunk /\ g.phase = f.phase /\ g.todo = D
    BY <2>b
  <2>4. stack'[p] = SetTop(s, g) /\ seen' = seen
    <3>1. CASE v = "err"
      BY <1>0, <1>2, <2>1, <2>a, <2>3, <3>1 DEF Return
    <3>2. CASE v # "err"
      BY <1>0, <1>2, <2>1, <2>a, <2>3, <3>2 DEF Return
    <3> QED BY <3>1, <3>2
  <2>5. PICK r \in Seq(Frame) :
            /\ r = stack'[p] /\ r # <<>>
            /\ Len(r) = n /\ r[n] = g
            /\ \A i \in 1..(n - 1) : r[i] = s[i]
    BY <1>2, <2>2, <2>4, SetTopType, EmptySeq DEF StackOK
  <2>6. \A i \in 1..n : i # n => FrameRight(r[i])
    BY <2>2, <2>5 DEF AllRight
  <2> HIDE DEF n
  <2>7. \A u \in Thunks : seen'[p][u] = "val" => Den[u] = "val"
    BY <2>4 DEF TaskRight
  <2>8. CASE v = "err"
    <3>1. pc'[p] = "set" /\ verdict'[p] = "err" /\ g.todo = {}
      BY <1>0, <1>2, <2>a, <2>3, <2>8 DEF Return
    <3> QED BY <2>5, <2>6, <2>7, <3>1 DEF TaskRight, Settling
  <2>9. CASE v = "val"
    <3>1. pc'[p] = "run" /\ g.todo = f.todo \ {t} /\ Den[t] = "val"
      BY <1>0, <1>2, <2>a, <2>3, <2>9 DEF Return
    <3>2. FrameRight(g)
      BY <2>2, <2>3, <3>1 DEF FrameRight, Right
    <3> QED BY <2>5, <2>6, <2>7, <3>1, <3>2 DEF TaskRight, Settling
  <2> QED BY <2>8, <2>9 DEF Outcome
<1> QED BY <1>1, <1>2

(* Complete gives a value to a thunk whose needs all have one.             *)
LEMMA CompleteIsRight ==
    ASSUME Typed, CellsRight, NEW p \in Tasks, TaskRight(p), Complete(p)
    PROVE  TaskRight(p)'
<1> DEFINE t == Top(p).thunk
<1>1. /\ pc[p] = "run" /\ stack[p] # <<>> /\ Top(p).todo = {} /\ StackOK(stack[p])
      /\ UNCHANGED <<stack, seen>> /\ pc'[p] = "set" /\ target'[p] = t
      /\ verdict'[p] = IF t \in Bad THEN "err" ELSE "val"
      /\ Top(p).phase # "fresh" \/ \A a \in StrictArgs[t] : result[a] = "val"
  BY TypedStack DEF Complete, Goto, cell, Typed, TypeOK
<1>2. AllRight(stack[p])
  BY <1>1, NotFailingIsRight DEF Settling
<1>3. /\ Top(p) \in Frame /\ t \in Thunks /\ FrameRight(Top(p))
  BY <1>1, <1>2, TopFrame DEF AllRight
<1>4. Right(Needs(t)) \/ Den[t] = "val"
  <2>1. CASE Top(p).phase = "fresh"
    <3>1. \A a \in StrictArgs[t] : Den[a] = "val"
      BY <1>1, <1>3, <2>1, NeedsType DEF CellsRight
    <3> QED BY <1>1, <1>3, <2>1, <3>1 DEF FrameRight, Right, Needs
  <2>2. CASE Top(p).phase = "redispatch"
    BY <1>1, <1>3, <2>2 DEF FrameRight, Right
  <2>3. CASE Top(p).phase = "parked"
    BY <1>1, <1>3, <2>3 DEF FrameRight
  <2> QED BY <1>3, <2>1, <2>2, <2>3 DEF Frame
<1>5. t \notin Bad => Den[t] = "val"
  <2>1. Den[t] \in Outcome /\ \A d \in Needs(t) : Den[d] = "val" => Den[d] # "err"
    BY <1>3, DenAssumption
  <2>2. Right(Needs(t)) /\ t \notin Bad => Den[t] # "err"
    BY <1>3, <2>1, DenAssumption DEF Right
  <2> QED BY <1>4, <2>1, <2>2 DEF Outcome
<1> HIDE DEF t
<1> QED BY <1>1, <1>2, <1>5 DEF TaskRight, AllRight

LEMMA DepthIsRight ==
    ASSUME Typed, NEW p \in Tasks, TaskRight(p), DepthExceeded(p)
    PROVE  TaskRight(p)'
<1> DEFINE b == Base(p)
           s == SubSeq(stack[p], 1, b)
           f == [stack[p][b] EXCEPT !.todo = {}]
<1>0. /\ stack \in [Tasks -> Seq(Frame)] /\ StackOK(stack[p]) /\ pc[p] = "run" /\ seen' = seen
      /\ pc'[p] = "set" /\ verdict'[p] = "err"
  BY TypedStack DEF Typed, TypeOK, DepthExceeded, Goto
<1>1. b \in 1..Len(stack[p]) /\ stack' = [stack EXCEPT ![p] = SetTop(s, f)]
  BY DepthExceededStack
<1>2. StackOK(s) /\ Len(s) = b /\ s # <<>> /\ \A i \in 1..b : s[i] = stack[p][i]
  BY <1>0, <1>1, PrefixOK
<1>3. b \in Nat \ {0} /\ Len(stack[p]) \in Nat /\ b <= Len(stack[p])
  BY <1>0, <1>1, LenProperties DEF StackOK
<1>4. stack[p][b] \in Frame
  BY <1>0, <1>1, ElementOfSeq DEF StackOK
<1>5. f \in Frame /\ f.todo = {}
  BY <1>4 DEF Frame
<1>6. stack'[p] = SetTop(s, f)
  BY <1>0, <1>1
<1> HIDE DEF s, f, b
<1>7. /\ Len(stack'[p]) = b /\ stack'[p][b] = f
      /\ \A i \in 1..(b - 1) : stack'[p][i] = s[i]
  BY <1>2, <1>5, <1>6, SetTopAt
<1>8. AllRight(stack[p])
  BY <1>0, NotFailingIsRight DEF Settling
<1>9. \A i \in 1..b : i # b => FrameRight(stack'[p][i])
  BY <1>2, <1>3, <1>7, <1>8 DEF AllRight
<1> QED BY <1>0, <1>5, <1>7, <1>9 DEF TaskRight, Settling

(* Claim starts a body, fresh or put back by Reset.                        *)
LEMMA ClaimIsRight ==
    ASSUME Typed, CellsRight, NEW p \in Tasks, TaskRight(p), Claim(p)
    PROVE  TaskRight(p)'
<1>0. StackOK(stack[p]) /\ pc[p] = "claim" /\ target[p] \in Thunks /\ pc'[p] = "run" /\ seen' = seen
  BY TypedStack DEF Typed, TypeOK, Claim, Goto
<1>1. Len(stack[p]) \in Nat
  BY <1>0, LenProperties DEF StackOK
<1>2. AllRight(stack[p])
  BY <1>0, NotFailingIsRight DEF Settling
<1>3. /\ Len(stack'[p]) = Len(stack[p]) + 1 /\ stack'[p][Len(stack[p]) + 1] = Pushed(p)
      /\ \A i \in 1..Len(stack[p]) : stack'[p][i] = stack[p][i]
  BY ClaimPushes
<1>4. state[target[p]] \in {"fresh", "redispatch"}
  BY <1>0 DEF Claim, Typed, TypeOK
<1>5. FrameRight(Pushed(p))
  BY <1>0, <1>4 DEF FrameRight, Pushed, Right, Needs, CellsRight
<1>6. \A i \in 1..Len(stack'[p]) : FrameRight(stack'[p][i])
  BY <1>1, <1>2, <1>3, <1>5 DEF AllRight
<1> QED BY <1>0, <1>6 DEF TaskRight, Settling

(* Reset puts a body back that has what it demands, and pops or parks it.  *)
LEMMA ResetIsRight ==
    ASSUME Typed, CellsRight, NEW p \in Tasks, TaskRight(p), Reset(p)
    PROVE  TaskRight(p)' /\ CellsRight'
<1> DEFINE t == Top(p).thunk
           f == [Top(p) EXCEPT !.todo = {t}, !.phase = "parked"]
<1>0. /\ StackOK(stack[p]) /\ stack \in [Tasks -> Seq(Frame)] /\ pc \in [Tasks -> PCs]
      /\ state \in [Thunks -> {"fresh", "redispatch", "taken"}]
      /\ stack[p] # <<>> /\ Top(p).todo = {} /\ Top(p).phase = "fresh" /\ pc[p] = "run"
  BY TypedStack DEF Typed, TypeOK, Reset, Goto
<1>1. /\ pc'[p] = "check" /\ seen' = seen /\ result' = result
      /\ state' = [state EXCEPT ![t] = "redispatch"]
      /\ stack'[p] = IF Guarded(Top(p)) THEN SetTop(stack[p], f) ELSE Front(stack[p])
  BY <1>0 DEF Reset, Goto
<1>2. AllRight(stack[p])
  BY <1>0, NotFailingIsRight DEF Settling
<1>3. Top(p) \in Frame /\ t \in Thunks /\ FrameRight(Top(p)) /\ Len(stack[p]) \in Nat \ {0}
  BY <1>0, <1>2, TopFrame DEF AllRight
<1>4. Right(Demands[t])
  BY <1>0, <1>3 DEF FrameRight, Right
<1>5. CellsRight'
  BY <1>0, <1>1, <1>3, <1>4 DEF CellsRight, Right
<1>6. AllRight(stack'[p])
  <2>1. CASE Guarded(Top(p))
    <3>1. f \in Frame /\ FrameRight(f)
      BY <1>3 DEF Frame, FrameRight
    <3>2. stack'[p] = SetTop(stack[p], f)
      BY <1>1, <2>1
    <3> HIDE DEF f
    <3>3. /\ Len(stack'[p]) = Len(stack[p]) /\ stack'[p][Len(stack[p])] = f
          /\ \A i \in 1..(Len(stack[p]) - 1) : stack'[p][i] = stack[p][i]
      BY <1>0, <3>1, <3>2, SetTopType DEF StackOK
    <3> QED BY <1>2, <1>3, <3>1, <3>3 DEF AllRight
  <2>2. CASE ~Guarded(Top(p))
    BY <1>0, <1>1, <2>2, FrontIsRight
  <2> QED BY <2>1, <2>2
<1> QED BY <1>1, <1>5, <1>6 DEF TaskRight, AllRight, Settling

LEMMA NotifyIsRight ==
    ASSUME Typed, NEW p \in Tasks, TaskRight(p), Notify(p)
    PROVE  TaskRight(p)'
<1>0. /\ StackOK(stack[p]) /\ pc \in [Tasks -> PCs] /\ stack \in [Tasks -> Seq(Frame)]
      /\ target[p] \in Thunks /\ verdict[p] \in Outcome /\ pc[p] = "notify"
      /\ verdict[p] = "val" => Den[target[p]] = "val"
  BY TypedStack DEF Typed, TypeOK, Notify, TaskRight, Settling
<1>1. CASE Finished(p) /\ Guarded(Top(p))
  <2>1. stack'[p] = Front(stack[p]) /\ pc'[p] = "check" /\ seen' = seen
    BY <1>0, <1>1 DEF Notify
  <2>2. AllRight(stack'[p])
    BY <1>0, <1>1, <2>1, FrontIsRight DEF Finished
  <2> QED BY <2>1, <2>2 DEF TaskRight, AllRight, Settling
<1>2. CASE ~(Finished(p) /\ Guarded(Top(p)))
  <2> DEFINE s == IF Finished(p) THEN Front(stack[p]) ELSE stack[p]
  <2>1. StackOK(s) /\ AllRight(s)
    BY <1>0, PopOK, FrontIsRight, NotFailingIsRight DEF Finished
  <2>2. Return(p, s, target[p], verdict[p])
    BY <1>2 DEF Notify
  <2> HIDE DEF s
  <2> QED BY <1>0, <2>1, <2>2, ReturnIsRight
<1> QED BY <1>1, <1>2

LEMMA StepKeepsRight ==
    ASSUME RightInv, NEW p \in Tasks, Step(p) \/ Panic(p)
    PROVE  RightInv'
<1>0. /\ Typed /\ CellsRight /\ TaskRight(p) /\ StackOK(stack[p]) /\ target[p] \in Thunks
      /\ verdict \in [Tasks -> Outcome] /\ result \in [Thunks -> Outcome \cup {Unset}]
      /\ pc \in [Tasks -> PCs] /\ target \in [Tasks -> Thunks] /\ stack \in [Tasks -> Seq(Frame)]
      /\ Typed'
  BY TypedStack, StepTyped DEF RightInv, Typed, TypeOK
<1>1. ASSUME NEW q \in Tasks, q # p PROVE TaskRight(q)'
  <2>1. /\ stack'[q] = stack[q] /\ pc'[q] = pc[q] /\ target'[q] = target[q]
        /\ verdict'[q] = verdict[q] /\ seen'[q] = seen[q]
    BY <1>0, <1>1, StepIsLocal, OthersUnmoved
  <2> QED BY <2>1 DEF RightInv, TaskRight
<1>2. TaskRight(p)' /\ CellsRight'
  <2>1. ASSUME stack'[p] = stack[p], pc[p] \notin Settling, seen' = seen,
               pc'[p] \in Settling => verdict'[p] = "err"
        PROVE  TaskRight(p)'
    <3>1. AllRight(stack[p])
      BY <1>0, <2>1, NotFailingIsRight
    <3>2. \A t \in Thunks : seen'[p][t] = "val" => Den[t] = "val"
      BY <1>0, <2>1 DEF TaskRight
    <3> QED BY <2>1, <3>1, <3>2 DEF TaskRight, AllRight
  <2>2. ASSUME result' = result, state' = state PROVE CellsRight'
    BY <1>0, <2>2 DEF CellsRight
  <2>3. CASE Complete(p)
    BY <1>0, <2>2, <2>3, CompleteIsRight DEF Complete, cell
  <2>4. CASE DepthExceeded(p)
    BY <1>0, <2>2, <2>4, DepthIsRight DEF DepthExceeded, cell
  <2>5. CASE Claim(p)
    <3>1. CellsRight'
      BY <1>0, <2>5 DEF Claim, CellsRight, Typed, TypeOK
    <3> QED BY <1>0, <2>5, <3>1, ClaimIsRight
  <2>6. CASE Reset(p)
    BY <1>0, <2>6, ResetIsRight
  <2>7. CASE Notify(p)
    BY <1>0, <2>2, <2>7, NotifyIsRight DEF Notify
  <2>8. CASE CheckHit(p)
    <3>1. /\ AllRight(stack[p]) /\ result[target[p]] \in Outcome
          /\ result[target[p]] = "val" => Den[target[p]] = "val"
      BY <1>0, <2>8, NotFailingIsRight DEF CheckHit, Settling, CellsRight
    <3>2. TaskRight(p)'
      BY <1>0, <2>8, <3>1, ReturnIsRight DEF CheckHit
    <3> QED BY <2>2, <2>8, <3>2 DEF CheckHit, cell
  <2>9. CASE SetResult(p)
    <3>1. /\ pc[p] = "set" /\ pc'[p] = "clear" /\ UNCHANGED <<state, target, stack, verdict, seen>>
          /\ result' = [result EXCEPT ![target[p]] = IF @ = Unset THEN verdict[p] ELSE @]
      BY <1>0, <2>9 DEF SetResult, Goto
    <3>2. CellsRight'
      BY <1>0, <3>1 DEF CellsRight, TaskRight, Settling
    <3> QED BY <1>0, <3>1, <3>2 DEF TaskRight, Settling
  <2>10. CASE ClearOwner(p)
    <3>1. /\ pc[p] = "clear" /\ pc'[p] = "notify"
          /\ UNCHANGED <<state, result, target, stack, verdict, seen>>
      BY <1>0, <2>10 DEF ClearOwner, Goto
    <3> QED BY <1>0, <2>2, <3>1 DEF TaskRight, Settling
  <2>11. CASE Unwind(p)
    <3>1. /\ pc[p] = "unwind" /\ pc'[p] \in {"unwind", "dead"} /\ state' = state /\ seen' = seen
          /\ stack'[p] = stack[p] \/ (stack[p] # <<>> /\ stack'[p] = Front(stack[p]))
      BY <1>0, <2>11 DEF Unwind
    <3>2. AllRight(stack'[p])
      BY <1>0, <3>1, NotFailingIsRight, FrontIsRight DEF Settling
    <3>3. \A t \in Thunks : result'[t] \in {result[t], "err"}
      BY <1>0, <2>11 DEF Unwind
    <3>4. CellsRight'
      BY <1>0, <3>1, <3>3 DEF CellsRight
    <3> QED BY <1>0, <3>1, <3>2, <3>4 DEF TaskRight, AllRight, Settling
  <2>12. CASE \/ Demand(p) \/ Finish(p) \/ CheckMiss(p) \/ ClaimLost(p) \/ Recheck(p)
              \/ OwnerIsSelf(p) \/ OwnerIsOther(p) \/ Listen(p) \/ Confirm(p) \/ Wake(p)
              \/ Panic(p)
    <3>1. stack' = stack /\ seen' = seen /\ result' = result /\ state' = state
      BY <2>12 DEF Demand, Finish, CheckMiss, ClaimLost, Recheck, OwnerIsSelf, OwnerIsOther,
           Listen, Confirm, Wake, Panic, cell
    <3>2. pc[p] \notin Settling /\ (pc'[p] \in Settling => verdict'[p] = "err")
      BY <1>0, <2>12 DEF Demand, Finish, CheckMiss, ClaimLost, Recheck, OwnerIsSelf,
           OwnerIsOther, Listen, Confirm, Wake, Panic, Goto, Settling
    <3> QED BY <2>1, <2>2, <3>1, <3>2
  <2> QED BY <2>3, <2>4, <2>5, <2>6, <2>7, <2>8, <2>9, <2>10, <2>11, <2>12 DEF Step
<1> QED BY <1>0, <1>1, <1>2 DEF RightInv

(* Whatever panics, exceeds the depth limit or is falsely taken for a      *)
(* cycle, a thunk that has a value has the one that the graph gives it,    *)
(* and so has whatever a task was given (ValuesAreRight).                  *)
THEOREM NoWrongValue == Spec => []ValuesAreRight
<1>1. Init => RightInv
  <2> SUFFICES ASSUME Init PROVE RightInv
    OBVIOUS
  <2>1. Typed
    BY InitTyped
  <2>2. CellsRight
    BY ConstantsAssumption DEF Init, CellsRight, Outcome
  <2>3. ASSUME NEW p \in Tasks PROVE TaskRight(p)
    <3>1. stack[p] = <<>> /\ Len(<<>>) = 0 /\ pc[p] = "run"
      BY EmptySeq DEF Init
    <3>2. \A t \in Thunks : seen[p][t] # "val"
      BY ConstantsAssumption DEF Init, Outcome
    <3> QED BY <3>1, <3>2 DEF TaskRight, Settling
  <2> QED BY <2>1, <2>2, <2>3 DEF RightInv
<1>2. RightInv /\ [Next]_vars => RightInv'
  <2> SUFFICES ASSUME RightInv, [Next]_vars PROVE RightInv'
    OBVIOUS
  <2>1. CASE UNCHANGED vars
    BY <2>1 DEF vars, cell, RightInv, Typed, TypeOK, DepthBound, CellsRight, TaskRight
  <2>2. CASE \E p \in Tasks : Step(p) \/ Panic(p)
    BY <2>2, StepKeepsRight
  <2> QED BY <2>1, <2>2 DEF Next
<1>3. RightInv => ValuesAreRight
  BY DEF RightInv, CellsRight, TaskRight, ValuesAreRight
<1> QED BY <1>1, <1>2, <1>3, PTL DEF Spec
=============================================================================
