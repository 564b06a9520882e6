--------------------------- MODULE Channel_proofs ----------------------------
(***************************************************************************)
(* Theorems about the channels, for any number of senders, receivers,      *)
(* contexts, values, messages and places.                                  *)
(*                                                                         *)
(* Channel: two invariants are inductive, each with the type invariant.    *)
(* LogInv follows the values: everything delivered followed by everything  *)
(* buffered only ever grows at its end, by a value with a number its       *)
(* sender has not used.  PlacesInv follows the places: free, promised to a *)
(* sender, or taken; a sender stands in the queue once and not at all when *)
(* it holds a promise.  From both follows that the channel is a queue      *)
(* (Fifo).  LineInv, apart from them, says that the lock is passed on.     *)
(*                                                                         *)
(* Oneshot: LockInv follows the receiver's mutex: whoever holds it or      *)
(* waits for it has not been answered.  CrossInv follows the value: the    *)
(* slot names the send that succeeded, and who has it has closed the       *)
(* channel.                                                                *)
(*                                                                         *)
(* Broadcast: HeardInv relates what a receiver expects to where its        *)
(* subscription starts.                                                    *)
(***************************************************************************)
EXTENDS Channels, SequenceLemmas, FiniteSetTheorems

All == delivered \o buf

NumbersAreUsedOnce ==
    \A s \in Senders, k \in 1..MaxItems : <<s, k>> \in sent \cup refused => k < next[s]

LogInv ==
    /\ ExactlyOnce
    /\ SenderOrder
    /\ IsFiniteSet(sent)
    /\ NumbersAreUsedOnce

SendersStandOnce ==
    /\ IsFiniteSet(granted)
    /\ IsInjective(waiting)
    /\ ToSet(waiting) \cap granted = {}
    /\ \A s \in granted \cup ToSet(waiting) : next[s] <= MaxItems

PlacesInv == PlacesConserved /\ SendersStandOnce

ChannelInv == TypeOK /\ LogInv /\ PlacesInv
-----------------------------------------------------------------------------
LEMMA InitChannelInv == Init => ChannelInv
<1> SUFFICES ASSUME Init PROVE ChannelInv
    OBVIOUS
<1>1. TypeOK
    BY ConstantsAssumption DEF Init, TypeOK
<1>2. Cardinality({}) = 0 /\ IsFiniteSet({})
    BY FS_EmptySet
<1>3. All = <<>> /\ Len(All) = 0 /\ ToSet(All) = {}
    BY ToSetOfEmpty DEF All, Init
<1>4. LogInv
    BY <1>2, <1>3 DEF Init, LogInv, ExactlyOnce, SenderOrder, NumbersAreUsedOnce, All
<1>5. PlacesInv
    BY <1>2, ToSetOfEmpty, ConstantsAssumption
       DEF Init, PlacesInv, PlacesConserved, SendersStandOnce, IsInjective
<1> QED
    BY <1>1, <1>4, <1>5 DEF ChannelInv
-----------------------------------------------------------------------------
(* THE VALUES                                                              *)

LEMMA AllIsASequence ==
    ASSUME TypeOK
    PROVE  All \in Seq(Item) /\ Len(All) \in Nat
  BY DEF TypeOK, All

LEMMA PushKeepsLog ==
    ASSUME TypeOK, LogInv, NEW s \in Senders, next[s] <= MaxItems, Push(s),
           delivered' = delivered
    PROVE  /\ LogInv'
           /\ buf' \in Seq(Item) /\ Len(buf') = Len(buf) + 1
           /\ sent' \subseteq Item /\ refused' = refused
           /\ next' \in [Senders -> 1..(MaxItems + 1)]
           /\ \A r \in Senders : r # s => next'[r] = next[r]
<1> DEFINE x == <<s, next[s]>>
<1>1. x \in Item /\ next[s] \in 1..MaxItems
    BY ConstantsAssumption DEF TypeOK, Item
<1>2. x \notin sent /\ x \notin refused
    BY <1>1 DEF LogInv, NumbersAreUsedOnce
<1>3. All' = Append(All, x)
    BY <1>1, ConcatOfAppend DEF Push, All, TypeOK
<1>4. ToSet(All) = sent /\ Cardinality(sent) = Len(All) /\ sent \cap refused = {}
    BY DEF LogInv, ExactlyOnce, All
<1>5. ToSet(All') = ToSet(All) \cup {x} /\ Len(All') = Len(All) + 1
    BY <1>1, <1>3, AllIsASequence, ToSetOfAppend
<1>6. sent' = sent \cup {x} /\ refused' = refused /\ buf' = Append(buf, x)
    BY DEF Push
<1>7. IsFiniteSet(sent') /\ Cardinality(sent') = Cardinality(sent) + 1
    BY <1>2, <1>6, FS_AddElement DEF LogInv
<1>8. ExactlyOnce'
    BY <1>2, <1>4, <1>5, <1>6, <1>7 DEF ExactlyOnce, All
<1>9. next' \in [Senders -> 1..(MaxItems + 1)] /\ next'[s] = next[s] + 1
      /\ \A r \in Senders : r # s => next'[r] = next[r]
    BY <1>1, ConstantsAssumption DEF Push, TypeOK
<1>10. NumbersAreUsedOnce'
    BY <1>1, <1>6, <1>9 DEF LogInv, NumbersAreUsedOnce, TypeOK
<1>11. SenderOrder'
  <2>1. SUFFICES ASSUME NEW i \in 1..Len(All'), NEW j \in 1..Len(All'), i < j,
                        All'[i][1] = All'[j][1]
        PROVE  All'[i][2] < All'[j][2]
      BY DEF SenderOrder, All
  <2>2. i \in 1..Len(All) /\ All'[i] = All[i]
      BY <1>3, <1>5, <2>1, AllIsASequence
  <2>3. CASE j <= Len(All)
    <3>1. j \in 1..Len(All) /\ All'[j] = All[j]
        BY <1>3, <1>5, <2>3, AllIsASequence
    <3> QED
        BY <2>1, <2>2, <3>1 DEF LogInv, SenderOrder, All
  <2>4. CASE j = Len(All) + 1
    <3>1. All'[j] = x
        BY <1>1, <1>3, <2>4, AllIsASequence
    <3>2. All[i] \in sent /\ All[i] \in Item
        BY <1>4, <2>2, AllIsASequence DEF ToSet
    <3>3. All[i] = <<s, All[i][2]>> /\ All[i][2] \in 1..MaxItems
        BY <2>1, <2>2, <3>1, <3>2 DEF Item
    <3> QED
        BY <1>1, <2>2, <3>1, <3>2, <3>3 DEF LogInv, NumbersAreUsedOnce
  <2> QED
      BY <1>5, <2>3, <2>4, AllIsASequence
<1>12. sent' \subseteq Item /\ buf' \in Seq(Item) /\ Len(buf') = Len(buf) + 1
    BY <1>1, <1>6 DEF TypeOK
<1> QED
    BY <1>6, <1>7, <1>8, <1>9, <1>10, <1>11, <1>12 DEF LogInv

LEMMA RefuseKeepsLog ==
    ASSUME TypeOK, LogInv, NEW s \in Senders, next[s] <= MaxItems, Refuse(s),
           delivered' = delivered, buf' = buf
    PROVE  /\ LogInv'
           /\ refused' \subseteq Item /\ sent' = sent
           /\ next' \in [Senders -> 1..(MaxItems + 1)]
           /\ \A r \in Senders : r # s => next'[r] = next[r]
<1> DEFINE x == <<s, next[s]>>
<1>1. x \in Item /\ next[s] \in 1..MaxItems
    BY ConstantsAssumption DEF TypeOK, Item
<1>2. x \notin sent
    BY <1>1 DEF LogInv, NumbersAreUsedOnce
<1>3. sent' = sent /\ refused' = refused \cup {x}
    BY DEF Refuse
<1>4. next' \in [Senders -> 1..(MaxItems + 1)] /\ next'[s] = next[s] + 1
      /\ \A r \in Senders : r # s => next'[r] = next[r]
    BY <1>1, ConstantsAssumption DEF Refuse, TypeOK
<1>5. ExactlyOnce'
    BY <1>2, <1>3 DEF LogInv, ExactlyOnce
<1>6. SenderOrder'
    BY DEF LogInv, SenderOrder
<1>7. NumbersAreUsedOnce'
    BY <1>1, <1>3, <1>4 DEF LogInv, NumbersAreUsedOnce, TypeOK
<1> QED
    BY <1>1, <1>3, <1>4, <1>5, <1>6, <1>7 DEF LogInv, TypeOK

LEMMA PopKeepsLog ==
    ASSUME TypeOK, LogInv, Pop, UNCHANGED <<next, sent, refused>>
    PROVE  /\ LogInv'
           /\ buf' \in Seq(Item) /\ Len(buf') = Len(buf) - 1
           /\ delivered' \in Seq(Item)
<1>1. buf' \in Seq(Item) /\ Len(buf') = Len(buf) - 1 /\ delivered' \in Seq(Item)
    BY DEF Pop, TypeOK
<1>2. All' = All
    BY ConcatOfTake DEF Pop, TypeOK, All
<1> QED
    BY <1>1, <1>2 DEF LogInv, ExactlyOnce, SenderOrder, NumbersAreUsedOnce, All
-----------------------------------------------------------------------------
(* THE PLACES                                                              *)

LEMMA ContainsIsToSet ==
    ASSUME NEW S, NEW q \in Seq(S), NEW e
    PROVE  Contains(q, e) <=> e \in ToSet(q)
  BY DEF Contains, ToSet

(* A place that comes back is promised to the sender that has waited       *)
(* longest or is free.                                                     *)
LEMMA ReleaseGivesOnePlace ==
    ASSUME TypeOK, PlacesInv, NEW g \in SUBSET granted, Release(g)
    PROVE  /\ permits' \in Nat /\ waiting' \in Seq(Senders) /\ granted' \subseteq Senders
           /\ IsFiniteSet(granted') /\ IsInjective(waiting')
           /\ ToSet(waiting') \cap granted' = {}
           /\ granted' \cup ToSet(waiting') \subseteq g \cup ToSet(waiting)
           /\ permits' + Cardinality(granted') = permits + Cardinality(g) + 1
           /\ waiting' # <<>> => permits' = 0
<1>1. IsFiniteSet(g) /\ Cardinality(g) \in Nat /\ permits \in Nat /\ g \subseteq Senders
    BY FS_Subset, FS_CardinalityType, ConstantsAssumption DEF PlacesInv, SendersStandOnce, TypeOK
<1>2. CASE waiting = <<>>
  <2>1. waiting' = waiting /\ granted' = g /\ permits' = permits + 1
      BY <1>2 DEF Release
  <2>2. waiting \in Seq(Senders) /\ IsInjective(waiting) /\ ToSet(waiting) \cap g = {}
      BY DEF PlacesInv, SendersStandOnce, TypeOK
  <2> QED
      BY <1>1, <1>2, <2>1, <2>2
<1>3. CASE waiting # <<>>
  <2> DEFINE h == Head(waiting)
  <2>1. /\ h \in Senders /\ waiting' \in Seq(Senders) /\ waiting' = Tail(waiting)
        /\ ToSet(waiting) = ToSet(waiting') \cup {h}
      BY <1>3, ToSetOfTail DEF Release, TypeOK
  <2>2. IsInjective(waiting') /\ h \notin ToSet(waiting')
      BY <1>3, <2>1, IsInjectiveTail DEF PlacesInv, SendersStandOnce, TypeOK
  <2>3. permits' = permits /\ permits = 0 /\ granted' = g \cup {h}
      BY <1>3 DEF Release, PlacesInv, PlacesConserved
  <2>4. h \notin g /\ ToSet(waiting) \cap g = {}
      BY <2>1 DEF PlacesInv, SendersStandOnce
  <2>5. IsFiniteSet(granted') /\ Cardinality(granted') = Cardinality(g) + 1
      BY <1>1, <2>3, <2>4, FS_AddElement
  <2> QED
      BY <1>1, <2>1, <2>2, <2>3, <2>4, <2>5
<1> QED
    BY <1>2, <1>3

LEMMA PopKeepsInv ==
    ASSUME ChannelInv, Pop, UNCHANGED <<next, sent, refused, cancelled>>,
           holder' \in Receivers \cup {None}, locking' \in Seq(Receivers)
    PROVE  ChannelInv'
<1> USE DEF ChannelInv
<1>1. /\ LogInv' /\ buf' \in Seq(Item) /\ Len(buf') = Len(buf) - 1 /\ delivered' \in Seq(Item)
    BY PopKeepsLog
<1>2. Release(granted)
    BY DEF Pop
<1>3. /\ permits' \in Nat /\ waiting' \in Seq(Senders) /\ granted' \subseteq Senders
      /\ IsFiniteSet(granted') /\ IsInjective(waiting')
      /\ ToSet(waiting') \cap granted' = {}
      /\ granted' \cup ToSet(waiting') \subseteq granted \cup ToSet(waiting)
      /\ permits' + Cardinality(granted') = permits + Cardinality(granted) + 1
      /\ waiting' # <<>> => permits' = 0
    BY <1>2, ReleaseGivesOnePlace
<1>4. SendersStandOnce'
    BY <1>3 DEF PlacesInv, SendersStandOnce
<1>5. PlacesConserved'
  <2>1. Cardinality(granted) \in Nat /\ Cardinality(granted') \in Nat /\ permits \in Nat
        /\ Len(buf) \in Nat
      BY <1>3, FS_CardinalityType, ConstantsAssumption DEF PlacesInv, SendersStandOnce, TypeOK
  <2> QED
      BY <1>1, <1>3, <2>1, ConstantsAssumption DEF PlacesInv, PlacesConserved
<1>6. TypeOK'
  <2>1. permits' \in 0..Capacity /\ Len(buf') <= Capacity
    <3>1. (permits \in Nat /\ buf \in Seq(Item) /\ IsFiniteSet(granted) /\ PlacesConserved)'
        BY <1>1, <1>3, <1>5
    <3> QED
        BY <1>1, <1>3, <1>5, FS_CardinalityType, ConstantsAssumption DEF PlacesConserved
  <2> QED
      BY <1>1, <1>3, <2>1 DEF TypeOK
<1> QED
    BY <1>1, <1>4, <1>5, <1>6 DEF PlacesInv

(* A call that ends takes its sender from the queue and the promises.      *)
LEMMA EndedSenderIsGone ==
    ASSUME NEW s \in Senders,
           \A r \in granted \cup ToSet(waiting) : next[r] <= MaxItems,
           granted' \cup ToSet(waiting') \subseteq (granted \cup ToSet(waiting)) \ {s},
           granted' \subseteq Senders, ToSet(waiting') \subseteq Senders,
           \A r \in Senders : r # s => next'[r] = next[r]
    PROVE  \A r \in granted' \cup ToSet(waiting') : next'[r] <= MaxItems
  OBVIOUS

LEMMA IdleSenderIsFree ==
    ASSUME TypeOK, NEW s \in Senders, SenderIdle(s)
    PROVE  next[s] <= MaxItems /\ s \notin granted /\ s \notin ToSet(waiting)
  BY ContainsIsToSet DEF SenderIdle, TypeOK

LEMMA SendNowKeepsInv ==
    ASSUME ChannelInv, NEW s \in Senders, SendNow(s)
    PROVE  ChannelInv'
<1> USE DEF ChannelInv
<1>1. /\ LogInv' /\ buf' \in Seq(Item) /\ Len(buf') = Len(buf) + 1
      /\ sent' \subseteq Item /\ refused' = refused
      /\ next' \in [Senders -> 1..(MaxItems + 1)]
      /\ \A r \in Senders : r # s => next'[r] = next[r]
    BY PushKeepsLog, IdleSenderIsFree DEF SendNow
<1>2. /\ waiting' = waiting /\ granted' = granted /\ permits' = permits - 1 /\ permits > 0
      /\ permits \in 0..Capacity /\ Len(buf) \in Nat
    BY DEF SendNow, TypeOK
<1>3. Cardinality(granted) \in Nat
    BY FS_CardinalityType DEF PlacesInv, SendersStandOnce
<1>4. PlacesConserved'
    BY <1>1, <1>2, <1>3, ConstantsAssumption DEF PlacesInv, PlacesConserved
<1>5. Len(buf') <= Capacity /\ permits' \in 0..Capacity
    BY <1>1, <1>2, <1>3, ConstantsAssumption DEF PlacesInv, PlacesConserved
<1>6. SendersStandOnce'
  <2>1. ToSet(waiting') \subseteq Senders /\ granted' \subseteq Senders
      BY <1>2, ToSetInSet DEF TypeOK
  <2>2. granted' \cup ToSet(waiting') \subseteq (granted \cup ToSet(waiting)) \ {s}
      BY <1>2, IdleSenderIsFree DEF SendNow
  <2>3. \A r \in granted' \cup ToSet(waiting') : next'[r] <= MaxItems
      BY <1>1, <2>1, <2>2, EndedSenderIsGone DEF PlacesInv, SendersStandOnce
  <2> QED
      BY <1>2, <2>3 DEF PlacesInv, SendersStandOnce
<1>7. TypeOK'
    BY <1>1, <1>2, <1>5 DEF SendNow, receiving, TypeOK
<1> QED
    BY <1>1, <1>4, <1>6, <1>7 DEF PlacesInv

LEMMA SendWaitKeepsInv ==
    ASSUME ChannelInv, NEW s \in Senders, SendWait(s)
    PROVE  ChannelInv'
<1> USE DEF ChannelInv
<1>1. s \notin ToSet(waiting) /\ s \notin granted /\ next[s] <= MaxItems
    BY IdleSenderIsFree DEF SendWait
<1>2. /\ waiting' \in Seq(Senders) /\ IsInjective(waiting')
      /\ ToSet(waiting') = ToSet(waiting) \cup {s}
    BY <1>1, ToSetOfAppend, IsInjectiveAppend DEF SendWait, TypeOK, PlacesInv, SendersStandOnce
<1>3. PlacesConserved'
    BY DEF SendWait, PlacesInv, PlacesConserved
<1>4. SendersStandOnce'
    BY <1>1, <1>2 DEF SendWait, PlacesInv, SendersStandOnce
<1>5. TypeOK'
    BY <1>2 DEF SendWait, receiving, TypeOK
<1>6. LogInv'
    BY DEF SendWait, LogInv, ExactlyOnce, SenderOrder, NumbersAreUsedOnce
<1> QED
    BY <1>3, <1>4, <1>5, <1>6 DEF PlacesInv

LEMMA SendResumeKeepsInv ==
    ASSUME ChannelInv, NEW s \in Senders, SendResume(s)
    PROVE  ChannelInv'
<1> USE DEF ChannelInv
<1>1. next[s] <= MaxItems /\ s \in granted /\ s \notin ToSet(waiting)
    BY DEF SendResume, PlacesInv, SendersStandOnce
<1>2. /\ LogInv' /\ buf' \in Seq(Item) /\ Len(buf') = Len(buf) + 1
      /\ sent' \subseteq Item /\ refused' = refused
      /\ next' \in [Senders -> 1..(MaxItems + 1)]
      /\ \A r \in Senders : r # s => next'[r] = next[r]
    BY <1>1, PushKeepsLog DEF SendResume
<1>3. /\ waiting' = waiting /\ granted' = granted \ {s} /\ permits' = permits
      /\ permits \in 0..Capacity /\ Len(buf) \in Nat
    BY DEF SendResume, TypeOK
<1>4. /\ IsFiniteSet(granted') /\ Cardinality(granted') = Cardinality(granted) - 1
      /\ Cardinality(granted') \in Nat /\ Cardinality(granted) \in Nat
    BY <1>1, <1>3, FS_RemoveElement, FS_CardinalityType DEF PlacesInv, SendersStandOnce
<1>5. PlacesConserved'
  <2>1. /\ permits + Cardinality(granted) + Len(buf) = Capacity
        /\ waiting # <<>> => permits = 0
      BY DEF PlacesInv, PlacesConserved
  <2>2. permits \in Nat /\ Cardinality(granted) \in Nat /\ Len(buf) \in Nat
      BY <1>3, <1>4, ConstantsAssumption
  <2>3. permits + (Cardinality(granted) - 1) + (Len(buf) + 1) = Capacity
      BY <2>1, <2>2
  <2>4. permits' + Cardinality(granted') + Len(buf') = Capacity
      BY <1>2, <1>3, <1>4, <2>3, Zenon
  <2> QED
      BY <1>3, <2>1, <2>4 DEF PlacesConserved
<1>6. Len(buf') <= Capacity
    BY <1>2, <1>3, <1>4, <1>5, ConstantsAssumption DEF PlacesConserved
<1>7. SendersStandOnce'
  <2>1. ToSet(waiting') \subseteq Senders /\ granted' \subseteq Senders
      BY <1>3, ToSetInSet DEF TypeOK
  <2>2. \A r \in granted' \cup ToSet(waiting') : next'[r] <= MaxItems
      BY <1>1, <1>2, <1>3, <2>1, EndedSenderIsGone DEF PlacesInv, SendersStandOnce
  <2> QED
      BY <1>3, <1>4, <2>2 DEF PlacesInv, SendersStandOnce
<1>8. TypeOK'
    BY <1>2, <1>3, <1>6 DEF SendResume, receiving, TypeOK
<1> QED
    BY <1>2, <1>5, <1>7, <1>8 DEF PlacesInv

(* s has neither a place in the queue nor a promise, and nothing is lost.  *)
GivesUp(s) ==
    /\ permits' \in Nat /\ waiting' \in Seq(Senders) /\ granted' \subseteq Senders
    /\ IsFiniteSet(granted') /\ IsInjective(waiting')
    /\ ToSet(waiting') \cap granted' = {}
    /\ granted' \cup ToSet(waiting') \subseteq (granted \cup ToSet(waiting)) \ {s}
    /\ permits' + Cardinality(granted') = permits + Cardinality(granted)
    /\ waiting' # <<>> => permits' = 0

(* A cancelled send gives up what it has: nothing, a place in the queue or *)
(* a promise, which passes to the next in line.                            *)
LEMMA SendCancelledKeepsInv ==
    ASSUME ChannelInv, NEW s \in Senders, next[s] <= MaxItems, SendCancelled(s)
    PROVE  ChannelInv'
<1> USE DEF ChannelInv
<1>1. /\ LogInv' /\ refused' \subseteq Item /\ sent' = sent
      /\ next' \in [Senders -> 1..(MaxItems + 1)]
      /\ \A r \in Senders : r # s => next'[r] = next[r]
    BY RefuseKeepsLog DEF SendCancelled
<1>2. /\ IsFiniteSet(granted) /\ IsInjective(waiting) /\ ToSet(waiting) \cap granted = {}
      /\ \A r \in granted \cup ToSet(waiting) : next[r] <= MaxItems
      /\ waiting \in Seq(Senders) /\ granted \subseteq Senders /\ permits \in 0..Capacity
      /\ Cardinality(granted) \in Nat /\ Len(buf) \in Nat
    BY FS_CardinalityType DEF PlacesInv, SendersStandOnce, TypeOK
<1>3. GivesUp(s)
  <2>1. CASE SenderIdle(s) /\ UNCHANGED sending
    <3>1. UNCHANGED <<permits, waiting, granted>>
        BY <2>1 DEF sending
    <3>2. s \notin granted /\ s \notin ToSet(waiting)
        BY <2>1, IdleSenderIsFree
    <3> QED
        BY <1>2, <3>1, <3>2 DEF GivesUp, PlacesInv, PlacesConserved
  <2>2. ASSUME NEW i \in DOMAIN waiting, waiting[i] = s, waiting' = RemoveAt(waiting, i),
               UNCHANGED <<permits, granted>>
        PROVE  GivesUp(s)
    <3>1. waiting' \in Seq(Senders) /\ IsInjective(waiting') /\ ToSet(waiting') = ToSet(waiting) \ {s}
        BY <1>2, <2>2, RemoveAtPlace, IsInjectiveRemoveAt
    <3>2. s \in ToSet(waiting) /\ waiting # <<>>
        BY <2>2 DEF ToSet
    <3> QED
        BY <1>2, <2>2, <3>1, <3>2 DEF GivesUp, PlacesInv, PlacesConserved
  <2>3. CASE s \in granted /\ Release(granted \ {s})
    <3> DEFINE g == granted \ {s}
    <3>1. g \in SUBSET granted /\ s \notin g \cup ToSet(waiting)
        BY <1>2, <2>3
    <3>2. Cardinality(g) = Cardinality(granted) - 1
        BY <1>2, <2>3, FS_RemoveElement
    <3>3. /\ permits' \in Nat /\ waiting' \in Seq(Senders) /\ granted' \subseteq Senders
          /\ IsFiniteSet(granted') /\ IsInjective(waiting')
          /\ ToSet(waiting') \cap granted' = {}
          /\ granted' \cup ToSet(waiting') \subseteq g \cup ToSet(waiting)
          /\ permits' + Cardinality(granted') = permits + Cardinality(g) + 1
          /\ waiting' # <<>> => permits' = 0
        BY <2>3, <3>1, ReleaseGivesOnePlace
    <3>4. permits + Cardinality(g) + 1 = permits + Cardinality(granted)
        BY <1>2, <3>2
    <3> HIDE DEF g
    <3> QED
        BY <3>1, <3>3, <3>4 DEF GivesUp, g
  <2> QED
      BY <2>1, <2>2, <2>3 DEF SendCancelled
<1>4. SendersStandOnce'
  <2>1. ToSet(waiting') \subseteq Senders
      BY <1>3, ToSetInSet DEF GivesUp
  <2>2. \A r \in granted' \cup ToSet(waiting') : next'[r] <= MaxItems
      BY <1>1, <1>2, <1>3, <2>1, EndedSenderIsGone DEF GivesUp
  <2> QED
      BY <1>3, <2>2 DEF GivesUp, SendersStandOnce
<1>5. buf' = buf /\ delivered' = delivered /\ cancelled' = cancelled
      /\ holder' = holder /\ locking' = locking
    BY DEF SendCancelled, receiving
<1>6. Cardinality(granted') \in Nat
    BY <1>3, FS_CardinalityType DEF GivesUp
<1>7. PlacesConserved'
    BY <1>2, <1>3, <1>5, <1>6, ConstantsAssumption DEF GivesUp, PlacesInv, PlacesConserved
<1>8. permits' \in 0..Capacity
    BY <1>2, <1>3, <1>5, <1>6, <1>7, ConstantsAssumption DEF GivesUp, PlacesConserved
<1>9. TypeOK'
    BY <1>1, <1>3, <1>5, <1>8 DEF GivesUp, TypeOK
<1> QED
    BY <1>1, <1>4, <1>7, <1>9 DEF PlacesInv

LEMMA TrySendFullKeepsInv ==
    ASSUME ChannelInv, NEW s \in Senders, TrySendFull(s)
    PROVE  ChannelInv'
<1> USE DEF ChannelInv
<1>1. next[s] <= MaxItems /\ s \notin granted /\ s \notin ToSet(waiting)
    BY IdleSenderIsFree DEF TrySendFull
<1>2. /\ LogInv' /\ refused' \subseteq Item /\ sent' = sent
      /\ next' \in [Senders -> 1..(MaxItems + 1)]
      /\ \A r \in Senders : r # s => next'[r] = next[r]
    BY <1>1, RefuseKeepsLog DEF TrySendFull
<1>3. /\ permits' = permits /\ waiting' = waiting /\ granted' = granted /\ buf' = buf
      /\ UNCHANGED <<holder, locking, delivered, cancelled>>
    BY DEF TrySendFull, sending, receiving
<1>4. SendersStandOnce'
  <2>1. ToSet(waiting') \subseteq Senders /\ granted' \subseteq Senders
      BY <1>3, ToSetInSet DEF TypeOK
  <2>2. \A r \in granted' \cup ToSet(waiting') : next'[r] <= MaxItems
      BY <1>1, <1>2, <1>3, <2>1, EndedSenderIsGone DEF PlacesInv, SendersStandOnce
  <2> QED
      BY <1>3, <2>2 DEF PlacesInv, SendersStandOnce
<1>5. TypeOK'
    BY <1>2, <1>3 DEF TypeOK
<1>6. PlacesConserved'
    BY <1>3 DEF PlacesInv, PlacesConserved
<1> QED
    BY <1>2, <1>4, <1>5, <1>6 DEF PlacesInv
-----------------------------------------------------------------------------
LEMMA UnlockPassesOn ==
    ASSUME TypeOK, Unlock
    PROVE  holder' \in Receivers \cup {None} /\ locking' \in Seq(Receivers)
<1>1. CASE locking = <<>>
    BY <1>1 DEF Unlock, TypeOK
<1>2. CASE locking # <<>>
  <2>1. holder' = Head(locking) /\ locking' = Tail(locking)
      BY <1>2 DEF Unlock
  <2>2. locking \in Seq(Receivers)
      BY DEF TypeOK
  <2> QED
      BY <1>2, <2>1, <2>2, ToSetOfTail
<1> QED
    BY <1>1, <1>2

(* What leaves the values and the places alone.                            *)
LEMMA LockingKeepsInv ==
    ASSUME ChannelInv, UNCHANGED <<buf, permits, waiting, granted, next, sent, refused, delivered>>,
           holder' \in Receivers \cup {None}, locking' \in Seq(Receivers),
           cancelled' \subseteq Contexts
    PROVE  ChannelInv'
<1>1. TypeOK'
    BY DEF ChannelInv, TypeOK
<1>2. LogInv'
    BY DEF ChannelInv, LogInv, ExactlyOnce, SenderOrder, NumbersAreUsedOnce
<1>3. PlacesInv'
    BY DEF ChannelInv, PlacesInv, PlacesConserved, SendersStandOnce
<1> QED
    BY <1>1, <1>2, <1>3 DEF ChannelInv

LEMMA NextChannelInv == ChannelInv /\ [Next]_vars => ChannelInv'
<1> SUFFICES ASSUME ChannelInv, [Next]_vars PROVE ChannelInv'
    OBVIOUS
<1>0. TypeOK
    BY DEF ChannelInv
<1>1. ASSUME NEW s \in Senders, SendNow(s) \/ SendWait(s) \/ TrySendFull(s) PROVE ChannelInv'
    BY <1>1, SendNowKeepsInv, SendWaitKeepsInv, TrySendFullKeepsInv
<1>2. ASSUME NEW s \in Senders, SendResume(s) PROVE ChannelInv'
    BY <1>2, SendResumeKeepsInv
<1>3. ASSUME NEW s \in Senders, SendCancelled(s) PROVE ChannelInv'
  <2>1. next[s] <= MaxItems
    <3>1. CASE SenderIdle(s)
        BY <3>1, <1>0, IdleSenderIsFree
    <3>2. CASE s \in granted \/ s \in ToSet(waiting)
        BY <3>2 DEF ChannelInv, PlacesInv, SendersStandOnce
    <3> QED
        BY <1>3, <3>1, <3>2 DEF SendCancelled, ToSet
  <2> QED
      BY <1>3, <2>1, SendCancelledKeepsInv
<1>4. ASSUME NEW r \in Receivers, RecvLock(r) PROVE ChannelInv'
  <2>1. holder' \in Receivers \cup {None} /\ locking' \in Seq(Receivers)
    <3>1. locking \in Seq(Receivers) /\ holder \in Receivers \cup {None}
        BY <1>0 DEF TypeOK
    <3>2. CASE holder = None
        BY <1>4, <3>1, <3>2 DEF RecvLock
    <3>3. CASE holder # None
        BY <1>4, <3>1, <3>3 DEF RecvLock
    <3> QED
        BY <3>2, <3>3
  <2> QED
      BY <1>0, <1>4, <2>1, LockingKeepsInv DEF RecvLock, sending, TypeOK
<1>5. ASSUME NEW r \in Receivers, RecvValue(r) PROVE ChannelInv'
    BY <1>0, <1>5, UnlockPassesOn, PopKeepsInv DEF RecvValue
<1>6. ASSUME NEW r \in Receivers, RecvCancelled(r) PROVE ChannelInv'
    BY <1>0, <1>6, UnlockPassesOn, LockingKeepsInv DEF RecvCancelled, sending, TypeOK
<1>7. ASSUME NEW r \in Receivers, TryRecvValue(r) PROVE ChannelInv'
    BY <1>0, <1>7, PopKeepsInv DEF TryRecvValue, receiving, TypeOK
<1>8. ASSUME NEW c \in Contexts, Cancel(c) PROVE ChannelInv'
    BY <1>0, <1>8, LockingKeepsInv DEF Cancel, sending, receiving, TypeOK
<1>9. CASE UNCHANGED vars
    BY <1>0, <1>9, LockingKeepsInv DEF vars, TypeOK
<1> QED
    BY <1>1, <1>2, <1>3, <1>4, <1>5, <1>6, <1>7, <1>8, <1>9
       DEF Next, Call, RecvGoesOn, TryRecvEmpty

THEOREM ChannelInvHolds == Spec => []ChannelInv
  BY InitChannelInv, NextChannelInv, PTL DEF Spec
-----------------------------------------------------------------------------
(* A bounded channel neither loses, repeats nor invents a value, whoever   *)
(* is cancelled at whatever moment (builtin_send, builtin_recv and their   *)
(* try_ forms).                                                            *)
THEOREM ValuesPassOnce == Spec => []ExactlyOnce
<1>1. ChannelInv => ExactlyOnce
    BY DEF ChannelInv, LogInv
<1> QED
    BY ChannelInvHolds, <1>1, PTL

(* ... keeps the order of each sender ...                                  *)
THEOREM ValuesPassInOrder == Spec => []SenderOrder
<1>1. ChannelInv => SenderOrder
    BY DEF ChannelInv, LogInv
<1> QED
    BY ChannelInvHolds, <1>1, PTL

(* ... and does not lose a place: no sender waits beside a free one.       *)
THEOREM NoPlaceIsLost == Spec => []PlacesConserved
<1>1. ChannelInv => PlacesConserved
    BY DEF ChannelInv, PlacesInv
<1> QED
    BY ChannelInvHolds, <1>1, PTL
-----------------------------------------------------------------------------
(* THE LOCK OF THE RECEIVING END                                           *)

LineInv ==
    /\ holder = None => locking = <<>>
    /\ holder \notin ToSet(locking)
    /\ IsInjective(locking)

LEMMA UnlockKeepsLine ==
    ASSUME TypeOK, LineInv, Unlock
    PROVE  LineInv'
<1>0. locking \in Seq(Receivers)
    BY DEF TypeOK
<1>1. CASE locking = <<>>
    BY <1>1, ToSetOfEmpty DEF Unlock, LineInv
<1>2. CASE locking # <<>>
  <2>1. holder' = Head(locking) /\ locking' = Tail(locking)
      BY <1>2 DEF Unlock
  <2>2. Head(locking) \in Receivers
      BY <1>0, <1>2, ToSetOfTail
  <2>3. IsInjective(Tail(locking)) /\ Head(locking) \notin ToSet(Tail(locking))
      BY <1>0, <1>2, IsInjectiveTail DEF LineInv
  <2>4. holder' # None
      BY <2>1, <2>2, ConstantsAssumption DEF Procs
  <2> QED
      BY <2>1, <2>3, <2>4 DEF LineInv
<1> QED
    BY <1>1, <1>2

LEMMA RecvLockKeepsLine ==
    ASSUME TypeOK, LineInv, NEW r \in Receivers, RecvLock(r)
    PROVE  LineInv'
<1>0. locking \in Seq(Receivers) /\ r # None /\ r # holder /\ r \notin ToSet(locking)
    BY ContainsIsToSet, ConstantsAssumption DEF TypeOK, RecvLock, ReceiverIdle, Procs
<1>1. CASE holder = None
  <2>1. holder' = r /\ locking' = locking
      BY <1>1 DEF RecvLock
  <2> QED
      BY <1>0, <2>1 DEF LineInv
<1>2. CASE holder # None
  <2>1. holder' = holder /\ locking' = Append(locking, r)
      BY <1>2 DEF RecvLock
  <2> QED
      BY <1>0, <1>2, <2>1, ToSetOfAppend, IsInjectiveAppend DEF LineInv
<1> QED
    BY <1>1, <1>2

LEMMA NextLineInv == TypeOK /\ LineInv /\ [Next]_vars => LineInv'
<1> SUFFICES ASSUME TypeOK, LineInv, [Next]_vars PROVE LineInv'
    OBVIOUS
<1>1. ASSUME NEW r \in Receivers, RecvLock(r) PROVE LineInv'
    BY <1>1, RecvLockKeepsLine
<1>2. ASSUME NEW r \in Receivers, RecvValue(r) \/ RecvCancelled(r) PROVE LineInv'
    BY <1>2, UnlockKeepsLine DEF RecvValue, RecvCancelled
<1>3. CASE UNCHANGED receiving
    BY <1>3 DEF receiving, LineInv
<1>4. ASSUME NEW s \in Senders,
             \/ SendNow(s) \/ SendWait(s) \/ TrySendFull(s) \/ SendResume(s) \/ SendCancelled(s)
      PROVE  UNCHANGED receiving
    BY <1>4 DEF SendNow, SendWait, TrySendFull, SendResume, SendCancelled
<1>5. ASSUME NEW r \in Receivers, TryRecvValue(r) \/ TryRecvEmpty(r) PROVE UNCHANGED receiving
    BY <1>5 DEF TryRecvValue, TryRecvEmpty, vars, receiving
<1>6. ASSUME NEW c \in Contexts, Cancel(c) PROVE UNCHANGED receiving
    BY <1>6 DEF Cancel
<1>7. CASE UNCHANGED vars
    BY <1>7 DEF vars, LineInv
<1> QED
    BY <1>1, <1>2, <1>3, <1>4, <1>5, <1>6, <1>7 DEF Next, Call, RecvGoesOn

(* A recv in progress is never left to itself: while one waits for the     *)
(* lock, another one has it, whichever receivers are cancelled or served   *)
(* (receiver.lock().await, held across the recv).  With the lock a recv    *)
(* can always take what is in the buffer; that fairness then makes it do   *)
(* so is WaitingReceiverServed.                                            *)
SomeoneHasTheLock == \A r \in Receivers : ~ReceiverIdle(r) => holder # None

THEOREM LockIsPassedOn == Spec => [](LineInv /\ SomeoneHasTheLock)
<1>1. Init => LineInv
    BY ToSetOfEmpty DEF Init, LineInv, IsInjective
<1>2. ChannelInv => TypeOK
    BY DEF ChannelInv
<1>3. TypeOK /\ LineInv => SomeoneHasTheLock
    BY ContainsIsToSet, ToSetOfEmpty, ConstantsAssumption
       DEF TypeOK, LineInv, SomeoneHasTheLock, ReceiverIdle, Procs
<1> QED
    BY <1>1, <1>2, <1>3, NextLineInv, ChannelInvHolds, PTL DEF Spec
-----------------------------------------------------------------------------
(* THE QUEUE                                                               *)

LEMMA InitIsFifo == Init => Queue!Init
  BY DEF Init, Queue!Init

(* The next value of a sender comes after all it has offered before.       *)
LEMMA NextIsOffered ==
    ASSUME ChannelInv, NEW s \in Senders, next[s] <= MaxItems
    PROVE  /\ <<s, next[s]>> \in Queue!Item
           /\ Queue!Offered(<<s, next[s]>>)
<1>1. next[s] \in 1..MaxItems /\ sent \cup refused \subseteq Item
    BY ConstantsAssumption DEF ChannelInv, TypeOK
<1>2. \A j \in Item : \E r \in Senders, k \in 1..MaxItems : j = <<r, k>> /\ j[1] = r /\ j[2] = k
    BY DEF Item
<1>3. ASSUME NEW j \in sent \cup refused, j[1] = s PROVE j[2] < next[s]
  <2>1. j = <<s, j[2]>> /\ j[2] \in 1..MaxItems
      BY <1>1, <1>2, <1>3
  <2> QED
      BY <1>3, <2>1 DEF ChannelInv, LogInv, NumbersAreUsedOnce
<1> QED
    BY <1>1, <1>3 DEF Queue!Item, Queue!Offered

LEMMA PushIsAccept ==
    ASSUME ChannelInv, ChannelInv', NEW s \in Senders, next[s] <= MaxItems,
           Push(s), delivered' = delivered
    PROVE  Queue!Next
<1> DEFINE x == <<s, next[s]>>
<1>1. x \in Queue!Item /\ Queue!Offered(x)
    BY NextIsOffered
<1>2. x \in Item /\ buf \in Seq(Item) /\ delivered \in Seq(Item)
    BY <1>1 DEF ChannelInv, TypeOK, Queue!Item, Item
<1>3. All' = Append(All, x) /\ buf' = Append(buf, x)
    BY <1>2, ConcatOfAppend DEF Push, All
<1>4. Len(All) - Len(delivered) < Capacity
  <2>1. Len(buf') = Len(buf) + 1 /\ Len(buf') <= Capacity
      BY <1>2, <1>3 DEF ChannelInv, TypeOK
  <2>2. Len(All) = Len(delivered) + Len(buf) /\ Len(buf) \in Nat /\ Len(delivered) \in Nat
      BY <1>2 DEF All
  <2> QED
      BY <2>1, <2>2, ConstantsAssumption
<1>5. Queue!Accept(x)
    BY <1>1, <1>3, <1>4 DEF Queue!Accept, Push, All
<1> QED
    BY <1>1, <1>5 DEF Queue!Next

LEMMA RefuseIsRefuse ==
    ASSUME ChannelInv, NEW s \in Senders, next[s] <= MaxItems,
           Refuse(s), UNCHANGED <<buf, delivered>>
    PROVE  Queue!Next
<1>1. Queue!Refuse(<<s, next[s]>>)
    BY NextIsOffered DEF Queue!Refuse, Refuse
<1> QED
    BY <1>1, NextIsOffered DEF Queue!Next

LEMMA PopIsHandOut ==
    ASSUME ChannelInv, Pop, UNCHANGED <<sent, refused>>
    PROVE  Queue!Next
<1>1. buf \in Seq(Item) /\ delivered \in Seq(Item) /\ buf # <<>>
    BY DEF ChannelInv, TypeOK, Pop
<1>2. All' = All
    BY <1>1, ConcatOfTake DEF Pop, All
<1>3. Len(delivered') = Len(delivered) + 1 /\ Len(delivered) < Len(All)
    BY <1>1 DEF Pop, All
<1>4. Queue!HandOut
    BY <1>2, <1>3 DEF Queue!HandOut, All
<1> QED
    BY <1>4 DEF Queue!Next

(* A call that only waits, locks or finds nothing is not seen.             *)
LEMMA StepIsFifo == ChannelInv /\ ChannelInv' /\ [Next]_vars => [Queue!Next]_(Queue!vars)
<1> SUFFICES ASSUME ChannelInv, ChannelInv', [Next]_vars
    PROVE  Queue!Next \/ UNCHANGED <<buf, delivered, sent, refused>>
    BY DEF Queue!vars
<1>0. TypeOK
    BY DEF ChannelInv
<1>1. ASSUME NEW s \in Senders, SenderIdle(s) \/ s \in granted \/ s \in ToSet(waiting)
      PROVE  next[s] <= MaxItems
    BY <1>0, <1>1, IdleSenderIsFree DEF ChannelInv, PlacesInv, SendersStandOnce
<1>2. ASSUME NEW s \in Senders, SendNow(s) \/ SendResume(s) PROVE Queue!Next
    BY <1>1, <1>2, PushIsAccept DEF SendNow, SendResume
<1>3. ASSUME NEW s \in Senders, SendCancelled(s) \/ TrySendFull(s) PROVE Queue!Next
  <2>1. SenderIdle(s) \/ s \in granted \/ s \in ToSet(waiting)
      BY <1>3 DEF SendCancelled, TrySendFull, ToSet
  <2> QED
      BY <1>1, <1>3, <2>1, RefuseIsRefuse DEF SendCancelled, TrySendFull
<1>4. ASSUME NEW r \in Receivers, RecvValue(r) \/ TryRecvValue(r) PROVE Queue!Next
    BY <1>4, PopIsHandOut DEF RecvValue, TryRecvValue
<1>5. ASSUME NEW s \in Senders, SendWait(s) PROVE UNCHANGED <<buf, delivered, sent, refused>>
    BY <1>5 DEF SendWait
<1>6. ASSUME NEW r \in Receivers, RecvLock(r) \/ RecvCancelled(r) \/ TryRecvEmpty(r)
      PROVE  UNCHANGED <<buf, delivered, sent, refused>>
    BY <1>6 DEF RecvLock, RecvCancelled, TryRecvEmpty, vars
<1>7. ASSUME NEW c \in Contexts, Cancel(c) PROVE UNCHANGED <<buf, delivered, sent, refused>>
    BY <1>7 DEF Cancel
<1>8. CASE UNCHANGED vars
    BY <1>8 DEF vars
<1> QED
    BY <1>2, <1>3, <1>4, <1>5, <1>6, <1>7, <1>8 DEF Next, Call, RecvGoesOn

(* To its users a bounded channel is a queue of its capacity: accepted     *)
(* values come out in the order they went in, none twice and none that was *)
(* refused, whoever waits, is cancelled or tries beside them.              *)
THEOREM ChannelIsFifo == Spec => ImplementsFifo
  BY InitIsFifo, StepIsFifo, ChannelInvHolds, PTL DEF Spec, ImplementsFifo, Queue!Spec
-----------------------------------------------------------------------------
(* THE ONESHOT CHANNEL                                                     *)

(* Receivers in a call of recv: with the lock, or in line for it.          *)
InRecv == ({oHolder} \ {None}) \cup ToSet(oLocking)

LockInv ==
    /\ IsInjective(oLocking)
    /\ oHolder \notin ToSet(oLocking)
    /\ \A r \in InRecv : result[r] \in {None, "empty"}
    /\ rx = "taken" => oHolder # None
    /\ oHolder = None => oLocking = <<>>

CrossInv ==
    /\ tx # "used" => slot = None
    /\ \A s \in Senders : result[s] = "sent" <=> slot = s
    /\ \A r \in O!Delivered : result[r] = slot
    /\ \A r, q \in O!Delivered : r = q
    /\ O!Delivered # {} => rx = "gone"
    /\ O!NoSilentLoss

OneshotInv == O!TypeOK /\ LockInv /\ CrossInv

LEMMA OneshotConstants ==
    /\ Senders \cap OReceivers = {}
    /\ None \notin Senders \cup OReceivers
    /\ None \notin {"already used", "receiver dropped", "cancelled", "sent", "closed", "empty"}
    /\ \A s \in Senders :
           s \notin {"already used", "receiver dropped", "cancelled", "sent", "closed", "empty"}
  BY OneshotAssumption DEF O!ConstantsAssumption, O!Answers, O!Error

LEMMA OneshotInvImplies == OneshotInv => OneValueOnce /\ NoSilentLoss
<1> SUFFICES ASSUME OneshotInv PROVE OneValueOnce /\ NoSilentLoss
    OBVIOUS
<1>1. \A s, t \in Senders : result[s] = "sent" /\ result[t] = "sent" => s = t
    BY DEF OneshotInv, CrossInv
<1>2. \A r \in O!Delivered : result[result[r]] = "sent"
    BY DEF OneshotInv, CrossInv, O!Delivered
<1>3. \A r, q \in O!Delivered : r = q
    BY DEF OneshotInv, CrossInv
<1> QED
    BY <1>1, <1>2, <1>3
       DEF OneValueOnce, O!OneValueOnce, NoSilentLoss, OneshotInv, CrossInv

LEMMA InitOneshotInv == O!Init => OneshotInv
<1> SUFFICES ASSUME O!Init PROVE OneshotInv
    OBVIOUS
<1>1. O!TypeOK
  <2>1. /\ tx = "here" /\ rx = "here" /\ slot = None /\ oHolder = None
        /\ oLocking = <<>> /\ oCancelled = {}
        /\ result = [p \in Senders \cup OReceivers |-> None]
      BY DEF O!Init
  <2>2. result \in [Senders \cup OReceivers -> Senders \cup O!Answers \cup {None}]
      BY <2>1
  <2>3. oLocking \in Seq(OReceivers)
      BY <2>1
  <2> QED
      BY <2>1, <2>2, <2>3 DEF O!TypeOK
<1>2. ToSet(oLocking) = {} /\ IsInjective(oLocking)
    BY ToSetOfEmpty DEF O!Init, IsInjective
<1>3. LockInv
    BY <1>2 DEF O!Init, LockInv, InRecv
<1>4. O!Delivered = {}
    BY OneshotConstants DEF O!Init, O!Delivered
<1>5. CrossInv
    BY <1>4, OneshotConstants DEF O!Init, CrossInv, O!NoSilentLoss
<1> QED
    BY <1>1, <1>3, <1>5 DEF OneshotInv

(* What a call that returns v to p changes.                                *)
LEMMA AnswerOfOne ==
    ASSUME O!TypeOK, NEW p \in Senders \cup OReceivers,
           NEW v \in Senders \cup O!Answers \cup {None}, O!Answer(p, v)
    PROVE  /\ result' \in [Senders \cup OReceivers -> Senders \cup O!Answers \cup {None}]
           /\ result'[p] = v
           /\ \A q \in Senders \cup OReceivers : q # p => result'[q] = result[q]
  BY DEF O!TypeOK, O!Answer

LEMMA OneshotUnlock ==
    ASSUME O!TypeOK, LockInv, oHolder # None, O!Unlock
    PROVE  /\ oHolder' \in OReceivers \cup {None}
           /\ oLocking' \in Seq(OReceivers)
           /\ IsInjective(oLocking')
           /\ oHolder' \notin ToSet(oLocking')
           /\ InRecv' = InRecv \ {oHolder}
           /\ oHolder \in InRecv
           /\ oHolder' = None => oLocking' = <<>>
<1>0. oLocking \in Seq(OReceivers) /\ ToSet(oLocking) \subseteq OReceivers
    BY ToSetInSet DEF O!TypeOK
<1>1. CASE oLocking = <<>>
    BY <1>0, <1>1, ToSetOfEmpty, OneshotConstants DEF O!Unlock, InRecv, LockInv
<1>2. CASE oLocking # <<>>
  <2>1. oHolder' = Head(oLocking) /\ oLocking' = Tail(oLocking)
      BY <1>2 DEF O!Unlock
  <2>2. /\ Head(oLocking) \in OReceivers
        /\ Tail(oLocking) \in Seq(OReceivers)
        /\ ToSet(oLocking) = ToSet(Tail(oLocking)) \cup {Head(oLocking)}
      BY <1>0, <1>2, ToSetOfTail
  <2>3. IsInjective(Tail(oLocking)) /\ Head(oLocking) \notin ToSet(Tail(oLocking))
      BY <1>0, <1>2, IsInjectiveTail DEF LockInv
  <2> QED
      BY <2>1, <2>2, <2>3, OneshotConstants DEF InRecv, LockInv
<1> QED
    BY <1>1, <1>2

(* A receiver that is not answered yet is answered v, which is not a value:*)
(* who has received is as before.                                          *)
LEMMA NoValueReceived ==
    ASSUME O!TypeOK, NEW r \in OReceivers, NEW v \in O!Answers, O!Answer(r, v),
           result[r] \in {None, "empty"}
    PROVE  /\ O!Delivered' = O!Delivered
           /\ \A q \in O!Delivered : result'[q] = result[q]
           /\ \A s \in Senders : result'[s] = result[s]
           /\ \A q \in OReceivers : result[q] = "cancelled" => result'[q] = "cancelled"
<1>1. /\ result'[r] = v
      /\ \A q \in Senders \cup OReceivers : q # r => result'[q] = result[q]
    BY AnswerOfOne
<1>2. v \notin Senders /\ result[r] \notin Senders /\ r \notin Senders /\ result[r] # "cancelled"
    BY OneshotConstants DEF O!Answers, O!Error
<1> QED
    BY <1>1, <1>2 DEF O!Delivered

LEMMA ValueReceived ==
    ASSUME O!TypeOK, CrossInv, NEW r \in OReceivers, O!Answer(r, slot), slot # None,
           rx # "gone", result[r] \in {None, "empty"},
           rx' = "gone", tx' = tx, slot' = slot
    PROVE  CrossInv'
<1>1. slot \in Senders
    BY DEF O!TypeOK
<1>2. /\ result'[r] = slot
      /\ \A q \in Senders \cup OReceivers : q # r => result'[q] = result[q]
    BY <1>1, AnswerOfOne
<1>3. O!Delivered = {}
    BY DEF CrossInv
<1>4. O!Delivered' = {r}
    BY <1>1, <1>2, <1>3 DEF O!Delivered
<1>5. \A s \in Senders : result'[s] = result[s]
    BY <1>2, OneshotConstants
<1> QED
    BY <1>1, <1>2, <1>4, <1>5 DEF CrossInv, O!NoSilentLoss

(* The holder's call returns and the lock is passed on.                    *)
LEMMA HolderReturns ==
    ASSUME O!TypeOK, LockInv, NEW r \in OReceivers, oHolder = r,
           NEW v \in Senders \cup O!Answers, O!Answer(r, v), O!Unlock, rx' = "gone"
    PROVE  /\ LockInv'
           /\ oHolder' \in OReceivers \cup {None} /\ oLocking' \in Seq(OReceivers)
           /\ result[r] \in {None, "empty"}
           /\ result' \in [Senders \cup OReceivers -> Senders \cup O!Answers \cup {None}]
<1>1. /\ oHolder' \in OReceivers \cup {None}
      /\ oLocking' \in Seq(OReceivers)
      /\ IsInjective(oLocking')
      /\ oHolder' \notin ToSet(oLocking')
      /\ InRecv' = InRecv \ {r}
      /\ r \in InRecv
      /\ oHolder' = None => oLocking' = <<>>
    BY OneshotUnlock, OneshotConstants
<1>2. /\ result' \in [Senders \cup OReceivers -> Senders \cup O!Answers \cup {None}]
      /\ \A q \in Senders \cup OReceivers : q # r => result'[q] = result[q]
    BY AnswerOfOne
<1>3. InRecv \subseteq OReceivers
    BY ToSetInSet DEF InRecv, O!TypeOK
<1> QED
    BY <1>1, <1>2, <1>3 DEF LockInv

LEMMA OneshotSend ==
    ASSUME OneshotInv, NEW s \in Senders, O!Send(s)
    PROVE  OneshotInv'
<1> USE DEF OneshotInv
<1>1. UNCHANGED <<rx, oHolder, oLocking, oCancelled>> /\ result[s] = None
    BY DEF O!Send
<1>2. InRecv \subseteq OReceivers
    BY ToSetInSet DEF InRecv, O!TypeOK
<1>3. PICK v \in {"already used", "sent", "receiver dropped"} :
          /\ O!Answer(s, v)
          /\ v = "sent" => tx = "here" /\ rx # "gone" /\ tx' = "used" /\ slot' = s
          /\ v # "sent" => slot' = slot /\ tx' = "used"
    BY DEF O!Send, O!TypeOK
<1>4. v \in O!Answers /\ v \notin Senders /\ v # None
    BY OneshotConstants DEF O!Answers, O!Error
<1>5. /\ result' \in [Senders \cup OReceivers -> Senders \cup O!Answers \cup {None}]
      /\ result'[s] = v
      /\ \A q \in Senders \cup OReceivers : q # s => result'[q] = result[q]
    BY <1>3, <1>4, AnswerOfOne
<1>6. \A r \in OReceivers : result'[r] = result[r]
    BY <1>5, OneshotConstants
<1>7. O!TypeOK'
    BY <1>1, <1>3, <1>5 DEF O!TypeOK
<1>8. LockInv'
    BY <1>1, <1>2, <1>6 DEF LockInv, InRecv
<1>9. O!Delivered' = O!Delivered
    BY <1>6 DEF O!Delivered
<1>10. CrossInv'
  <2>1. CASE v = "sent"
    <3>1. slot = None /\ O!Delivered = {}
      <4>1. slot = None
          BY <1>3, <2>1 DEF CrossInv
      <4> QED
          BY <4>1, OneshotConstants DEF CrossInv, O!Delivered
    <3>2. \A q \in Senders : result'[q] = "sent" <=> slot' = q
        BY <1>3, <1>5, <2>1, <3>1, OneshotConstants DEF CrossInv
    <3> QED
        BY <1>1, <1>3, <1>9, <2>1, <3>1, <3>2 DEF CrossInv, O!NoSilentLoss
  <2>2. CASE v # "sent"
    <3>1. slot # s
        BY <1>1, OneshotConstants DEF CrossInv
    <3>2. \A q \in Senders : result'[q] = "sent" <=> slot' = q
        BY <1>3, <1>5, <2>2, <3>1 DEF CrossInv
    <3> QED
        BY <1>1, <1>3, <1>6, <1>9, <2>2, <3>2 DEF CrossInv, O!NoSilentLoss, O!Delivered
  <2> QED
      BY <2>1, <2>2
<1> QED
    BY <1>7, <1>8, <1>10

LEMMA OneshotDropSender ==
    ASSUME OneshotInv, O!DropSender PROVE OneshotInv'
<1>1. O!TypeOK' /\ LockInv'
    BY DEF OneshotInv, O!DropSender, O!TypeOK, LockInv, InRecv
<1>2. CrossInv'
    BY DEF OneshotInv, O!DropSender, CrossInv, O!NoSilentLoss, O!Delivered
<1> QED
    BY <1>1, <1>2 DEF OneshotInv

LEMMA OneshotRecvLock ==
    ASSUME OneshotInv, NEW r \in OReceivers, O!RecvLock(r) PROVE OneshotInv'
<1> USE DEF OneshotInv
<1>1. UNCHANGED <<tx, rx, slot, result, oCancelled>> /\ result[r] \in {None, "empty"} /\ r # oHolder
    BY DEF O!RecvLock
<1>2. oLocking \in Seq(OReceivers)
    BY DEF O!TypeOK
<1>3. r \notin ToSet(oLocking)
    BY <1>2 DEF O!RecvLock, ToSet
<1>4. CrossInv'
    BY <1>1 DEF CrossInv, O!NoSilentLoss, O!Delivered
<1>5. CASE oHolder = None
  <2>1. oHolder' = r /\ oLocking' = oLocking
      BY <1>5 DEF O!RecvLock
  <2>2. O!TypeOK'
      BY <1>1, <2>1 DEF O!TypeOK
  <2>3. LockInv'
      BY <1>1, <1>3, <1>5, <2>1, OneshotConstants DEF LockInv, InRecv
  <2> QED
      BY <1>4, <2>2, <2>3
<1>6. CASE oHolder # None
  <2>1. oHolder' = oHolder /\ oLocking' = Append(oLocking, r)
      BY <1>6 DEF O!RecvLock
  <2>2. O!TypeOK'
      BY <1>1, <1>2, <2>1 DEF O!TypeOK
  <2>3. ToSet(oLocking') = ToSet(oLocking) \cup {r} /\ IsInjective(oLocking')
      BY <1>2, <1>3, <2>1, ToSetOfAppend, IsInjectiveAppend DEF LockInv
  <2>4. LockInv'
      BY <1>1, <1>6, <2>1, <2>3 DEF LockInv, InRecv
  <2> QED
      BY <1>4, <2>2, <2>4
<1> QED
    BY <1>5, <1>6

LEMMA OneshotRecvTake ==
    ASSUME OneshotInv, NEW r \in OReceivers, O!RecvTake(r) PROVE OneshotInv'
<1>1. O!TypeOK'
    BY DEF OneshotInv, O!RecvTake, O!TypeOK
<1>2. LockInv'
    BY OneshotConstants DEF OneshotInv, O!RecvTake, LockInv, InRecv
<1>3. CrossInv'
    BY DEF OneshotInv, O!RecvTake, CrossInv, O!NoSilentLoss, O!Delivered
<1> QED
    BY <1>1, <1>2, <1>3 DEF OneshotInv

(* The holder is told something that is not a value; if it was waiting,    *)
(* there was none or it has been cancelled.                                *)
LEMMA HolderHearsNoValue ==
    ASSUME OneshotInv, NEW r \in OReceivers, oHolder = r,
           NEW v \in O!Answers, O!Answer(r, v), O!Unlock,
           UNCHANGED <<tx, slot, oCancelled>>, rx' = "gone",
           rx = "gone" \/ slot = None \/ v = "cancelled"
    PROVE  OneshotInv'
<1> USE DEF OneshotInv
<1>1. /\ LockInv'
      /\ oHolder' \in OReceivers \cup {None} /\ oLocking' \in Seq(OReceivers)
      /\ result[r] \in {None, "empty"}
      /\ result' \in [Senders \cup OReceivers -> Senders \cup O!Answers \cup {None}]
    BY HolderReturns
<1>2. O!TypeOK'
    BY <1>1 DEF O!TypeOK
<1>3. /\ O!Delivered' = O!Delivered
      /\ \A q \in O!Delivered : result'[q] = result[q]
      /\ \A s \in Senders : result'[s] = result[s]
      /\ \A q \in OReceivers : result[q] = "cancelled" => result'[q] = "cancelled"
    BY <1>1, NoValueReceived
<1>4. v = "cancelled" => result'[r] = "cancelled"
    BY AnswerOfOne
<1>5. O!NoSilentLoss'
    BY <1>3, <1>4 DEF CrossInv, O!NoSilentLoss
<1>6. CrossInv'
    BY <1>3, <1>5 DEF CrossInv
<1> QED
    BY <1>1, <1>2, <1>6

LEMMA OneshotRecvUsed ==
    ASSUME OneshotInv, NEW r \in OReceivers, O!RecvUsed(r) PROVE OneshotInv'
  BY HolderHearsNoValue DEF O!RecvUsed, O!Answers, O!Error

LEMMA OneshotRecvClosed ==
    ASSUME OneshotInv, NEW r \in OReceivers, O!RecvClosed(r) PROVE OneshotInv'
  BY HolderHearsNoValue DEF O!RecvClosed, O!Waiting, O!Answers, O!Error

LEMMA OneshotRecvCancelled ==
    ASSUME OneshotInv, NEW r \in OReceivers, O!RecvCancelled(r) PROVE OneshotInv'
  BY HolderHearsNoValue DEF O!RecvCancelled, O!Waiting, O!Answers, O!Error

LEMMA OneshotRecvValue ==
    ASSUME OneshotInv, NEW r \in OReceivers, O!RecvValue(r) PROVE OneshotInv'
<1> USE DEF OneshotInv
<1>1. /\ oHolder = r /\ rx = "taken" /\ slot # None /\ O!Answer(r, slot) /\ O!Unlock
      /\ rx' = "gone" /\ tx' = tx /\ slot' = slot /\ oCancelled' = oCancelled
    BY DEF O!RecvValue, O!Waiting
<1>2. slot \in Senders
    BY <1>1 DEF O!TypeOK
<1>3. /\ LockInv'
      /\ oHolder' \in OReceivers \cup {None} /\ oLocking' \in Seq(OReceivers)
      /\ result[r] \in {None, "empty"}
      /\ result' \in [Senders \cup OReceivers -> Senders \cup O!Answers \cup {None}]
    BY <1>1, <1>2, HolderReturns
<1>4. O!TypeOK'
    BY <1>1, <1>3 DEF O!TypeOK
<1>5. CrossInv'
    BY <1>1, <1>3, ValueReceived
<1> QED
    BY <1>3, <1>4, <1>5

LEMMA OneshotTryRecv ==
    ASSUME OneshotInv, NEW r \in OReceivers, O!TryRecv(r) PROVE OneshotInv'
<1> USE DEF OneshotInv
<1>1. /\ UNCHANGED <<tx, slot, oHolder, oLocking, oCancelled>>
      /\ result[r] \in {None, "empty"} /\ r # oHolder
    BY DEF O!TryRecv
<1>2. PICK v \in {slot, "empty", "closed"} :
          /\ O!Answer(r, v)
          /\ v = "empty" => rx' = rx
          /\ v # "empty" => rx' = "gone" /\ oHolder = None
          /\ v = slot => rx = "here" /\ slot # None
          /\ v = "closed" => rx # "here" \/ slot = None
    BY OneshotConstants DEF O!TryRecv, O!TypeOK
<1>3. oLocking \in Seq(OReceivers) /\ r \notin ToSet(oLocking)
    BY DEF O!TypeOK, O!TryRecv, ToSet
<1>4. v \in Senders \cup O!Answers
    BY <1>2 DEF O!TypeOK, O!Answers, O!Error
<1>5. /\ result' \in [Senders \cup OReceivers -> Senders \cup O!Answers \cup {None}]
      /\ result'[r] = v
      /\ \A q \in Senders \cup OReceivers : q # r => result'[q] = result[q]
    BY <1>2, <1>4, AnswerOfOne
<1>6. O!TypeOK'
    BY <1>1, <1>2, <1>5 DEF O!TypeOK
<1>7. LockInv'
  <2>1. InRecv \subseteq OReceivers /\ r \notin InRecv
      BY <1>1, <1>3, ToSetInSet DEF InRecv, O!TypeOK
  <2>2. \A q \in InRecv : result'[q] = result[q]
      BY <1>5, <2>1
  <2>3. rx' = "taken" => rx = "taken"
      BY <1>2
  <2> QED
      BY <1>1, <2>2, <2>3 DEF LockInv, InRecv
<1>8. CrossInv'
  <2>1. CASE v = slot
      BY <1>1, <1>2, <2>1, ValueReceived, OneshotConstants DEF O!TypeOK
  <2>2. CASE v # slot
    <3>1. v \in O!Answers
        BY <1>2, <2>2 DEF O!Answers, O!Error
    <3>2. /\ O!Delivered' = O!Delivered
          /\ \A q \in O!Delivered : result'[q] = result[q]
          /\ \A s \in Senders : result'[s] = result[s]
          /\ \A q \in OReceivers : result[q] = "cancelled" => result'[q] = "cancelled"
        BY <1>1, <1>2, <3>1, NoValueReceived
    <3>3. slot # None /\ rx' = "gone" => rx = "gone"
        BY <1>2, <2>2 DEF LockInv, O!TypeOK
    <3>4. rx = "gone" => rx' = "gone"
        BY <1>2, <2>2
    <3>5. O!NoSilentLoss'
        BY <1>1, <3>2, <3>3 DEF CrossInv, O!NoSilentLoss
    <3> QED
        BY <1>1, <3>2, <3>4, <3>5 DEF CrossInv
  <2> QED
      BY <2>1, <2>2
<1> QED
    BY <1>6, <1>7, <1>8

LEMMA NextOneshotInv == OneshotInv /\ [O!Next]_oVars => OneshotInv'
<1> SUFFICES ASSUME OneshotInv, [O!Next]_oVars PROVE OneshotInv'
    OBVIOUS
<1>1. CASE UNCHANGED oVars
    BY <1>1 DEF oVars, OneshotInv, O!TypeOK, LockInv, InRecv, CrossInv, O!NoSilentLoss, O!Delivered
<1>2. ASSUME NEW s \in Senders, O!Send(s) PROVE OneshotInv'
    BY <1>2, OneshotSend
<1>3. CASE O!DropSender
    BY <1>3, OneshotDropSender
<1>4. ASSUME NEW r \in OReceivers, O!RecvLock(r) \/ O!RecvGoesOn(r) \/ O!TryRecv(r)
      PROVE  OneshotInv'
    BY <1>4, OneshotRecvLock, OneshotRecvTake, OneshotRecvUsed, OneshotRecvValue,
       OneshotRecvClosed, OneshotRecvCancelled, OneshotTryRecv DEF O!RecvGoesOn
<1>5. ASSUME NEW c \in Contexts, O!Cancel(c) PROVE OneshotInv'
    BY <1>5 DEF O!Cancel, OneshotInv, O!TypeOK, LockInv, InRecv, CrossInv, O!NoSilentLoss,
                O!Delivered
<1> QED
    BY <1>1, <1>2, <1>3, <1>4, <1>5 DEF O!Next

(* The inductive invariant of the oneshot channel.                         *)
THEOREM OneshotInvHolds == O!Spec => []OneshotInv
  BY InitOneshotInv, NextOneshotInv, PTL DEF O!Spec, oVars, O!vars

(* One value crosses a oneshot channel, once: at most one send succeeds,   *)
(* at most one receiver gets a value, and it is that one (OneValueOnce).   *)
THEOREM OneshotCrossesOnce == O!Spec => []OneValueOnce
<1>1. OneshotInv => OneValueOnce
    BY OneshotInvImplies
<1> QED
    BY <1>1, OneshotInvHolds, PTL

(* A recv in progress is never left to itself here either, and the         *)
(* receiver it takes out of its cell does not stay out: while it is, the   *)
(* recv that took it has the lock, which waits for it in the select!.      *)
OSomeoneHasTheLock ==
    /\ \A r \in InRecv : oHolder # None
    /\ rx = "taken" => oHolder \in OReceivers

THEOREM OneshotLockIsPassedOn == O!Spec => []OSomeoneHasTheLock
<1>1. OneshotInv => OSomeoneHasTheLock
    BY ToSetOfEmpty, OneshotConstants
       DEF OneshotInv, LockInv, InRecv, OSomeoneHasTheLock, O!TypeOK
<1> QED
    BY <1>1, OneshotInvHolds, PTL

(* The value of a send that succeeded is delivered, or a receiver is told  *)
(* that it was cancelled; it never just disappears (NoSilentLoss).         *)
THEOREM OneshotLosesNothingSilently == O!Spec => []NoSilentLoss
<1>1. OneshotInv => NoSilentLoss
    BY OneshotInvImplies
<1> QED
    BY <1>1, OneshotInvHolds, PTL
-----------------------------------------------------------------------------
(* The hand-over: the lock and the receiver that is out of its cell while  *)
(* a recv waits are not seen.                                              *)

(* Whoever holds the lock has no answer yet.                               *)
LEMMA HolderIsUnanswered ==
    ASSUME OneshotInv, NEW r \in OReceivers, oHolder = r
    PROVE  Hand!Unanswered(r)
BY OneshotConstants DEF OneshotInv, LockInv, InRecv, Hand!Unanswered

LEMMA SendGives ==
    ASSUME OneshotInv, NEW s \in Senders, O!Send(s)
    PROVE  Hand!Give(s) \/ Hand!GiveAgain(s)
<1>1. result[s] = None /\ tx \in {"here", "used"} /\ UNCHANGED <<rx, oCancelled>>
    BY DEF OneshotInv, O!TypeOK, O!Send
<1>2. CASE tx = "used"
  <2>1. Hand!GiveAgain(s)
      BY <1>1, <1>2 DEF O!Send, O!Answer, Hand!GiveAgain, Hand!Tell
  <2> QED
      BY <2>1
<1>3. CASE tx = "here"
  <2>1. tx' = "used"
      BY <1>3 DEF O!Send
  <2>2. CASE rx # "gone"
    <3>1. Hand!Give(s)
        BY <1>1, <1>3, <2>1, <2>2 DEF O!Send, O!Answer, Hand!Give, Hand!Tell
    <3> QED
        BY <3>1
  <2>3. CASE rx = "gone"
    <3>1. Hand!Give(s)
        BY <1>1, <1>3, <2>1, <2>3 DEF O!Send, O!Answer, Hand!Give, Hand!Tell
    <3> QED
        BY <3>1
  <2> QED
      BY <2>2, <2>3
<1> QED
    BY <1>1, <1>2, <1>3

LEMMA RecvAnswers ==
    ASSUME OneshotInv, NEW r \in OReceivers,
           \/ O!RecvUsed(r) \/ O!RecvValue(r) \/ O!RecvClosed(r) \/ O!RecvCancelled(r)
    PROVE  Hand!Take(r) \/ Hand!End(r) \/ Hand!Abandon(r) \/ Hand!TooLate(r)
<1>1. oHolder = r /\ UNCHANGED <<tx, slot, oCancelled>>
    BY DEF O!RecvUsed, O!RecvValue, O!RecvClosed, O!RecvCancelled, O!Waiting
<1>2. Hand!Unanswered(r)
    BY <1>1, HolderIsUnanswered
<1>3. CASE O!RecvUsed(r)
  <2>1. Hand!TooLate(r)
      BY <1>1, <1>2, <1>3 DEF O!RecvUsed, O!Answer, Hand!TooLate, Hand!Tell
  <2> QED
      BY <2>1
<1>4. ASSUME NEW v, O!Answer(r, v), rx = "taken", rx' = "gone"
      PROVE  Hand!Close(r, v)
    BY <1>1, <1>2, <1>4 DEF O!Answer, Hand!Close, Hand!Tell
<1>5. CASE O!RecvValue(r)
  <2>1. O!Answer(r, slot) /\ rx = "taken" /\ rx' = "gone" /\ slot # None
      BY <1>5 DEF O!RecvValue, O!Waiting
  <2>2. Hand!Take(r)
      BY <1>1, <1>2, <2>1 DEF O!Answer, Hand!Take, Hand!Close, Hand!Tell
  <2> QED
      BY <2>2
<1>6. CASE O!RecvClosed(r)
    BY <1>4, <1>6 DEF O!RecvClosed, O!Waiting, Hand!End
<1>7. CASE O!RecvCancelled(r)
    BY <1>4, <1>7 DEF O!RecvCancelled, O!Waiting, Hand!Abandon
<1> QED
    BY <1>3, <1>5, <1>6, <1>7

LEMMA TryRecvAnswers ==
    ASSUME OneshotInv, NEW r \in OReceivers, O!TryRecv(r)
    PROVE  Hand!Take(r) \/ Hand!End(r) \/ Hand!TooLate(r) \/ Hand!TooEarly(r)
<1>1. Hand!Unanswered(r) /\ UNCHANGED <<tx, slot, oCancelled>>
    BY DEF O!TryRecv, Hand!Unanswered
<1>2. CASE oHolder # None \/ (rx = "here" /\ slot = None /\ tx # "dropped")
  <2>1. Hand!TooEarly(r)
      BY <1>1, <1>2 DEF O!TryRecv, O!Answer, Hand!TooEarly, Hand!Tell
  <2> QED
      BY <2>1
<1>3. CASE oHolder = None /\ ~(rx = "here" /\ slot = None /\ tx # "dropped")
  <2>1. rx' = "gone" /\ rx \in {"here", "gone"}
      BY <1>3 DEF O!TryRecv, OneshotInv, O!TypeOK, LockInv
  <2>2. CASE rx = "here" /\ slot # None
    <3>1. Hand!Take(r)
        BY <1>1, <1>3, <2>1, <2>2 DEF O!TryRecv, O!Answer, Hand!Take, Hand!Close, Hand!Tell
    <3> QED
        BY <3>1
  <2>3. CASE rx = "here" /\ slot = None
    <3>1. Hand!End(r)
        BY <1>1, <1>3, <2>1, <2>3 DEF O!TryRecv, O!Answer, Hand!End, Hand!Close, Hand!Tell
    <3> QED
        BY <3>1
  <2>4. CASE rx = "gone"
    <3>1. Hand!TooLate(r)
        BY <1>1, <1>3, <2>1, <2>4 DEF O!TryRecv, O!Answer, Hand!TooLate, Hand!Tell
    <3> QED
        BY <3>1
  <2> QED
      BY <2>1, <2>2, <2>3, <2>4
<1> QED
    BY <1>2, <1>3

LEMMA StepOfHandoff ==
    ASSUME OneshotInv, [O!Next]_oVars
    PROVE  [Hand!Next]_(Hand!vars)
<1>1. ASSUME NEW s \in Senders, O!Send(s) PROVE Hand!Next
    BY <1>1, SendGives DEF Hand!Next
<1>2. ASSUME O!DropSender PROVE Hand!Next
  <2>1. Hand!Drop
      BY <1>2 DEF O!DropSender, Hand!Drop
  <2> QED
      BY <2>1 DEF Hand!Next
<1>3. ASSUME NEW r \in OReceivers, O!RecvLock(r) \/ O!RecvTake(r) PROVE UNCHANGED Hand!vars
    BY <1>3 DEF O!RecvLock, O!RecvTake, Hand!vars
<1>4. ASSUME NEW r \in OReceivers,
             \/ O!RecvUsed(r) \/ O!RecvValue(r) \/ O!RecvClosed(r) \/ O!RecvCancelled(r)
      PROVE  Hand!Next
    BY <1>4, RecvAnswers DEF Hand!Next
<1>5. ASSUME NEW r \in OReceivers, O!TryRecv(r) PROVE Hand!Next
    BY <1>5, TryRecvAnswers DEF Hand!Next
<1>6. ASSUME NEW c \in Contexts, O!Cancel(c) PROVE Hand!Next
  <2>1. Hand!Cancel(c)
      BY <1>6 DEF O!Cancel, Hand!Cancel
  <2> QED
      BY <2>1 DEF Hand!Next
<1>7. CASE UNCHANGED oVars
    BY <1>7 DEF oVars, Hand!vars
<1> QED
    BY <1>1, <1>2, <1>3, <1>4, <1>5, <1>6, <1>7 DEF O!Next, O!RecvGoesOn

(* A oneshot channel is a hand-over, for any senders, receivers and        *)
(* contexts: whoever queues for the receiver, holds it or is cancelled     *)
(* with it, each answer is decided in one step, and the first answer to a  *)
(* receiver other than "empty" closes the channel (builtin_recv,           *)
(* builtin_try_recv_oneshot).                                              *)
THEOREM OneshotIsHandoff == O!Spec => ImplementsHandoff
<1>1. O!Init => Hand!Init
    BY DEF O!Init, Hand!Init
<1>2. OneshotInv /\ [O!Next]_oVars => [Hand!Next]_(Hand!vars)
    BY StepOfHandoff
<1> QED
    BY <1>1, <1>2, OneshotInvHolds, PTL
    DEF O!Spec, oVars, O!vars, Hand!Spec, ImplementsHandoff
-----------------------------------------------------------------------------
(* THE BROADCAST CHANNEL                                                   *)

(* A subscription starts after the last message sent, and a receiver never *)
(* expects one from before it.                                             *)
HeardInv ==
    \A r \in Receivers :
        /\ from[r] <= bSent + 1
        /\ due[r] <= bSent + 1
        /\ r \in B!Listening => due[r] <= from[r]

BroadcastInv == B!TypeOK /\ HeardInv

LEMMA InitBroadcastInv == B!Init => BroadcastInv
<1> SUFFICES ASSUME B!Init PROVE BroadcastInv
    OBVIOUS
<1>1. MaxMsg \in Nat
    BY BroadcastAssumption DEF B!ConstantsAssumption
<1>2. B!Nothing \in B!Heard
    BY <1>1 DEF B!Nothing, B!Heard
<1>3. B!TypeOK
  <2>1. failed \in BOOLEAN
      BY Zenon DEF B!Init
  <2>2. from \in [Receivers -> 0..(MaxMsg + 1)] /\ due \in [Receivers -> 0..(MaxMsg + 1)]
      BY <1>1 DEF B!Init, B!NotListening
  <2>3. bSent \in 0..MaxMsg /\ polling = {} /\ bCancelled = {}
      BY <1>1 DEF B!Init
  <2>4. heard \in [Receivers -> B!Heard]
      BY <1>2, Zenon DEF B!Init
  <2> QED
      BY <2>1, <2>2, <2>3, <2>4, Zenon DEF B!TypeOK
<1>4. HeardInv
    BY DEF B!Init, HeardInv, B!Listening, B!NotListening
<1> QED
    BY <1>3, <1>4 DEF BroadcastInv

(* A call of r returns v, after which r expects message d.                 *)
LEMMA ReturnOfOne ==
    ASSUME BroadcastInv, NEW r \in Receivers, NEW v \in B!Heard, NEW d \in Nat,
           r \in B!Listening, d <= bSent + 1, B!Return(r, v, d)
    PROVE  /\ BroadcastInv'
           /\ heard'[r] = v
           /\ \A q \in Receivers : q # r => from'[q] = from[q]
<1> USE DEF BroadcastInv
<1>0. MaxMsg \in Nat
    BY BroadcastAssumption DEF B!ConstantsAssumption
<1>1. /\ heard' = [heard EXCEPT ![r] = v]
      /\ due' = [due EXCEPT ![r] = d]
      /\ from' = [from EXCEPT ![r] = 0]
      /\ polling' = polling \ {r}
      /\ UNCHANGED <<bSent, failed, bCancelled>>
    BY DEF B!Return, B!NotListening
<1>2. heard' \in [Receivers -> B!Heard] /\ heard'[r] = v
    BY <1>1 DEF B!TypeOK
<1>3. /\ from' \in [Receivers -> 0..(MaxMsg + 1)] /\ from'[r] = 0
      /\ \A q \in Receivers : q # r => from'[q] = from[q]
    BY <1>0, <1>1 DEF B!TypeOK
<1>4. /\ due' \in [Receivers -> 0..(MaxMsg + 1)] /\ due'[r] = d
      /\ \A q \in Receivers : q # r => due'[q] = due[q]
  <2>1. d \in 0..(MaxMsg + 1)
      BY <1>0 DEF B!TypeOK
  <2> QED
      BY <1>1, <2>1 DEF B!TypeOK
<1>5. B!Listening' = B!Listening \ {r}
    BY <1>3 DEF B!Listening, B!NotListening
<1>6. B!TypeOK'
    BY <1>1, <1>2, <1>3, <1>4, <1>5 DEF B!TypeOK
<1>7. HeardInv'
  <2> SUFFICES ASSUME NEW q \in Receivers
      PROVE  /\ from'[q] <= bSent' + 1
             /\ due'[q] <= bSent' + 1
             /\ q \in B!Listening' => due'[q] <= from'[q]
      BY DEF HeardInv
  <2>1. CASE q = r
      BY <1>1, <1>3, <1>4, <1>5, <2>1 DEF B!TypeOK
  <2>2. CASE q # r
      BY <1>1, <1>3, <1>4, <1>5, <2>2 DEF HeardInv
  <2> QED
      BY <2>1, <2>2
<1> QED
    BY <1>2, <1>3, <1>6, <1>7

(* The three ways a recv returns, and what they return.                    *)
Returned(r, v) ==
    \/ /\ v = [kind |-> "message", n |-> from[r]]
       /\ from[r] + Capacity > bSent /\ from[r] <= bSent
    \/ /\ v.kind = "lagged" /\ v.n > 0 /\ from[r] + v.n + Capacity = bSent + 1
    \/ v.kind = "cancelled" /\ BCtx[r] \in bCancelled

LEMMA RecvReturnsWhatIsDue ==
    ASSUME BroadcastInv, NEW r \in Receivers, B!RecvGoesOn(r)
    PROVE  \E v \in B!Heard, d \in Nat :
              /\ r \in B!Listening /\ r \notin polling
              /\ B!Return(r, v, d) /\ d <= bSent + 1
              /\ Returned(r, v)
<1> USE DEF BroadcastInv
<1>1. MaxMsg \in Nat /\ Capacity \in Nat \ {0} /\ bSent \in 0..MaxMsg
    BY BroadcastAssumption DEF B!ConstantsAssumption, B!TypeOK
<1>2. r \in B!Listening /\ r \notin polling
    BY DEF B!RecvGoesOn, B!RecvMessage, B!RecvLagged, B!RecvCancelled, B!Receiving
<1>3. from[r] \in 1..(MaxMsg + 1) /\ due[r] \in 0..(MaxMsg + 1) /\ due[r] <= bSent + 1
    BY <1>1, <1>2 DEF B!TypeOK, B!Listening, B!NotListening, HeardInv
<1>4. CASE B!RecvMessage(r)
  <2> DEFINE v == [kind |-> "message", n |-> from[r]]
             d == from[r] + 1
  <2>1. B!Oldest <= from[r] /\ from[r] <= bSent /\ B!Return(r, v, d)
      BY <1>4 DEF B!RecvMessage, B!Available
  <2>2. from[r] + Capacity > bSent
      BY <1>1, <1>3, <2>1 DEF B!Oldest
  <2>3. v \in B!Heard
      BY <1>1, <1>3, <2>1 DEF B!Heard
  <2>4. d \in Nat /\ d <= bSent + 1
      BY <1>1, <1>3, <2>1
  <2> QED
      BY <1>2, <2>1, <2>2, <2>3, <2>4 DEF Returned
<1>5. CASE B!RecvLagged(r)
  <2> DEFINE v == [kind |-> "lagged", n |-> B!Oldest - from[r]]
             d == B!Oldest
  <2>1. from[r] < B!Oldest /\ B!Return(r, v, d)
      BY <1>5 DEF B!RecvLagged
  <2>2. B!Oldest = bSent - Capacity + 1 /\ bSent > Capacity
      BY <1>1, <1>3, <2>1 DEF B!Oldest
  <2>3. B!Oldest - from[r] \in 0..MaxMsg /\ B!Oldest - from[r] > 0
      BY <1>1, <1>3, <2>1, <2>2
  <2>4. v \in B!Heard /\ v.n > 0 /\ v.kind = "lagged"
      BY <2>3 DEF B!Heard
  <2>5. from[r] + v.n + Capacity = bSent + 1
      BY <1>1, <1>3, <2>2
  <2>6. d \in Nat /\ d <= bSent + 1
      BY <1>1, <2>2
  <2> QED
      BY <1>2, <2>1, <2>4, <2>5, <2>6 DEF Returned
<1>6. CASE B!RecvCancelled(r)
  <2> DEFINE v == [kind |-> "cancelled", n |-> 0]
  <2>1. BCtx[r] \in bCancelled /\ B!Return(r, v, due[r])
      BY <1>6 DEF B!RecvCancelled
  <2>2. v \in B!Heard
      BY <1>1 DEF B!Heard
  <2> QED
      BY <1>2, <1>3, <2>1, <2>2 DEF Returned
<1> QED
    BY <1>4, <1>5, <1>6 DEF B!RecvGoesOn

LEMMA BroadcastSend ==
    ASSUME BroadcastInv, B!Send
    PROVE  BroadcastInv' /\ from' = from
<1> USE DEF BroadcastInv
<1>1. MaxMsg \in Nat /\ bSent \in 0..MaxMsg
    BY BroadcastAssumption DEF B!ConstantsAssumption, B!TypeOK
<1>2. /\ bSent' \in 0..MaxMsg /\ bSent <= bSent' /\ failed' \in BOOLEAN
      /\ UNCHANGED <<from, polling, heard, due, bCancelled>>
  <2>1. /\ bSent < MaxMsg
        /\ bSent' = bSent \/ bSent' = bSent + 1
        /\ failed' = TRUE \/ failed' = failed
        /\ UNCHANGED <<from, polling, heard, due, bCancelled>>
      BY Zenon DEF B!Send
  <2>2. failed' \in BOOLEAN
      BY <2>1, Zenon DEF B!TypeOK
  <2>3. bSent' \in 0..MaxMsg /\ bSent <= bSent'
      BY <1>1, <2>1
  <2> QED
      BY <2>1, <2>2, <2>3, Zenon
<1>3. B!Listening' = B!Listening
    BY <1>2 DEF B!Listening
<1>4. B!TypeOK'
    BY <1>2, <1>3 DEF B!TypeOK
<1>5. HeardInv'
    BY <1>1, <1>2, <1>3 DEF HeardInv, B!TypeOK
<1> QED
    BY <1>2, <1>4, <1>5

LEMMA BroadcastSubscribe ==
    ASSUME BroadcastInv, NEW r \in Receivers, NEW poll \in BOOLEAN, B!Subscribe(r, poll)
    PROVE  /\ BroadcastInv'
           /\ from[r] = B!NotListening
           /\ \A q \in Receivers : q # r => from'[q] = from[q]
<1> USE DEF BroadcastInv
<1>1. MaxMsg \in Nat /\ bSent \in 0..MaxMsg
    BY BroadcastAssumption DEF B!ConstantsAssumption, B!TypeOK
<1>2. /\ from[r] = B!NotListening
      /\ from' = [from EXCEPT ![r] = bSent + 1]
      /\ polling' \subseteq polling \cup {r}
      /\ UNCHANGED <<bSent, failed, heard, due, bCancelled>>
    BY DEF B!Subscribe
<1>3. /\ from' \in [Receivers -> 0..(MaxMsg + 1)] /\ from'[r] = bSent + 1
      /\ \A q \in Receivers : q # r => from'[q] = from[q]
    BY <1>1, <1>2 DEF B!TypeOK
<1>4. B!Listening' = B!Listening \cup {r}
    BY <1>1, <1>3 DEF B!Listening, B!NotListening
<1>5. B!TypeOK'
    BY <1>2, <1>3, <1>4 DEF B!TypeOK
<1>6. HeardInv'
    BY <1>1, <1>2, <1>3, <1>4 DEF HeardInv, B!TypeOK
<1> QED
    BY <1>2, <1>3, <1>5, <1>6

LEMMA BroadcastTryRecv ==
    ASSUME BroadcastInv, NEW r \in Receivers, B!TryRecv(r)
    PROVE  /\ BroadcastInv'
           /\ r \in polling
           /\ \A q \in Receivers : q # r => from'[q] = from[q]
<1> USE DEF BroadcastInv
<1>1. MaxMsg \in Nat /\ bSent \in 0..MaxMsg
    BY BroadcastAssumption DEF B!ConstantsAssumption, B!TypeOK
<1>2. r \in polling /\ r \in B!Listening
    BY DEF B!TryRecv, B!TypeOK
<1>3. from[r] \in 1..(MaxMsg + 1) /\ due[r] \in 0..(MaxMsg + 1) /\ due[r] <= bSent + 1
    BY <1>1, <1>2 DEF B!TypeOK, B!Listening, B!NotListening, HeardInv
<1>4. CASE B!Available(r)
  <2>1. B!Return(r, [kind |-> "message", n |-> from[r]], from[r] + 1) /\ from[r] <= bSent
      BY <1>4 DEF B!TryRecv, B!Available
  <2>2. [kind |-> "message", n |-> from[r]] \in B!Heard
      BY <1>1, <1>3, <2>1 DEF B!Heard
  <2>3. from[r] + 1 \in Nat /\ from[r] + 1 <= bSent + 1
      BY <1>1, <1>3, <2>1
  <2> QED
      BY <1>2, <2>1, <2>2, <2>3, ReturnOfOne
<1>5. CASE ~B!Available(r)
  <2>1. B!Return(r, [kind |-> "empty", n |-> 0], due[r])
      BY <1>5 DEF B!TryRecv
  <2>2. [kind |-> "empty", n |-> 0] \in B!Heard
      BY <1>1 DEF B!Heard
  <2>3. due[r] \in Nat
      BY <1>3
  <2> QED
      BY <1>2, <1>3, <2>1, <2>2, <2>3, ReturnOfOne
<1> QED
    BY <1>4, <1>5

(* A step keeps the invariant, and ends no recv but by one of the answers. *)
LEMMA NextBroadcastInv ==
    ASSUME BroadcastInv, [B!Next]_bVars
    PROVE  /\ BroadcastInv'
           /\ \A r \in B!Receiving :
                 from'[r] = B!NotListening => from[r] >= due[r] /\ Returned(r, heard'[r])
<1>0. /\ \A r \in B!Receiving : r \in Receivers /\ from[r] # B!NotListening /\ r \notin polling
      /\ \A r \in B!Receiving : from[r] >= due[r]
    BY DEF B!Receiving, B!Listening, BroadcastInv, HeardInv, B!TypeOK, B!NotListening
<1>1. CASE UNCHANGED bVars
  <2>1. BroadcastInv'
      BY <1>1 DEF bVars, BroadcastInv, B!TypeOK, B!Listening, HeardInv
  <2> QED
      BY <1>0, <1>1, <2>1 DEF bVars
<1>2. CASE B!Send
    BY <1>0, <1>2, BroadcastSend
<1>3. ASSUME NEW r \in Receivers, NEW poll \in BOOLEAN, B!Subscribe(r, poll)
      PROVE  /\ BroadcastInv'
             /\ \A q \in B!Receiving :
                   from'[q] = B!NotListening => from[q] >= due[q] /\ Returned(q, heard'[q])
    BY <1>0, <1>3, BroadcastSubscribe
<1>4. ASSUME NEW r \in Receivers, B!RecvGoesOn(r)
      PROVE  /\ BroadcastInv'
             /\ \A q \in B!Receiving :
                   from'[q] = B!NotListening => from[q] >= due[q] /\ Returned(q, heard'[q])
  <2>1. PICK v \in B!Heard, d \in Nat :
            /\ r \in B!Listening /\ r \notin polling
            /\ B!Return(r, v, d) /\ d <= bSent + 1
            /\ Returned(r, v)
      BY <1>4, RecvReturnsWhatIsDue
  <2>2. /\ BroadcastInv'
        /\ heard'[r] = v
        /\ \A q \in Receivers : q # r => from'[q] = from[q]
      BY <2>1, ReturnOfOne
  <2> QED
      BY <1>0, <2>1, <2>2
<1>5. ASSUME NEW r \in Receivers, B!TryRecv(r)
      PROVE  /\ BroadcastInv'
             /\ \A q \in B!Receiving :
                   from'[q] = B!NotListening => from[q] >= due[q] /\ Returned(q, heard'[q])
    BY <1>0, <1>5, BroadcastTryRecv
<1>6. ASSUME NEW c \in Contexts, B!Cancel(c)
      PROVE  BroadcastInv' /\ from' = from
    BY <1>6 DEF B!Cancel, BroadcastInv, B!TypeOK, B!Listening, HeardInv
<1> QED
    BY <1>0, <1>1, <1>2, <1>3, <1>4, <1>5, <1>6 DEF B!Next

THEOREM BroadcastInvHolds == B!Spec => []BroadcastInv
<1>1. BroadcastInv /\ [B!Next]_bVars => BroadcastInv'
    BY NextBroadcastInv
<1> QED
    BY <1>1, InitBroadcastInv, PTL DEF B!Spec, bVars, B!vars

(* A recv on a broadcast channel ends with the first message since it      *)
(* subscribed, with the exact number of those it has lost, or by its       *)
(* cancellation, and is never told of a message twice                      *)
(* (FirstSinceSubscribed).                                                 *)
THEOREM BroadcastAccountsForAll == B!Spec => FirstSinceSubscribed
<1> DEFINE Ended ==
        \A r \in B!Receiving :
          from'[r] = B!NotListening =>
              /\ from[r] >= due[r]
              /\ \/ heard'[r] = [kind |-> "message", n |-> from[r]] /\ from[r] + Capacity > bSent
                 \/ /\ heard'[r].kind = "lagged" /\ heard'[r].n > 0
                    /\ from[r] + heard'[r].n + Capacity = bSent + 1
                 \/ heard'[r].kind = "cancelled" /\ BCtx[r] \in bCancelled
<1>1. BroadcastInv /\ [B!Next]_bVars => [Ended]_bVars
    BY NextBroadcastInv DEF Returned
<1>2. []BroadcastInv /\ [][B!Next]_bVars => [][Ended]_bVars
    BY <1>1, PTL
<1> QED
    BY <1>2, BroadcastInvHolds, PTL
       DEF FirstSinceSubscribed, B!FirstSinceSubscribed, B!Spec, bVars, B!vars
-----------------------------------------------------------------------------
(* A program that opens one channel drives that one: each of the three     *)
(* specifications holds of it.                                             *)
THEOREM ChannelsStayApart == OpenSpec => Spec /\ O!Spec /\ B!Spec
<1>1. OpenInit => Init /\ O!Init /\ B!Init
    BY DEF OpenInit
<1>2. [OpenNext]_<<opened, vars, oVars, bVars>> => [Next]_vars /\ [O!Next]_oVars /\ [B!Next]_bVars
    BY DEF OpenNext
<1> QED
    BY <1>1, <1>2, PTL DEF OpenSpec, Spec, O!Spec, B!Spec, oVars, O!vars, bVars, B!vars
=============================================================================
