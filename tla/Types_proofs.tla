---------------------------- MODULE Types_proofs -----------------------------
(***************************************************************************)
(* Theorems about the subtype check and the normalization of unions, for   *)
(* finite types of any kind, any values and lists of any length.           *)
(*                                                                         *)
(* The functions of the check are assumed to follow the rules of Subtype,  *)
(* as those do that the configurations give.  Its verdicts are sound       *)
(* because                                                                 *)
(*   - a normal form says of every value whether it is of the type, by     *)
(*     induction on the size of types (RdnfIsExact), so what is left of a  *)
(*     type without another is empty if each conjunction is;               *)
(*   - positive atoms that are taken for disjoint are (DisjointIsSound);   *)
(*   - an atom that is below another is so by the verdicts on the types    *)
(*     they are made of (AtomIsSound), which are taken one deeper;         *)
(*   - at the depth limit nothing is accepted, and from there the verdicts *)
(*     are right at every depth down to 0 (CheckIsSound).                  *)
(* They are complete                                                       *)
(*   - of Boolean combinations, because a conjunction that is not refuted  *)
(*     has a value (ConjunctionIsComplete): of a literal, if it has one    *)
(*     among its positive atoms, or else of a nominal type, or of none;    *)
(*   - of copies, because each conjunction of a type without itself has    *)
(*     one of the atoms of the type with both signs (CopyIsRefuted), and   *)
(*     an atom is below itself if what it is made of is                    *)
(*     (AtomIsBelowItself), by induction on how deep that goes.            *)
(*                                                                         *)
(* In the normalization, meaning follows the values of the members: from   *)
(* loop to loop they are the values of what the loop has not come to and   *)
(* of what it has made.  A member that is struck out leaves its values to  *)
(* the one it is below, which was still there when it happened; that one   *)
(* may be struck out later, and hands them on.  Reduced follows the        *)
(* places: those the loop has passed and not struck out have nothing below *)
(* them any more, for each has struck it out then.                         *)
(***************************************************************************)
EXTENDS UnionNorm, SequenceLemmas, WellFoundedInduction

-----------------------------------------------------------------------------
(* THE SUBTYPE CHECK                                                       *)

(* Normal forms over a set of types, and what they say of a value.         *)
AtomKinds == {"Nominal", "IntLit", "StrLit", "NominalVariant", "Record", "Fn", "App"}
Atoms(T) == {t \in T : t.kind \in AtomKinds}
SignedAtoms(T) == [sign : {"+", "-"}, atom : Atoms(T)]
Conjunctions(T) == Seq(SignedAtoms(T))
Rdnfs(T) == Seq(Conjunctions(T))

Satisfies(v, conj) == \A j \in DOMAIN conj : HasType(v, conj[j].atom) <=> conj[j].sign = "+"
Holds(v, rdnf) == \E i \in DOMAIN rdnf : Satisfies(v, rdnf[i])

(* The functions are what the rules say, with each other as what they      *)
(* call.                                                                   *)
FoldsFollowRules(T) ==
    \A rdnfs \in Seq(Rdnfs(T)) :
        /\ Concat(rdnfs) = ConcatRule(rdnfs)
        /\ rdnfs # <<>> => Product(rdnfs) = ProductRule(rdnfs)

(* No product on the way to this one is cut off.                           *)
Small(rdnfs) ==
    \A n \in 1..(Len(rdnfs) - 1) : Len(Product(SubSeq(rdnfs, 1, n))) * Len(rdnfs[n + 1]) <= MaxRdnf

-----------------------------------------------------------------------------
(* Induction over the numbers, for a set.                                  *)
LEMMA Counting ==
    ASSUME NEW S, \A n \in Nat : (\A m \in Nat : m < n => m \in S) => n \in S
    PROVE  Nat \subseteq S
<1> DEFINE Less == {p \in Nat \X Nat : p[1] < p[2]}
<1>1. IsWellFoundedOn(Less, Nat)
    BY NatLessThanWellFounded DEF OpToRel
<1> HIDE DEF Less
<1> SUFFICES ASSUME Nat \ S # {} PROVE FALSE
    OBVIOUS
<1>2. PICK n \in Nat \ S : \A m \in Nat \ S : <<m, n>> \notin Less
  <2>1. Nat \ S \subseteq Nat
      OBVIOUS
  <2> QED
      BY <1>1, <2>1, WFMin
<1>3. ASSUME NEW m \in Nat, m < n PROVE m \in S
  <2>1. <<m, n>> \in Less
      BY <1>3 DEF Less
  <2> QED
      BY <1>2, <2>1
<1> QED
    BY <1>2, <1>3

(* The beginnings of a list, over which Concat and Product are taken.      *)
LEMMA PrefixFacts ==
    ASSUME NEW X, NEW s \in Seq(X)
    PROVE  /\ SubSeq(s, 1, 0) = <<>> /\ SubSeq(s, 1, Len(s)) = s
           /\ \A n \in 0..Len(s) : SubSeq(s, 1, n) \in Seq(X) /\ Len(SubSeq(s, 1, n)) = n
           /\ \A n \in 1..Len(s) : /\ Front(SubSeq(s, 1, n)) = SubSeq(s, 1, n - 1)
                                   /\ Last(SubSeq(s, 1, n)) = s[n]
<1>1. /\ SubSeq(s, 1, 0) = <<>> /\ SubSeq(s, 1, Len(s)) = s
    OBVIOUS
<1>2. \A n \in 0..Len(s) : SubSeq(s, 1, n) \in Seq(X) /\ Len(SubSeq(s, 1, n)) = n
    OBVIOUS
<1>3. ASSUME NEW n \in 1..Len(s)
      PROVE  Front(SubSeq(s, 1, n)) = SubSeq(s, 1, n - 1) /\ Last(SubSeq(s, 1, n)) = s[n]
    BY <1>2 DEF Front, Last
<1> QED
    BY <1>1, <1>2, <1>3

(* Conjunctions that are joined both have to hold.                         *)
LEMMA SatisfiesConcat ==
    ASSUME NEW T, NEW c \in Conjunctions(T), NEW d \in Conjunctions(T), NEW v
    PROVE  /\ c \o d \in Conjunctions(T)
           /\ Satisfies(v, c \o d) <=> Satisfies(v, c) /\ Satisfies(v, d)
<1>1. /\ c \o d \in Conjunctions(T)
      /\ DOMAIN (c \o d) = 1..(Len(c) + Len(d)) /\ DOMAIN c = 1..Len(c) /\ DOMAIN d = 1..Len(d)
      /\ Len(c) \in Nat /\ Len(d) \in Nat
    BY DEF Conjunctions
<1>2. /\ \A i \in DOMAIN c : (c \o d)[i] = c[i]
      /\ \A i \in DOMAIN d : (c \o d)[Len(c) + i] = d[i]
      /\ \A i \in DOMAIN (c \o d) : i \notin DOMAIN c => (c \o d)[i] = d[i - Len(c)] /\ i - Len(c) \in DOMAIN d
    BY DEF Conjunctions
<1>3. Satisfies(v, c \o d) => Satisfies(v, c) /\ Satisfies(v, d)
  <2>1. \A i \in DOMAIN c : i \in DOMAIN (c \o d)
      BY <1>1
  <2>2. \A i \in DOMAIN d : Len(c) + i \in DOMAIN (c \o d)
      BY <1>1
  <2> QED
      BY <1>2, <2>1, <2>2 DEF Satisfies
<1>4. Satisfies(v, c) /\ Satisfies(v, d) => Satisfies(v, c \o d)
    BY <1>2 DEF Satisfies
<1> QED
    BY <1>1, <1>3, <1>4

(* Of normal forms that are joined one has to hold.                        *)
LEMMA HoldsConcat ==
    ASSUME NEW T, NEW l \in Rdnfs(T), NEW r \in Rdnfs(T), NEW v
    PROVE  l \o r \in Rdnfs(T) /\ (Holds(v, l \o r) <=> Holds(v, l) \/ Holds(v, r))
<1>1. /\ l \o r \in Rdnfs(T)
      /\ DOMAIN (l \o r) = 1..(Len(l) + Len(r)) /\ DOMAIN l = 1..Len(l) /\ DOMAIN r = 1..Len(r)
      /\ Len(l) \in Nat /\ Len(r) \in Nat
    BY DEF Rdnfs
<1>2. /\ \A i \in DOMAIN l : (l \o r)[i] = l[i]
      /\ \A i \in DOMAIN r : (l \o r)[Len(l) + i] = r[i]
      /\ \A i \in DOMAIN (l \o r) : i \notin DOMAIN l => (l \o r)[i] = r[i - Len(l)] /\ i - Len(l) \in DOMAIN r
    BY DEF Rdnfs
<1>3. Holds(v, l) \/ Holds(v, r) => Holds(v, l \o r)
  <2>1. \A i \in DOMAIN l : i \in DOMAIN (l \o r)
      BY <1>1
  <2>2. \A i \in DOMAIN r : Len(l) + i \in DOMAIN (l \o r)
      BY <1>1
  <2> QED
      BY <1>2, <2>1, <2>2 DEF Holds
<1>4. Holds(v, l \o r) => Holds(v, l) \/ Holds(v, r)
    BY <1>2 DEF Holds
<1> QED
    BY <1>1, <1>3, <1>4

(* The same of any number of them: the normal form of a union.             *)
LEMMA HoldsAll ==
    ASSUME NEW T, FoldsFollowRules(T), NEW rdnfs \in Seq(Rdnfs(T))
    PROVE  /\ Concat(rdnfs) \in Rdnfs(T)
           /\ \A v : Holds(v, Concat(rdnfs)) <=> \E i \in DOMAIN rdnfs : Holds(v, rdnfs[i])
<1> DEFINE Prefix(n) == SubSeq(rdnfs, 1, n)
           Right(n) ==
               /\ Concat(Prefix(n)) \in Rdnfs(T)
               /\ \A v : Holds(v, Concat(Prefix(n))) <=> \E i \in 1..n : Holds(v, rdnfs[i])
           S == {n \in Nat : n <= Len(rdnfs) => Right(n)}
<1>1. Len(rdnfs) \in Nat /\ DOMAIN rdnfs = 1..Len(rdnfs) /\ \A i \in DOMAIN rdnfs : rdnfs[i] \in Rdnfs(T)
    OBVIOUS
<1>2. ASSUME NEW n \in Nat, \A m \in Nat : m < n => m \in S PROVE n \in S
  <2> SUFFICES ASSUME n <= Len(rdnfs) PROVE Right(n)
      OBVIOUS
  <2>1. Prefix(n) \in Seq(Rdnfs(T)) /\ Len(Prefix(n)) = n
      BY <1>1, PrefixFacts
  <2>2. Concat(Prefix(n)) = IF Prefix(n) = <<>> THEN <<>> ELSE Concat(Front(Prefix(n))) \o Last(Prefix(n))
      BY <2>1 DEF FoldsFollowRules, ConcatRule
  <2>3. CASE n = 0
    <3>1. Concat(Prefix(n)) = <<>>
        BY <2>1, <2>2, <2>3
    <3>2. <<>> \in Rdnfs(T)
        BY DEF Rdnfs
    <3> QED
        BY <2>3, <3>1, <3>2 DEF Holds
  <2>4. CASE n # 0
    <3>1. n - 1 \in Nat /\ n - 1 < n /\ n \in 1..Len(rdnfs) /\ Right(n - 1)
        BY <1>1, <1>2, <2>4
    <3>2. Prefix(n) # <<>>
        BY <2>1, <2>4
    <3>3. Front(Prefix(n)) = Prefix(n - 1) /\ Last(Prefix(n)) = rdnfs[n]
        BY <3>1, PrefixFacts
    <3>4. Concat(Prefix(n)) = Concat(Prefix(n - 1)) \o rdnfs[n]
        BY <2>2, <3>2, <3>3
    <3>5. rdnfs[n] \in Rdnfs(T)
        BY <1>1, <3>1
    <3> HIDE DEF Prefix
    <3>6. Concat(Prefix(n)) \in Rdnfs(T)
        BY <3>1, <3>4, <3>5, HoldsConcat
    <3>7. \A v : Holds(v, Concat(Prefix(n))) <=> Holds(v, Concat(Prefix(n - 1))) \/ Holds(v, rdnfs[n])
        BY <3>1, <3>4, <3>5, HoldsConcat
    <3>8. \A i : i \in 1..n <=> i \in 1..(n - 1) \/ i = n
        BY <3>1
    <3> QED
        BY <3>1, <3>6, <3>7, <3>8
  <2> QED
      BY <2>3, <2>4
<1> HIDE DEF S
<1>3. Nat \subseteq S
    BY <1>2, Counting
<1> USE DEF S
<1>4. Right(Len(rdnfs))
    BY <1>1, <1>3
<1>5. Prefix(Len(rdnfs)) = rdnfs
    BY PrefixFacts
<1> QED
    BY <1>1, <1>4, <1>5

(* The opposites of a conjunction hold where it does not.                  *)
LEMMA OppositesHold ==
    ASSUME NEW T, NEW rdnf \in Rdnfs(T)
    PROVE  /\ Opposites(rdnf) \in Seq(Rdnfs(T))
           /\ DOMAIN Opposites(rdnf) = DOMAIN rdnf
           /\ \A v : \A i \in DOMAIN rdnf : Holds(v, Opposites(rdnf)[i]) <=> ~Satisfies(v, rdnf[i])
<1> DEFINE one(i, j) == <<Opposite(rdnf[i][j])>>
           opp(i) == [j \in DOMAIN rdnf[i] |-> one(i, j)]
<1>1. /\ DOMAIN rdnf = 1..Len(rdnf) /\ Len(rdnf) \in Nat
      /\ \A i \in DOMAIN rdnf : rdnf[i] \in Conjunctions(T)
    BY DEF Rdnfs
<1>2. ASSUME NEW i \in DOMAIN rdnf
      PROVE  /\ opp(i) \in Rdnfs(T)
             /\ \A v : Holds(v, opp(i)) <=> ~Satisfies(v, rdnf[i])
  <2>1. /\ DOMAIN rdnf[i] = 1..Len(rdnf[i]) /\ Len(rdnf[i]) \in Nat
        /\ \A j \in DOMAIN rdnf[i] : rdnf[i][j] \in SignedAtoms(T)
      BY <1>1 DEF Conjunctions
  <2>2. ASSUME NEW j \in DOMAIN rdnf[i]
        PROVE  /\ one(i, j) \in Conjunctions(T)
               /\ \A v : Satisfies(v, one(i, j)) <=>
                            ~(HasType(v, rdnf[i][j].atom) <=> rdnf[i][j].sign = "+")
    <3> DEFINE a == rdnf[i][j]
    <3>1. a \in SignedAtoms(T)
        BY <2>1, <2>2
    <3>2. /\ Opposite(a) \in SignedAtoms(T) /\ Opposite(a).atom = a.atom
          /\ Opposite(a).sign = "+" <=> ~(a.sign = "+")
        BY <3>1 DEF Opposite, SignedAtoms
    <3>3. one(i, j) \in Conjunctions(T)
        BY <3>2 DEF Conjunctions
    <3>4. DOMAIN one(i, j) = {1} /\ one(i, j)[1] = Opposite(a)
        OBVIOUS
    <3> HIDE DEF one, a
    <3>5. \A v : Satisfies(v, one(i, j)) <=> (HasType(v, a.atom) <=> Opposite(a).sign = "+")
        BY <3>2, <3>4 DEF Satisfies
    <3>6. \A v : Satisfies(v, one(i, j)) <=> ~(HasType(v, a.atom) <=> a.sign = "+")
        BY <3>2, <3>5
    <3> QED
        BY <3>3, <3>6 DEF a
  <2> HIDE DEF one
  <2>3. opp(i) \in Rdnfs(T)
      BY <2>1, <2>2, IsASeq DEF Rdnfs
  <2>4. DOMAIN opp(i) = DOMAIN rdnf[i] /\ \A j \in DOMAIN rdnf[i] : opp(i)[j] = one(i, j)
      OBVIOUS
  <2> HIDE DEF opp
  <2>5. \A v : Holds(v, opp(i)) <=> \E j \in DOMAIN rdnf[i] : Satisfies(v, one(i, j))
      BY <2>4 DEF Holds
  <2>6. \A v : Holds(v, opp(i)) <=> ~Satisfies(v, rdnf[i])
    <3>1. ASSUME NEW v
          PROVE  Holds(v, opp(i)) <=> \E j \in DOMAIN rdnf[i] :
                     ~(HasType(v, rdnf[i][j].atom) <=> rdnf[i][j].sign = "+")
        BY <2>2, <2>5, Zenon
    <3> QED
        BY <3>1, Zenon DEF Satisfies
  <2> QED
      BY <2>3, <2>6
<1>3. Opposites(rdnf) = [i \in DOMAIN rdnf |-> opp(i)]
    BY DEF Opposites
<1> HIDE DEF opp
<1>4. Opposites(rdnf) \in Seq(Rdnfs(T))
    BY <1>1, <1>2, <1>3, IsASeq
<1> QED
    BY <1>2, <1>3, <1>4

(* Below the cap the cross product holds where both sides do.              *)
LEMMA DistributeHolds ==
    ASSUME NEW T, FoldsFollowRules(T), NEW l \in Rdnfs(T), NEW r \in Rdnfs(T),
           Len(l) * Len(r) <= MaxRdnf
    PROVE  /\ Distribute(l, r) \in Rdnfs(T)
           /\ \A v : Holds(v, Distribute(l, r)) <=> Holds(v, l) /\ Holds(v, r)
<1> DEFINE row(i) == [j \in DOMAIN r |-> l[i] \o r[j]]
           rows == [i \in DOMAIN l |-> row(i)]
<1>1. /\ DOMAIN l = 1..Len(l) /\ Len(l) \in Nat /\ \A i \in DOMAIN l : l[i] \in Conjunctions(T)
      /\ DOMAIN r = 1..Len(r) /\ Len(r) \in Nat /\ \A j \in DOMAIN r : r[j] \in Conjunctions(T)
    BY DEF Rdnfs
<1>2. Distribute(l, r) = Concat(rows)
  <2>1. ~(Len(l) * Len(r) > MaxRdnf)
      BY <1>1, ConstantsAssumption
  <2> QED
      BY <2>1 DEF Distribute, TooLarge
<1>3. ASSUME NEW i \in DOMAIN l
      PROVE  /\ row(i) \in Rdnfs(T)
             /\ \A v : Holds(v, row(i)) <=> Satisfies(v, l[i]) /\ Holds(v, r)
  <2>1. \A j \in DOMAIN r : /\ l[i] \o r[j] \in Conjunctions(T)
                            /\ \A v : Satisfies(v, l[i] \o r[j]) <=> Satisfies(v, l[i]) /\ Satisfies(v, r[j])
      BY <1>1, SatisfiesConcat
  <2>2. row(i) \in Rdnfs(T)
      BY <1>1, <2>1, IsASeq DEF Rdnfs
  <2>3. DOMAIN row(i) = DOMAIN r /\ \A j \in DOMAIN r : row(i)[j] = l[i] \o r[j]
      OBVIOUS
  <2> HIDE DEF row
  <2> QED
      BY <2>1, <2>2, <2>3 DEF Holds
<1>4. rows \in Seq(Rdnfs(T)) /\ DOMAIN rows = DOMAIN l /\ \A i \in DOMAIN l : rows[i] = row(i)
  <2> HIDE DEF row
  <2> QED
      BY <1>1, <1>3, IsASeq
<1> HIDE DEF rows, row
<1>5. /\ Concat(rows) \in Rdnfs(T)
      /\ \A v : Holds(v, Concat(rows)) <=> \E i \in DOMAIN rows : Holds(v, rows[i])
    BY <1>4, HoldsAll
<1>6. ASSUME NEW v
      PROVE  (\E i \in DOMAIN rows : Holds(v, rows[i])) <=> Holds(v, l) /\ Holds(v, r)
  <2>1. Holds(v, l) <=> \E i \in DOMAIN l : Satisfies(v, l[i])
      BY DEF Holds
  <2> QED
      BY <1>3, <1>4, <2>1
<1> QED
    BY <1>2, <1>5, <1>6

(* The same of any number of them: the normal form of an intersection.     *)
LEMMA ProductHolds ==
    ASSUME NEW T, FoldsFollowRules(T), NEW rdnfs \in Seq(Rdnfs(T)), rdnfs # <<>>, Small(rdnfs)
    PROVE  /\ Product(rdnfs) \in Rdnfs(T)
           /\ \A v : Holds(v, Product(rdnfs)) <=> \A i \in DOMAIN rdnfs : Holds(v, rdnfs[i])
<1> DEFINE Prefix(n) == SubSeq(rdnfs, 1, n)
           Right(n) ==
               /\ Product(Prefix(n)) \in Rdnfs(T)
               /\ \A v : Holds(v, Product(Prefix(n))) <=> \A i \in 1..n : Holds(v, rdnfs[i])
           S == {n \in Nat : n \in 1..Len(rdnfs) => Right(n)}
<1>1. /\ Len(rdnfs) \in Nat /\ DOMAIN rdnfs = 1..Len(rdnfs) /\ Len(rdnfs) \in 1..Len(rdnfs)
      /\ \A i \in DOMAIN rdnfs : rdnfs[i] \in Rdnfs(T)
    OBVIOUS
<1>2. ASSUME NEW n \in Nat, \A m \in Nat : m < n => m \in S PROVE n \in S
  <2> SUFFICES ASSUME n \in 1..Len(rdnfs) PROVE Right(n)
      OBVIOUS
  <2>1. Prefix(n) \in Seq(Rdnfs(T)) /\ Len(Prefix(n)) = n /\ Prefix(n) # <<>>
    <3>1. Prefix(n) \in Seq(Rdnfs(T)) /\ Len(Prefix(n)) = n
        BY <1>1, PrefixFacts
    <3> QED
        BY <3>1
  <2>2. Product(Prefix(n)) =
            IF Len(Prefix(n)) = 1 THEN Prefix(n)[1]
            ELSE Distribute(Product(Front(Prefix(n))), Last(Prefix(n)))
      BY <2>1 DEF FoldsFollowRules, ProductRule
  <2>3. Last(Prefix(n)) = rdnfs[n] /\ Front(Prefix(n)) = Prefix(n - 1)
      BY PrefixFacts
  <2>4. rdnfs[n] \in Rdnfs(T)
      BY <1>1
  <2>5. CASE n = 1
    <3>1. Prefix(n)[1] = rdnfs[n]
        BY <2>1, <2>3, <2>5 DEF Last
    <3>2. Product(Prefix(n)) = rdnfs[n]
        BY <2>1, <2>2, <2>5, <3>1
    <3> HIDE DEF Prefix
    <3> QED
        BY <2>4, <2>5, <3>2
  <2>6. CASE n # 1
    <3>1. n - 1 \in Nat /\ n - 1 < n /\ n - 1 \in 1..Len(rdnfs) /\ n - 1 \in 1..(Len(rdnfs) - 1)
        BY <1>1, <2>6
    <3>2. Right(n - 1)
        BY <1>2, <3>1
    <3>3. Product(Prefix(n)) = Distribute(Product(Prefix(n - 1)), rdnfs[n])
        BY <2>1, <2>2, <2>3, <2>6
    <3>4. Len(Product(Prefix(n - 1))) * Len(rdnfs[n]) <= MaxRdnf
      <4>1. Len(Product(Prefix(n - 1))) * Len(rdnfs[(n - 1) + 1]) <= MaxRdnf
          BY <3>1, Zenon DEF Small
      <4>2. (n - 1) + 1 = n
          BY <3>1
      <4> QED
          BY <4>1, <4>2, Zenon
    <3> HIDE DEF Prefix
    <3>5. /\ Product(Prefix(n)) \in Rdnfs(T)
          /\ \A v : Holds(v, Product(Prefix(n))) <=> Holds(v, Product(Prefix(n - 1))) /\ Holds(v, rdnfs[n])
      <4>1. Product(Prefix(n - 1)) \in Rdnfs(T)
          BY <3>2
      <4>2. /\ Distribute(Product(Prefix(n - 1)), rdnfs[n]) \in Rdnfs(T)
            /\ \A v : Holds(v, Distribute(Product(Prefix(n - 1)), rdnfs[n])) <=>
                       Holds(v, Product(Prefix(n - 1))) /\ Holds(v, rdnfs[n])
          BY <2>4, <3>4, <4>1, DistributeHolds, Zenon
      <4> QED
          BY <3>3, <4>2, Zenon
    <3>6. \A i : i \in 1..n <=> i \in 1..(n - 1) \/ i = n
        BY <3>1
    <3> QED
        BY <3>2, <3>5, <3>6
  <2> QED
      BY <2>5, <2>6
<1> HIDE DEF S
<1>3. Nat \subseteq S
    BY <1>2, Counting
<1> USE DEF S
<1>4. Right(Len(rdnfs))
    BY <1>1, <1>3
<1>5. Prefix(Len(rdnfs)) = rdnfs
    BY PrefixFacts
<1> QED
    BY <1>1, <1>4, <1>5

(* What a complement is the product of.                                    *)
AllOpposites(rdnf) == <<Inhabited>> \o Opposites(rdnf)

(* No product that the normal form of a type asks for is cut off.          *)
WithinTheCap(t) ==
    /\ t.kind = "Inter" /\ t.members # <<>> => Small([i \in DOMAIN t.members |-> ToRdnf(t.members[i])])
    /\ t.kind = "Neg" /\ (\A i \in DOMAIN ToRdnf(t.of) : ToRdnf(t.of)[i] # <<>>)
           => Small(AllOpposites(ToRdnf(t.of)))

(* A normal form that says of every value whether it is of the type.       *)
Exact(T, t) ==
    /\ ToRdnf(t) \in Rdnfs(T)
    /\ \A v \in Values : Holds(v, ToRdnf(t)) <=> HasType(v, t)

LEMMA InhabitedHolds ==
    ASSUME NEW T
    PROVE  Inhabited \in Rdnfs(T) /\ \A v : Holds(v, Inhabited)
<1>1. Inhabited \in Rdnfs(T)
    BY DEF Inhabited, Rdnfs, Conjunctions
<1>2. 1 \in DOMAIN Inhabited /\ Inhabited[1] = <<>> /\ DOMAIN <<>> = {}
    BY DEF Inhabited
<1>3. \A v : Satisfies(v, Inhabited[1])
    BY <1>2 DEF Satisfies
<1> QED
    BY <1>1, <1>2, <1>3 DEF Holds

(* What the complement is the product of, one after the other.             *)
LEMMA OppositesListed ==
    ASSUME NEW T, NEW rdnf \in Rdnfs(T)
    PROVE  /\ AllOpposites(rdnf) \in Seq(Rdnfs(T)) /\ AllOpposites(rdnf) # <<>>
           /\ 1 \in DOMAIN AllOpposites(rdnf) /\ AllOpposites(rdnf)[1] = Inhabited
           /\ \A i \in DOMAIN Opposites(rdnf) :
                  i + 1 \in DOMAIN AllOpposites(rdnf) /\ AllOpposites(rdnf)[i + 1] = Opposites(rdnf)[i]
           /\ \A i \in DOMAIN AllOpposites(rdnf) : i # 1 =>
                  i - 1 \in DOMAIN Opposites(rdnf) /\ AllOpposites(rdnf)[i] = Opposites(rdnf)[i - 1]
<1> DEFINE opp == Opposites(rdnf)
<1>1. opp \in Seq(Rdnfs(T))
    BY OppositesHold
<1> HIDE DEF opp
<1>2. <<Inhabited>> \in Seq(Rdnfs(T)) /\ Len(<<Inhabited>>) = 1 /\ <<Inhabited>>[1] = Inhabited
    BY InhabitedHolds
<1> DEFINE first == <<Inhabited>>
<1> HIDE DEF first
<1>3. first \in Seq(Rdnfs(T)) /\ Len(first) = 1 /\ first[1] = Inhabited
    BY <1>2 DEF first
<1>4. /\ first \o opp \in Seq(Rdnfs(T)) /\ DOMAIN opp = 1..Len(opp) /\ Len(opp) \in Nat
      /\ DOMAIN (first \o opp) = 1..(1 + Len(opp))
      /\ \A i \in 1..(1 + Len(opp)) : (first \o opp)[i] = IF i <= 1 THEN first[i] ELSE opp[i - 1]
  <2>1. first \o opp \in Seq(Rdnfs(T))
      BY <1>1, <1>3
  <2>2. DOMAIN opp = 1..Len(opp) /\ Len(opp) \in Nat
      BY <1>1
  <2> DEFINE both == first \o opp
  <2>a. /\ Len(both) = Len(first) + Len(opp)
        /\ \A i \in 1..Len(first) + Len(opp) :
               both[i] = IF i <= Len(first) THEN first[i] ELSE opp[i - Len(first)]
      BY <1>1, <1>3, ConcatProperties, Zenon
  <2>b. DOMAIN both = 1..Len(both)
      BY <2>1
  <2> HIDE DEF both
  <2>3. DOMAIN both = 1..(1 + Len(opp))
      BY <1>3, <2>a, <2>b
  <2>4. ASSUME NEW i \in 1..(1 + Len(opp))
        PROVE  both[i] = IF i <= 1 THEN first[i] ELSE opp[i - 1]
      BY <1>3, <2>a
  <2> USE DEF both
  <2> QED
      BY <2>1, <2>2, <2>3, <2>4
<1>5. /\ first \o opp # <<>>
      /\ 1 \in DOMAIN (first \o opp) /\ (first \o opp)[1] = Inhabited
    BY <1>3, <1>4
<1>6. ASSUME NEW i \in DOMAIN opp
      PROVE  i + 1 \in DOMAIN (first \o opp) /\ (first \o opp)[i + 1] = opp[i]
  <2>1. i + 1 \in 1..(1 + Len(opp)) /\ ~(i + 1 <= 1) /\ (i + 1) - 1 = i
      BY <1>4
  <2> QED
      BY <1>4, <2>1
<1>7. ASSUME NEW i \in DOMAIN (first \o opp), i # 1
      PROVE  i - 1 \in DOMAIN opp /\ (first \o opp)[i] = opp[i - 1]
    BY <1>4, <1>7
<1> QED
    BY <1>4, <1>5, <1>6, <1>7 DEF first, opp, AllOpposites

(* The complement, by De Morgan's laws.                                    *)
LEMMA NegateHolds ==
    ASSUME NEW T, FoldsFollowRules(T), NEW rdnf \in Rdnfs(T),
           (\A i \in DOMAIN rdnf : rdnf[i] # <<>>) => Small(AllOpposites(rdnf))
    PROVE  /\ NegateRdnf(rdnf) \in Rdnfs(T)
           /\ \A v : Holds(v, NegateRdnf(rdnf)) <=> ~Holds(v, rdnf)
<1>1. CASE \E i \in DOMAIN rdnf : rdnf[i] = <<>>
  <2>1. NegateRdnf(rdnf) = <<>>
      BY <1>1 DEF NegateRdnf
  <2>2. <<>> \in Rdnfs(T) /\ \A v : ~Holds(v, <<>>)
      BY DEF Rdnfs, Holds
  <2>3. ASSUME NEW v PROVE Holds(v, rdnf)
    <3>1. PICK i \in DOMAIN rdnf : rdnf[i] = <<>>
        BY <1>1
    <3>2. Satisfies(v, rdnf[i])
        BY <3>1 DEF Satisfies
    <3> QED
        BY <3>2 DEF Holds
  <2> QED
      BY <2>1, <2>2, <2>3
<1>2. CASE ~\E i \in DOMAIN rdnf : rdnf[i] = <<>>
  <2> DEFINE all == AllOpposites(rdnf)
  <2>1. NegateRdnf(rdnf) = Product(all)
      BY <1>2 DEF NegateRdnf, AllOpposites
  <2>2. /\ Opposites(rdnf) \in Seq(Rdnfs(T)) /\ DOMAIN Opposites(rdnf) = DOMAIN rdnf
        /\ \A v : \A i \in DOMAIN rdnf : Holds(v, Opposites(rdnf)[i]) <=> ~Satisfies(v, rdnf[i])
      BY OppositesHold
  <2>3. Inhabited \in Rdnfs(T)
      BY InhabitedHolds
  <2>4. /\ all \in Seq(Rdnfs(T)) /\ all # <<>>
        /\ 1 \in DOMAIN all /\ all[1] = Inhabited
        /\ \A i \in DOMAIN Opposites(rdnf) : i + 1 \in DOMAIN all /\ all[i + 1] = Opposites(rdnf)[i]
        /\ \A i \in DOMAIN all : i # 1 => i - 1 \in DOMAIN Opposites(rdnf) /\ all[i] = Opposites(rdnf)[i - 1]
      BY OppositesListed
  <2> HIDE DEF all
  <2>5. Small(all)
      BY <1>2 DEF all
  <2>6. Product(all) \in Rdnfs(T) /\ \A v : Holds(v, Product(all)) <=> \A i \in DOMAIN all : Holds(v, all[i])
      BY <2>4, <2>5, ProductHolds
  <2>7. ASSUME NEW v
        PROVE  (\A i \in DOMAIN all : Holds(v, all[i])) <=> ~Holds(v, rdnf)
    <3>1. (\A i \in DOMAIN all : Holds(v, all[i])) =>
              \A i \in DOMAIN Opposites(rdnf) : Holds(v, Opposites(rdnf)[i])
        BY <2>4
    <3>2. (\A i \in DOMAIN Opposites(rdnf) : Holds(v, Opposites(rdnf)[i])) =>
              \A i \in DOMAIN all : Holds(v, all[i])
        BY <2>4, InhabitedHolds
    <3>3. (\A i \in DOMAIN Opposites(rdnf) : Holds(v, Opposites(rdnf)[i])) <=> ~Holds(v, rdnf)
        BY <2>2 DEF Holds
    <3> QED
        BY <3>1, <3>2, <3>3
  <2> QED
      BY <2>1, <2>6, <2>7
<1> QED
    BY <1>1, <1>2

-----------------------------------------------------------------------------
(* Finite types: their parts are types of T, and unions, intersections and *)
(* complements do not go on for ever.                                      *)
Built(T) ==
    /\ \A t \in T :
           /\ t.kind \in {"Top", "Never", "Union", "Inter", "Neg"} \cup AtomKinds
           /\ t.kind \in {"Union", "Inter"} => t.members \in Seq(T)
           /\ t.kind = "Neg" => t.of \in T
    /\ \E size \in [T -> Nat] : \A t \in T :
           /\ t.kind \in {"Union", "Inter"} => \A i \in DOMAIN t.members : size[t.members[i]] < size[t]
           /\ t.kind = "Neg" => size[t.of] < size[t]

MeaningFollowsRule(T) ==
    \A v \in Values, t \in T : HasType(v, t) <=> MeaningRule(v, t)

(* The types that a normal form is made of: the check asks whether the     *)
(* first type of a pair has anything that the second has not.              *)
Difference(p) == Inter(<<p[1], Neg(p[2])>>)
Normalized(T, C) == T \cup {Neg(p[2]) : p \in C} \cup {Difference(p) : p \in C}

RdnfFollowsRule(T, C) ==
    \A t \in Normalized(T, C) :
        ToRdnf(t) = RdnfRule(t) /\ WithinTheCap(t)

LEMMA MeaningOfBooleans ==
    ASSUME NEW T, Built(T), MeaningFollowsRule(T), NEW t \in T, NEW v \in Values
    PROVE  /\ t.kind = "Top" => HasType(v, t)
           /\ t.kind = "Never" => ~HasType(v, t)
           /\ t.kind = "Union" => (HasType(v, t) <=> \E i \in DOMAIN t.members : HasType(v, t.members[i]))
           /\ t.kind = "Inter" => (HasType(v, t) <=> \A i \in DOMAIN t.members : HasType(v, t.members[i]))
           /\ t.kind = "Neg" => (HasType(v, t) <=> ~HasType(v, t.of))
<1>1. HasType(v, t) <=> MeaningRule(v, t)
    BY Zenon DEF MeaningFollowsRule
<1>2. ASSUME t.kind = "Top" PROVE HasType(v, t)
    BY <1>1, <1>2 DEF MeaningRule, IsLiteral, LiteralOf
<1>3. ASSUME t.kind = "Never" PROVE ~HasType(v, t)
    BY <1>1, <1>3 DEF MeaningRule, IsLiteral, LiteralOf
<1>4. ASSUME t.kind = "Union" PROVE HasType(v, t) <=> \E i \in DOMAIN t.members : HasType(v, t.members[i])
    BY <1>1, <1>4 DEF MeaningRule, IsLiteral, LiteralOf
<1>5. ASSUME t.kind = "Inter" PROVE HasType(v, t) <=> \A i \in DOMAIN t.members : HasType(v, t.members[i])
    BY <1>1, <1>5 DEF MeaningRule, IsLiteral, LiteralOf
<1>6. ASSUME t.kind = "Neg" PROVE HasType(v, t) <=> ~HasType(v, t.of)
    BY <1>1, <1>6 DEF MeaningRule, IsLiteral, LiteralOf
<1> QED
    BY <1>2, <1>3, <1>4, <1>5, <1>6

(* The normal form of a type holds for its values.                         *)
LEMMA RdnfIsExact ==
    ASSUME NEW T, NEW C, Built(T), FoldsFollowRules(T), MeaningFollowsRule(T), RdnfFollowsRule(T, C)
    PROVE  \A t \in T : Exact(T, t)
<1>1. PICK size \in [T -> Nat] : \A t \in T :
         /\ t.kind \in {"Union", "Inter"} => \A i \in DOMAIN t.members : size[t.members[i]] < size[t]
         /\ t.kind = "Neg" => size[t.of] < size[t]
    BY DEF Built
<1> DEFINE S == {n \in Nat : \A t \in T : size[t] = n => Exact(T, t)}
<1>2. ASSUME NEW n \in Nat, \A m \in Nat : m < n => m \in S PROVE n \in S
  <2> SUFFICES ASSUME NEW t \in T, size[t] = n PROVE Exact(T, t)
      OBVIOUS
  <2>1. /\ t.kind \in {"Top", "Never", "Union", "Inter", "Neg"} \cup AtomKinds
        /\ t.kind \in {"Union", "Inter"} => t.members \in Seq(T)
        /\ t.kind = "Neg" => t.of \in T
      BY DEF Built
  <2>2. ToRdnf(t) = RdnfRule(t) /\ WithinTheCap(t)
    <3>1. t \in Normalized(T, C)
        BY DEF Normalized
    <3> QED
        BY <3>1, Zenon DEF RdnfFollowsRule
  <2>3. ASSUME NEW u \in T, size[u] < size[t] PROVE Exact(T, u)
      BY <1>2, <2>3
  <2>4. CASE t.kind = "Top"
    <3>1. ToRdnf(t) = Inhabited
        BY <2>2, <2>4 DEF RdnfRule
    <3> QED
        BY <2>4, <3>1, InhabitedHolds, MeaningOfBooleans DEF Exact
  <2>5. CASE t.kind = "Never"
    <3>1. ToRdnf(t) = <<>>
        BY <2>2, <2>5 DEF RdnfRule
    <3>2. <<>> \in Rdnfs(T) /\ \A v : ~Holds(v, <<>>)
        BY DEF Rdnfs, Holds
    <3> QED
        BY <2>5, <3>1, <3>2, MeaningOfBooleans DEF Exact
  <2> DEFINE parts == [i \in DOMAIN t.members |-> ToRdnf(t.members[i])]
  <2>6. ASSUME t.kind \in {"Union", "Inter"}
        PROVE  /\ parts \in Seq(Rdnfs(T)) /\ DOMAIN parts = DOMAIN t.members
               /\ \A v \in Values : \A i \in DOMAIN parts : Holds(v, parts[i]) <=> HasType(v, t.members[i])
    <3>1. t.members \in Seq(T)
        BY <2>1, <2>6
    <3>2. \A i \in DOMAIN t.members : t.members[i] \in T /\ size[t.members[i]] < size[t]
        BY <1>1, <2>6, <3>1
    <3>3. \A i \in DOMAIN t.members : Exact(T, t.members[i])
        BY <2>3, <3>2
    <3>4. DOMAIN t.members = 1..Len(t.members) /\ Len(t.members) \in Nat
        BY <3>1
    <3>5. parts \in Seq(Rdnfs(T))
        BY <3>3, <3>4, IsASeq DEF Exact
    <3> QED
        BY <3>3, <3>5 DEF Exact
  <2> HIDE DEF parts
  <2>7. CASE t.kind = "Union"
    <3>1. ToRdnf(t) = Concat(parts)
        BY <2>2, <2>7 DEF RdnfRule, parts
    <3>2. /\ Concat(parts) \in Rdnfs(T)
          /\ \A v : Holds(v, Concat(parts)) <=> \E i \in DOMAIN parts : Holds(v, parts[i])
        BY <2>6, <2>7, HoldsAll
    <3>3. ASSUME NEW v \in Values PROVE Holds(v, ToRdnf(t)) <=> HasType(v, t)
        BY <2>6, <2>7, <3>1, <3>2, MeaningOfBooleans
    <3> QED
        BY <3>1, <3>2, <3>3 DEF Exact
  <2>8. CASE t.kind = "Inter" /\ t.members = <<>>
    <3>1. ToRdnf(t) = Inhabited
        BY <2>2, <2>8 DEF RdnfRule
    <3>2. ASSUME NEW v \in Values PROVE HasType(v, t)
        BY <2>8, MeaningOfBooleans
    <3> QED
        BY <3>1, <3>2, InhabitedHolds DEF Exact
  <2>9. CASE t.kind = "Inter" /\ t.members # <<>>
    <3>1. ToRdnf(t) = Product(parts) /\ Small(parts)
        BY <2>2, <2>9 DEF RdnfRule, parts, WithinTheCap
    <3>2. parts # <<>>
      <4>1. t.members \in Seq(T) /\ t.members # <<>>
          BY <2>1, <2>9
      <4>2. Len(t.members) \in Nat /\ Len(t.members) # 0 /\ DOMAIN t.members = 1..Len(t.members)
          BY <4>1, EmptySeq
      <4> QED
          BY <2>6, <2>9, <4>2
    <3>3. /\ Product(parts) \in Rdnfs(T)
          /\ \A v : Holds(v, Product(parts)) <=> \A i \in DOMAIN parts : Holds(v, parts[i])
        BY <2>6, <2>9, <3>1, <3>2, ProductHolds
    <3>4. ASSUME NEW v \in Values PROVE Holds(v, ToRdnf(t)) <=> HasType(v, t)
        BY <2>6, <2>9, <3>1, <3>3, MeaningOfBooleans
    <3> QED
        BY <3>1, <3>3, <3>4 DEF Exact
  <2>10. CASE t.kind = "Neg"
    <3>1. /\ ToRdnf(t) = NegateRdnf(ToRdnf(t.of))
          /\ (\A i \in DOMAIN ToRdnf(t.of) : ToRdnf(t.of)[i] # <<>>)
                 => Small(AllOpposites(ToRdnf(t.of)))
        BY <2>2, <2>10 DEF RdnfRule, WithinTheCap
    <3>2. t.of \in T /\ Exact(T, t.of)
        BY <1>1, <2>1, <2>3, <2>10
    <3>3. ToRdnf(t.of) \in Rdnfs(T)
        BY <3>2 DEF Exact
    <3>4. /\ ToRdnf(t) \in Rdnfs(T)
          /\ \A v : Holds(v, ToRdnf(t)) <=> ~Holds(v, ToRdnf(t.of))
        BY <3>1, <3>3, NegateHolds
    <3>5. ASSUME NEW v \in Values PROVE Holds(v, ToRdnf(t)) <=> HasType(v, t)
        BY <2>10, <3>2, <3>4, MeaningOfBooleans DEF Exact
    <3> QED
        BY <3>4, <3>5 DEF Exact
  <2>11. CASE t.kind \in AtomKinds
    <3>1. ToRdnf(t) = << <<Positive(t)>> >>
        BY <2>2, <2>11 DEF RdnfRule, AtomKinds
    <3>2. Positive(t) \in SignedAtoms(T) /\ Positive(t).atom = t /\ Positive(t).sign = "+"
        BY <2>11 DEF Positive, SignedAtoms, Atoms
    <3> DEFINE one == Positive(t)
               conj == <<one>>
               rdnf == <<conj>>
    <3>3. conj \in Conjunctions(T) /\ DOMAIN conj = {1} /\ conj[1] = one
        BY <3>2 DEF Conjunctions
    <3> HIDE DEF conj
    <3>4. rdnf \in Rdnfs(T) /\ DOMAIN rdnf = {1} /\ rdnf[1] = conj
        BY <3>3 DEF Rdnfs
    <3> HIDE DEF rdnf, one
    <3>5. ASSUME NEW v PROVE Holds(v, rdnf) <=> HasType(v, t)
      <4>1. Satisfies(v, conj) <=> HasType(v, t)
          BY <3>2, <3>3 DEF Satisfies, one
      <4> QED
          BY <3>4, <4>1 DEF Holds
    <3> QED
        BY <3>1, <3>4, <3>5 DEF Exact, rdnf, conj, one
  <2> QED
      BY <2>1, <2>4, <2>5, <2>7, <2>8, <2>9, <2>10, <2>11
<1> HIDE DEF S
<1>3. Nat \subseteq S
    BY <1>2, Counting
<1> USE DEF S
<1> QED
    BY <1>3

(* The check takes the product of one type and the complement of the other.*)
LEMMA DifferenceIsProduct ==
    ASSUME NEW T, NEW C \in SUBSET (T \X T), NEW p \in C,
           Built(T), FoldsFollowRules(T), MeaningFollowsRule(T), RdnfFollowsRule(T, C)
    PROVE  /\ ToRdnf(p[1]) \in Rdnfs(T) /\ ToRdnf(p[2]) \in Rdnfs(T)
           /\ ToRdnf(Neg(p[2])) = NegateRdnf(ToRdnf(p[2])) /\ ToRdnf(Neg(p[2])) \in Rdnfs(T)
           /\ (\A i \in DOMAIN ToRdnf(p[2]) : ToRdnf(p[2])[i] # <<>>) => Small(AllOpposites(ToRdnf(p[2])))
           /\ \E parts \in Seq(Rdnfs(T)) :
                  /\ ToRdnf(Difference(p)) = Product(parts) /\ Small(parts) /\ parts # <<>>
                  /\ DOMAIN parts = {1, 2}
                  /\ parts[1] = ToRdnf(p[1]) /\ parts[2] = ToRdnf(Neg(p[2]))
<1> DEFINE a == p[1]
           b == p[2]
<1>1. a \in T /\ b \in T /\ Exact(T, a) /\ Exact(T, b)
    BY RdnfIsExact
<1>2. Neg(b) \in Normalized(T, C) /\ Difference(p) \in Normalized(T, C)
    BY DEF Normalized
<1>3. /\ ToRdnf(Neg(b)) = RdnfRule(Neg(b)) /\ WithinTheCap(Neg(b))
      /\ ToRdnf(Difference(p)) = RdnfRule(Difference(p))
      /\ WithinTheCap(Difference(p))
    BY <1>2, Zenon DEF RdnfFollowsRule
<1>4. Neg(b).kind = "Neg" /\ Neg(b).of = b
    BY DEF Neg
<1>5. /\ ToRdnf(Neg(b)) = NegateRdnf(ToRdnf(b))
      /\ (\A i \in DOMAIN ToRdnf(b) : ToRdnf(b)[i] # <<>>)
             => Small(AllOpposites(ToRdnf(b)))
  <2> HIDE DEF b
  <2> QED
      BY <1>3, <1>4 DEF RdnfRule, WithinTheCap
<1>6. ToRdnf(a) \in Rdnfs(T) /\ ToRdnf(b) \in Rdnfs(T) /\ ToRdnf(Neg(b)) \in Rdnfs(T)
  <2>1. ToRdnf(a) \in Rdnfs(T) /\ ToRdnf(b) \in Rdnfs(T)
      BY <1>1 DEF Exact
  <2>2. ToRdnf(Neg(b)) \in Rdnfs(T)
      BY <1>5, <2>1, NegateHolds
  <2> QED
      BY <2>1, <2>2
<1> DEFINE n == Neg(b)
           both == <<a, n>>
           parts == [i \in DOMAIN both |-> ToRdnf(both[i])]
<1>7. /\ Difference(p).kind = "Inter" /\ Difference(p).members = both /\ both # <<>>
    BY DEF Difference, Inter
<1>8. ToRdnf(Difference(p)) = Product(parts) /\ Small(parts)
  <2> HIDE DEF both
  <2> QED
      BY <1>3, <1>7 DEF RdnfRule, WithinTheCap
<1>9. /\ parts \in Seq(Rdnfs(T)) /\ parts # <<>> /\ DOMAIN parts = {1, 2}
      /\ parts[1] = ToRdnf(a) /\ parts[2] = ToRdnf(n)
  <2> HIDE DEF a, n
  <2>1. DOMAIN both = {1, 2} /\ both[1] = a /\ both[2] = n
      OBVIOUS
  <2> HIDE DEF both
  <2>2. DOMAIN parts = {1, 2} /\ parts[1] = ToRdnf(a) /\ parts[2] = ToRdnf(n)
      BY <2>1
  <2>3. DOMAIN both = 1..2
      BY <2>1
  <2>4. parts \in Seq(Rdnfs(T))
    <3>1. \A i \in 1..2 : ToRdnf(both[i]) \in Rdnfs(T)
        BY <1>1, <1>6, <2>1 DEF Exact, n
    <3> QED
        BY <2>3, <3>1, IsASeq
  <2> HIDE DEF parts
  <2>5. parts # <<>>
      BY <2>2
  <2> QED
      BY <2>2, <2>4, <2>5
<1> HIDE DEF parts, both, n
<1> QED
    BY <1>5, <1>6, <1>8, <1>9 DEF n

(* So the check looks for the values that one type has and the other has   *)
(* not.                                                                    *)
LEMMA DifferenceIsExact ==
    ASSUME NEW T, NEW C \in SUBSET (T \X T), NEW p \in C,
           Built(T), FoldsFollowRules(T), MeaningFollowsRule(T), RdnfFollowsRule(T, C)
    PROVE  /\ ToRdnf(Difference(p)) \in Rdnfs(T)
           /\ \A v \in Values :
                  Holds(v, ToRdnf(Difference(p))) <=> HasType(v, p[1]) /\ ~HasType(v, p[2])
<1>1. Exact(T, p[1]) /\ Exact(T, p[2])
    BY RdnfIsExact
<1>2. /\ ToRdnf(p[2]) \in Rdnfs(T)
      /\ ToRdnf(Neg(p[2])) = NegateRdnf(ToRdnf(p[2]))
      /\ (\A i \in DOMAIN ToRdnf(p[2]) : ToRdnf(p[2])[i] # <<>>) => Small(AllOpposites(ToRdnf(p[2])))
    BY DifferenceIsProduct
<1>3. \A v : Holds(v, ToRdnf(Neg(p[2]))) <=> ~Holds(v, ToRdnf(p[2]))
    BY <1>2, NegateHolds
<1>4. PICK parts \in Seq(Rdnfs(T)) :
          /\ ToRdnf(Difference(p)) = Product(parts) /\ Small(parts) /\ parts # <<>>
          /\ DOMAIN parts = {1, 2}
          /\ parts[1] = ToRdnf(p[1]) /\ parts[2] = ToRdnf(Neg(p[2]))
    BY DifferenceIsProduct
<1>5. /\ Product(parts) \in Rdnfs(T)
      /\ \A v : Holds(v, Product(parts)) <=> \A i \in DOMAIN parts : Holds(v, parts[i])
    BY <1>4, ProductHolds
<1> QED
    BY <1>1, <1>3, <1>4, <1>5 DEF Exact

-----------------------------------------------------------------------------
(* The atoms are the types of the program, whose names are not those of    *)
(* the built-in forms.                                                     *)
Names == {"record", "fn"}
Variances == {"Covariant", "Contravariant", "Invariant", "Phantom"}

WellFormed(T) ==
    \A t \in T :
        /\ t.kind = "Nominal" => t = Nominal(t.id) /\ t.id \notin Names
        /\ t.kind = "IntLit" => t = IntLit(t.value)
        /\ t.kind = "NominalVariant" => t = Variant(t.tycon, t.ctor) /\ t.tycon \notin Names
        /\ t.kind = "Record" => \A f \in DOMAIN t.fields : t.fields[f] \in T
        /\ t.kind = "Record" /\ t.tail.kind = "Uniform" => t.tail.valueType \in T
        /\ t.kind = "Fn" => t.params \in Seq(T) /\ t.ret \in T
        /\ t.kind = "App" =>
               /\ t.op \in T /\ t.op.kind = "Nominal" /\ t.arg \in T
               /\ t.op.id \in DOMAIN TyCons /\ 1 \in DOMAIN TyCons[t.op.id].variance
               /\ TyCons[t.op.id].variance[1] \in Variances

(* What a value is made of is a value.                                     *)
ValuesAreClosed ==
    \A v \in Values :
        /\ v[1] = "record" => \A f \in DOMAIN v[2] : v[2][f] \in Values
        /\ v[1] = "fn" => \A args \in DOMAIN v[2] :
               args \in Seq(Values) /\ v[2][args] \in Values \cup {Fails}

AtomsFollowRules(T) ==
    /\ \A a, b \in Atoms(T) : Disjoint(a, b) <=> DisjointRule(a, b)
    /\ \A a \in Atoms(T) : Spine(a) = SpineRule(a)
    /\ \A a, b \in Atoms(T) : \A d \in Nat :
           IsAtomSubtype(a, b, {}, d) <=> AtomRule(a, b, {}, d)

(* Two positive atoms that are taken for disjoint and are not: a name and  *)
(* a variant or an application of it.                                      *)
Alias(a, b) ==
    /\ a.kind = "Nominal"
    /\ \/ b.kind = "NominalVariant" /\ b.tycon = a.id
       \/ b.kind = "App" /\ b.op.id = a.id

(* A pair of atoms that the rules for atoms may take for ordered and that  *)
(* is not: a variadic function above one of as many parameters that is     *)
(* not, a uniform record above one that may have other fields, a bare      *)
(* constructor below its application, a variant below a name whose body    *)
(* is not what it stands for.                                              *)
Misjudged(a, b) ==
    \/ /\ a.kind = "Fn" /\ b.kind = "Fn" /\ Len(a.params) = Len(b.params)
       /\ b.variadic /\ ~a.variadic
    \/ /\ a.kind = "Record" /\ b.kind = "Record" /\ b.tail.kind = "Uniform"
       /\ \/ a.tail.kind = "Closed"
          \/ a.tail.kind = "Uniform" /\ ~(DOMAIN a.fields \subseteq DOMAIN b.fields)
    \/ a.kind = "Nominal" /\ b.kind = "App" /\ b.op = a
    \/ /\ a.kind = "NominalVariant" /\ b.kind = "Nominal" /\ b.id \in DOMAIN TyCons
       /\ ~\A v \in Values : HasType(v, TyCons[b.id].body) => v[1] = b.id

(* The pairs of types that the comparison of two atoms asks about.         *)
AsksFor(a, b) ==
    CASE a.kind = "Fn" /\ b.kind = "Fn" ->
             {<<a.ret, b.ret>>}
                 \cup {<<b.params[i], a.params[i]>> : i \in DOMAIN a.params \cap DOMAIN b.params}
      [] a.kind = "Record" /\ b.kind = "Record" ->
             {<<a.fields[f], b.fields[f]>> : f \in DOMAIN a.fields \cap DOMAIN b.fields}
                 \cup (IF a.tail.kind = "Uniform" /\ b.tail.kind = "Uniform"
                       THEN {<<a.tail.valueType, b.tail.valueType>>} ELSE {})
      [] a.kind = "App" /\ b.kind = "App" ->
             IF a.op = b.op THEN {<<a.arg, b.arg>>, <<b.arg, a.arg>>} ELSE {}
      [] a.kind = "NominalVariant" /\ b.kind = "Nominal" ->
             IF b.id \in DOMAIN TyCons THEN {<<a, TyCons[b.id].body>>} ELSE {}
      [] OTHER -> {}

LEMMA MeaningOfAtoms ==
    ASSUME NEW T, MeaningFollowsRule(T), NEW t \in T, NEW v \in Values
    PROVE  /\ t.kind = "Nominal" => (HasType(v, t) <=> v[1] = t.id)
           /\ t.kind = "NominalVariant" => (HasType(v, t) <=> v[1] = t.tycon /\ v[2] = t.ctor)
           /\ t.kind = "IntLit" => (HasType(v, t) <=> v[1] = "int" /\ v[2] = t.value)
           /\ t.kind = "StrLit" => (HasType(v, t) <=> v[1] = "str" /\ v[2] = t.value)
           /\ t.kind = "Record" => (HasType(v, t) <=>
                  /\ v[1] = "record"
                  /\ \A f \in DOMAIN t.fields : f \in DOMAIN v[2] /\ HasType(v[2][f], t.fields[f])
                  /\ t.tail.kind = "Uniform" =>
                         \A f \in DOMAIN v[2] \ DOMAIN t.fields : HasType(v[2][f], t.tail.valueType))
           /\ t.kind = "Fn" => (HasType(v, t) <=>
                  /\ v[1] = "fn"
                  /\ \A args \in DOMAIN v[2] :
                         /\ IF t.variadic THEN Len(args) >= Len(t.params) ELSE Len(args) = Len(t.params)
                         /\ \A i \in DOMAIN t.params : HasType(args[i], t.params[i])
                         => v[2][args] # Fails /\ HasType(v[2][args], t.ret))
           /\ t.kind = "App" => (HasType(v, t) <=>
                  /\ v[1] = t.op.id
                  /\ TyCons[t.op.id].variance[1] \in {"Covariant", "Invariant"} =>
                         v[2] \subseteq {u \in Simple : HasType(u, t.arg)}
                  /\ TyCons[t.op.id].variance[1] \in {"Contravariant", "Invariant"} =>
                         {u \in Simple : HasType(u, t.arg)} \subseteq v[2])
<1>1. HasType(v, t) <=> MeaningRule(v, t)
    BY Zenon DEF MeaningFollowsRule
<1>2. ASSUME t.kind = "Nominal" PROVE HasType(v, t) <=> v[1] = t.id
    BY <1>1, <1>2 DEF MeaningRule, IsLiteral, LiteralOf
<1>3. ASSUME t.kind = "NominalVariant" PROVE HasType(v, t) <=> v[1] = t.tycon /\ v[2] = t.ctor
    BY <1>1, <1>3 DEF MeaningRule, IsLiteral, LiteralOf
<1>4. ASSUME t.kind = "IntLit" PROVE HasType(v, t) <=> v[1] = "int" /\ v[2] = t.value
    BY <1>1, <1>4 DEF MeaningRule, IsLiteral, LiteralOf
<1>5. ASSUME t.kind = "StrLit" PROVE HasType(v, t) <=> v[1] = "str" /\ v[2] = t.value
    BY <1>1, <1>5 DEF MeaningRule, IsLiteral, LiteralOf
<1>6. ASSUME t.kind = "Record"
      PROVE  HasType(v, t) <=>
                  /\ v[1] = "record"
                  /\ \A f \in DOMAIN t.fields : f \in DOMAIN v[2] /\ HasType(v[2][f], t.fields[f])
                  /\ t.tail.kind = "Uniform" =>
                         \A f \in DOMAIN v[2] \ DOMAIN t.fields : HasType(v[2][f], t.tail.valueType)
    BY <1>1, <1>6 DEF MeaningRule, IsLiteral, LiteralOf
<1>7. ASSUME t.kind = "Fn"
      PROVE  HasType(v, t) <=>
                  /\ v[1] = "fn"
                  /\ \A args \in DOMAIN v[2] :
                         /\ IF t.variadic THEN Len(args) >= Len(t.params) ELSE Len(args) = Len(t.params)
                         /\ \A i \in DOMAIN t.params : HasType(args[i], t.params[i])
                         => v[2][args] # Fails /\ HasType(v[2][args], t.ret)
    BY <1>1, <1>7 DEF MeaningRule, IsLiteral, LiteralOf
<1>8. ASSUME t.kind = "App"
      PROVE  HasType(v, t) <=>
                  /\ v[1] = t.op.id
                  /\ TyCons[t.op.id].variance[1] \in {"Covariant", "Invariant"} =>
                         v[2] \subseteq {u \in Simple : HasType(u, t.arg)}
                  /\ TyCons[t.op.id].variance[1] \in {"Contravariant", "Invariant"} =>
                         {u \in Simple : HasType(u, t.arg)} \subseteq v[2]
    BY <1>1, <1>8 DEF MeaningRule, IsLiteral, LiteralOf
<1> QED
    BY <1>2, <1>3, <1>4, <1>5, <1>6, <1>7, <1>8

(* Atoms that are taken for disjoint are, but for names and what they      *)
(* stand for.                                                              *)
LEMMA DisjointIsSound ==
    ASSUME NEW T, WellFormed(T), MeaningFollowsRule(T), AtomsFollowRules(T),
           NEW a \in Atoms(T), NEW b \in Atoms(T), Disjoint(a, b), ~Alias(a, b), ~Alias(b, a),
           NEW v \in Values
    PROVE  ~(HasType(v, a) /\ HasType(v, b))
<1> SUFFICES ASSUME HasType(v, a), HasType(v, b) PROVE FALSE
    OBVIOUS
<1>1. a \in T /\ b \in T /\ a.kind \in AtomKinds /\ b.kind \in AtomKinds
    BY DEF Atoms
<1>2. DisjointRule(a, b)
    BY Zenon DEF AtomsFollowRules
<1>3. \/ a.kind = b.kind /\ a.kind \in {"Nominal", "IntLit", "NominalVariant"} /\ a # b
      \/ IsLiteral(a) /\ b.kind = "Nominal" /\ LiteralOf[a.kind] # b.id
      \/ IsLiteral(b) /\ a.kind = "Nominal" /\ LiteralOf[b.kind] # a.id
      \/ \E k \in {"Record", "Fn", "App", "NominalVariant", "Recursive"} : {a.kind, b.kind} = {"Nominal", k}
      \/ {a.kind, b.kind} = {"Record", "Fn"}
      \/ \E k \in {"Record", "Fn"} : {a.kind, b.kind} = {"NominalVariant", k}
      \/ a.kind = "App" /\ b.kind = "App" /\ Disjoint(a.op, b.op)
      \/ {a.kind, b.kind} = {"Fn", "App"}
    BY <1>2 DEF DisjointRule
<1>6. CASE a.kind = b.kind /\ a.kind \in {"Nominal", "IntLit", "NominalVariant"} /\ a # b
  <2>1. CASE a.kind = "Nominal"
    <3>1. a = Nominal(a.id) /\ b = Nominal(b.id)
        BY <1>1, <1>6, <2>1 DEF WellFormed
    <3>2. \A t \in T : t.kind = "Nominal" /\ HasType(v, t) => v[1] = t.id
        BY MeaningOfAtoms
    <3>3. v[1] = a.id /\ v[1] = b.id
        BY <1>1, <1>6, <2>1, <3>2
    <3> QED
        BY <1>6, <3>1, <3>3
  <2>2. CASE a.kind = "IntLit"
    <3>1. a = IntLit(a.value) /\ b = IntLit(b.value)
        BY <1>1, <1>6, <2>2 DEF WellFormed
    <3>2. v[2] = a.value /\ v[2] = b.value
        BY <1>1, <1>6, <2>2, MeaningOfAtoms
    <3> QED
        BY <1>6, <3>1, <3>2
  <2>3. CASE a.kind = "NominalVariant"
    <3>1. a = Variant(a.tycon, a.ctor) /\ b = Variant(b.tycon, b.ctor)
        BY <1>1, <1>6, <2>3 DEF WellFormed
    <3>2. \A t \in T : t.kind = "NominalVariant" /\ HasType(v, t) => v[1] = t.tycon /\ v[2] = t.ctor
        BY MeaningOfAtoms
    <3>3. v[1] = a.tycon /\ v[1] = b.tycon /\ v[2] = a.ctor /\ v[2] = b.ctor
        BY <1>1, <1>6, <2>3, <3>2
    <3> QED
        BY <1>6, <3>1, <3>3
  <2> QED
      BY <1>6, <2>1, <2>2, <2>3
<1>7. ASSUME NEW l \in T, NEW n \in T, IsLiteral(l), n.kind = "Nominal", LiteralOf[l.kind] # n.id,
             HasType(v, l), HasType(v, n)
      PROVE  FALSE
  <2>1. l.kind \in {"IntLit", "StrLit"} /\ v[1] = LiteralOf[l.kind]
      BY <1>7, MeaningOfAtoms DEF IsLiteral, LiteralOf
  <2>2. v[1] = n.id
      BY <1>7, MeaningOfAtoms
  <2> QED
      BY <1>7, <2>1, <2>2
<1>8. ASSUME NEW t \in T, NEW u \in T, t.kind = "Nominal", u.kind \in {"Record", "Fn", "App", "NominalVariant"},
             ~Alias(t, u), HasType(v, t), HasType(v, u)
      PROVE  FALSE
  <2>1. v[1] = t.id /\ t.id \notin Names
      BY <1>8, MeaningOfAtoms DEF WellFormed
  <2>2. CASE u.kind = "Record"
      BY <1>8, <2>1, <2>2, MeaningOfAtoms DEF Names
  <2>3. CASE u.kind = "Fn"
      BY <1>8, <2>1, <2>3, MeaningOfAtoms DEF Names
  <2>4. CASE u.kind = "App"
      BY <1>8, <2>1, <2>4, MeaningOfAtoms DEF Alias
  <2>5. CASE u.kind = "NominalVariant"
      BY <1>8, <2>1, <2>5, MeaningOfAtoms DEF Alias
  <2> QED
      BY <1>8, <2>2, <2>3, <2>4, <2>5
<1>9. CASE \E k \in {"Record", "Fn", "App", "NominalVariant", "Recursive"} : {a.kind, b.kind} = {"Nominal", k}
  <2>1. \/ a.kind = "Nominal" /\ b.kind \in {"Record", "Fn", "App", "NominalVariant"}
        \/ b.kind = "Nominal" /\ a.kind \in {"Record", "Fn", "App", "NominalVariant"}
      BY <1>1, <1>9 DEF AtomKinds
  <2> QED
      BY <1>1, <1>8, <2>1
<1>10. CASE a.kind = "App" /\ b.kind = "App" /\ Disjoint(a.op, b.op)
  <2>1. /\ a.op \in Atoms(T) /\ a.op.kind = "Nominal" /\ a.op = Nominal(a.op.id)
        /\ b.op \in Atoms(T) /\ b.op.kind = "Nominal" /\ b.op = Nominal(b.op.id)
      BY <1>1, <1>10 DEF WellFormed, Atoms, AtomKinds
  <2>2. DisjointRule(a.op, b.op)
      BY <1>10, <2>1, Zenon DEF AtomsFollowRules
  <2>3. a.op # b.op
      BY <2>1, <2>2 DEF DisjointRule, IsLiteral, LiteralOf
  <2>4. v[1] = a.op.id /\ v[1] = b.op.id
      BY <1>1, <1>10, MeaningOfAtoms
  <2> QED
      BY <2>1, <2>3, <2>4
<1>11. CASE {a.kind, b.kind} = {"Record", "Fn"}
  <2>1. (a.kind = "Record" /\ b.kind = "Fn") \/ (b.kind = "Record" /\ a.kind = "Fn")
      BY <1>11
  <2> QED
      BY <1>1, <2>1, MeaningOfAtoms
<1>12. CASE \E k \in {"Record", "Fn"} : {a.kind, b.kind} = {"NominalVariant", k}
  <2>1. \/ a.kind = "NominalVariant" /\ b.kind \in {"Record", "Fn"}
        \/ b.kind = "NominalVariant" /\ a.kind \in {"Record", "Fn"}
      BY <1>12
  <2>2. ASSUME NEW t \in T, NEW u \in T, t.kind = "NominalVariant", u.kind \in {"Record", "Fn"},
               HasType(v, t), HasType(v, u)
        PROVE  FALSE
    <3>1. v[1] = t.tycon /\ t.tycon \notin Names
        BY <2>2, MeaningOfAtoms DEF WellFormed
    <3>2. v[1] \in Names
        BY <2>2, MeaningOfAtoms DEF Names
    <3> QED
        BY <3>1, <3>2
  <2> QED
      BY <1>1, <2>1, <2>2
<1>13. CASE {a.kind, b.kind} = {"Fn", "App"}
  <2>1. (a.kind = "Fn" /\ b.kind = "App") \/ (b.kind = "Fn" /\ a.kind = "App")
      BY <1>13
  <2>2. ASSUME NEW t \in T, NEW u \in T, t.kind = "Fn", u.kind = "App", HasType(v, t), HasType(v, u)
        PROVE  FALSE
    <3>1. v[1] = u.op.id /\ u.op.id \notin Names
        BY <2>2, MeaningOfAtoms DEF WellFormed
    <3>2. v[1] = "fn"
        BY <2>2, MeaningOfAtoms
    <3> QED
        BY <3>1, <3>2 DEF Names
  <2> QED
      BY <1>1, <2>1, <2>2
<1> QED
    BY <1>1, <1>3, <1>6, <1>7, <1>9, <1>10, <1>11, <1>12, <1>13

-----------------------------------------------------------------------------
(* A pair of atoms that is accepted is ordered, if the pairs of types it   *)
(* asks for are, when they are accepted.                                   *)

(* What the rule for atoms comes to for the atoms of T.                    *)
LEMMA AtomRuleCases ==
    ASSUME NEW T, WellFormed(T), AtomsFollowRules(T), NEW a \in Atoms(T), NEW b \in Atoms(T),
           NEW d \in Nat, IsAtomSubtype(a, b, {}, d)
    PROVE  \/ a = b /\ a.kind \in {"IntLit", "StrLit", "Nominal"}
           \/ IsLiteral(a) /\ b.kind = "Nominal" /\ b.id = LiteralOf[a.kind]
           \/ a.kind = "Fn" /\ b.kind = "Fn" /\ IsFnSubtype(a, b, {}, d)
           \/ a.kind = "Record" /\ b.kind = "Record" /\ IsRecordSubtype(a, b, {}, d)
           \/ a.kind = "App" /\ b.kind = "App" /\ IsAppSubtype(a, b, {}, d)
           \/ /\ a.kind = "NominalVariant" /\ b.kind = "Nominal"
              /\ IF b.id \in DOMAIN TyCons
                 THEN IsSubtype(a, TyCons[b.id].body, {}, d + 1) ELSE a.tycon = b.id
           \/ /\ a.kind = "Nominal" /\ b.kind = "App" /\ b.op.kind = "Nominal"
              /\ IsAtomSubtype(a, b.op, {}, d + 1)
<1>1. a.kind \in AtomKinds /\ b.kind \in AtomKinds
    BY DEF Atoms
<1>2. AtomRule(a, b, {}, d)
    BY Zenon DEF AtomsFollowRules
<1> QED
    BY <1>1, <1>2 DEF AtomRule, AtomKinds, IsLiteral, LiteralOf

LEMMA FnIsSound ==
    ASSUME NEW T, WellFormed(T), MeaningFollowsRule(T), ValuesAreClosed,
           NEW a \in T, NEW b \in T, a.kind = "Fn", b.kind = "Fn", ~Misjudged(a, b),
           NEW d \in Nat, IsFnSubtype(a, b, {}, d),
           \A p \in AsksFor(a, b) : IsSubtype(p[1], p[2], {}, d + 1) => Within(p[1], p[2])
    PROVE  Within(a, b)
<1>1. /\ IsSubtype(a.ret, b.ret, {}, d + 1)
      /\ IF a.variadic THEN Len(a.params) <= Len(b.params) ELSE Len(a.params) = Len(b.params)
      /\ \A i \in DOMAIN a.params : IsSubtype(b.params[i], a.params[i], {}, d + 1)
    BY DEF IsFnSubtype, TakesAsMany
<1>2. /\ a.params \in Seq(T) /\ a.ret \in T /\ b.params \in Seq(T) /\ b.ret \in T
      /\ DOMAIN a.params = 1..Len(a.params) /\ Len(a.params) \in Nat
      /\ DOMAIN b.params = 1..Len(b.params) /\ Len(b.params) \in Nat
    BY DEF WellFormed
<1>3. b.variadic => a.variadic
    BY <1>1 DEF Misjudged
<1>4. Len(a.params) <= Len(b.params)
    BY <1>1, <1>2
<1>5. Within(a.ret, b.ret)
  <2>1. <<a.ret, b.ret>> \in AsksFor(a, b)
      BY DEF AsksFor
  <2> QED
      BY <1>1, <2>1
<1>6. ASSUME NEW i \in DOMAIN a.params PROVE i \in DOMAIN b.params /\ Within(b.params[i], a.params[i])
  <2>1. i \in DOMAIN b.params
      BY <1>2, <1>4
  <2>2. <<b.params[i], a.params[i]>> \in AsksFor(a, b)
      BY <2>1 DEF AsksFor
  <2> QED
      BY <1>1, <2>1, <2>2
<1> SUFFICES ASSUME NEW v \in Values, HasType(v, a) PROVE HasType(v, b)
    BY DEF Within
<1>7. /\ v[1] = "fn"
      /\ \A args \in DOMAIN v[2] :
             /\ IF a.variadic THEN Len(args) >= Len(a.params) ELSE Len(args) = Len(a.params)
             /\ \A i \in DOMAIN a.params : HasType(args[i], a.params[i])
             => v[2][args] # Fails /\ HasType(v[2][args], a.ret)
    BY MeaningOfAtoms
<1>8. ASSUME NEW args \in DOMAIN v[2],
             IF b.variadic THEN Len(args) >= Len(b.params) ELSE Len(args) = Len(b.params),
             \A i \in DOMAIN b.params : HasType(args[i], b.params[i])
      PROVE  v[2][args] # Fails /\ HasType(v[2][args], b.ret)
  <2>1. args \in Seq(Values) /\ v[2][args] \in Values \cup {Fails}
      BY <1>7 DEF ValuesAreClosed
  <2>2. Len(args) \in Nat /\ \A i \in 1..Len(args) : args[i] \in Values
      BY <2>1
  <2>3. IF a.variadic THEN Len(args) >= Len(a.params) ELSE Len(args) = Len(a.params)
      BY <1>1, <1>2, <1>3, <1>4, <1>8, <2>2
  <2>4. ASSUME NEW i \in DOMAIN a.params PROVE HasType(args[i], a.params[i])
    <3>1. i \in 1..Len(args)
        BY <1>2, <2>2, <2>3
    <3> QED
        BY <1>6, <1>8, <2>2, <3>1 DEF Within
  <2>5. v[2][args] # Fails /\ HasType(v[2][args], a.ret)
      BY <1>7, <2>3, <2>4
  <2> QED
      BY <1>5, <2>1, <2>5 DEF Within
<1> QED
    BY <1>7, <1>8, MeaningOfAtoms

LEMMA RecordIsSound ==
    ASSUME NEW T, WellFormed(T), MeaningFollowsRule(T), ValuesAreClosed,
           NEW a \in T, NEW b \in T, a.kind = "Record", b.kind = "Record", ~Misjudged(a, b),
           NEW d \in Nat, IsRecordSubtype(a, b, {}, d),
           \A p \in AsksFor(a, b) : IsSubtype(p[1], p[2], {}, d + 1) => Within(p[1], p[2])
    PROVE  Within(a, b)
<1>1. ASSUME NEW f \in DOMAIN b.fields PROVE f \in DOMAIN a.fields /\ Within(a.fields[f], b.fields[f])
  <2>1. f \in DOMAIN a.fields /\ IsSubtype(a.fields[f], b.fields[f], {}, d + 1)
      BY DEF IsRecordSubtype
  <2>2. <<a.fields[f], b.fields[f]>> \in AsksFor(a, b)
      BY <2>1 DEF AsksFor
  <2> QED
      BY <2>1, <2>2
<1>2. ASSUME b.tail.kind = "Uniform"
      PROVE  /\ a.tail.kind = "Uniform" /\ DOMAIN a.fields \subseteq DOMAIN b.fields
             /\ Within(a.tail.valueType, b.tail.valueType)
  <2>1. a.tail.kind = "Uniform" /\ DOMAIN a.fields \subseteq DOMAIN b.fields
    <3>1. a.tail.kind \in {"Uniform", "Closed"}
        BY <1>2 DEF IsRecordSubtype
    <3> QED
        BY <1>2, <3>1 DEF Misjudged
  <2>2. IsSubtype(a.tail.valueType, b.tail.valueType, {}, d + 1)
      BY <1>2, <2>1 DEF IsRecordSubtype
  <2>3. <<a.tail.valueType, b.tail.valueType>> \in AsksFor(a, b)
      BY <1>2, <2>1 DEF AsksFor
  <2> QED
      BY <2>1, <2>2, <2>3
<1> SUFFICES ASSUME NEW v \in Values, HasType(v, a) PROVE HasType(v, b)
    BY DEF Within
<1>3. /\ v[1] = "record"
      /\ \A f \in DOMAIN a.fields : f \in DOMAIN v[2] /\ HasType(v[2][f], a.fields[f])
      /\ a.tail.kind = "Uniform" =>
             \A f \in DOMAIN v[2] \ DOMAIN a.fields : HasType(v[2][f], a.tail.valueType)
    BY MeaningOfAtoms
<1>4. \A f \in DOMAIN v[2] : v[2][f] \in Values
    BY <1>3 DEF ValuesAreClosed
<1>5. ASSUME NEW f \in DOMAIN b.fields PROVE f \in DOMAIN v[2] /\ HasType(v[2][f], b.fields[f])
    BY <1>1, <1>3, <1>4 DEF Within
<1>6. ASSUME b.tail.kind = "Uniform", NEW f \in DOMAIN v[2] \ DOMAIN b.fields
      PROVE  HasType(v[2][f], b.tail.valueType)
    BY <1>2, <1>3, <1>4, <1>6 DEF Within
<1> QED
    BY <1>3, <1>5, <1>6, MeaningOfAtoms

(* The arguments of an application are compared by the variance that the   *)
(* constructor has there.                                                  *)
LEMMA VarianceOfApplication ==
    ASSUME NEW T, WellFormed(T), AtomsFollowRules(T), NEW a \in T, a.kind = "App"
    PROVE  VarianceAt(Spine(a.op)) = TyCons[a.op.id].variance[1]
<1>1. /\ a.op \in Atoms(T) /\ a.op.kind = "Nominal" /\ a.op = Nominal(a.op.id)
      /\ a.op.id \in DOMAIN TyCons /\ 1 \in DOMAIN TyCons[a.op.id].variance
    BY DEF WellFormed, Atoms, AtomKinds
<1>2. Spine(a.op) = SpineRule(a.op)
    BY <1>1, Zenon DEF AtomsFollowRules
<1>3. Spine(a.op) = <<a.op.id, 1>>
    BY <1>1, <1>2 DEF SpineRule
<1> DEFINE spine == Spine(a.op)
<1>4. spine[1] = a.op.id /\ spine[2] = 1
  <2>1. \A x : <<x, 1>>[1] = x /\ <<x, 1>>[2] = 1
      OBVIOUS
  <2> QED
      BY <1>3, <2>1, Zenon
<1> HIDE DEF spine
<1>5. spine[1] \in DOMAIN TyCons /\ spine[2] \in DOMAIN TyCons[spine[1]].variance
    BY <1>1, <1>4, Zenon
<1>6. VarianceAt(spine) = TyCons[spine[1]].variance[spine[2]]
    BY <1>5, Zenon DEF VarianceAt
<1> QED
    BY <1>4, <1>6, Zenon DEF spine

LEMMA AppIsSound ==
    ASSUME NEW T, WellFormed(T), MeaningFollowsRule(T), AtomsFollowRules(T),
           NEW a \in T, NEW b \in T, a.kind = "App", b.kind = "App", NEW d \in Nat,
           IsAppSubtype(a, b, {}, d),
           \A p \in AsksFor(a, b) : IsSubtype(p[1], p[2], {}, d + 1) => Within(p[1], p[2])
    PROVE  Within(a, b)
<1> DEFINE variance == TyCons[a.op.id].variance[1]
<1>1. /\ a.op \in Atoms(T) /\ a.op.kind = "Nominal" /\ a.op = Nominal(a.op.id) /\ a.arg \in T
      /\ b.op \in Atoms(T) /\ b.op.kind = "Nominal" /\ b.op = Nominal(b.op.id) /\ b.arg \in T
      /\ a.op.id \in DOMAIN TyCons /\ 1 \in DOMAIN TyCons[a.op.id].variance /\ variance \in Variances
    BY DEF WellFormed, Atoms, AtomKinds
<1>2. a.op = b.op
  <2>1. IsAtomSubtype(a.op, b.op, {}, d + 1)
      BY DEF IsAppSubtype
  <2> QED
      BY <1>1, <2>1, AtomRuleCases DEF IsLiteral, LiteralOf
<1>3. VarianceAt(Spine(a.op)) = variance
    BY VarianceOfApplication
<1>4. <<a.arg, b.arg>> \in AsksFor(a, b) /\ <<b.arg, a.arg>> \in AsksFor(a, b)
    BY <1>2 DEF AsksFor
<1>5. /\ variance \in {"Covariant", "Invariant"} => Within(a.arg, b.arg)
      /\ variance \in {"Contravariant", "Invariant"} => Within(b.arg, a.arg)
  <2>1. variance \in {"Covariant", "Invariant"} => IsSubtype(a.arg, b.arg, {}, d + 1)
      BY <1>1, <1>3 DEF IsAppSubtype
  <2>2. variance \in {"Contravariant", "Invariant"} => IsSubtype(b.arg, a.arg, {}, d + 1)
      BY <1>1, <1>3 DEF IsAppSubtype
  <2> HIDE DEF variance
  <2> QED
      BY <1>4, <2>1, <2>2
<1> SUFFICES ASSUME NEW v \in Values, HasType(v, a) PROVE HasType(v, b)
    BY DEF Within
<1>6. /\ v[1] = a.op.id
      /\ variance \in {"Covariant", "Invariant"} => v[2] \subseteq {u \in Simple : HasType(u, a.arg)}
      /\ variance \in {"Contravariant", "Invariant"} => {u \in Simple : HasType(u, a.arg)} \subseteq v[2]
    BY MeaningOfAtoms
<1>7. Simple \subseteq Values
    BY DEF Simple
<1>8. variance \in {"Covariant", "Invariant"} => v[2] \subseteq {u \in Simple : HasType(u, b.arg)}
    BY <1>5, <1>6, <1>7 DEF Within
<1>9. variance \in {"Contravariant", "Invariant"} => {u \in Simple : HasType(u, b.arg)} \subseteq v[2]
    BY <1>5, <1>6, <1>7 DEF Within
<1>10. v[1] = b.op.id /\ variance = TyCons[b.op.id].variance[1]
    BY <1>2, <1>6
<1> QED
    BY <1>8, <1>9, <1>10, MeaningOfAtoms

LEMMA AtomIsSound ==
    ASSUME NEW T, WellFormed(T), MeaningFollowsRule(T), AtomsFollowRules(T), ValuesAreClosed,
           NEW a \in Atoms(T), NEW b \in Atoms(T), ~Misjudged(a, b), NEW d \in Nat,
           IsAtomSubtype(a, b, {}, d),
           \A p \in AsksFor(a, b) : IsSubtype(p[1], p[2], {}, d + 1) => Within(p[1], p[2])
    PROVE  Within(a, b)
<1>1. a \in T /\ b \in T /\ d + 1 \in Nat
    BY DEF Atoms
<1>2. CASE a = b
    BY <1>2 DEF Within
<1>3. CASE IsLiteral(a) /\ b.kind = "Nominal" /\ b.id = LiteralOf[a.kind]
  <2>1. a.kind \in {"IntLit", "StrLit"}
      BY <1>3 DEF IsLiteral, LiteralOf
  <2>2. ASSUME NEW v \in Values, HasType(v, a) PROVE HasType(v, b)
    <3>1. v[1] = LiteralOf[a.kind]
        BY <1>1, <2>1, <2>2, MeaningOfAtoms DEF LiteralOf
    <3> QED
        BY <1>1, <1>3, <3>1, MeaningOfAtoms
  <2> QED
      BY <2>2 DEF Within
<1>4. CASE a.kind = "Fn" /\ b.kind = "Fn" /\ IsFnSubtype(a, b, {}, d)
    BY <1>1, <1>4, FnIsSound
<1>5. CASE a.kind = "Record" /\ b.kind = "Record" /\ IsRecordSubtype(a, b, {}, d)
    BY <1>1, <1>5, RecordIsSound
<1>6. CASE a.kind = "App" /\ b.kind = "App" /\ IsAppSubtype(a, b, {}, d)
    BY <1>1, <1>6, AppIsSound
<1>7. CASE /\ a.kind = "NominalVariant" /\ b.kind = "Nominal"
           /\ IF b.id \in DOMAIN TyCons
              THEN IsSubtype(a, TyCons[b.id].body, {}, d + 1) ELSE a.tycon = b.id
  <2>1. CASE b.id \in DOMAIN TyCons
    <3>1. <<a, TyCons[b.id].body>> \in AsksFor(a, b)
        BY <1>7, <2>1 DEF AsksFor
    <3>2. Within(a, TyCons[b.id].body)
        BY <1>7, <2>1, <3>1
    <3>3. \A v \in Values : HasType(v, TyCons[b.id].body) => v[1] = b.id
        BY <1>7, <2>1 DEF Misjudged
    <3> QED
        BY <1>1, <1>7, <3>2, <3>3, MeaningOfAtoms DEF Within
  <2>2. CASE b.id \notin DOMAIN TyCons
      BY <1>1, <1>7, <2>2, MeaningOfAtoms DEF Within
  <2> QED
      BY <2>1, <2>2
<1>8. CASE /\ a.kind = "Nominal" /\ b.kind = "App" /\ b.op.kind = "Nominal"
           /\ IsAtomSubtype(a, b.op, {}, d + 1)
  <2>1. b.op \in Atoms(T)
      BY <1>1, <1>8 DEF WellFormed, Atoms, AtomKinds
  <2>2. b.op = a
      BY <1>1, <1>8, <2>1, AtomRuleCases DEF IsLiteral, LiteralOf
  <2> QED
      BY <1>8, <2>2 DEF Misjudged
<1> QED
    BY <1>2, <1>3, <1>4, <1>5, <1>6, <1>7, <1>8, AtomRuleCases

-----------------------------------------------------------------------------
(* The check.                                                              *)
SubtypeFollowsRule(C) ==
    \A p \in C, d \in Nat :
        IsSubtype(p[1], p[2], {}, d) <=>
            SubtypeRule(p[1], p[2], {}, d)

(* C has the pairs that are compared on the way.                           *)
ClosedUnderQuestions(C) ==
    \A p \in C : \A k \in DOMAIN ToRdnf(Difference(p)) :
        LET conj == ToRdnf(Difference(p))[k]
        IN  \A i \in Signed(conj, "+"), j \in Signed(conj, "-") :
                AsksFor(conj[i].atom, conj[j].atom) \subseteq C

(* None of them is one that the rules get wrong.                           *)
NothingMisjudged(C) ==
    \A p \in C : \A k \in DOMAIN ToRdnf(Difference(p)) :
        LET conj == ToRdnf(Difference(p))[k]
        IN  /\ \A i \in Signed(conj, "+"), j \in Signed(conj, "-") :
                   ~Misjudged(conj[i].atom, conj[j].atom)
            /\ \A i, j \in Signed(conj, "+") : ~Alias(conj[i].atom, conj[j].atom)

(* A conjunction that is refuted has no values.                            *)
LEMMA ConjunctionIsSound ==
    ASSUME NEW T, WellFormed(T), MeaningFollowsRule(T), AtomsFollowRules(T), ValuesAreClosed,
           NEW d \in Nat, NEW conj \in Conjunctions(T),
           \A i \in Signed(conj, "+"), j \in Signed(conj, "-") :
               /\ ~Misjudged(conj[i].atom, conj[j].atom)
               /\ d < MaxDepth => \A p \in AsksFor(conj[i].atom, conj[j].atom) :
                      IsSubtype(p[1], p[2], {}, d + 1) => Within(p[1], p[2]),
           \A i, j \in Signed(conj, "+") : ~Alias(conj[i].atom, conj[j].atom),
           IsConjunctionEmpty(conj, {}, d),
           NEW v \in Values
    PROVE  ~Satisfies(v, conj)
<1> SUFFICES ASSUME Satisfies(v, conj) PROVE FALSE
    OBVIOUS
<1>1. \A i \in DOMAIN conj : conj[i] \in SignedAtoms(T) /\ conj[i].atom \in Atoms(T)
  <2>1. \A i \in DOMAIN conj : conj[i] \in SignedAtoms(T)
      BY DEF Conjunctions
  <2> QED
      BY <2>1 DEF SignedAtoms
<1>2. \A i \in Signed(conj, "+") : i \in DOMAIN conj /\ HasType(v, conj[i].atom)
    BY DEF Signed, Satisfies
<1>3. \A j \in Signed(conj, "-") : j \in DOMAIN conj /\ ~HasType(v, conj[j].atom)
    BY DEF Signed, Satisfies
<1>4. ASSUME NEW i, NEW j PROVE Assumed(conj, i, j) = {}
  <2>1. \A k \in Signed(conj, "+") : conj[k].atom.kind # "Recursive"
      BY <1>1, <1>2 DEF Atoms, AtomKinds
  <2> QED
      BY <2>1 DEF Assumed
<1>5. \/ \E i, j \in Signed(conj, "+") : i < j /\ Disjoint(conj[i].atom, conj[j].atom)
      \/ \E i \in Signed(conj, "+"), j \in Signed(conj, "-") :
             IsAtomSubtype(conj[i].atom, conj[j].atom, {} \cup Assumed(conj, i, j), d)
    BY DEF IsConjunctionEmpty
<1>6. CASE \E i, j \in Signed(conj, "+") : i < j /\ Disjoint(conj[i].atom, conj[j].atom)
  <2>1. PICK i \in Signed(conj, "+"), j \in Signed(conj, "+") : Disjoint(conj[i].atom, conj[j].atom)
      BY <1>6
  <2>2. conj[i].atom \in Atoms(T) /\ conj[j].atom \in Atoms(T)
      BY <1>1, <1>2
  <2>3. ~Alias(conj[i].atom, conj[j].atom) /\ ~Alias(conj[j].atom, conj[i].atom)
      BY Zenon
  <2>4. ~(HasType(v, conj[i].atom) /\ HasType(v, conj[j].atom))
      BY <2>1, <2>2, <2>3, DisjointIsSound
  <2> QED
      BY <1>2, <2>4
<1>7. CASE \E i \in Signed(conj, "+"), j \in Signed(conj, "-") :
             IsAtomSubtype(conj[i].atom, conj[j].atom, {} \cup Assumed(conj, i, j), d)
  <2>1. PICK i \in Signed(conj, "+"), j \in Signed(conj, "-") :
             IsAtomSubtype(conj[i].atom, conj[j].atom, {} \cup Assumed(conj, i, j), d)
      BY <1>7
  <2>2. IsAtomSubtype(conj[i].atom, conj[j].atom, {}, d)
    <3>1. {} \cup Assumed(conj, i, j) = {}
        BY <1>4
    <3> QED
        BY <2>1, <3>1, Zenon
  <2>3. conj[i].atom \in Atoms(T) /\ conj[j].atom \in Atoms(T)
      BY <1>1, <1>2, <1>3
  <2>4. d < MaxDepth
    <3>1. AtomRule(conj[i].atom, conj[j].atom, {}, d)
        BY <2>2, <2>3, Zenon DEF AtomsFollowRules
    <3> QED
        BY <3>1, Zenon DEF AtomRule
  <2>5. /\ ~Misjudged(conj[i].atom, conj[j].atom)
        /\ \A p \in AsksFor(conj[i].atom, conj[j].atom) :
               IsSubtype(p[1], p[2], {}, d + 1) => Within(p[1], p[2])
      BY <2>4, Zenon
  <2>6. Within(conj[i].atom, conj[j].atom)
      BY <2>2, <2>3, <2>5, AtomIsSound, Zenon
  <2> QED
      BY <1>2, <1>3, <2>6 DEF Within
<1> QED
    BY <1>5, <1>6, <1>7

(* The functions of the check are what its rules say.                      *)
Rules(T, C) ==
    /\ FoldsFollowRules(T) /\ RdnfFollowsRule(T, C)
    /\ MeaningFollowsRule(T) /\ AtomsFollowRules(T) /\ SubtypeFollowsRule(C)

(* The verdicts on the pairs of C at a depth are right if those below are. *)
LEMMA DepthIsSound ==
    ASSUME NEW T, NEW C \in SUBSET (T \X T),
           Built(T), WellFormed(T), ValuesAreClosed, Rules(T, C),
           ClosedUnderQuestions(C), NothingMisjudged(C), NEW d \in Nat,
           d < MaxDepth => \A p \in C : IsSubtype(p[1], p[2], {}, d + 1) => Within(p[1], p[2])
    PROVE  \A p \in C : IsSubtype(p[1], p[2], {}, d) => Within(p[1], p[2])
<1> SUFFICES ASSUME NEW p \in C, IsSubtype(p[1], p[2], {}, d), NEW v \in Values, HasType(v, p[1])
             PROVE  HasType(v, p[2])
    BY DEF Within
<1> DEFINE a == p[1]
           b == p[2]
           rdnf == ToRdnf(Difference(p))
<1>1. a \in T /\ b \in T
    OBVIOUS
<1>2. /\ FoldsFollowRules(T) /\ RdnfFollowsRule(T, C)
      /\ MeaningFollowsRule(T) /\ AtomsFollowRules(T) /\ SubtypeFollowsRule(C)
    BY DEF Rules
<1>3. \/ b.kind = "Top"
      \/ a.kind = "Never"
      \/ "Var" \in {a.kind, b.kind}
      \/ \A k \in DOMAIN rdnf : IsConjunctionEmpty(rdnf[k], {}, d)
  <2>1. SubtypeRule(a, b, {}, d)
      BY <1>2, Zenon DEF SubtypeFollowsRule
  <2> HIDE DEF a, b
  <2>2. Difference(p) = Inter(<<a, Neg(b)>>)
      BY DEF Difference, a, b
  <2> QED
      BY <2>1, <2>2 DEF SubtypeRule, IsRdnfEmpty
<1>4. CASE b.kind = "Top"
    BY <1>1, <1>2, <1>4, MeaningOfBooleans
<1>5. CASE a.kind = "Never"
    BY <1>1, <1>2, <1>5, MeaningOfBooleans
<1>6. ~("Var" \in {a.kind, b.kind})
  <2>1. \A t \in T : t.kind # "Var"
      BY DEF Built, AtomKinds
  <2> QED
      BY <1>1, <2>1
<1>7. CASE \A k \in DOMAIN rdnf : IsConjunctionEmpty(rdnf[k], {}, d)
  <2> SUFFICES ASSUME ~HasType(v, b) PROVE FALSE
      OBVIOUS
  <2>1. rdnf \in Rdnfs(T) /\ Holds(v, rdnf)
      BY <1>2, DifferenceIsExact
  <2>2. PICK k \in DOMAIN rdnf : Satisfies(v, rdnf[k])
      BY <2>1 DEF Holds
  <2> DEFINE conj == rdnf[k]
  <2>3. conj \in Conjunctions(T)
      BY <2>1 DEF Rdnfs
  <2>4. /\ \A i \in Signed(conj, "+"), j \in Signed(conj, "-") :
               /\ ~Misjudged(conj[i].atom, conj[j].atom)
               /\ AsksFor(conj[i].atom, conj[j].atom) \subseteq C
        /\ \A i, j \in Signed(conj, "+") : ~Alias(conj[i].atom, conj[j].atom)
      BY <2>2, Zenon DEF ClosedUnderQuestions, NothingMisjudged
  <2>5. IsConjunctionEmpty(conj, {}, d) /\ Satisfies(v, conj)
      BY <1>7, <2>2
  <2> HIDE DEF conj
  <2>6. \A i \in Signed(conj, "+"), j \in Signed(conj, "-") :
            /\ ~Misjudged(conj[i].atom, conj[j].atom)
            /\ d < MaxDepth => \A q \in AsksFor(conj[i].atom, conj[j].atom) :
                   IsSubtype(q[1], q[2], {}, d + 1) => Within(q[1], q[2])
      BY <2>4, Zenon
  <2> QED
      BY <1>2, <2>3, <2>4, <2>5, <2>6, ConjunctionIsSound, Zenon
<1> QED
    BY <1>3, <1>4, <1>5, <1>6, <1>7

(* By induction on how far it is to the depth limit, where every pair of   *)
(* atoms is refused.                                                       *)
LEMMA CheckIsSound ==
    ASSUME NEW T, NEW C \in SUBSET (T \X T),
           Built(T), WellFormed(T), ValuesAreClosed, Rules(T, C),
           ClosedUnderQuestions(C), NothingMisjudged(C)
    PROVE  \A p \in C : IsSubtype(p[1], p[2], {}, 0) => Within(p[1], p[2])
<1> DEFINE Right(d) == \A p \in C : IsSubtype(p[1], p[2], {}, d) => Within(p[1], p[2])
           S == {k \in Nat : \A d \in Nat : d + k >= MaxDepth => Right(d)}
<1>1. ASSUME NEW k \in Nat, \A m \in Nat : m < k => m \in S PROVE k \in S
  <2> SUFFICES ASSUME NEW d \in Nat, d + k >= MaxDepth PROVE Right(d)
      OBVIOUS
  <2>1. d < MaxDepth => Right(d + 1)
    <3>1. SUFFICES ASSUME d < MaxDepth PROVE Right(d + 1)
        OBVIOUS
    <3>2. k - 1 \in Nat /\ k - 1 < k /\ d + 1 \in Nat /\ (d + 1) + (k - 1) >= MaxDepth
        BY <3>1, ConstantsAssumption
    <3> HIDE DEF Right
    <3> QED
        BY <1>1, <3>2
  <2> QED
      BY <2>1, DepthIsSound, Zenon
<1> HIDE DEF S
<1>2. MaxDepth \in S
    BY <1>1, Counting, ConstantsAssumption
<1>3. 0 \in Nat /\ 0 + MaxDepth >= MaxDepth
    BY ConstantsAssumption
<1> HIDE DEF Right
<1>4. Right(0)
    BY <1>2, <1>3 DEF S
<1> QED
    BY <1>4 DEF Right

(* What is_subtype_bas accepts is true of the values: a type that it takes *)
(* for a subtype has no value that the other type has not, whatever finite *)
(* types are compared, with whatever cap and depth limit, as long as no    *)
(* normal form reaches the cap and none of the pairs of atoms that come up *)
(* is one of those that the code is known to take for what they are not    *)
(* (Misjudged, Alias).                                                     *)
THEOREM AcceptedIsWithin ==
    ASSUME NEW T, NEW C \in SUBSET (T \X T), Queries \subseteq C,
           Built(T), WellFormed(T), ValuesAreClosed, Rules(T, C),
           ClosedUnderQuestions(C), NothingMisjudged(C)
    PROVE  AskSpec => []Sound
<1> DEFINE Asked ==
        /\ question \in Queries \cup {<<>>}
        /\ question # <<>> /\ answer = Top => IsSubtypeBas(question[1], question[2])
<1>1. AskInit => Asked
    BY DEF AskInit
<1>2. Asked /\ [AskNext]_askVars => Asked'
  <2> SUFFICES ASSUME Asked, [AskNext]_askVars PROVE Asked'
      OBVIOUS
  <2>1. ASSUME NEW p \in Queries, Compare(p) PROVE Asked'
    <3>1. question' = p /\ answer' = IF IsSubtypeBas(p[1], p[2]) THEN Top ELSE Never
        BY <2>1 DEF Compare
    <3>2. Top # Never
        BY DEF Top, Never
    <3> QED
        BY <3>1, <3>2
  <2>2. CASE UNCHANGED askVars
      BY <2>2 DEF askVars
  <2> QED
      BY <2>1, <2>2 DEF AskNext
<1>3. Asked => Sound
  <2> SUFFICES ASSUME Asked, question # <<>>, answer = Top PROVE Within(question[1], question[2])
      BY DEF Sound, Accepted
  <2>1. question \in C /\ IsSubtype(question[1], question[2], {}, 0)
      BY Zenon DEF IsSubtypeBas
  <2> QED
      BY <2>1, CheckIsSound, Zenon
<1> QED
    BY <1>1, <1>2, <1>3, PTL DEF AskSpec

-----------------------------------------------------------------------------
(* COMPLETENESS OF THE SUBTYPE CHECK                                       *)

(* What is found in a conjunction.                                         *)
Occurs(part, conj) == \A j \in DOMAIN part : \E k \in DOMAIN conj : conj[k] = part[j]

(* A join has nothing but the conjunctions of what is joined.              *)
LEMMA ConcatIsMadeOf ==
    ASSUME NEW T, FoldsFollowRules(T), NEW rdnfs \in Seq(Rdnfs(T))
    PROVE  \A k \in DOMAIN Concat(rdnfs) :
               \E i \in DOMAIN rdnfs : \E m \in DOMAIN rdnfs[i] : Concat(rdnfs)[k] = rdnfs[i][m]
<1> DEFINE Prefix(n) == SubSeq(rdnfs, 1, n)
           Right(n) ==
               \A k \in DOMAIN Concat(Prefix(n)) :
                   \E i \in 1..n : \E m \in DOMAIN rdnfs[i] : Concat(Prefix(n))[k] = rdnfs[i][m]
           S == {n \in Nat : n <= Len(rdnfs) => Right(n)}
<1>1. Len(rdnfs) \in Nat /\ DOMAIN rdnfs = 1..Len(rdnfs) /\ \A i \in DOMAIN rdnfs : rdnfs[i] \in Rdnfs(T)
    OBVIOUS
<1>2. ASSUME NEW n \in Nat, \A m \in Nat : m < n => m \in S PROVE n \in S
  <2> SUFFICES ASSUME n <= Len(rdnfs) PROVE Right(n)
      OBVIOUS
  <2>1. Prefix(n) \in Seq(Rdnfs(T)) /\ Len(Prefix(n)) = n
      BY <1>1, PrefixFacts
  <2>2. Concat(Prefix(n)) = IF Prefix(n) = <<>> THEN <<>> ELSE Concat(Front(Prefix(n))) \o Last(Prefix(n))
      BY <2>1 DEF FoldsFollowRules, ConcatRule
  <2>3. CASE n = 0
      BY <2>1, <2>2, <2>3
  <2>4. CASE n # 0
    <3>1. n - 1 \in Nat /\ n - 1 < n /\ n \in 1..Len(rdnfs) /\ Right(n - 1)
        BY <1>1, <1>2, <2>4
    <3>2. Prefix(n) # <<>>
        BY <2>1, <2>4
    <3>3. Front(Prefix(n)) = Prefix(n - 1) /\ Last(Prefix(n)) = rdnfs[n]
        BY <3>1, PrefixFacts
    <3>4. Concat(Prefix(n)) = Concat(Prefix(n - 1)) \o rdnfs[n]
        BY <2>2, <3>2, <3>3
    <3>5. rdnfs[n] \in Rdnfs(T)
        BY <1>1, <3>1
    <3>6. Prefix(n - 1) \in Seq(Rdnfs(T))
        BY <1>1, <3>1, PrefixFacts
    <3>7. Concat(Prefix(n - 1)) \in Rdnfs(T)
      <4> HIDE DEF Prefix
      <4> QED
          BY <3>6, HoldsAll
    <3> DEFINE before == Concat(Prefix(n - 1))
    <3>8. \A k \in DOMAIN before : \E i \in 1..(n - 1) : \E m \in DOMAIN rdnfs[i] : before[k] = rdnfs[i][m]
        BY <3>1
    <3>9. Concat(Prefix(n)) = before \o rdnfs[n] /\ before \in Rdnfs(T)
        BY <3>4, <3>7
    <3> HIDE DEF before, Prefix
    <3>10. ASSUME NEW k \in DOMAIN (before \o rdnfs[n])
           PROVE  \E i \in 1..n : \E m \in DOMAIN rdnfs[i] : (before \o rdnfs[n])[k] = rdnfs[i][m]
      <4>1. CASE k \in DOMAIN before
        <5>1. (before \o rdnfs[n])[k] = before[k]
            BY <3>5, <3>9, <4>1 DEF Rdnfs
        <5>2. \A i \in 1..(n - 1) : i \in 1..n
            BY <3>1
        <5> QED
            BY <3>8, <4>1, <5>1, <5>2
      <4>2. CASE k \notin DOMAIN before
        <5>1. k - Len(before) \in DOMAIN rdnfs[n] /\ (before \o rdnfs[n])[k] = rdnfs[n][k - Len(before)]
            BY <3>5, <3>9, <4>2 DEF Rdnfs
        <5>2. n \in 1..n
            BY <3>1
        <5> QED
            BY <5>1, <5>2
      <4> QED
          BY <4>1, <4>2
    <3> QED
        BY <3>9, <3>10
  <2> QED
      BY <2>3, <2>4
<1> HIDE DEF S
<1>3. Nat \subseteq S
    BY <1>2, Counting
<1> USE DEF S
<1>4. Right(Len(rdnfs))
    BY <1>1, <1>3
<1>5. Prefix(Len(rdnfs)) = rdnfs
    BY PrefixFacts
<1> QED
    BY <1>1, <1>4, <1>5

(* Below the cap a conjunction of the cross product has one of each side.  *)
LEMMA DistributeIsMadeOf ==
    ASSUME NEW T, FoldsFollowRules(T), NEW l \in Rdnfs(T), NEW r \in Rdnfs(T),
           Len(l) * Len(r) <= MaxRdnf, NEW k \in DOMAIN Distribute(l, r)
    PROVE  \E i \in DOMAIN l, j \in DOMAIN r :
               Occurs(l[i], Distribute(l, r)[k]) /\ Occurs(r[j], Distribute(l, r)[k])
<1> DEFINE row(i) == [j \in DOMAIN r |-> l[i] \o r[j]]
           rows == [i \in DOMAIN l |-> row(i)]
<1>1. /\ DOMAIN l = 1..Len(l) /\ Len(l) \in Nat /\ \A i \in DOMAIN l : l[i] \in Conjunctions(T)
      /\ DOMAIN r = 1..Len(r) /\ Len(r) \in Nat /\ \A j \in DOMAIN r : r[j] \in Conjunctions(T)
    BY DEF Rdnfs
<1>2. Distribute(l, r) = Concat(rows)
  <2>1. ~(Len(l) * Len(r) > MaxRdnf)
      BY <1>1, ConstantsAssumption
  <2> QED
      BY <2>1 DEF Distribute, TooLarge
<1>3. ASSUME NEW i \in DOMAIN l
      PROVE  row(i) \in Rdnfs(T)
  <2>1. \A j \in DOMAIN r : l[i] \o r[j] \in Conjunctions(T)
      BY <1>1, SatisfiesConcat
  <2> QED
      BY <1>1, <2>1, IsASeq DEF Rdnfs
<1>4. rows \in Seq(Rdnfs(T)) /\ DOMAIN rows = DOMAIN l /\ \A i \in DOMAIN l : rows[i] = row(i)
  <2> HIDE DEF row
  <2> QED
      BY <1>1, <1>3, IsASeq
<1>5. PICK i \in DOMAIN rows : \E m \in DOMAIN rows[i] : Concat(rows)[k] = rows[i][m]
  <2> HIDE DEF rows
  <2> QED
      BY <1>2, <1>4, ConcatIsMadeOf
<1>6. PICK j \in DOMAIN rows[i] : Concat(rows)[k] = rows[i][j]
    BY <1>5
<1>7. i \in DOMAIN l /\ j \in DOMAIN r /\ rows[i][j] = l[i] \o r[j]
    BY <1>4, <1>5, <1>6
<1>8. Occurs(l[i], l[i] \o r[j]) /\ Occurs(r[j], l[i] \o r[j])
  <2>1. l[i] \in Conjunctions(T) /\ r[j] \in Conjunctions(T)
      BY <1>1, <1>7
  <2> DEFINE c == l[i]
             d == r[j]
  <2>2. c \in Conjunctions(T) /\ d \in Conjunctions(T)
      BY <2>1
  <2> HIDE DEF c, d
  <2>3. ASSUME NEW x \in DOMAIN c PROVE x \in DOMAIN (c \o d) /\ (c \o d)[x] = c[x]
      BY <2>2 DEF Conjunctions
  <2>4. ASSUME NEW x \in DOMAIN d PROVE Len(c) + x \in DOMAIN (c \o d) /\ (c \o d)[Len(c) + x] = d[x]
      BY <2>2 DEF Conjunctions
  <2>5. Occurs(c, c \o d) /\ Occurs(d, c \o d)
      BY <2>3, <2>4 DEF Occurs
  <2> QED
      BY <2>5 DEF c, d
<1> HIDE DEF rows, row
<1> QED
    BY <1>2, <1>6, <1>7, <1>8

(* What is found in what is found in a conjunction is found there.        *)
LEMMA OccursIsTransitive ==
    ASSUME NEW a, NEW b, NEW c, Occurs(a, b), Occurs(b, c)
    PROVE  Occurs(a, c)
BY DEF Occurs

(* The same of any number of them.                                         *)
LEMMA ProductIsMadeOf ==
    ASSUME NEW T, FoldsFollowRules(T), NEW rdnfs \in Seq(Rdnfs(T)), rdnfs # <<>>, Small(rdnfs)
    PROVE  \A k \in DOMAIN Product(rdnfs), i \in DOMAIN rdnfs :
               \E m \in DOMAIN rdnfs[i] : Occurs(rdnfs[i][m], Product(rdnfs)[k])
<1> DEFINE Prefix(n) == SubSeq(rdnfs, 1, n)
           Right(n) ==
               /\ Product(Prefix(n)) \in Rdnfs(T)
               /\ \A k \in DOMAIN Product(Prefix(n)), i \in 1..n :
                      \E m \in DOMAIN rdnfs[i] : Occurs(rdnfs[i][m], Product(Prefix(n))[k])
           S == {n \in Nat : n \in 1..Len(rdnfs) => Right(n)}
<1>1. /\ Len(rdnfs) \in Nat /\ DOMAIN rdnfs = 1..Len(rdnfs) /\ Len(rdnfs) \in 1..Len(rdnfs)
      /\ \A i \in DOMAIN rdnfs : rdnfs[i] \in Rdnfs(T)
    OBVIOUS
<1>2. ASSUME NEW n \in Nat, \A m \in Nat : m < n => m \in S PROVE n \in S
  <2> SUFFICES ASSUME n \in 1..Len(rdnfs) PROVE Right(n)
      OBVIOUS
  <2>1. Prefix(n) \in Seq(Rdnfs(T)) /\ Len(Prefix(n)) = n /\ Prefix(n) # <<>>
    <3>1. Prefix(n) \in Seq(Rdnfs(T)) /\ Len(Prefix(n)) = n
        BY <1>1, PrefixFacts
    <3> HIDE DEF Prefix
    <3> QED
        BY <3>1
  <2>2. Front(Prefix(n)) = Prefix(n - 1) /\ Last(Prefix(n)) = rdnfs[n]
      BY <1>1, PrefixFacts
  <2>3. Product(Prefix(n)) =
            IF Len(Prefix(n)) = 1 THEN Prefix(n)[1]
            ELSE Distribute(Product(Front(Prefix(n))), Last(Prefix(n)))
      BY <2>1, Zenon DEF FoldsFollowRules, ProductRule
  <2>4. rdnfs[n] \in Rdnfs(T)
      BY <1>1
  <2>5. CASE n = 1
    <3>1. Product(Prefix(n)) = Prefix(n)[1]
        BY <2>1, <2>3, <2>5
    <3>2. Prefix(n)[1] = rdnfs[n]
        BY <1>1, <2>5
    <3>3. \A i : i \in 1..n <=> i = n
        BY <2>5
    <3>4. \A m \in DOMAIN rdnfs[n] : Occurs(rdnfs[n][m], rdnfs[n][m])
        BY DEF Occurs
    <3> QED
        BY <2>4, <3>1, <3>2, <3>3, <3>4
  <2>6. CASE n # 1
    <3>1. n - 1 \in Nat /\ n - 1 < n /\ n - 1 \in 1..Len(rdnfs) /\ n - 1 \in 1..(Len(rdnfs) - 1)
        BY <1>1, <2>6
    <3>2. Right(n - 1)
        BY <1>2, <3>1
    <3> DEFINE before == Product(Prefix(n - 1))
    <3>3. Product(Prefix(n)) = Distribute(before, rdnfs[n])
        BY <2>1, <2>2, <2>3, <2>6
    <3>4. Len(before) * Len(rdnfs[n]) <= MaxRdnf
      <4>1. Len(before) * Len(rdnfs[(n - 1) + 1]) <= MaxRdnf
          BY <3>1, Zenon DEF Small
      <4>2. (n - 1) + 1 = n
          BY <3>1
      <4> QED
          BY <4>1, <4>2, Zenon
    <3>5. /\ before \in Rdnfs(T)
          /\ \A k \in DOMAIN before, i \in 1..(n - 1) :
                 \E m \in DOMAIN rdnfs[i] : Occurs(rdnfs[i][m], before[k])
        BY <3>2
    <3> HIDE DEF before, Prefix
    <3>6. Distribute(before, rdnfs[n]) \in Rdnfs(T)
        BY <2>4, <3>4, <3>5, DistributeHolds, Zenon
    <3>7. ASSUME NEW k \in DOMAIN Distribute(before, rdnfs[n]), NEW i \in 1..n
          PROVE  \E m \in DOMAIN rdnfs[i] : Occurs(rdnfs[i][m], Distribute(before, rdnfs[n])[k])
      <4>1. PICK x \in DOMAIN before, y \in DOMAIN rdnfs[n] :
                /\ Occurs(before[x], Distribute(before, rdnfs[n])[k])
                /\ Occurs(rdnfs[n][y], Distribute(before, rdnfs[n])[k])
          BY <2>4, <3>4, <3>5, DistributeIsMadeOf, Zenon
      <4>2. CASE i = n
          BY <4>1, <4>2
      <4>3. CASE i # n
        <5>1. i \in 1..(n - 1)
            BY <4>3
        <5>2. PICK m \in DOMAIN rdnfs[i] : Occurs(rdnfs[i][m], before[x])
            BY <3>5, <5>1
        <5> QED
            BY <4>1, <5>2, OccursIsTransitive
      <4> QED
          BY <4>2, <4>3
    <3> QED
        BY <3>3, <3>6, <3>7
  <2> QED
      BY <2>5, <2>6
<1> HIDE DEF S
<1>3. Nat \subseteq S
    BY <1>2, Counting
<1> USE DEF S
<1>4. Right(Len(rdnfs))
    BY <1>1, <1>3
<1>5. Prefix(Len(rdnfs)) = rdnfs
    BY PrefixFacts
<1> QED
    BY <1>1, <1>4, <1>5
-----------------------------------------------------------------------------
(* What is asked of a set of types is asked of the types in it.            *)
LEMMA RulesOfPart ==
    ASSUME NEW T, NEW C, NEW D \in SUBSET T, NEW E \in SUBSET C, Rules(T, C)
    PROVE  Rules(D, E)
<1>1. Atoms(D) \subseteq Atoms(T)
    BY DEF Atoms
<1>2. \A rdnfs \in Seq(Rdnfs(D)) : rdnfs \in Seq(Rdnfs(T))
  <2>1. SignedAtoms(D) \subseteq SignedAtoms(T)
      BY <1>1 DEF SignedAtoms
  <2>2. Conjunctions(D) \subseteq Conjunctions(T)
      BY <2>1, SeqMonotonic DEF Conjunctions
  <2>3. Rdnfs(D) \subseteq Rdnfs(T)
      BY <2>2, SeqMonotonic DEF Rdnfs
  <2> QED
      BY <2>3, SeqMonotonic
<1>3. FoldsFollowRules(D)
    BY <1>2, Zenon DEF FoldsFollowRules, Rules
<1>4. RdnfFollowsRule(D, E)
  <2>1. Normalized(D, E) \subseteq Normalized(T, C)
      BY DEF Normalized
  <2> QED
      BY <2>1, Zenon DEF RdnfFollowsRule, Rules
<1>5. MeaningFollowsRule(D)
    BY Zenon DEF MeaningFollowsRule, Rules
<1>6. AtomsFollowRules(D)
    BY <1>1, Zenon DEF AtomsFollowRules, Rules
<1>7. SubtypeFollowsRule(E)
    BY Zenon DEF SubtypeFollowsRule, Rules
<1> QED
    BY <1>3, <1>4, <1>5, <1>6, <1>7 DEF Rules

(* A set that has the parts of its types is built as they are.             *)
LEMMA BuiltOfPart ==
    ASSUME NEW T, NEW D \in SUBSET T, Built(T),
           \A t \in D : /\ t.kind \in {"Union", "Inter"} => \A i \in DOMAIN t.members : t.members[i] \in D
                        /\ t.kind = "Neg" => t.of \in D
    PROVE  Built(D)
<1>1. PICK size \in [T -> Nat] : \A t \in T :
          /\ t.kind \in {"Union", "Inter"} => \A i \in DOMAIN t.members : size[t.members[i]] < size[t]
          /\ t.kind = "Neg" => size[t.of] < size[t]
    BY DEF Built
<1> DEFINE small == [t \in D |-> size[t]]
<1>2. small \in [D -> Nat] /\ \A t \in D : small[t] = size[t]
    OBVIOUS
<1> HIDE DEF small
<1>3. \A t \in D :
          /\ t.kind \in {"Union", "Inter"} => \A i \in DOMAIN t.members : small[t.members[i]] < small[t]
          /\ t.kind = "Neg" => small[t.of] < small[t]
    BY <1>1, <1>2
<1>4. ASSUME NEW t \in D, t.kind \in {"Union", "Inter"} PROVE t.members \in Seq(D)
  <2>1. t.members \in Seq(T)
      BY <1>4 DEF Built
  <2>2. DOMAIN t.members = 1..Len(t.members) /\ Len(t.members) \in Nat
      BY <2>1
  <2> DEFINE ms == t.members
  <2>3. ms \in Seq(T) /\ \A i \in 1..Len(ms) : ms[i] \in D
      BY <1>4, <2>1, <2>2
  <2> HIDE DEF ms
  <2>4. ms = [i \in 1..Len(ms) |-> ms[i]] /\ Len(ms) \in Nat
      BY <2>3
  <2>5. ms \in Seq(D)
      BY <2>3, <2>4, IsASeq
  <2> QED
      BY <2>5 DEF ms
<1>5. \A t \in D :
           /\ t.kind \in {"Top", "Never", "Union", "Inter", "Neg"} \cup AtomKinds
           /\ t.kind \in {"Union", "Inter"} => t.members \in Seq(D)
           /\ t.kind = "Neg" => t.of \in D
    BY <1>4 DEF Built
<1> QED
    BY <1>2, <1>3, <1>5 DEF Built

-----------------------------------------------------------------------------
(* Boolean combinations.                                                   *)
BooleanTypes(T) == {t \in T : Boolean(t)}

(* There is a value of no atom, one of each nominal type that is not one   *)
(* of the literals, and one of each literal.                               *)
EnoughValues(T) ==
    /\ \E v \in Values : \A t \in Atoms(T) : ~HasType(v, t)
    /\ \A t \in Atoms(T) : t.kind = "Nominal" =>
           \E v \in Values : /\ HasType(v, t)
                             /\ \A l \in Atoms(T) : l.kind = "IntLit" => ~HasType(v, l)
    /\ \A t \in Atoms(T) : t.kind = "IntLit" => \E v \in Values : HasType(v, t)

(* A conjunction that is not refuted has a value.                          *)
LEMMA ConjunctionIsComplete ==
    ASSUME NEW T, WellFormed(T), MeaningFollowsRule(T), AtomsFollowRules(T), EnoughValues(T),
           \A t \in Atoms(T) : t.kind \in {"Nominal", "IntLit"},
           NEW conj \in Conjunctions(T), ~IsConjunctionEmpty(conj, {}, 0)
    PROVE  \E v \in Values : Satisfies(v, conj)
<1> DEFINE P == Signed(conj, "+")
           N == Signed(conj, "-")
           A(i) == conj[i].atom
<1>1. \A i \in DOMAIN conj : /\ A(i) \in Atoms(T) /\ A(i) \in T /\ A(i).kind \in {"Nominal", "IntLit"}
                             /\ (i \in P /\ i \notin N) \/ (i \in N /\ i \notin P)
                             /\ i \in P <=> conj[i].sign = "+"
  <2>1. \A i \in DOMAIN conj : conj[i] \in SignedAtoms(T)
      BY DEF Conjunctions
  <2> QED
      BY <2>1 DEF SignedAtoms, Signed, Atoms
<1>2. P \subseteq DOMAIN conj /\ N \subseteq DOMAIN conj /\ DOMAIN conj \subseteq Nat
  <2>1. DOMAIN conj = 1..Len(conj)
      BY DEF Conjunctions
  <2> QED
      BY <2>1 DEF Signed
<1>3. \A i, j : Assumed(conj, i, j) = {}
  <2>1. \A k \in Signed(conj, "+") : conj[k].atom.kind # "Recursive"
      BY <1>1, <1>2
  <2> QED
      BY <2>1 DEF Assumed
<1>4. /\ \A i, j \in P : i < j => ~Disjoint(A(i), A(j))
      /\ \A i \in P, j \in N : ~IsAtomSubtype(A(i), A(j), {} \cup Assumed(conj, i, j), 0)
    BY DEF IsConjunctionEmpty
<1>5. ASSUME NEW i \in P, NEW j \in N
      PROVE  A(i) # A(j) /\ ~(A(i).kind = "IntLit" /\ A(j).kind = "Nominal" /\ A(j).id = "int")
  <2>1. ~IsAtomSubtype(A(i), A(j), {}, 0)
    <3>1. {} \cup Assumed(conj, i, j) = {}
        BY <1>3
    <3> QED
        BY <1>4, <3>1, Zenon
  <2>2. A(i) \in Atoms(T) /\ A(j) \in Atoms(T) /\ A(i).kind \in {"Nominal", "IntLit"}
      BY <1>1, <1>2
  <2> HIDE DEF A
  <2>3. ~AtomRule(A(i), A(j), {}, 0)
      BY <2>1, <2>2, Zenon DEF AtomsFollowRules
  <2>4. 0 < MaxDepth
      BY ConstantsAssumption
  <2>5. ~(IsLiteral(A(i)) \/ A(i).kind \in {"Nominal", "Var"}) \/ A(i) # A(j)
      BY <2>3, <2>4, Zenon DEF AtomRule
  <2>6. ~(IsLiteral(A(i)) /\ A(j).kind = "Nominal" /\ A(j).id = LiteralOf[A(i).kind])
      BY <2>3, <2>4, Zenon DEF AtomRule
  <2> QED
      BY <2>2, <2>5, <2>6 DEF IsLiteral, LiteralOf
<1>6. ASSUME NEW a \in Atoms(T), NEW b \in Atoms(T), ~Disjoint(a, b)
      PROVE  /\ a.kind = b.kind => a = b
             /\ a.kind = "IntLit" /\ b.kind = "Nominal" => b.id = "int"
             /\ b.kind = "IntLit" /\ a.kind = "Nominal" => a.id = "int"
  <2>1. ~DisjointRule(a, b)
      BY <1>6, Zenon DEF AtomsFollowRules
  <2>2. a.kind \in {"Nominal", "IntLit"} /\ b.kind \in {"Nominal", "IntLit"}
      OBVIOUS
  <2> QED
      BY <2>1, <2>2 DEF DisjointRule, IsLiteral, LiteralOf
<1>7. ASSUME NEW i \in P, NEW j \in P
      PROVE  /\ A(i).kind = A(j).kind => A(i) = A(j)
             /\ A(i).kind = "IntLit" /\ A(j).kind = "Nominal" => A(j).id = "int"
  <2>1. A(i) \in Atoms(T) /\ A(j) \in Atoms(T)
      BY <1>1, <1>2
  <2>2. i \in Nat /\ j \in Nat
      BY <1>2
  <2>3. CASE i = j
      BY <2>3
  <2>4. CASE i < j
    <3>1. ~Disjoint(A(i), A(j))
        BY <1>4, <2>4
    <3> HIDE DEF A
    <3> QED
        BY <1>6, <2>1, <3>1
  <2>5. CASE j < i
    <3>1. ~Disjoint(A(j), A(i))
        BY <1>4, <2>5
    <3> HIDE DEF A
    <3> QED
        BY <1>6, <2>1, <3>1
  <2> QED
      BY <2>2, <2>3, <2>4, <2>5
<1>8. SUFFICES \E v \in Values : /\ \A i \in P : HasType(v, A(i))
                                 /\ \A j \in N : ~HasType(v, A(j))
  <2>1. ASSUME NEW v \in Values, \A i \in P : HasType(v, A(i)), \A j \in N : ~HasType(v, A(j))
        PROVE  Satisfies(v, conj)
    <3>1. \A i \in DOMAIN conj : HasType(v, conj[i].atom) <=> conj[i].sign = "+"
        BY <1>1, <2>1
    <3> QED
        BY <3>1 DEF Satisfies
  <2> QED
      BY <2>1
<1> HIDE DEF P, N, A
<1>9. CASE \E p \in P : A(p).kind = "IntLit"
  <2>1. PICK p \in P : A(p).kind = "IntLit"
      BY <1>9
  <2>2. A(p) \in Atoms(T) /\ A(p) \in T
      BY <1>1, <1>2
  <2>3. PICK v \in Values : HasType(v, A(p))
      BY <2>1, <2>2 DEF EnoughValues
  <2>4. v[1] = "int" /\ v[2] = A(p).value
      BY <2>1, <2>2, <2>3, MeaningOfAtoms
  <2>5. ASSUME NEW i \in P PROVE HasType(v, A(i))
    <3>1. A(i) \in T /\ A(i).kind \in {"Nominal", "IntLit"}
        BY <1>1, <1>2
    <3>2. CASE A(i).kind = "IntLit"
        BY <1>7, <2>1, <2>3, <3>2
    <3>3. CASE A(i).kind = "Nominal"
      <4>1. A(i).id = "int"
          BY <1>7, <2>1, <3>3
      <4> QED
          BY <2>4, <3>1, <3>3, <4>1, MeaningOfAtoms
    <3> QED
        BY <3>1, <3>2, <3>3
  <2>6. ASSUME NEW j \in N, HasType(v, A(j)) PROVE FALSE
    <3>1. A(j) \in T /\ A(j).kind \in {"Nominal", "IntLit"}
        BY <1>1, <1>2
    <3>2. CASE A(j).kind = "IntLit"
      <4>1. v[2] = A(j).value
          BY <2>6, <3>1, <3>2, MeaningOfAtoms
      <4>2. A(j) = IntLit(A(j).value) /\ A(p) = IntLit(A(p).value)
          BY <2>1, <2>2, <3>1, <3>2 DEF WellFormed
      <4> QED
          BY <1>5, <2>4, <4>1, <4>2
    <3>3. CASE A(j).kind = "Nominal"
      <4>1. A(j).id = "int"
          BY <2>4, <2>6, <3>1, <3>3, MeaningOfAtoms
      <4> QED
          BY <1>5, <2>1, <3>3, <4>1
    <3> QED
        BY <3>1, <3>2, <3>3
  <2> QED
      BY <2>5, <2>6
<1>10. CASE P # {} /\ ~\E p \in P : A(p).kind = "IntLit"
  <2>1. PICK p \in P : TRUE
      BY <1>10
  <2>2. A(p) \in Atoms(T) /\ A(p) \in T /\ A(p).kind = "Nominal" /\ A(p) = Nominal(A(p).id)
      BY <1>1, <1>2, <1>10 DEF WellFormed
  <2>3. PICK v \in Values : /\ HasType(v, A(p))
                            /\ \A l \in Atoms(T) : l.kind = "IntLit" => ~HasType(v, l)
      BY <2>2 DEF EnoughValues
  <2>4. v[1] = A(p).id
      BY <2>2, <2>3, MeaningOfAtoms
  <2>5. \A i \in P : A(i) = A(p)
      BY <1>1, <1>2, <1>7, <1>10
  <2>6. ASSUME NEW j \in N, HasType(v, A(j)) PROVE FALSE
    <3>1. A(j) \in Atoms(T) /\ A(j) \in T /\ A(j).kind \in {"Nominal", "IntLit"}
        BY <1>1, <1>2
    <3>2. A(j).kind = "Nominal" /\ A(j) = Nominal(A(j).id)
        BY <2>3, <2>6, <3>1 DEF WellFormed
    <3>3. v[1] = A(j).id
        BY <2>6, <3>1, <3>2, MeaningOfAtoms
    <3>4. A(j) = A(p)
        BY <2>2, <2>4, <3>2, <3>3
    <3> QED
        BY <1>5, <3>4
  <2> QED
      BY <2>3, <2>5, <2>6
<1>11. CASE P = {}
  <2>1. PICK v \in Values : \A t \in Atoms(T) : ~HasType(v, t)
      BY DEF EnoughValues
  <2> QED
      BY <1>1, <1>2, <1>11, <2>1
<1> QED
    BY <1>9, <1>10, <1>11

(* No type is one of those that the check lets pass.                       *)
LEMMA NothingUnknown ==
    ASSUME NEW T, Built(T), NEW t \in T
    PROVE  t.kind \notin {"Error", "Unknown", "Var"}
BY DEF Built, AtomKinds

(* So a type without values that the other has not is accepted.            *)
LEMMA BooleansAreComplete ==
    ASSUME NEW T, NEW C \in SUBSET (T \X T), Built(T), WellFormed(T), Rules(T, C), EnoughValues(T),
           \A t \in Atoms(T) : t.kind \in {"Nominal", "IntLit"},
           NEW p \in C, Within(p[1], p[2])
    PROVE  IsSubtype(p[1], p[2], {}, 0)
<1> DEFINE rdnf == ToRdnf(Difference(p))
<1>1. /\ FoldsFollowRules(T) /\ RdnfFollowsRule(T, C)
      /\ MeaningFollowsRule(T) /\ AtomsFollowRules(T) /\ SubtypeFollowsRule(C)
    BY DEF Rules
<1>2. rdnf \in Rdnfs(T) /\ \A v \in Values : ~Holds(v, rdnf)
    BY <1>1, DifferenceIsExact DEF Within
<1>3. ASSUME NEW k \in DOMAIN rdnf PROVE IsConjunctionEmpty(rdnf[k], {}, 0)
  <2>1. rdnf[k] \in Conjunctions(T)
      BY <1>2 DEF Rdnfs
  <2>2. \A v \in Values : ~Satisfies(v, rdnf[k])
      BY <1>2 DEF Holds
  <2> HIDE DEF rdnf
  <2> QED
      BY <1>1, <2>1, <2>2, ConjunctionIsComplete
<1>4. p[1] \in T /\ p[2] \in T
    OBVIOUS
<1>5. SubtypeRule(p[1], p[2], {}, 0)
    BY <1>3, <1>4, NothingUnknown DEF SubtypeRule, IsRdnfEmpty, Difference
<1> QED
    BY <1>1, <1>5, Zenon DEF SubtypeFollowsRule
-----------------------------------------------------------------------------
(* Copies.                                                                 *)
Copied(C) == {p[1] : p \in {q \in C : q[1] = q[2]}}

(* What is compared with a copy of itself has no variant in it, and the    *)
(* comparison ends before the depth limit: height is how much deeper it    *)
(* goes.                                                                   *)
Copyable(C) ==
    /\ \A t \in Copied(C) :
           /\ t.kind # "NominalVariant"
           /\ t.kind = "Record" => t.tail.kind \in {"Closed", "RowVar", "Uniform"}
    /\ \E height \in [Copied(C) -> Nat] : \A t \in Copied(C) :
           /\ height[t] < MaxDepth
           /\ t.kind \in {"Union", "Inter"} => \A i \in DOMAIN t.members :
                  t.members[i] \in Copied(C) /\ height[t.members[i]] <= height[t]
           /\ t.kind = "Neg" => t.of \in Copied(C) /\ height[t.of] <= height[t]
           /\ \A q \in AsksFor(t, t) : q[1] \in Copied(C) /\ height[q[1]] < height[t]

LEMMA AtomIsBelowItself ==
    ASSUME NEW T, WellFormed(T), AtomsFollowRules(T), NEW a \in Atoms(T),
           a.kind # "NominalVariant", a.kind = "Record" => a.tail.kind \in {"Closed", "RowVar", "Uniform"},
           NEW d \in Nat, d < MaxDepth, a.kind = "App" => d + 1 < MaxDepth,
           \A q \in AsksFor(a, a) : IsSubtype(q[1], q[1], {}, d + 1)
    PROVE  IsAtomSubtype(a, a, {}, d)
<1>1. a \in T /\ a.kind \in AtomKinds
    BY DEF Atoms
<1>2. SUFFICES AtomRule(a, a, {}, d)
    BY Zenon DEF AtomsFollowRules
<1>3. CASE a.kind \in {"Nominal", "IntLit", "StrLit"}
    BY <1>3 DEF AtomRule, IsLiteral, LiteralOf
<1>4. CASE a.kind = "Fn"
  <2>1. IsSubtype(a.ret, a.ret, {}, d + 1)
    <3>1. <<a.ret, a.ret>> \in AsksFor(a, a)
        BY <1>4 DEF AsksFor
    <3> QED
        BY <3>1
  <2>2. ASSUME NEW i \in DOMAIN a.params PROVE IsSubtype(a.params[i], a.params[i], {}, d + 1)
    <3>1. <<a.params[i], a.params[i]>> \in AsksFor(a, a)
        BY <1>4 DEF AsksFor
    <3> QED
        BY <3>1
  <2>3. TakesAsMany(a, a)
    <3>1. a.params \in Seq(T)
        BY <1>1, <1>4 DEF WellFormed
    <3>2. Len(a.params) \in Nat
        BY <3>1
    <3> QED
        BY <3>2 DEF TakesAsMany
  <2>4. IsFnSubtype(a, a, {}, d)
      BY <2>1, <2>2, <2>3 DEF IsFnSubtype
  <2> QED
      BY <1>4, <2>4 DEF AtomRule
<1>5. CASE a.kind = "Record"
  <2>1. ASSUME NEW f \in DOMAIN a.fields PROVE IsSubtype(a.fields[f], a.fields[f], {}, d + 1)
    <3>1. <<a.fields[f], a.fields[f]>> \in AsksFor(a, a)
        BY <1>5 DEF AsksFor
    <3> QED
        BY <3>1
  <2>2. ASSUME a.tail.kind = "Uniform" PROVE IsSubtype(a.tail.valueType, a.tail.valueType, {}, d + 1)
    <3>1. <<a.tail.valueType, a.tail.valueType>> \in AsksFor(a, a)
        BY <1>5, <2>2 DEF AsksFor
    <3> QED
        BY <3>1
  <2>3. a.tail.kind \in {"Closed", "RowVar", "Uniform"}
      BY <1>5
  <2>4. IsRecordSubtype(a, a, {}, d)
      BY <2>1, <2>2, <2>3 DEF IsRecordSubtype
  <2> QED
      BY <1>5, <2>4 DEF AtomRule
<1>6. CASE a.kind = "App"
  <2>1. a.op \in Atoms(T) /\ a.op.kind = "Nominal" /\ TyCons[a.op.id].variance[1] \in Variances
      BY <1>1, <1>6 DEF WellFormed, Atoms, AtomKinds
  <2>2. IsAtomSubtype(a.op, a.op, {}, d + 1)
    <3>1. AtomRule(a.op, a.op, {}, d + 1)
        BY <1>6, <2>1 DEF AtomRule
    <3>2. d + 1 \in Nat
        OBVIOUS
    <3> QED
        BY <2>1, <3>1, <3>2, Zenon DEF AtomsFollowRules
  <2>3. IsSubtype(a.arg, a.arg, {}, d + 1)
    <3>1. <<a.arg, a.arg>> \in AsksFor(a, a)
        BY <1>6 DEF AsksFor
    <3> QED
        BY <3>1
  <2>4. VarianceAt(Spine(a.op)) \in Variances
      BY <1>1, <1>6, <2>1, VarianceOfApplication
  <2>5. IsAppSubtype(a, a, {}, d)
      BY <2>2, <2>3, <2>4 DEF IsAppSubtype, Variances
  <2> QED
      BY <1>6, <2>5 DEF AtomRule
<1> QED
    BY <1>1, <1>3, <1>4, <1>5, <1>6 DEF AtomKinds

(* Each conjunction of a type without itself has an atom with both signs.  *)
LEMMA CopyIsRefuted ==
    ASSUME NEW T, NEW C \in SUBSET (T \X T), NEW p \in C, p[1] = p[2],
           Built(T), FoldsFollowRules(T), MeaningFollowsRule(T), RdnfFollowsRule(T, C),
           NEW d \in Nat, \A a \in Atoms(T) : IsAtomSubtype(a, a, {}, d)
    PROVE  IsRdnfEmpty(ToRdnf(Difference(p)), {}, d)
<1> DEFINE r == ToRdnf(p[2])
           neg == ToRdnf(Neg(p[2]))
           rdnf == ToRdnf(Difference(p))
<1>1. /\ r \in Rdnfs(T) /\ neg = NegateRdnf(r) /\ neg \in Rdnfs(T)
      /\ (\A i \in DOMAIN r : r[i] # <<>>) => Small(AllOpposites(r))
    BY DifferenceIsProduct
<1>2. PICK parts \in Seq(Rdnfs(T)) :
          /\ rdnf = Product(parts) /\ Small(parts) /\ parts # <<>>
          /\ DOMAIN parts = {1, 2} /\ parts[1] = r /\ parts[2] = neg
    BY DifferenceIsProduct
<1>3. rdnf \in Rdnfs(T)
    BY DifferenceIsExact
<1> SUFFICES ASSUME NEW k \in DOMAIN rdnf PROVE IsConjunctionEmpty(rdnf[k], {}, d)
    BY DEF IsRdnfEmpty
<1> DEFINE conj == rdnf[k]
<1> HIDE DEF r, neg, rdnf
<1>4. conj \in Conjunctions(T)
    BY <1>3 DEF Rdnfs
<1>5. \A i \in DOMAIN parts : \E m \in DOMAIN parts[i] : Occurs(parts[i][m], conj)
    BY <1>2, ProductIsMadeOf
<1>6. PICK m \in DOMAIN r : Occurs(r[m], conj)
    BY <1>2, <1>5
<1>7. PICK n \in DOMAIN neg : Occurs(neg[n], conj)
    BY <1>2, <1>5
<1>8. PICK j \in DOMAIN r[m] : Occurs(<<Opposite(r[m][j])>>, neg[n])
  <2>1. \A i \in DOMAIN r : r[i] # <<>>
      BY <1>1, <1>7 DEF NegateRdnf
  <2>2. neg = Product(AllOpposites(r)) /\ Small(AllOpposites(r))
      BY <1>1, <2>1 DEF NegateRdnf, AllOpposites
  <2>3. /\ AllOpposites(r) \in Seq(Rdnfs(T)) /\ AllOpposites(r) # <<>>
        /\ \A i \in DOMAIN Opposites(r) :
               i + 1 \in DOMAIN AllOpposites(r) /\ AllOpposites(r)[i + 1] = Opposites(r)[i]
      BY <1>1, OppositesListed
  <2>4. \A i \in DOMAIN AllOpposites(r) :
            \E j \in DOMAIN AllOpposites(r)[i] : Occurs(AllOpposites(r)[i][j], neg[n])
      BY <1>7, <2>2, <2>3, ProductIsMadeOf
  <2>5. m \in DOMAIN Opposites(r)
      BY <1>6 DEF Opposites
  <2>6. PICK j \in DOMAIN Opposites(r)[m] : Occurs(Opposites(r)[m][j], neg[n])
      BY <2>3, <2>4, <2>5
  <2>7. j \in DOMAIN r[m] /\ Opposites(r)[m][j] = <<Opposite(r[m][j])>>
      BY <1>6, <2>6 DEF Opposites
  <2> QED
      BY <2>6, <2>7
<1> DEFINE s == r[m][j]
           other == <<Opposite(s)>>
<1>9. s \in SignedAtoms(T)
  <2>1. r[m] \in Conjunctions(T)
      BY <1>1, <1>6 DEF Rdnfs
  <2> QED
      BY <1>8, <2>1 DEF Conjunctions
<1>10. PICK x \in DOMAIN conj : conj[x] = s
    BY <1>6, <1>8 DEF Occurs
<1>11. PICK y \in DOMAIN conj : conj[y] = Opposite(s)
  <2>1. Occurs(other, conj)
      BY <1>7, <1>8, OccursIsTransitive
  <2>2. 1 \in DOMAIN other /\ other[1] = Opposite(s)
      OBVIOUS
  <2> HIDE DEF other, s
  <2> QED
      BY <2>1, <2>2 DEF Occurs
<1> HIDE DEF conj, s
<1>12. /\ Opposite(s).atom = s.atom /\ s.sign \in {"+", "-"}
       /\ Opposite(s).sign \in {"+", "-"} /\ Opposite(s).sign # s.sign
    BY <1>9 DEF Opposite, SignedAtoms
<1>13. PICK i \in Signed(conj, "+"), l \in Signed(conj, "-") :
           conj[i].atom = s.atom /\ conj[l].atom = s.atom
    BY <1>10, <1>11, <1>12 DEF Signed
<1>14. Assumed(conj, i, l) = {}
  <2>1. \A z \in Signed(conj, "+") : conj[z].atom.kind # "Recursive"
    <3>1. \A z \in DOMAIN conj : conj[z] \in SignedAtoms(T)
        BY <1>4 DEF Conjunctions
    <3> QED
        BY <3>1 DEF SignedAtoms, Atoms, AtomKinds, Signed
  <2> QED
      BY <2>1 DEF Assumed
<1>15. IsAtomSubtype(conj[i].atom, conj[l].atom, {} \cup Assumed(conj, i, l), d)
  <2>1. s.atom \in Atoms(T)
      BY <1>9 DEF SignedAtoms
  <2>2. {} \cup Assumed(conj, i, l) = {}
      BY <1>14
  <2> QED
      BY <1>13, <2>1, <2>2, Zenon
<1> QED
    BY <1>13, <1>15 DEF IsConjunctionEmpty, conj

(* By induction on the height.                                             *)
LEMMA CopiesAreAccepted ==
    ASSUME NEW T, NEW C \in SUBSET (T \X T), Built(T), WellFormed(T), Rules(T, C), Copyable(C)
    PROVE  \A t \in Copied(C) : IsSubtype(t, t, {}, 0)
<1>1. PICK height \in [Copied(C) -> Nat] : \A t \in Copied(C) :
          /\ height[t] < MaxDepth
          /\ t.kind \in {"Union", "Inter"} => \A i \in DOMAIN t.members :
                 t.members[i] \in Copied(C) /\ height[t.members[i]] <= height[t]
          /\ t.kind = "Neg" => t.of \in Copied(C) /\ height[t.of] <= height[t]
          /\ \A q \in AsksFor(t, t) : q[1] \in Copied(C) /\ height[q[1]] < height[t]
    BY DEF Copyable
<1>2. Copied(C) \subseteq T /\ \A t \in Copied(C) : <<t, t>> \in C
  <2>1. ASSUME NEW t \in Copied(C) PROVE t \in T /\ <<t, t>> \in C
    <3>1. PICK p \in C : p[1] = p[2] /\ p[1] = t
        BY DEF Copied
    <3>2. p = <<p[1], p[2]>> /\ p[1] \in T
        OBVIOUS
    <3> QED
        BY <3>1, <3>2
  <2> QED
      BY <2>1
<1> DEFINE Right(t) == \A d \in Nat : d + height[t] < MaxDepth => IsSubtype(t, t, {}, d)
           S == {n \in Nat : \A t \in Copied(C) : height[t] = n => Right(t)}
<1>3. ASSUME NEW n \in Nat, \A m \in Nat : m < n => m \in S PROVE n \in S
  <2> SUFFICES ASSUME NEW t \in Copied(C), height[t] = n, NEW d \in Nat, d + n < MaxDepth
               PROVE  IsSubtype(t, t, {}, d)
      OBVIOUS
  <2> DEFINE D == {u \in Copied(C) : height[u] <= n}
             E == {<<u, u>> : u \in D}
             p == <<t, t>>
  <2>1. D \in SUBSET T /\ E \in SUBSET C /\ E \in SUBSET (D \X D) /\ p \in E /\ p[1] = t /\ p[2] = t
      BY <1>2
  <2>2. Built(D)
    <3>1. \A u \in D : height[u] \in Nat /\ height[u] <= n /\ u \in Copied(C)
        OBVIOUS
    <3>2. \A u \in Copied(C), w \in D : height[u] <= height[w] => u \in D
        BY <3>1
    <3> HIDE DEF D
    <3>3. \A u \in D :
              /\ u.kind \in {"Union", "Inter"} => \A i \in DOMAIN u.members : u.members[i] \in D
              /\ u.kind = "Neg" => u.of \in D
        BY <1>1, <3>1, <3>2
    <3> QED
        BY <2>1, <3>3, BuiltOfPart
  <2>3. ASSUME NEW a \in Atoms(D) PROVE IsAtomSubtype(a, a, {}, d)
    <3>1. a \in Copied(C) /\ height[a] \in Nat /\ height[a] <= n /\ a \in Atoms(T)
        BY <1>2 DEF Atoms
    <3>2. d < MaxDepth /\ d + 1 \in Nat
        BY <3>1, ConstantsAssumption
    <3>3. ASSUME NEW q \in AsksFor(a, a)
          PROVE  IsSubtype(q[1], q[1], {}, d + 1) /\ d + 1 < MaxDepth
      <4>1. q[1] \in Copied(C) /\ height[q[1]] < height[a]
          BY <1>1, <3>1
      <4>2. height[q[1]] \in Nat
          BY <4>1
      <4>3. height[q[1]] < n /\ (d + 1) + height[q[1]] < MaxDepth
          BY <3>1, <4>1, <4>2, ConstantsAssumption
      <4>4. Right(q[1])
          BY <1>3, <4>1, <4>2, <4>3
      <4> QED
          BY <3>2, <4>2, <4>3, <4>4, ConstantsAssumption
    <3>4. a.kind = "App" => d + 1 < MaxDepth
      <4>1. a.kind = "App" => <<a.arg, a.arg>> \in AsksFor(a, a)
          BY DEF AsksFor
      <4> QED
          BY <3>3, <4>1
    <3>5. a.kind # "NominalVariant" /\ (a.kind = "Record" => a.tail.kind \in {"Closed", "RowVar", "Uniform"})
        BY <3>1 DEF Copyable
    <3>6. AtomsFollowRules(T)
        BY DEF Rules
    <3> HIDE DEF Right, S, D
    <3> QED
        BY <3>1, <3>2, <3>3, <3>4, <3>5, <3>6, AtomIsBelowItself
  <2> HIDE DEF D, E, S, Right
  <2>4. Rules(D, E)
      BY <2>1, RulesOfPart
  <2>5. /\ FoldsFollowRules(D) /\ MeaningFollowsRule(D) /\ RdnfFollowsRule(D, E) /\ SubtypeFollowsRule(E)
      BY <2>4 DEF Rules
  <2>6. IsRdnfEmpty(ToRdnf(Difference(p)), {}, d)
    <3> HIDE DEF p
    <3>1. p \in E /\ p[1] = p[2]
        BY <2>1
    <3> QED
        BY <2>1, <2>2, <2>3, <2>5, <3>1, CopyIsRefuted
  <2>7. Difference(p) = Inter(<<t, Neg(t)>>)
      BY DEF Difference
  <2>8. SubtypeRule(t, t, {}, d)
    <3>1. t.kind \notin {"Error", "Unknown", "Var"}
        BY <1>2, NothingUnknown
    <3> HIDE DEF p
    <3> QED
        BY <2>6, <2>7, <3>1 DEF SubtypeRule
  <2> QED
      BY <2>1, <2>5, <2>8, Zenon DEF SubtypeFollowsRule, p
<1> HIDE DEF S
<1>4. Nat \subseteq S
    BY <1>3, Counting
<1> USE DEF S
<1>5. ASSUME NEW t \in Copied(C) PROVE IsSubtype(t, t, {}, 0)
  <2>1. height[t] \in Nat /\ height[t] < MaxDepth
      BY <1>1
  <2>2. 0 \in Nat /\ 0 + height[t] < MaxDepth
      BY <2>1, ConstantsAssumption
  <2>3. Right(t)
      BY <1>4, <2>1
  <2> QED
      BY <2>2, <2>3
<1> QED
    BY <1>5
-----------------------------------------------------------------------------
(* What is_subtype_bas refuses is no subtype, of the types of which the    *)
(* documentation says so: a type made of nominal ones and integers by      *)
(* union, intersection and complement is accepted below another if it has  *)
(* no value that the other has not, and a type of any kind but a recursive *)
(* one is accepted below its copy, if no normal form reaches the cap, none *)
(* of those compared with its copy has a variant in it or goes as deep as  *)
(* the depth limit, and there are values that tell the types apart.        *)
THEOREM ContainedIsAccepted ==
    ASSUME NEW T, NEW C \in SUBSET (T \X T), Queries \subseteq C,
           Built(T), WellFormed(T), Rules(T, C),
           \A t \in T : Boolean(t) <=> BooleanRule(t),
           EnoughValues(BooleanTypes(T)), Copyable(C)
    PROVE  AskSpec => []Complete
<1> DEFINE Asked ==
        /\ question \in Queries \cup {<<>>}
        /\ question # <<>> /\ IsSubtypeBas(question[1], question[2]) => answer = Top
<1>1. AskInit => Asked
    BY DEF AskInit
<1>2. Asked /\ [AskNext]_askVars => Asked'
  <2> SUFFICES ASSUME Asked, [AskNext]_askVars PROVE Asked'
      OBVIOUS
  <2>1. ASSUME NEW p \in Queries, Compare(p) PROVE Asked'
    <3>1. question' = p /\ answer' = IF IsSubtypeBas(p[1], p[2]) THEN Top ELSE Never
        BY <2>1 DEF Compare
    <3> QED
        BY <3>1
  <2>2. CASE UNCHANGED askVars
      BY <2>2 DEF askVars
  <2> QED
      BY <2>1, <2>2 DEF AskNext
<1>3. ASSUME NEW p \in C, p[1] = p[2] PROVE IsSubtypeBas(p[1], p[2])
  <2>1. p[1] \in Copied(C)
      BY <1>3 DEF Copied
  <2>2. IsSubtype(p[1], p[1], {}, 0)
      BY <2>1, CopiesAreAccepted
  <2> QED
      BY <1>3, <2>2 DEF IsSubtypeBas
<1>4. ASSUME NEW p \in C, Boolean(p[1]), Boolean(p[2]), Within(p[1], p[2]) PROVE IsSubtypeBas(p[1], p[2])
  <2> DEFINE D == BooleanTypes(T)
             E == {q \in C : q[1] \in D /\ q[2] \in D}
  <2>1. D \in SUBSET T /\ E \in SUBSET C
      BY DEF BooleanTypes
  <2>2. E \in SUBSET (D \X D)
    <3>1. ASSUME NEW q \in E PROVE q \in D \X D
      <4>1. q = <<q[1], q[2]>> /\ q[1] \in D /\ q[2] \in D
          OBVIOUS
      <4> QED
          BY <4>1
    <3> QED
        BY <3>1
  <2>3. p \in E
      BY <1>4 DEF BooleanTypes
  <2>4. \A t \in D : BooleanRule(t) /\ t \in T
      BY DEF BooleanTypes
  <2>5. Built(D)
    <3>1. ASSUME NEW t \in D, t.kind \in {"Union", "Inter"}, NEW i \in DOMAIN t.members
          PROVE  t.members[i] \in D
      <4>1. Boolean(t.members[i])
          BY <2>4, <3>1 DEF BooleanRule
      <4>2. t.members \in Seq(T)
          BY <2>4, <3>1 DEF Built
      <4> QED
          BY <3>1, <4>1, <4>2 DEF BooleanTypes
    <3>2. ASSUME NEW t \in D, t.kind = "Neg" PROVE t.of \in D
      <4>1. Boolean(t.of)
          BY <2>4, <3>2 DEF BooleanRule
      <4>2. t.of \in T
          BY <2>4, <3>2 DEF Built
      <4> QED
          BY <4>1, <4>2 DEF BooleanTypes
    <3> HIDE DEF D
    <3> QED
        BY <2>1, <3>1, <3>2, BuiltOfPart
  <2>6. \A t \in Atoms(D) : t.kind \in {"Nominal", "IntLit"}
    <3>1. ASSUME NEW t \in Atoms(D) PROVE t.kind \in {"Nominal", "IntLit"}
      <4>1. BooleanRule(t) /\ t.kind \in AtomKinds
          BY <2>4 DEF Atoms
      <4> QED
          BY <4>1 DEF BooleanRule, AtomKinds
    <3> QED
        BY <3>1
  <2>7. WellFormed(D)
    <3>1. ASSUME NEW t \in D
          PROVE  /\ t.kind = "Nominal" => t = Nominal(t.id) /\ t.id \notin Names
                 /\ t.kind = "IntLit" => t = IntLit(t.value)
                 /\ t.kind \notin {"NominalVariant", "Record", "Fn", "App"}
      <4>1. BooleanRule(t) /\ t \in T
          BY <2>4
      <4>2. t.kind \notin {"NominalVariant", "Record", "Fn", "App"}
          BY <4>1 DEF BooleanRule
      <4> QED
          BY <4>1, <4>2 DEF WellFormed
    <3> HIDE DEF D
    <3> QED
        BY <3>1 DEF WellFormed
  <2>8. EnoughValues(D)
      OBVIOUS
  <2> HIDE DEF D, E
  <2>9. Rules(D, E)
      BY <2>1, RulesOfPart
  <2>10. IsSubtype(p[1], p[2], {}, 0)
      BY <1>4, <2>2, <2>3, <2>5, <2>6, <2>7, <2>8, <2>9, BooleansAreComplete
  <2> QED
      BY <2>10 DEF IsSubtypeBas
<1>5. Asked => Complete
  <2> SUFFICES ASSUME Asked, question # <<>>,
                      question[1] = question[2] \/ (Boolean(question[1]) /\ Boolean(question[2])),
                      Within(question[1], question[2])
               PROVE  answer = Top
      BY DEF Complete, Accepted
  <2>1. question \in C
      OBVIOUS
  <2>2. IsSubtypeBas(question[1], question[2])
      BY <1>3, <1>4, <2>1
  <2> QED
      BY <2>2
<1> QED
    BY <1>1, <1>2, <1>5, PTL DEF AskSpec

-----------------------------------------------------------------------------
(* THE NORMALIZATION OF UNIONS                                             *)

(* A set of types that has the members of its unions, and the lists.       *)
Closed(Types) ==
    /\ Unions \subseteq Seq(Types)
    /\ \A t \in Types : t.kind = "Union" => t.members \in Seq(Types)

Of(v, s) == \E i \in DOMAIN s : HasType(v, s[i])

(* What the meaning of types says of unions.                               *)
UnionsMeanMembers(Types) ==
    \A v \in Values :
        /\ ~HasType(v, Never)
        /\ \A ms \in Seq(Types) : HasType(v, Union(ms)) <=> Of(v, ms)
        /\ \A t \in Types : t.kind = "Union" => (HasType(v, t) <=> Of(v, t.members))

(* The subtype check accepts no type that has other values.                *)
VerdictsAreSound(Types) ==
    \A t, u \in Types : IsSubtypeBas(t, u) => \A v \in Values : HasType(v, t) => HasType(v, u)

NormTyped(Types) ==
    /\ doing \in {"nothing", "flatten", "dedup", "strike", "collect", "done"}
    /\ members \in Seq(Types) /\ todo \in Seq(Types)
    /\ list \in Seq(Types) /\ reduced \in Seq(Types)
    /\ keep \subseteq DOMAIN list
    /\ at \in Nat \ {0}
    /\ doing = "nothing" => list = <<>>
    /\ doing \in {"nothing", "flatten", "dedup", "strike"} => reduced = <<>>
    /\ doing \in {"nothing", "flatten", "dedup"} => at = 1 /\ keep = {}

Kept(v, from) == \E i \in keep : i >= from /\ HasType(v, list[i])

Meaning ==
    \A v \in Values :
        /\ doing \in {"flatten", "dedup"} => (Of(v, members) <=> Of(v, todo) \/ Of(v, list))
        /\ doing = "strike" => (Of(v, members) <=> Kept(v, 1))
        /\ doing = "collect" => (Of(v, members) <=> Of(v, reduced) \/ Kept(v, at))
        /\ doing = "done" => (Of(v, members) <=> Of(v, reduced))

-----------------------------------------------------------------------------
(* LISTS                                                                   *)

LEMMA OfConcat ==
    ASSUME NEW T, NEW s \in Seq(T), NEW t \in Seq(T), NEW v
    PROVE  Of(v, s \o t) <=> Of(v, s) \/ Of(v, t)
<1>1. /\ DOMAIN (s \o t) = 1..(Len(s) + Len(t)) /\ DOMAIN s = 1..Len(s) /\ DOMAIN t = 1..Len(t)
      /\ Len(s) \in Nat /\ Len(t) \in Nat
    OBVIOUS
<1>2. \A i \in DOMAIN s : (s \o t)[i] = s[i]
    OBVIOUS
<1>3. \A i \in DOMAIN t : (s \o t)[Len(s) + i] = t[i]
    OBVIOUS
<1>4. ASSUME NEW i \in DOMAIN (s \o t), HasType(v, (s \o t)[i]) PROVE Of(v, s) \/ Of(v, t)
  <2>1. CASE i \in DOMAIN s
    BY <1>2, <1>4, <2>1 DEF Of
  <2>2. CASE i \notin DOMAIN s
    <3>1. i - Len(s) \in DOMAIN t /\ Len(s) + (i - Len(s)) = i
        BY <1>1, <2>2
    <3>2. (s \o t)[i] = t[i - Len(s)]
        BY <1>3, <3>1
    <3> QED
        BY <1>4, <3>1, <3>2 DEF Of
  <2> QED
      BY <2>1, <2>2
<1>5. ASSUME NEW i \in DOMAIN s, HasType(v, s[i]) PROVE Of(v, s \o t)
    BY <1>1, <1>2, <1>5 DEF Of
<1>6. ASSUME NEW i \in DOMAIN t, HasType(v, t[i]) PROVE Of(v, s \o t)
  <2>1. Len(s) + i \in DOMAIN (s \o t)
      BY <1>1
  <2> QED
      BY <1>3, <1>6, <2>1 DEF Of
<1> QED
    BY <1>4, <1>5, <1>6 DEF Of

LEMMA OfOne ==
    ASSUME NEW T, NEW x \in T, NEW v
    PROVE  Of(v, <<x>>) <=> HasType(v, x)
BY DEF Of

LEMMA OfAppend ==
    ASSUME NEW T, NEW s \in Seq(T), NEW x \in T, NEW v
    PROVE  Of(v, Append(s, x)) <=> Of(v, s) \/ HasType(v, x)
<1>1. Append(s, x) = s \o <<x>> /\ <<x>> \in Seq(T)
    BY AppendIsConcat
<1> QED
    BY <1>1, OfConcat, OfOne

LEMMA OfLast ==
    ASSUME NEW T, NEW s \in Seq(T), s # <<>>, NEW v
    PROVE  /\ Front(s) \in Seq(T) /\ Last(s) \in T
           /\ Of(v, s) <=> Of(v, Front(s)) \/ HasType(v, Last(s))
<1>1. Front(s) \in Seq(T) /\ Last(s) \in T
    BY DEF Front, Last
<1>2. Append(Front(s), Last(s)) = s
    BY DEF Front, Last
<1> QED
    BY <1>1, <1>2, OfAppend

LEMMA OfHead ==
    ASSUME NEW T, NEW s \in Seq(T), s # <<>>, NEW v
    PROVE  /\ Tail(s) \in Seq(T) /\ Head(s) \in T
           /\ Of(v, s) <=> Of(v, Tail(s)) \/ HasType(v, Head(s))
<1>1. Tail(s) \in Seq(T) /\ Head(s) \in T
    OBVIOUS
<1>2. s = <<Head(s)>> \o Tail(s) /\ <<Head(s)>> \in Seq(T)
    OBVIOUS
<1>3. Of(v, <<Head(s)>> \o Tail(s)) <=> Of(v, <<Head(s)>>) \/ Of(v, Tail(s))
    BY <1>1, <1>2, OfConcat
<1>4. Of(v, <<Head(s)>>) <=> HasType(v, Head(s))
    BY <1>1, OfOne
<1> QED
    BY <1>1, <1>2, <1>3, <1>4

LEMMA OfReverse ==
    ASSUME NEW T, NEW s \in Seq(T), NEW v
    PROVE  Reverse(s) \in Seq(T) /\ (Of(v, Reverse(s)) <=> Of(v, s))
<1>1. /\ DOMAIN Reverse(s) = 1..Len(s) /\ DOMAIN s = 1..Len(s) /\ Len(s) \in Nat
      /\ \A i \in 1..Len(s) : Len(s) - i + 1 \in 1..Len(s) /\ Reverse(s)[i] = s[Len(s) - i + 1]
    BY DEF Reverse
<1>2. Reverse(s) \in Seq(T)
    BY <1>1, IsASeq DEF Reverse
<1>3. ASSUME NEW i \in 1..Len(s), HasType(v, Reverse(s)[i]) PROVE Of(v, s)
    BY <1>1, <1>3 DEF Of
<1>4. ASSUME NEW i \in 1..Len(s), HasType(v, s[i]) PROVE Of(v, Reverse(s))
  <2>1. Len(s) - (Len(s) - i + 1) + 1 = i
      BY <1>1
  <2>2. Reverse(s)[Len(s) - i + 1] = s[i]
      BY <1>1, <2>1
  <2> QED
      BY <1>1, <1>4, <2>2 DEF Of
<1> QED
    BY <1>1, <1>2, <1>3, <1>4 DEF Of

LEMMA OfEmpty == \A v : ~Of(v, <<>>)
BY DEF Of

LEMMA OfMember ==
    ASSUME NEW T, NEW s \in Seq(T), NEW x \in ToSet(s), NEW v, HasType(v, x)
    PROVE  Of(v, s)
BY DEF Of, ToSet

-----------------------------------------------------------------------------
(* TYPES                                                                   *)

LEMMA InitTyped ==
    ASSUME NEW T, Init
    PROVE  NormTyped(T)
BY EmptySeq DEF Init, NormTyped

LEMMA StepTyped ==
    ASSUME NEW T, Closed(T), NormTyped(T), [Next]_vars
    PROVE  NormTyped(T)'
<1>1. ASSUME NEW ms \in Unions, NEW c \in BOOLEAN, Normalize(ms, c)
      PROVE  NormTyped(T)'
    BY <1>1 DEF Normalize, Closed, NormTyped
<1>2. CASE Flatten
  <2>1. CASE todo # <<>>
    <3>1. Front(todo) \in Seq(T) /\ Last(todo) \in T
        BY <2>1, OfLast DEF NormTyped
    <3>2. list' \in Seq(T) /\ todo' \in Seq(T)
      <4>1. CASE Last(todo).kind = "Union"
        <5>1. Last(todo).members \in Seq(T)
            BY <3>1, <4>1 DEF Closed
        <5>2. list' = list \o Last(todo).members
            BY <1>2, <2>1, <4>1 DEF Flatten
        <5> QED
            BY <1>2, <2>1, <3>1, <5>1, <5>2, ConcatProperties DEF Flatten, NormTyped
      <4>2. CASE Last(todo).kind # "Union"
        <5>1. list' = list \o <<Last(todo)>>
            BY <1>2, <2>1, <4>2 DEF Flatten
        <5> QED
            BY <1>2, <2>1, <3>1, <5>1, ConcatProperties DEF Flatten, NormTyped
      <4> QED
          BY <4>1, <4>2
    <3>3. keep = {} /\ doing' = doing
        BY <1>2, <2>1 DEF Flatten, NormTyped
    <3> QED
        BY <1>2, <3>2, <3>3 DEF Flatten, NormTyped
  <2>2. CASE todo = <<>>
    <3>1. Reverse(list) \in Seq(T)
        BY OfReverse DEF NormTyped
    <3> QED
        BY <1>2, <2>2, <3>1 DEF Flatten, NormTyped
  <2> QED
      BY <2>1, <2>2
<1>3. CASE Dedup
  <2>1. CASE todo # <<>>
    <3>1. Tail(todo) \in Seq(T) /\ Head(todo) \in T
        BY <2>1, OfHead DEF NormTyped
    <3>2. list' = list \/ list' = Append(list, Head(todo))
        BY <1>3, <2>1 DEF Dedup
    <3>3. list' \in Seq(T)
      <4>1. list \in Seq(T)
          BY DEF NormTyped
      <4> QED
          BY <3>1, <3>2, <4>1, AppendProperties
    <3>4. todo' \in Seq(T) /\ keep' = {} /\ doing' = doing
        BY <1>3, <2>1, <3>1 DEF Dedup, NormTyped
    <3> QED
        BY <1>3, <3>3, <3>4 DEF Dedup, NormTyped
  <2>2. CASE todo = <<>>
      BY <1>3, <2>2 DEF Dedup, NormTyped
  <2> QED
      BY <2>1, <2>2
<1>4. CASE Strike
    BY <1>4 DEF Strike, NormTyped
<1>5. CASE Struck
    BY <1>5 DEF Struck, NormTyped
<1>6. CASE Collect
  <2>1. at \in DOMAIN list => list[at] \in T
      BY ElementOfSeq DEF NormTyped
  <2>2. reduced' = reduced \/ (at \in DOMAIN list /\ reduced' = Append(reduced, list[at]))
      BY <1>6 DEF Collect
  <2>3. reduced' \in Seq(T)
    <3>1. reduced \in Seq(T)
        BY DEF NormTyped
    <3> QED
        BY <2>1, <2>2, <3>1, AppendProperties
  <2>4. at' \in Nat \ {0} /\ doing' \in {"collect", "done"}
      BY <1>6 DEF Collect, NormTyped
  <2> QED
      BY <1>6, <2>3, <2>4 DEF Collect, NormTyped
<1>7. CASE UNCHANGED vars
    BY <1>7 DEF vars, NormTyped
<1> QED
    BY <1>1, <1>2, <1>3, <1>4, <1>5, <1>6, <1>7 DEF Next

LEMMA Typed ==
    ASSUME NEW T, Closed(T)
    PROVE  Spec => []NormTyped(T)
<1>1. Init => NormTyped(T)
    BY InitTyped
<1>2. NormTyped(T) /\ [Next]_vars => NormTyped(T)'
    BY StepTyped
<1> QED
    BY <1>1, <1>2, PTL DEF Spec

-----------------------------------------------------------------------------
(* THE MEANING                                                             *)

LEMMA FlattenKeepsMeaning ==
    ASSUME NEW T, Closed(T), UnionsMeanMembers(T), NormTyped(T), Meaning, Flatten
    PROVE  Meaning'
<1> SUFFICES ASSUME NEW v \in Values
             PROVE  doing' \in {"flatten", "dedup"} /\ (Of(v, members) <=> Of(v, todo') \/ Of(v, list'))
    BY DEF Meaning, Flatten
<1>1. /\ todo \in Seq(T) /\ list \in Seq(T)
      /\ Of(v, members) <=> Of(v, todo) \/ Of(v, list)
    BY DEF Flatten, NormTyped, Meaning
<1>2. CASE todo # <<>>
  <2>1. /\ Last(todo) \in T
        /\ Of(v, todo) <=> Of(v, todo') \/ HasType(v, Last(todo))
      BY <1>1, <1>2, OfLast DEF Flatten
  <2>2. Of(v, list') <=> Of(v, list) \/ HasType(v, Last(todo))
    <3>1. CASE Last(todo).kind = "Union"
      <4>1. list' = list \o Last(todo).members
          BY <1>2, <3>1 DEF Flatten
      <4>2. Last(todo).members \in Seq(T) /\ (HasType(v, Last(todo)) <=> Of(v, Last(todo).members))
          BY <2>1, <3>1 DEF Closed, UnionsMeanMembers
      <4> QED
          BY <1>1, <4>1, <4>2, OfConcat
    <3>2. CASE Last(todo).kind # "Union"
      <4>1. list' = list \o <<Last(todo)>> /\ <<Last(todo)>> \in Seq(T)
          BY <1>2, <2>1, <3>2 DEF Flatten
      <4> QED
          BY <1>1, <2>1, <4>1, OfConcat, OfOne
    <3> QED
        BY <3>1, <3>2
  <2> QED
      BY <1>1, <1>2, <2>1, <2>2 DEF Flatten
<1>3. CASE todo = <<>>
  <2>1. doing' = "dedup" /\ todo' = Reverse(list) /\ list' = <<>>
      BY <1>3 DEF Flatten
  <2> QED
      BY <1>1, <1>3, <2>1, OfReverse, OfEmpty
<1> QED
    BY <1>2, <1>3

LEMMA DedupKeepsMeaning ==
    ASSUME NEW T, NormTyped(T), Meaning, Dedup
    PROVE  Meaning'
<1> SUFFICES ASSUME NEW v \in Values
             PROVE  \/ doing' = "dedup" /\ (Of(v, members) <=> Of(v, todo') \/ Of(v, list'))
                    \/ doing' = "strike" /\ (Of(v, members) <=> Kept(v, 1)')
                    \/ doing' = "collect" /\ (Of(v, members) <=> Of(v, reduced') \/ Kept(v, at)')
    BY DEF Meaning, Dedup
<1>1. /\ todo \in Seq(T) /\ list \in Seq(T)
      /\ Of(v, members) <=> Of(v, todo) \/ Of(v, list)
    BY DEF Dedup, NormTyped, Meaning
<1>2. CASE todo # <<>>
  <2>1. /\ Head(todo) \in T
        /\ Of(v, todo) <=> Of(v, todo') \/ HasType(v, Head(todo))
      BY <1>1, <1>2, OfHead DEF Dedup
  <2>2. Of(v, list') <=> Of(v, list) \/ HasType(v, Head(todo))
    <3>1. CASE Head(todo) \in ToSet(list)
        BY <1>1, <1>2, <3>1, OfMember DEF Dedup
    <3>2. CASE Head(todo) \notin ToSet(list)
        BY <1>1, <1>2, <2>1, <3>2, OfAppend DEF Dedup
    <3> QED
        BY <3>1, <3>2
  <2>3. doing' = "dedup"
      BY <1>2 DEF Dedup
  <2> QED
      BY <1>1, <2>1, <2>2, <2>3
<1>3. CASE todo = <<>>
  <2>1. keep' = DOMAIN list /\ list' = list /\ doing' \in {"strike", "collect"}
      BY <1>3 DEF Dedup
  <2>2. reduced' = <<>> /\ at' = 1
      BY DEF Dedup, NormTyped
  <2>3. \A i \in DOMAIN list : i >= 1
      BY <1>1
  <2>4. Kept(v, 1)' <=> Of(v, list)
      BY <2>1, <2>3 DEF Kept, Of
  <2>5. Kept(v, at)' <=> Of(v, list)
      BY <2>1, <2>2, <2>3 DEF Kept, Of
  <2> QED
      BY <1>1, <1>3, <2>1, <2>2, <2>4, <2>5, OfEmpty
<1> QED
    BY <1>2, <1>3

LEMMA StrikeKeepsMeaning ==
    ASSUME NEW T, VerdictsAreSound(T), NormTyped(T), Meaning, Strike
    PROVE  Meaning'
<1> SUFFICES ASSUME NEW v \in Values
             PROVE  Kept(v, 1) <=> Kept(v, 1)'
    BY DEF Meaning, Strike
<1>1. keep' \subseteq keep /\ list' = list
    BY DEF Strike
<1>2. ASSUME NEW j \in keep, j \notin keep', HasType(v, list[j]) PROVE Kept(v, 1)'
  <2>1. at \in keep /\ j \in Below(at)
      BY <1>2 DEF Strike
  <2>2. at \in keep' /\ at >= 1
      BY <2>1 DEF Strike, Below, NormTyped
  <2>3. list[j] \in T /\ list[at] \in T /\ IsSubtypeBas(list[j], list[at])
      BY <2>1, ElementOfSeq DEF Below, NormTyped
  <2>4. HasType(v, list[at])
      BY <1>2, <2>3 DEF VerdictsAreSound
  <2> QED
      BY <1>1, <2>2, <2>4 DEF Kept
<1> QED
    BY <1>1, <1>2 DEF Kept

LEMMA CollectKeepsMeaning ==
    ASSUME NEW T, NormTyped(T), Meaning, Collect
    PROVE  Meaning'
<1> SUFFICES ASSUME NEW v \in Values
             PROVE  \/ doing' = "collect" /\ (Of(v, members) <=> Of(v, reduced') \/ Kept(v, at)')
                    \/ doing' = "done" /\ (Of(v, members) <=> Of(v, reduced'))
    BY DEF Meaning, Collect
<1>1. Of(v, members) <=> Of(v, reduced) \/ Kept(v, at)
    BY DEF Meaning, Collect
<1>2. CASE at \in DOMAIN list
  <2>1. at' = at + 1 /\ doing' = "collect" /\ UNCHANGED <<keep, list>>
      BY <1>2 DEF Collect
  <2>2. keep \subseteq Nat /\ at \in Nat
      BY DEF NormTyped
  <2>3. Kept(v, at) <=> Kept(v, at)' \/ (at \in keep /\ HasType(v, list[at]))
      BY <2>1, <2>2 DEF Kept
  <2>4. list[at] \in T /\ reduced \in Seq(T)
      BY <1>2, ElementOfSeq DEF NormTyped
  <2>5. CASE at \in keep
    <3>1. reduced' = Append(reduced, list[at])
        BY <1>2, <2>5 DEF Collect
    <3>2. Of(v, reduced') <=> Of(v, reduced) \/ HasType(v, list[at])
        BY <2>4, <3>1, OfAppend
    <3> QED
        BY <1>1, <2>1, <2>3, <2>5, <3>2
  <2>6. CASE at \notin keep
    <3>1. reduced' = reduced
        BY <1>2, <2>6 DEF Collect
    <3> QED
        BY <1>1, <2>1, <2>3, <2>6, <3>1
  <2> QED
      BY <2>5, <2>6
<1>3. CASE at \notin DOMAIN list
  <2>1. doing' = "done" /\ reduced' = reduced
      BY <1>3 DEF Collect
  <2>2. DOMAIN list = 1..Len(list) /\ Len(list) \in Nat /\ at \in Nat \ {0} /\ keep \subseteq DOMAIN list
      BY DEF NormTyped
  <2>3. \A i \in keep : ~(i >= at)
      BY <1>3, <2>2
  <2>4. ~Kept(v, at)
      BY <2>3 DEF Kept
  <2> QED
      BY <1>1, <2>1, <2>4
<1> QED
    BY <1>2, <1>3

LEMMA StepMeaning ==
    ASSUME NEW T, Closed(T), UnionsMeanMembers(T), VerdictsAreSound(T),
           NormTyped(T), Meaning, [Next]_vars
    PROVE  Meaning'
<1>1. ASSUME NEW ms \in Unions, NEW c \in BOOLEAN, Normalize(ms, c)
      PROVE  Meaning'
  <2>1. doing' = "flatten" /\ members' = ms /\ todo' = ms /\ list' = <<>>
      BY <1>1 DEF Normalize, NormTyped
  <2> QED
      BY <2>1, OfEmpty DEF Meaning
<1>2. CASE Struck
  <2>1. doing = "strike" /\ doing' = "collect" /\ at' = 1 /\ reduced' = <<>>
        /\ UNCHANGED <<members, keep, list>>
      BY <1>2 DEF Struck, NormTyped
  <2>2. \A v : Kept(v, at)' <=> Kept(v, 1)
      BY <2>1 DEF Kept
  <2>3. \A v : Of(v, members') <=> Of(v, members)
      BY <2>1
  <2> QED
      BY <2>1, <2>2, <2>3, OfEmpty DEF Meaning
<1>3. CASE UNCHANGED vars
  <2>1. \A v : Kept(v, 1)' <=> Kept(v, 1)
      BY <1>3 DEF vars, Kept
  <2>2. \A v : Kept(v, at)' <=> Kept(v, at)
      BY <1>3 DEF vars, Kept
  <2> QED
      BY <1>3, <2>1, <2>2 DEF vars, Meaning
<1> QED
    BY <1>1, <1>2, <1>3, FlattenKeepsMeaning, DedupKeepsMeaning, StrikeKeepsMeaning,
       CollectKeepsMeaning DEF Next

(* What is returned means its members.                                     *)
LEMMA NormalizedMeansReduced ==
    ASSUME NEW T, UnionsMeanMembers(T), reduced \in Seq(T), NEW v \in Values
    PROVE  HasType(v, NormalizedUnion) <=> Of(v, reduced)
<1>1. Len(reduced) \in Nat /\ DOMAIN reduced = 1..Len(reduced)
    OBVIOUS
<1>2. CASE Len(reduced) = 0
    BY <1>1, <1>2 DEF NormalizedUnion, Of, UnionsMeanMembers
<1>3. CASE Len(reduced) = 1
  <2>1. NormalizedUnion = reduced[1]
      BY <1>3 DEF NormalizedUnion
  <2>2. DOMAIN reduced = {1}
      BY <1>1, <1>3
  <2> QED
      BY <2>1, <2>2 DEF Of
<1>4. CASE Len(reduced) \notin {0, 1}
    BY <1>4 DEF NormalizedUnion, UnionsMeanMembers
<1> QED
    BY <1>2, <1>3, <1>4

(* If the subtype check accepts no type with other values, of any set of   *)
(* types that has the members of its unions, then the normalized union of  *)
(* any list of them has exactly the values of its members                  *)
(* (typevalue_normalize_union_ctx, with a context or without).             *)
THEOREM UnionsKeepTheirMeaning ==
    ASSUME NEW T, Closed(T), UnionsMeanMembers(T), VerdictsAreSound(T)
    PROVE  Spec => []UnionKeepsMeaning
<1>1. Init => Meaning
    BY DEF Init, Meaning
<1>2. NormTyped(T) /\ Meaning /\ [Next]_vars => Meaning'
    BY StepMeaning
<1>3. NormTyped(T) /\ Meaning => UnionKeepsMeaning
    BY NormalizedMeansReduced DEF NormTyped, Meaning, UnionKeepsMeaning, Of
<1> QED
    BY <1>1, <1>2, <1>3, Typed, PTL DEF Spec

-----------------------------------------------------------------------------
(* WHAT IS LEFT                                                            *)

(* Nothing that is still there is below the member at i.                   *)
NothingBelow(i) == \A j \in keep : i # j => ~IsSubtypeBas(list[j], list[i])

Reduced ==
    /\ doing # "flatten" => IsInjective(list)
    /\ doing = "strike" => \A i \in keep : i < at => NothingBelow(i)
    /\ doing \in {"collect", "done"} =>
          /\ ctx => \A i \in keep : NothingBelow(i)
          /\ IsInjective(reduced)
          /\ ToSet(reduced) = {list[i] : i \in {k \in keep : k < at}}
    /\ doing = "done" => at \notin DOMAIN list

LEMMA DedupKeepsReduced ==
    ASSUME NEW T, NormTyped(T), Reduced, Dedup
    PROVE  Reduced'
<1>1. IsInjective(list) /\ list \in Seq(T) /\ todo \in Seq(T) /\ reduced = <<>> /\ at = 1
    BY DEF Dedup, NormTyped, Reduced
<1>2. CASE todo # <<>>
  <2>1. doing' = "dedup"
      BY <1>2 DEF Dedup
  <2>2. IsInjective(list)'
    <3>1. CASE Head(todo) \in ToSet(list)
        BY <1>1, <1>2, <3>1 DEF Dedup
    <3>2. CASE Head(todo) \notin ToSet(list)
      <4>1. list' = Append(list, Head(todo)) /\ Head(todo) \in T
          BY <1>1, <1>2, <3>2 DEF Dedup
      <4> QED
          BY <1>1, <3>2, <4>1, IsInjectiveAppend
    <3> QED
        BY <3>1, <3>2
  <2> QED
      BY <2>1, <2>2 DEF Reduced
<1>3. CASE todo = <<>>
  <2>0. doing' = "strike" \/ (doing' = "collect" /\ ~ctx')
      BY <1>3, Zenon DEF Dedup
  <2>1. list' = list /\ keep' = DOMAIN list /\ reduced' = <<>> /\ at' = 1
      BY <1>1, <1>3 DEF Dedup
  <2>2. \A i \in keep' : ~(i < at')
      BY <1>1, <2>1
  <2>3. {i \in keep' : i < at'} = {}
      BY <2>2
  <2>4. ToSet(reduced') = {} /\ IsInjective(reduced')
      BY <2>1, ToSetOfEmpty DEF IsInjective
  <2>5. ToSet(reduced') = {list'[i] : i \in {k \in keep' : k < at'}}
      BY <2>3, <2>4
  <2> QED
      BY <1>1, <2>0, <2>1, <2>2, <2>4, <2>5 DEF Reduced
<1> QED
    BY <1>2, <1>3

LEMMA StrikeKeepsReduced ==
    ASSUME NEW T, NormTyped(T), Reduced, Strike
    PROVE  Reduced'
<1>1. /\ keep' \subseteq keep /\ list' = list /\ at' = at + 1 /\ doing' = "strike"
      /\ at \in Nat /\ keep \subseteq Nat /\ keep \subseteq DOMAIN list
    BY DEF Strike, NormTyped
<1>2. ASSUME NEW i \in keep', i < at', NEW j \in keep', i # j
      PROVE  ~IsSubtypeBas(list[j], list[i])
  <2>1. CASE i = at
    <3>1. j \notin Below(at)
        BY <1>1, <1>2, <2>1 DEF Strike
    <3> QED
        BY <1>1, <1>2, <2>1, <3>1 DEF Below
  <2>2. CASE i # at
    <3>1. i < at
        BY <1>1, <1>2, <2>2
    <3> QED
        BY <1>1, <1>2, <3>1 DEF Reduced, Strike, NothingBelow
  <2> QED
      BY <2>1, <2>2
<1>3. IsInjective(list')
    BY <1>1 DEF Reduced, Strike
<1> QED
    BY <1>1, <1>2, <1>3 DEF Reduced, NothingBelow

LEMMA StruckKeepsReduced ==
    ASSUME NEW T, NormTyped(T), Reduced, Struck
    PROVE  Reduced'
<1>1. /\ doing' = "collect" /\ at' = 1 /\ reduced' = <<>> /\ keep' = keep /\ list' = list
      /\ IsInjective(list)
    BY DEF Struck, NormTyped, Reduced
<1>2. /\ DOMAIN list = 1..Len(list) /\ Len(list) \in Nat /\ at \in Nat \ {0}
      /\ keep \subseteq DOMAIN list /\ at \notin DOMAIN list
    BY DEF Struck, NormTyped
<1>3. \A i \in keep : i < at /\ ~(i < 1)
    BY <1>2
<1>4. \A i \in keep : NothingBelow(i)
    BY <1>3 DEF Struck, Reduced
<1>5. \A i \in keep' : NothingBelow(i)'
    BY <1>1, <1>4 DEF NothingBelow
<1>6. {k \in keep' : k < at'} = {}
    BY <1>1, <1>3
<1>7. ToSet(reduced') = {} /\ IsInjective(reduced')
    BY <1>1, ToSetOfEmpty DEF IsInjective
<1>8. ToSet(reduced') = {list'[i] : i \in {k \in keep' : k < at'}}
    BY <1>6, <1>7
<1> QED
    BY <1>1, <1>5, <1>7, <1>8 DEF Reduced

LEMMA CollectKeepsReduced ==
    ASSUME NEW T, NormTyped(T), Reduced, Collect
    PROVE  Reduced'
<1> DEFINE Passed == {k \in keep : k < at}
<1>1. /\ UNCHANGED <<list, keep, ctx>> /\ doing' \in {"collect", "done"} /\ doing = "collect"
      /\ list \in Seq(T) /\ reduced \in Seq(T)
      /\ at \in Nat /\ keep \subseteq Nat /\ keep \subseteq DOMAIN list
    BY DEF Collect, NormTyped
<1>2. /\ IsInjective(list) /\ IsInjective(reduced)
      /\ ToSet(reduced) = {list[i] : i \in Passed}
    BY DEF Collect, Reduced
<1>3. ctx' => \A i \in keep' : NothingBelow(i)'
  <2>1. ctx => \A i \in keep : NothingBelow(i)
      BY <1>1 DEF Reduced
  <2>2. \A i : NothingBelow(i)' <=> NothingBelow(i)
      BY <1>1 DEF NothingBelow
  <2>3. keep' = keep /\ ctx' = ctx
      BY <1>1
  <2> QED
      BY <2>1, <2>2, <2>3, Zenon
<1>4. CASE at \in keep
  <2>1. at \in DOMAIN list /\ list[at] \in T
      BY <1>1, <1>4, ElementOfSeq
  <2>2. reduced' = Append(reduced, list[at]) /\ at' = at + 1 /\ doing' = "collect"
      BY <1>4, <2>1 DEF Collect
  <2>3. list[at] \notin ToSet(reduced)
      BY <1>1, <1>2, <2>1 DEF IsInjective
  <2>4. IsInjective(reduced')
      BY <1>1, <1>2, <2>1, <2>2, <2>3, IsInjectiveAppend
  <2>5. ToSet(reduced') = ToSet(reduced) \cup {list[at]}
      BY <1>1, <2>1, <2>2, ToSetOfAppend
  <2>6. {k \in keep : k < at + 1} = Passed \cup {at}
    <3>1. \A k \in keep : k < at + 1 <=> k < at \/ k = at
        BY <1>1
    <3> QED
        BY <1>4, <3>1
  <2>7. ToSet(reduced') = {list[i] : i \in {k \in keep : k < at + 1}}
      BY <1>2, <2>5, <2>6
  <2> QED
      BY <1>1, <1>2, <1>3, <2>2, <2>4, <2>7 DEF Reduced
<1>5. CASE at \in DOMAIN list /\ at \notin keep
  <2>1. reduced' = reduced /\ at' = at + 1 /\ doing' = "collect"
      BY <1>5 DEF Collect
  <2>2. {k \in keep : k < at + 1} = Passed
    <3>1. \A k \in keep : k < at + 1 <=> k < at
        BY <1>1, <1>5
    <3> QED
        BY <3>1
  <2> QED
      BY <1>1, <1>2, <1>3, <2>1, <2>2 DEF Reduced
<1>6. CASE at \notin DOMAIN list
  <2>1. reduced' = reduced /\ at' = at
      BY <1>6 DEF Collect
  <2> QED
      BY <1>1, <1>2, <1>3, <1>6, <2>1 DEF Reduced
<1> QED
    BY <1>1, <1>4, <1>5, <1>6

LEMMA StepReduced ==
    ASSUME NEW T, NormTyped(T), Reduced, [Next]_vars
    PROVE  Reduced'
<1>1. ASSUME NEW ms \in Unions, NEW c \in BOOLEAN, Normalize(ms, c)
      PROVE  Reduced'
    BY <1>1 DEF Normalize, Reduced
<1>2. CASE Flatten
  <2>1. CASE todo # <<>>
      BY <1>2, <2>1 DEF Flatten, Reduced
  <2>2. CASE todo = <<>>
    <3>1. doing' = "dedup" /\ list' = <<>>
        BY <1>2, <2>2 DEF Flatten
    <3> QED
        BY <3>1 DEF Reduced, IsInjective
  <2> QED
      BY <2>1, <2>2
<1>3. CASE UNCHANGED vars
  <2>1. \A i : NothingBelow(i)' <=> NothingBelow(i)
      BY <1>3 DEF vars, NothingBelow
  <2> QED
      BY <1>3, <2>1 DEF vars, Reduced
<1> QED
    BY <1>1, <1>2, <1>3, DedupKeepsReduced, StrikeKeepsReduced, StruckKeepsReduced,
       CollectKeepsReduced DEF Next

(* Whatever the verdicts: no member of a normalized union has a copy in    *)
(* it, and if the caller has a context none is below another               *)
(* (typevalue_normalize_union_ctx).                                        *)
THEOREM NothingIsLeftOver ==
    ASSUME NEW T, Closed(T)
    PROVE  Spec => []UnionIsReduced
<1>1. Init => Reduced
    BY DEF Init, Reduced, IsInjective
<1>2. NormTyped(T) /\ Reduced /\ [Next]_vars => Reduced'
    BY StepReduced
<1>3. ASSUME Reduced, doing = "done", ctx, reduced \in Seq(T),
             NEW i \in DOMAIN reduced, NEW j \in DOMAIN reduced, i # j
      PROVE  ~IsSubtypeBas(reduced[i], reduced[j])
  <2>1. reduced[i] # reduced[j]
      BY <1>3 DEF Reduced, IsInjective
  <2>2. PICK p \in keep : reduced[i] = list[p]
      BY <1>3 DEF Reduced, ToSet
  <2>3. PICK q \in keep : reduced[j] = list[q]
      BY <1>3 DEF Reduced, ToSet
  <2>4. NothingBelow(q) /\ q # p
      BY <1>3, <2>1, <2>2, <2>3 DEF Reduced
  <2> QED
      BY <2>2, <2>3, <2>4 DEF NothingBelow
<1>4. NormTyped(T) /\ Reduced => UnionIsReduced
    BY <1>3 DEF NormTyped, Reduced, UnionIsReduced
<1> QED
    BY <1>1, <1>2, <1>4, Typed, PTL DEF Spec

-----------------------------------------------------------------------------
(* BOTH TOGETHER                                                           *)

(* What the type checker does: the union is normalized by the verdicts of  *)
(* is_subtype_bas.  It has the values of its members, if the types that    *)
(* the members are of are as AcceptedIsWithin asks.                        *)
THEOREM CheckedUnionsKeepTheirMeaning ==
    ASSUME NEW T, NEW C \in SUBSET (T \X T), NEW Members \in SUBSET T,
           Closed(Members), Members \X Members \subseteq C,
           Never \in T, \A ms \in Seq(Members) : Union(ms) \in T,
           Built(T), WellFormed(T), ValuesAreClosed, Rules(T, C),
           ClosedUnderQuestions(C), NothingMisjudged(C)
    PROVE  Spec => []UnionKeepsMeaning
<1>1. MeaningFollowsRule(T)
    BY DEF Rules
<1>2. VerdictsAreSound(Members)
  <2>1. \A p \in C : IsSubtype(p[1], p[2], {}, 0) => Within(p[1], p[2])
      BY CheckIsSound, Zenon
  <2>2. ASSUME NEW t \in Members, NEW u \in Members, IsSubtypeBas(t, u)
        PROVE  Within(t, u)
    <3>1. /\ <<t, u>> \in C /\ <<t, u>>[1] = t /\ <<t, u>>[2] = u
          /\ IsSubtype(t, u, {}, 0)
        BY <2>2 DEF IsSubtypeBas
    <3> QED
        BY <2>1, <3>1
  <2> QED
      BY <2>2 DEF VerdictsAreSound, Within
<1>3. UnionsMeanMembers(Members)
  <2> SUFFICES ASSUME NEW v \in Values
               PROVE  /\ ~HasType(v, Never)
                      /\ \A ms \in Seq(Members) : HasType(v, Union(ms)) <=> Of(v, ms)
                      /\ \A t \in Members : t.kind = "Union" => (HasType(v, t) <=> Of(v, t.members))
      BY DEF UnionsMeanMembers
  <2>1. ~HasType(v, Never)
    <3>1. Never.kind = "Never"
        BY DEF Never
    <3> QED
        BY <1>1, <3>1, MeaningOfBooleans
  <2>2. \A t \in T : t.kind = "Union" => (HasType(v, t) <=> Of(v, t.members))
      BY <1>1, MeaningOfBooleans DEF Of
  <2>3. ASSUME NEW ms \in Seq(Members) PROVE HasType(v, Union(ms)) <=> Of(v, ms)
    <3>1. Union(ms) \in T /\ Union(ms).kind = "Union" /\ Union(ms).members = ms
        BY DEF Union
    <3> QED
        BY <2>2, <3>1
  <2> QED
      BY <2>1, <2>2, <2>3
<1> QED
    BY <1>2, <1>3, UnionsKeepTheirMeaning
==============================================================================
