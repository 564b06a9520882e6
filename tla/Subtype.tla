------------------------------ MODULE Subtype -------------------------------
(* The subtype check of the type checker (bas.rs): A <: B iff A & ~B is    *)
(* empty.  Types are brought into a disjunctive normal form of signed      *)
(* atoms, and atoms are compared by their structure, recursive types       *)
(* coinductively under the set sigma of the pairs that are assumed.        *)
(*                                                                         *)
(* The functions that call themselves, or each other, are parameters, and  *)
(* what a call of one does is its rule: ToRdnf is the function that        *)
(* RdnfRule is the rule of.  A model for TLC gives each parameter the      *)
(* value of its rule (ToRdnf <- RdnfRule), which ties the recursion; a     *)
(* theorem about them assumes that they follow their rules.                *)
(*                                                                         *)
(* A type is a record with its constructor as kind.  A type that is taken  *)
(* out of another is a new Arc, so only structure is compared; sigma holds *)
(* the types themselves, for the fingerprints of the recursive types here  *)
(* differ where the types do.                                              *)
EXTENDS Naturals, Sequences, SequencesExt

CONSTANTS
    MaxRdnf,        \* MAX_RDNF_CONJUNCTIONS
    MaxDepth,       \* MAX_ATOM_SUBTYPE_DEPTH
    TyCons,         \* tycon_env: the body and the variance of each
    Values          \* the values that the meaning of types is about

CONSTANTS                       \* given by
    Concat(_),                  \* ConcatRule
    Product(_),                 \* ProductRule
    ToRdnf(_),                  \* RdnfRule
    Substitute(_, _, _),        \* SubstituteRule
    Disjoint(_, _),             \* DisjointRule
    Spine(_),                   \* SpineRule
    IsAtomSubtype(_, _, _, _),  \* AtomRule
    IsSubtype(_, _, _, _),      \* SubtypeRule
    HasType(_, _)               \* MeaningRule

ASSUME ConstantsAssumption == MaxRdnf \in Nat \ {0} /\ MaxDepth \in Nat \ {0}

Top == [kind |-> "Top"]
Never == [kind |-> "Never"]
Nominal(id) == [kind |-> "Nominal", id |-> id]
IntLit(n) == [kind |-> "IntLit", value |-> n]
StrLit(s) == [kind |-> "StrLit", value |-> s]
Union(ms) == [kind |-> "Union", members |-> ms]
Inter(ms) == [kind |-> "Inter", members |-> ms]
Neg(t) == [kind |-> "Neg", of |-> t]
Record(fields) == [kind |-> "Record", fields |-> fields, tail |-> [kind |-> "Closed"]]
OpenRecord(fields) == [kind |-> "Record", fields |-> fields, tail |-> [kind |-> "RowVar"]]
Uniform(fields, t) ==
    [kind |-> "Record", fields |-> fields, tail |-> [kind |-> "Uniform", valueType |-> t]]
Fn(params, variadic, ret) ==
    [kind |-> "Fn", params |-> params, variadic |-> variadic, ret |-> ret]
App(op, arg) == [kind |-> "App", op |-> op, arg |-> arg]
Variant(tycon, ctor) == [kind |-> "NominalVariant", tycon |-> tycon, ctor |-> ctor]
Recursive(body) == [kind |-> "Recursive", body |-> body]
RecursiveRef(n) == [kind |-> "RecursiveRef", depth |-> n]

-----------------------------------------------------------------------------
(* Normal forms.  A conjunction is a sequence of signed atoms, an RDNF one *)
(* of conjunctions.                                                        *)
Positive(t) == [sign |-> "+", atom |-> t]
Opposite(signed) == [signed EXCEPT !.sign = IF @ = "+" THEN "-" ELSE "+"]

Inhabited == << <<>> >>

ConcatRule(lists) ==
    LET before == Front(lists)
    IN  IF lists = <<>> THEN <<>> ELSE Concat(before) \o Last(lists)

(* Mutant: the cap is one too low.                                         *)
TooLarge_AtLimit(left, right) == Len(left) * Len(right) >= MaxRdnf

TooLarge(left, right) == Len(left) * Len(right) > MaxRdnf

(* The cross product; Top, when it is too large.                           *)
Distribute(left, right) ==
    IF TooLarge(left, right)
    THEN Inhabited
    ELSE Concat([i \in DOMAIN left |-> [j \in DOMAIN right |-> left[i] \o right[j]]])

(* The product of one RDNF or more.                                        *)
ProductRule(rdnfs) ==
    LET before == Front(rdnfs)
    IN  IF Len(rdnfs) = 1 THEN rdnfs[1] ELSE Distribute(Product(before), Last(rdnfs))

(* Of each conjunction the opposites of its atoms.                         *)
Opposites(rdnf) ==
    [i \in DOMAIN rdnf |-> [j \in DOMAIN rdnf[i] |-> <<Opposite(rdnf[i][j])>>]]

NegateRdnf(rdnf) ==
    IF \E i \in DOMAIN rdnf : rdnf[i] = <<>>
    THEN <<>>
    ELSE Product(<<Inhabited>> \o Opposites(rdnf))

RdnfRule(t) ==
    LET parts == [i \in DOMAIN t.members |-> ToRdnf(t.members[i])]
    IN  CASE t.kind \in {"Top", "Unknown"} -> Inhabited
          [] t.kind \in {"Never", "Error"} -> <<>>
          [] t.kind = "Union" -> Concat(parts)
          [] t.kind = "Inter" -> IF t.members = <<>> THEN Inhabited ELSE Product(parts)
          [] t.kind = "Neg" -> NegateRdnf(ToRdnf(t.of))
          [] OTHER -> << <<Positive(t)>> >>

-----------------------------------------------------------------------------
(* Recursive types: de Bruijn references.  The tail of a record is left as *)
(* it is, for its constructor index is that of a type variable.            *)
SubstituteRule(t, target, replacement) ==
    LET S(u) == Substitute(u, target, replacement)
        All(us) == [i \in DOMAIN us |-> S(us[i])]
    IN  CASE t.kind = "RecursiveRef" -> IF t.depth = target THEN replacement ELSE t
          [] t.kind = "Recursive" -> Recursive(Substitute(t.body, target + 1, replacement))
          [] t.kind \in {"Union", "Inter"} -> [t EXCEPT !.members = All(@)]
          [] t.kind = "Neg" -> Neg(S(t.of))
          [] t.kind = "Fn" -> [t EXCEPT !.params = All(@), !.ret = S(@)]
          [] t.kind = "Record" -> [t EXCEPT !.fields = All(@)]
          [] t.kind = "App" -> App(S(t.op), S(t.arg))
          [] OTHER -> t

Unfold(t) == Substitute(t.body, 0, t)

-----------------------------------------------------------------------------
(* Atoms.                                                                  *)

(* The nominal type of a literal.                                          *)
LiteralOf == [IntLit |-> "int", StrLit |-> "str"]
IsLiteral(t) == t.kind \in DOMAIN LiteralOf

(* No value is in both: which pairs of constructors are sure.              *)
DisjointRule(a, b) ==
    LET Kinds(k, l) == {a.kind, b.kind} = {k, l}
        LiteralIn(l, n) == IsLiteral(l) /\ n.kind = "Nominal" /\ LiteralOf[l.kind] # n.id
    IN  \/ a.kind = b.kind /\ a.kind \in {"Nominal", "IntLit", "NominalVariant"} /\ a # b
        \/ LiteralIn(a, b) \/ LiteralIn(b, a)
        \/ \E k \in {"Record", "Fn", "App", "NominalVariant", "Recursive"} : Kinds("Nominal", k)
        \/ Kinds("Record", "Fn")
        \/ \E k \in {"Record", "Fn"} : Kinds("NominalVariant", k)
        \/ a.kind = "App" /\ b.kind = "App" /\ Disjoint(a.op, b.op)
        \/ Kinds("Fn", "App")

(* The constructor an application applies, and which argument this is.     *)
SpineRule(op) ==
    LET inner == Spine(op.op)
    IN  CASE op.kind = "Nominal" -> <<op.id, 1>>
          [] op.kind = "App" -> <<inner[1], inner[2] + 1>>
          [] OTHER -> <<"none", 1>>

VarianceAt(spine) ==
    IF spine[1] \in DOMAIN TyCons /\ spine[2] \in DOMAIN TyCons[spine[1]].variance
    THEN TyCons[spine[1]].variance[spine[2]] ELSE "Invariant"

(* Mutant: a function may be called with more arguments than it takes.     *)
TakesAsMany_OrMore(a, b) == Len(a.params) <= Len(b.params)

(* A variadic function takes what comes after.                             *)
TakesAsMany(a, b) ==
    IF a.variadic THEN Len(a.params) <= Len(b.params) ELSE Len(a.params) = Len(b.params)

(* A function stands for another: its parameters take more, it gives less. *)
IsFnSubtype(a, b, sigma, depth) ==
    /\ IsSubtype(a.ret, b.ret, sigma, depth + 1)
    /\ TakesAsMany(a, b)
    /\ \A i \in DOMAIN a.params : IsSubtype(b.params[i], a.params[i], sigma, depth + 1)

(* A record has the fields another asks for, and fits its tail.            *)
IsRecordSubtype(a, b, sigma, depth) ==
    LET Below(t, u) == IsSubtype(t, u, sigma, depth + 1)
    IN  /\ \A f \in DOMAIN b.fields : f \in DOMAIN a.fields /\ Below(a.fields[f], b.fields[f])
        /\ CASE b.tail.kind = "RowVar" -> TRUE
             [] b.tail.kind = "Closed" -> a.tail.kind = "Closed"
             [] b.tail.kind = "Uniform" ->
                    \/ a.tail.kind = "Uniform" /\ Below(a.tail.valueType, b.tail.valueType)
                    \/ /\ a.tail.kind = "Closed"
                       /\ \A f \in DOMAIN a.fields \ DOMAIN b.fields :
                              Below(a.fields[f], b.tail.valueType)

IsAppSubtype(a, b, sigma, depth) ==
    LET up == IsSubtype(a.arg, b.arg, sigma, depth + 1)
        down == IsSubtype(b.arg, a.arg, sigma, depth + 1)
        variance == VarianceAt(Spine(a.op))
    IN  /\ IsAtomSubtype(a.op, b.op, sigma, depth + 1)
        /\ CASE variance = "Covariant" -> up
             [] variance = "Contravariant" -> down
             [] variance = "Invariant" -> up /\ down
             [] variance = "Phantom" -> TRUE

(* S-Assum, or S-Exp with the pair assumed.                                *)
IsRecursiveSubtype(a, b, sigma, depth) ==
    \/ <<a, b>> \in sigma
    \/ IsSubtype(Unfold(a), Unfold(b), sigma \cup {<<a, b>>}, depth + 1)

(* Two copies of the type of a constructor are not found equal: their      *)
(* comparison calls itself until it is too deep.  A bare constructor is    *)
(* below its applications.                                                 *)
AtomRule(a, b, sigma, depth) ==
    LET Both(k) == a.kind = k /\ b.kind = k
        Only(t, u, k) == t.kind = k /\ u.kind \notin {k, "Var"}
    IN  /\ depth < MaxDepth
        /\ \/ (IsLiteral(a) \/ a.kind \in {"Nominal", "Var"}) /\ a = b
           \/ a.kind # b.kind /\ "Var" \in {a.kind, b.kind}
           \/ IsLiteral(a) /\ b.kind = "Nominal" /\ b.id = LiteralOf[a.kind]
           \/ Both("Fn") /\ IsFnSubtype(a, b, sigma, depth)
           \/ Both("Record") /\ IsRecordSubtype(a, b, sigma, depth)
           \/ Both("App") /\ IsAppSubtype(a, b, sigma, depth)
           \/ Both("Recursive") /\ IsRecursiveSubtype(a, b, sigma, depth)
           \/ Only(a, b, "Recursive") /\ IsSubtype(Unfold(a), b, sigma, depth + 1)
           \/ Only(b, a, "Recursive") /\ IsSubtype(a, Unfold(b), sigma, depth + 1)
           \/ /\ a.kind = "NominalVariant" /\ b.kind = "Nominal"
              /\ IF b.id \in DOMAIN TyCons
                 THEN IsSubtype(a, TyCons[b.id].body, sigma, depth + 1)
                 ELSE a.tycon = b.id
           \/ /\ a.kind = "Nominal" /\ b.kind = "App" /\ b.op.kind = "Nominal"
              /\ IsAtomSubtype(a, b.op, sigma, depth + 1)

-----------------------------------------------------------------------------
(* Conjunctions.                                                           *)
Signed(conj, sign) == {i \in DOMAIN conj : conj[i].sign = sign}

(* The pairs of recursive types that are compared before those at i and j. *)
Assumed(conj, i, j) ==
    {<<conj[p[1]].atom, conj[p[2]].atom>> : p \in
        {q \in Signed(conj, "+") \X Signed(conj, "-") :
            /\ q[1] < i \/ (q[1] = i /\ q[2] < j)
            /\ conj[q[1]].atom.kind = "Recursive" /\ conj[q[2]].atom.kind = "Recursive"}}

(* Two positive atoms are disjoint, or a positive one is below a negative  *)
(* one.  The pairs are tried in turn, and what is assumed for one pair of  *)
(* recursive types still is when the next is tried.                        *)
IsConjunctionEmpty(conj, sigma, depth) ==
    \/ \E i, j \in Signed(conj, "+") : i < j /\ Disjoint(conj[i].atom, conj[j].atom)
    \/ \E i \in Signed(conj, "+"), j \in Signed(conj, "-") :
           IsAtomSubtype(conj[i].atom, conj[j].atom, sigma \cup Assumed(conj, i, j), depth)

(* What has no values.  Each conjunction has its own copy of sigma.        *)
IsRdnfEmpty(rdnf, sigma, depth) ==
    \A i \in DOMAIN rdnf : IsConjunctionEmpty(rdnf[i], sigma, depth)

SubtypeRule(a, b, sigma, depth) ==
    LET Either(kind) == kind \in {a.kind, b.kind}
    IN  /\ ~Either("Error")
        /\ \/ b.kind = "Top"
           \/ a.kind = "Never"
           \/ /\ ~Either("Unknown")
              /\ \/ Either("Var")
                 \/ IsRdnfEmpty(ToRdnf(Inter(<<a, Neg(b)>>)), sigma, depth)

IsSubtypeBas(a, b) == IsSubtype(a, b, {}, 0)

-----------------------------------------------------------------------------
(* The meaning of types: which values are of a type.  A value is a pair of *)
(* the form and what it is made of; the functions are tables from argument *)
(* lists to results, and the value of an application is a set that its     *)
(* constructor makes things for (Covariant), takes them in (Contravariant) *)
(* or both.                                                                *)
Fails == <<"fails", "">>
Simple == {u \in Values : u[1] \in {"int", "str"}}

MeaningRule(v, t) ==
    LET form == v[1]
        content == v[2]
    IN  \/ t.kind = "Top"
        \/ t.kind = "Union" /\ \E i \in DOMAIN t.members : HasType(v, t.members[i])
        \/ t.kind = "Inter" /\ \A i \in DOMAIN t.members : HasType(v, t.members[i])
        \/ t.kind = "Neg" /\ ~HasType(v, t.of)
        \/ t.kind = "Nominal" /\ form = t.id
        \/ t.kind = "NominalVariant" /\ form = t.tycon /\ content = t.ctor
        \/ IsLiteral(t) /\ form = LiteralOf[t.kind] /\ content = t.value
        \/ /\ t.kind = "Record" /\ form = "record"
           /\ \A f \in DOMAIN t.fields : f \in DOMAIN content /\ HasType(content[f], t.fields[f])
           /\ t.tail.kind = "Uniform" =>
                  \A f \in DOMAIN content \ DOMAIN t.fields : HasType(content[f], t.tail.valueType)
        \/ /\ t.kind = "Fn" /\ form = "fn"
           /\ \A args \in DOMAIN content :
                  /\ IF t.variadic THEN Len(args) >= Len(t.params) ELSE Len(args) = Len(t.params)
                  /\ \A i \in DOMAIN t.params : HasType(args[i], t.params[i])
                  => content[args] # Fails /\ HasType(content[args], t.ret)
        \/ /\ t.kind = "App" /\ form = t.op.id
           /\ LET variance == TyCons[t.op.id].variance[1]
                  arg == {u \in Simple : HasType(u, t.arg)}
              IN  /\ variance \in {"Covariant", "Invariant"} => content \subseteq arg
                  /\ variance \in {"Contravariant", "Invariant"} => arg \subseteq content
        \/ t.kind = "Recursive" /\ HasType(v, Unfold(t))
=============================================================================
