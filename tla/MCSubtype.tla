----------------------------- MODULE MCSubtype ------------------------------
(* Instances of Subtype for TLC.                                           *)
EXTENDS Subtype

IntT == Nominal("int")
StrT == Nominal("str")
Zero == IntLit("0")

(* A type with two constructors and one parameterized type of each         *)
(* variance.                                                               *)
MCTyCons ==
    [option |-> [body |-> Union(<<Variant("option", "none"), Variant("option", "some")>>),
                 variance |-> <<>>],
     source |-> [body |-> Never, variance |-> <<"Covariant">>],
     sink |-> [body |-> Never, variance |-> <<"Contravariant">>],
     cell |-> [body |-> Never, variance |-> <<"Invariant">>],
     tag |-> [body |-> Never, variance |-> <<"Phantom">>]]

-----------------------------------------------------------------------------
(* Values.                                                                 *)
Ints == {<<"int", n>> : n \in {"0", "1", "2"}}
Scalars == Ints \cup {<<"str", s>> : s \in {"a", "b"}}
Rec(fields) == <<"record", fields>>
Flat ==
    {Rec(<<>>)} \cup {Rec([x |-> u]) : u \in Scalars}
        \cup {Rec([x |-> u, y |-> w]) : u, w \in Scalars}
Nested == {Rec([x |-> r]) : r \in {q \in Flat : "y" \notin DOMAIN q[2]}}
Deep == {Rec([x |-> r]) : r \in Nested}
ArgLists ==
    {<<>>} \cup {<<u>> : u \in {<<"int", "0">>, <<"int", "1">>}}
        \cup {<<<<"int", "0">>, u>> : u \in {<<"int", "0">>, <<"str", "a">>}}
Tables == {<<"fn", f>> : f \in [ArgLists -> {<<"int", "0">>, <<"str", "a">>, Fails}]}
Applied == {<<c, s>> : c \in {"source", "sink", "cell", "tag"}, s \in SUBSET Scalars}
Variants == {<<"option", c>> : c \in {"none", "some"}}
MCValues == Scalars \cup Flat \cup Nested \cup Deep \cup Tables \cup Applied \cup Variants

-----------------------------------------------------------------------------
(* Types.                                                                  *)
Base == {Top, Never, IntT, StrT, Zero}
Booleans ==
    LET signed == Base \cup {Neg(t) : t \in Base}
        pairs == {<<t, u>> : t \in signed, u \in {IntT, Zero, StrT, Neg(IntT), Neg(Zero)}}
    IN  signed \cup {Union(p) : p \in pairs} \cup {Inter(p) : p \in pairs}

Mixed ==
    {Union(<<Inter(<<IntT, Neg(Zero)>>), Zero>>), Neg(Union(<<IntT, StrT>>)),
     Inter(<<Union(<<IntT, StrT>>), Union(<<Zero, StrT>>)>>),
     Inter(<<Neg(Zero), Neg(StrT), Union(<<IntT, StrT>>)>>)}

Fields == {IntT, Zero, Union(<<IntT, StrT>>)}
FieldLists ==
    {<<>>} \cup {[x |-> t] : t \in Fields} \cup {[x |-> t, y |-> u] : t, u \in Fields}
Records ==
    {Record(f) : f \in FieldLists} \cup {OpenRecord(f) : f \in FieldLists}
Uniforms == {Uniform(<<>>, t) : t \in Fields}

Params == {<<>>} \cup {<<t>> : t \in Fields} \cup {<<t, u>> : t, u \in Fields}
Fns == {Fn(p, FALSE, t) : p \in Params, t \in {IntT, Zero, Top}}
VariadicFns == {Fn(p, TRUE, t) : p \in Params, t \in {IntT, Zero}}

Apps ==
    {App(Nominal(c), t) : c \in {"source", "sink", "cell", "tag"},
                          t \in {IntT, Zero, Union(<<IntT, StrT>>), Never}}

Option == Nominal("option")
Options == {Option, Variant("option", "none"), Variant("option", "some")}

(* Lists that nest in x and end in a type.                                 *)
(* The second is the first, written another way.                           *)
NestOf(t) == Recursive(Union(<<t, Record([x |-> RecursiveRef(0)])>>))
TwiceUnrolled ==
    Recursive(Union(<<IntT, Record([x |-> Union(<<IntT, Record([x |-> RecursiveRef(0)])>>)])>>))
Recs ==
    {NestOf(t) : t \in {IntT, Zero, Union(<<IntT, StrT>>), Never}}
        \cup {Unfold(NestOf(IntT)), Record([x |-> NestOf(IntT)]), Record([x |-> NestOf(Zero)]),
              Union(<<IntT, Record([x |-> NestOf(Zero)])>>),
              TwiceUnrolled}

Forms == {IntT, Zero, Record([x |-> IntT]), Fn(<<IntT>>, FALSE, IntT), App(Nominal("source"), IntT),
          NestOf(IntT), Neg(Record([x |-> Zero])),
          Union(<<IntT, Record([x |-> IntT])>>)}

MCQueries ==
    LET booleans == Booleans \cup Mixed
    IN  (booleans \X booleans) \cup (Records \X Records)
            \cup (Uniforms \X (Records \cup Uniforms))
            \cup ((Fns \cup VariadicFns) \X Fns) \cup (Apps \X Apps)
            \cup (Options \X {Option}) \cup (Recs \X Recs) \cup (Forms \X Forms)

MCUnions ==
    LET members == {IntT, Zero, Record([x |-> IntT]), Record([x |-> Zero]), Record(<<>>),
                    Union(<<StrT, IntT>>), NestOf(IntT), Inter(<<Zero, IntT>>), Neg(Zero)}
    IN  {<<>>} \cup {<<t>> : t \in members} \cup {<<t, u, w>> : t, u, w \in members}

(* What is asked of the two documented claims that fail: a recursive type  *)
(* and two of which one has the other in it; an intersection of unions.    *)
MCAssumedQueries ==
    LET narrow == NestOf(IntT)
        wide == NestOf(Union(<<IntT, StrT>>))
        holder == Recursive(Union(<<IntT, StrT, Record([x |-> narrow])>>))
    IN  {<<wide, t>> : t \in {narrow, holder, Union(<<holder, narrow>>), Union(<<narrow, holder>>)}}
=============================================================================
