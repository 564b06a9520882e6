----------------------------- MODULE MCPrograms -----------------------------
(* Programs for TLC: two names, bound to 1 and 2, and below them binders   *)
(* of every kind, two deep, of which the inner ones shadow the outer.      *)
EXTENDS Surface

Names == {"x", "y"}
Other(x) == IF x = "x" THEN "y" ELSE "x"

(* The ways to bind x to a, or to what a matches, in t.                    *)
Plain(x, a, t) ==
    {Apply(Fun(<<Param(x)>>, Block(<<t>>)), <<a>>),
     Call(Fun(<<Param(Other(x)), Optional("q", Lit(4)), Param(x)>>, Block(<<t>>)),
          <<Ref(x)>>, <<Named(x, a)>>),
     Match(a, <<Arm(<<x>>, NamePat(x), t)>>),
     Match(a, <<Arm(<<>>, NamePat(Other(x)), t), Arm(<<>>, LitPat(3), Ref(x)), Arm(<<x>>, NamePat(x), t)>>),
     Match(Dict(<<Named("a", a), Auto(Ref("a"))>>),
           <<Arm(<<>>, DictPat(<<Field("b", Wild)>>), Ref(x)),
             Arm(<<"q", x>>, DictPat(<<Field("0", NamePat(x)), Field("a", NamePat("q"))>>), t)>>)}

Letrec(x, a, t) ==
    {Get(Dict(<<Named(x, a), Named("r", t)>>), "r"),
     Get(Dict(<<Named("r", t), Named(x, a)>>), "r"),
     Apply(Fun(<<>>, Block(<<Dict(<<Computed(Ref(x), Lit(0)), Named(x, a)>>), t>>)), <<>>),
     Apply(Fun(<<>>, Block(<<Dict(<<Named("q", Lit(0))>>), Dict(<<Auto(t), Named(x, a)>>), t>>)), <<>>)}

Uses == {Ref("x"), Ref("y")}

Binders(xs, args, bodies) ==
    UNION {UNION {Plain(x, a, t) : a \in args \cup Uses, t \in bodies}
           \cup UNION {Letrec(x, a, t) : a \in args \cup {DotRef(x), Ref(Other(x))}, t \in bodies}
           : x \in xs}

One == Binders(Names, {Lit(3)}, Uses)
Two == Binders({"x"}, {Lit(3)}, One) \cup Binders({"x"}, One, {Ref("x")})

(* Whole documents.                                                        *)
Closed(t) ==
    {Block(<<Apply(Fun(<<Param("x"), Param("y")>>, Block(<<t>>)), <<Lit(1), Lit(2)>>)>>),
     Block(<<Dict(<<Named("x", Lit(1)), Named("y", Lit(2))>>), t>>)}

(* A function that is called twice.                                        *)
Twice(body) ==
    Block(<<Dict(<<Named("f", Fun(<<Param("x")>>, Block(body)))>>),
            Match(Dict(<<Named("a", Apply(Ref("f"), <<Lit(1)>>)), Named("b", Apply(Ref("f"), <<Lit(2)>>))>>),
                  <<Arm(<<"p", "q">>, DictPat(<<Field("a", NamePat("p")), Field("b", NamePat("q"))>>),
                        Ref("q"))>>)>>)

Functions ==
    {Twice(<<Ref("x")>>), Twice(<<Match(Ref("x"), <<Arm(<<"y">>, NamePat("y"), Ref("y"))>>)>>),
     Twice(<<Apply(Apply(Fun(<<Param("y")>>, Block(<<Fun(<<>>, Ref("y"))>>)), <<Ref("x")>>), <<>>)>>)}

(* Calls of functions with a default or a rest, with arguments in every    *)
(* place.  The names are bound outside, where a default does not see them. *)
Parameters ==
    {<<Param("y"), Optional("x", Lit(5))>>, <<Optional("x", Ref("y")), Param("y")>>,
     <<Rest("y"), Param("x")>>, <<Param("x"), Rest("y")>>, <<Optional("x", Lit(5)), Rest("y")>>,
     <<Optional("x", Get(Dict(<<Named("y", Lit(5)), Named("r", Ref("y"))>>), "r"))>>}

Arguments == {<<>>, <<Ref("x")>>, <<Ref("y"), Ref("x")>>, <<Ref("x"), Lit(3), Ref("y")>>}
NamedArguments ==
    {<<>>} \cup {<<Named(n, Ref(x))>> : n \in {"x", "y", "r"}, x \in Names}
    \cup {<<Named("y", Lit(3)), Named("x", Ref("y"))>>, <<Named("x", Lit(3)), Named("x", Ref("y"))>>}

Calls == {Call(Fun(ps, Block(<<t>>)), args, named) :
    ps \in Parameters, args \in Arguments, named \in NamedArguments,
    t \in Uses \cup {Get(Ref("y"), "0"), Get(Ref("y"), "1"), Get(Ref("y"), "r"), Get(Ref("y"), "y")}}

(* A function that is called where the names stand for something else.     *)
Elsewhere ==
    LET call(u) == {Apply(Ref("f"), <<u>>), Call(Ref("f"), <<>>, <<Named("p", u)>>)}
    IN  {Block(<<Dict(<<Named("x", Lit(1)), Named("f", Fun(<<Param("p"), Optional("q", Lit(5))>>, Block(<<t>>)))>>),
                 Match(Lit(2), <<Arm(<<"x">>, NamePat("x"), c)>>)>>) :
         t \in {Ref(n) : n \in {"p", "q", "x"}},
         c \in UNION {call(u) : u \in {Ref("x"), Match(Ref("x"), <<Arm(<<>>, LitPat(1), Lit(3)), Arm(<<"p">>, NamePat("p"), Ref("p"))>>)}}}

(* Defaults that are used by two calls.                                    *)
Defaults ==
    LET f(t) == Named("f", Fun(<<Param("x"), Optional("y", t)>>,
                               Block(<<Dict(<<Named("a", Ref("x")), Named("b", Ref("y"))>>)>>)))
        of(n, field) == Get(Apply(Ref("f"), <<Lit(n)>>), field)
    IN  {Block(<<Dict(<<Named("x", Lit(3)), f(t)>>),
                 Match(Dict(<<Named("a", of(1, "b")), Named("b", of(2, "b"))>>),
                       <<Arm(<<"p", "q">>, DictPat(<<Field("a", NamePat("p")), Field("b", NamePat("q"))>>),
                             Ref(x))>>)>>) :
         x \in {"p", "q"},
         t \in {Lit(5), Ref("x"), Get(Dict(<<Named("y", Lit(5)), Named("r", Ref("y"))>>), "r"),
                Match(Lit(5), <<Arm(<<"x">>, NamePat("x"), Ref("x"))>>)}}

Faulty ==
    {Block(<<t>>) : t \in
        {Apply(Lit(1), <<>>), Apply(Fun(<<Param("x")>>, Block(<<Ref("x")>>)), <<>>), Get(Lit(1), "a"),
         Get(Dict(<<Auto(Lit(1)), Auto(Lit(2))>>), "a"), Get(Dict(<<Auto(Lit(1)), Auto(Lit(2))>>), "1"),
         Dict(<<Named("a", Lit(1)), Named("a", Lit(2))>>),
         Dict(<<Computed(Lit(0), Lit(1)), Auto(Lit(2))>>), Dict(<<Computed(Dict(<<>>), Lit(1))>>),
         Match(Lit(1), <<Arm(<<>>, LitPat(2), Lit(3))>>),
         Match(Lit(1), <<Arm(<<>>, DictPat(<<>>), Lit(3)), Arm(<<>>, LitPat(1), Lit(4))>>),
         Match(Lit(1), <<Arm(<<>>, LitPat(2), Lit(3)), Arm(<<>>, Wild, Lit(4))>>),
         Get(Dict(<<Named("x", Ref("y")), Named("y", Ref("x"))>>), "x"),
         Match(Dict(<<Named("a", Ref("b")), Named("b", Get(Dict(<<>>), "c"))>>),
               <<Arm(<<>>, DictPat(<<Field("a", Wild)>>), Lit(1)), Arm(<<>>, Wild, Lit(2))>>)}}

LexicalPrograms ==
    UNION {Closed(t) : t \in Uses \cup One \cup Two \cup Calls} \cup Functions \cup Elsewhere
    \cup Defaults \cup Faulty

(* A function with a dict literal in it is called twice.                   *)
ReusePrograms ==
    {Twice(<<Get(Dict(<<Named("y", Ref("x")), Named("z", Ref("y"))>>), "z")>>),
     Twice(<<Dict(<<Named("y", Ref("x"))>>), Ref("y")>>)}
=============================================================================
