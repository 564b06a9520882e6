------------------------------ MODULE UnionNorm ------------------------------
(***************************************************************************)
(* The normalization of unions (type_infer.rs,                             *)
(* typevalue_normalize_union_ctx), on which the type checker's answers     *)
(* live: one pass of one of its loops is a step.  Nested unions are        *)
(* flattened one level, copies of a member go, and, if the caller has an   *)
(* InferenceContext, a member goes that is below another one that is still *)
(* there.  Without one the list of all members is collected as it is.      *)
(***************************************************************************)
EXTENDS SubtypeCheck

CONSTANT Unions             \* the lists of members that are normalized

VARIABLES
    doing,          \* the loop, or "nothing" before the call and "done" after it
    members, ctx,   \* the arguments
    todo,           \* what the loop has not come to
    list,           \* what it has made
    keep, at,       \* the places in list that are not struck out; the next one
    reduced         \* the members of the result

vars == <<doing, members, ctx, todo, list, keep, at, reduced>>

Init ==
    /\ doing = "nothing"
    /\ members = <<>> /\ ctx = FALSE
    /\ todo = <<>> /\ list = <<>> /\ reduced = <<>>
    /\ keep = {} /\ at = 1

Normalize(ms, c) ==
    /\ doing = "nothing" /\ doing' = "flatten"
    /\ members' = ms /\ ctx' = c
    /\ todo' = ms
    /\ UNCHANGED <<list, keep, at, reduced>>

-----------------------------------------------------------------------------
(* From the last member on; the list is turned round in the end.           *)
Flatten ==
    /\ doing = "flatten"
    /\ \/ /\ todo # <<>>
          /\ LET m == Last(todo)
             IN  list' = list \o (IF m.kind = "Union" THEN m.members ELSE <<m>>)
          /\ todo' = Front(todo)
          /\ UNCHANGED doing
       \/ /\ todo = <<>>
          /\ doing' = "dedup"
          /\ todo' = Reverse(list) /\ list' = <<>>
    /\ UNCHANGED <<members, ctx, keep, at, reduced>>

Dedup ==
    /\ doing = "dedup"
    /\ \/ /\ todo # <<>>
          /\ list' = IF Head(todo) \in ToSet(list) THEN list ELSE Append(list, Head(todo))
          /\ todo' = Tail(todo)
          /\ UNCHANGED <<doing, keep>>
       \/ /\ todo = <<>>
          /\ doing' = IF ctx THEN "strike" ELSE "collect"
          /\ keep' = DOMAIN list
          /\ UNCHANGED <<list, todo>>
    /\ UNCHANGED <<members, ctx, at, reduced>>

Below(i) == {j \in DOMAIN list \ {i} : IsSubtypeBas(list[j], list[i])}

(* Mutant: a member that has gone strikes out others.                      *)
Strike_ByAny ==
    /\ doing = "strike"
    /\ at \in DOMAIN list
    /\ keep' = keep \ Below(at)
    /\ at' = at + 1
    /\ UNCHANGED <<doing, members, ctx, todo, list, reduced>>

(* Mutant: only the members behind it are looked at.                       *)
Strike_Later ==
    /\ doing = "strike"
    /\ at \in DOMAIN list
    /\ keep' = IF at \in keep THEN keep \ {j \in Below(at) : j > at} ELSE keep
    /\ at' = at + 1
    /\ UNCHANGED <<doing, members, ctx, todo, list, reduced>>

Strike ==
    /\ doing = "strike"
    /\ at \in DOMAIN list
    /\ keep' = IF at \in keep THEN keep \ Below(at) ELSE keep
    /\ at' = at + 1
    /\ UNCHANGED <<doing, members, ctx, todo, list, reduced>>

Struck ==
    /\ doing = "strike" /\ doing' = "collect"
    /\ at \notin DOMAIN list /\ at' = 1
    /\ UNCHANGED <<members, ctx, todo, list, keep, reduced>>

Collect ==
    /\ doing = "collect"
    /\ \/ /\ at \in DOMAIN list
          /\ reduced' = IF at \in keep THEN Append(reduced, list[at]) ELSE reduced
          /\ at' = at + 1
          /\ UNCHANGED doing
       \/ /\ at \notin DOMAIN list
          /\ doing' = "done"
          /\ UNCHANGED <<reduced, at>>
    /\ UNCHANGED <<members, ctx, todo, list, keep>>

Next ==
    \/ \E ms \in Unions, c \in BOOLEAN : Normalize(ms, c)
    \/ Flatten \/ Dedup \/ Strike \/ Struck \/ Collect

Spec == Init /\ [][Next]_vars

(* What the call returns.                                                  *)
NormalizedUnion ==
    CASE Len(reduced) = 0 -> Never
      [] Len(reduced) = 1 -> reduced[1]
      [] OTHER -> Union(reduced)

-----------------------------------------------------------------------------
(* PROPERTIES                                                              *)

(* The normalized union has the values of its members, no more and no less.*)
UnionKeepsMeaning ==
    doing = "done" =>
        \A v \in Values :
            HasType(v, NormalizedUnion) <=> \E i \in DOMAIN members : HasType(v, members[i])

(* Every member of the result is needed: it has no copy, and with a        *)
(* context none that is above it by the verdicts of the subtype check.     *)
UnionIsReduced ==
    doing = "done" =>
        /\ IsInjective(reduced)
        /\ ctx => \A i, j \in DOMAIN reduced :
                     i # j => ~IsSubtypeBas(reduced[i], reduced[j])
=============================================================================
