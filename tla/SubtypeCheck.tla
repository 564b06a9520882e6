---------------------------- MODULE SubtypeCheck ----------------------------
(* Questions to the subtype check, and what its answers are about.         *)
EXTENDS Subtype

CONSTANTS
    Queries,        \* the pairs of types that are compared
    Boolean(_)      \* given by BooleanRule

VARIABLES
    question,       \* the two types
    answer          \* Top for a subtype, Never for none

askVars == <<question, answer>>

AskInit == question = <<>> /\ answer = Never

Compare(p) ==
    /\ question = <<>> /\ question' = p
    /\ answer' = IF IsSubtypeBas(p[1], p[2]) THEN Top ELSE Never

AskNext == \E p \in Queries : Compare(p)

AskSpec == AskInit /\ [][AskNext]_askVars

-----------------------------------------------------------------------------
(* PROPERTIES                                                              *)

Within(t, u) == \A v \in Values : HasType(v, t) => HasType(v, u)

Accepted == answer = Top

(* What is accepted as a subtype is one: every value of it is a value of   *)
(* the other type.                                                         *)
Sound == question # <<>> /\ Accepted => Within(question[1], question[2])

(* The types of the documented claim that the check finds all subtypes:    *)
(* nominal ones and integers, and their unions, intersections and          *)
(* complements.                                                            *)
BooleanRule(t) ==
    LET AllOf(ts) == \A i \in DOMAIN ts : Boolean(ts[i])
    IN  CASE t.kind \in {"Union", "Inter"} -> AllOf(t.members)
          [] t.kind = "Neg" -> Boolean(t.of)
          [] OTHER -> t.kind \in {"Top", "Never", "Nominal", "IntLit"}

(* What is a subtype is accepted too, of these types; and every type is    *)
(* below its copy (doc/06-type-inference.md, S-REFL).                      *)
Complete ==
    LET a == question[1]
        b == question[2]
    IN  question # <<>> /\ (a = b \/ (Boolean(a) /\ Boolean(b))) /\ Within(a, b) => Accepted
=============================================================================
