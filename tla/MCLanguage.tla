----------------------------- MODULE MCLanguage -----------------------------
(* Types and scoping for TLC: a question is put to the check, or a union is*)
(* normalized by its verdicts, or a program is run by the machine of       *)
(* Scope.  The variables of the others stay as they are.  A state without  *)
(* a step is a machine that is stuck.                                      *)
EXTENDS MCSubtype, UnionNorm

VARIABLES
    opened,                                     \* which of them
    program, control, stack, cells, frames      \* of Scope

sVars == <<program, control, stack, cells, frames>>

P == INSTANCE MCPrograms
S == INSTANCE Scope WITH Programs <- P!LexicalPrograms, Fuel <- 60

NoProgram ==
    /\ control = [do |-> "nothing"]
    /\ program = <<>> /\ stack = <<>> /\ cells = <<>> /\ frames = <<>>

MCInit ==
    /\ AskInit /\ Init
    /\ \/ opened \in {"types", "unions"} /\ NoProgram
       \/ opened = "program" /\ S!Init

Ended ==
    CASE opened = "types" -> question # <<>>
      [] opened = "unions" -> doing = "done"
      [] opened = "program" -> S!Finished

MCNext ==
    \/ opened = "types" /\ AskNext /\ UNCHANGED <<opened, vars, sVars>>
    \/ opened = "unions" /\ Next /\ UNCHANGED <<opened, askVars, sVars>>
    \/ opened = "program" /\ S!Next /\ UNCHANGED <<opened, vars, askVars>>
    \/ Ended /\ UNCHANGED <<opened, vars, askVars, sVars>>

MCSpec == MCInit /\ [][MCNext]_<<opened, vars, askVars, sVars>>

-----------------------------------------------------------------------------
(* Scoping: a program that has ended has the value that lexical scope      *)
(* gives it.                                                               *)
Lexical == S!Lexical
=============================================================================
