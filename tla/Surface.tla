------------------------------ MODULE Surface -------------------------------
(* Terms of the surface syntax (ast.rs), as far as scoping is concerned.   *)
(* A term is a record with its constructor as op; a literal is an integer. *)
EXTENDS Naturals, Sequences

Lit(n) == [op |-> "lit", n |-> n]
Ref(x) == [op |-> "ref", name |-> x]                      \* x
DotRef(x) == [op |-> "dot", name |-> x]                   \* .x
Get(t, key) == [op |-> "get", of |-> t, key |-> key]      \* t.key
Dict(entries) == [op |-> "dict", entries |-> entries]
Fun(params, body) == [op |-> "fun", params |-> params, body |-> body]
Call(f, args, named) == [op |-> "apply", f |-> f, args |-> args, named |-> named]
Apply(f, args) == Call(f, args, <<>>)
Match(t, arms) == [op |-> "match", of |-> t, arms |-> arms]

(* A Sequential: the body of a function, of an arm or of a document.       *)
Block(exprs) == [op |-> "block", exprs |-> exprs]

(* Parameters, one with a default and one that takes what is left over.    *)
Param(x) == [kind |-> "plain", name |-> x]
Optional(x, t) == [kind |-> "default", name |-> x, value |-> t]
Rest(x) == [kind |-> "rest", name |-> x]

(* Entries of a dict: x: t, a value alone, and a key that is computed.     *)
Named(x, t) == [key |-> "name", name |-> x, value |-> t]
Auto(t) == [key |-> "auto", value |-> t]
Computed(k, t) == [key |-> "computed", expr |-> k, value |-> t]

(* An arm declares names, which its pattern may bind; a name that is not   *)
(* declared is a pin.  Guards are left out.                                *)
Arm(lets, pattern, body) == [lets |-> lets, pattern |-> pattern, body |-> body]
Wild == [pat |-> "wild"]
LitPat(n) == [pat |-> "lit", n |-> n]
NamePat(x) == [pat |-> "name", name |-> x]
DictPat(fields) == [pat |-> "dict", fields |-> fields]
Field(key, pattern) == [key |-> key, sub |-> pattern]
=============================================================================
