------------------------------ MODULE Builder -------------------------------
(***************************************************************************)
(* The transient builder (src/src/value.rs, Builder; the builder- builtins *)
(* of src/src/builtins_dict.rs) shared by tasks.  Every operation looks at *)
(* the frozen flag without the mutex and then takes the mutex; finish sets *)
(* the flag before it takes the map, so an operation that has passed the   *)
(* flag can still find the map there, or find it gone.                     *)
(***************************************************************************)
CONSTANTS
    Procs,      \* each performs one operation
    Keys,
    None

(* The value a process inserts is the process.  OneShot are the operations *)
(* that need the mutex once.                                               *)
OneShot == {"set", "delete", "get_or", "get", "snapshot"}
Op == OneShot \cup {"finish", "freeze"}

ConstantsAssumption == None \notin Procs \cup Op \cup {"ok", "frozen"}

VARIABLES
    frozen,     \* the atomic flag
    map,        \* map[k]: the value under k, or None
    taken,      \* finish has taken the map
    pc,         \* "idle", "checked" (has passed the flag), "taking", "done"
    op, key,    \* what the process does, once it has started
    ans,        \* "ok" or "frozen"
    val,        \* what get and get_or returned
    final       \* the map finish returned

vars == <<frozen, map, taken, pc, op, key, ans, val, final>>

Maps == [Keys -> Procs \cup {None}]
Empty == [k \in Keys |-> None]

TypeOK ==
    /\ frozen \in BOOLEAN
    /\ map \in Maps
    /\ taken \in BOOLEAN /\ (taken => frozen)
    /\ pc \in [Procs -> {"idle", "checked", "taking", "done"}]
    /\ op \in [Procs -> Op \cup {None}]
    /\ key \in [Procs -> Keys \cup {None}]
    /\ ans \in [Procs -> {"ok", "frozen", None}]
    /\ val \in [Procs -> Procs \cup {None}]
    /\ final \in Maps

Init ==
    /\ frozen = FALSE
    /\ map = Empty
    /\ taken = FALSE
    /\ pc = [p \in Procs |-> "idle"]
    /\ op = [p \in Procs |-> None]
    /\ key = [p \in Procs |-> None]
    /\ ans = [p \in Procs |-> None]
    /\ val = [p \in Procs |-> None]
    /\ final = Empty

-----------------------------------------------------------------------------
Return(p, a) ==
    /\ pc' = [pc EXCEPT ![p] = "done"]
    /\ ans' = [ans EXCEPT ![p] = a]

Begin(p, o, k) ==
    /\ pc[p] = "idle"
    /\ op' = [op EXCEPT ![p] = o]
    /\ key' = [key EXCEPT ![p] = k]

(* The fast path: frozen.load(Relaxed).                                    *)
Check(p, o, k) ==
    /\ o \in OneShot
    /\ Begin(p, o, k)
    /\ IF frozen THEN Return(p, "frozen")
       ELSE pc' = [pc EXCEPT ![p] = "checked"] /\ UNCHANGED ans
    /\ UNCHANGED <<frozen, map, taken, val, final>>

(* The mutex is taken and finish has been there first.                     *)
ApplyLate(p) ==
    /\ pc[p] = "checked" /\ taken
    /\ Return(p, "frozen")
    /\ UNCHANGED <<frozen, map, taken, op, key, val, final>>

Apply(p, o) == pc[p] = "checked" /\ ~taken /\ op[p] = o /\ Return(p, "ok")

(* Mutant: relies on the flag alone, and writes to a map nobody reads.     *)
ApplySet_FlagOnly(p) ==
    /\ pc[p] = "checked" /\ op[p] = "set"
    /\ Return(p, "ok")
    /\ map' = [map EXCEPT ![key[p]] = p]
    /\ UNCHANGED <<frozen, taken, op, key, val, final>>

ApplySet(p) ==
    /\ Apply(p, "set")
    /\ map' = [map EXCEPT ![key[p]] = p]
    /\ UNCHANGED <<frozen, taken, op, key, val, final>>

ApplyDelete(p) ==
    /\ Apply(p, "delete")
    /\ map' = [map EXCEPT ![key[p]] = None]
    /\ UNCHANGED <<frozen, taken, op, key, val, final>>

ApplyGetOr(p) ==
    /\ Apply(p, "get_or")
    /\ IF map[key[p]] = None
       THEN /\ map' = [map EXCEPT ![key[p]] = p]
            /\ val' = [val EXCEPT ![p] = p]
       ELSE val' = [val EXCEPT ![p] = map[key[p]]] /\ UNCHANGED map
    /\ UNCHANGED <<frozen, taken, op, key, final>>

(* get; has is whether get finds a value.                                  *)
ApplyGet(p) ==
    /\ Apply(p, "get")
    /\ val' = [val EXCEPT ![p] = map[key[p]]]
    /\ UNCHANGED <<frozen, map, taken, op, key, final>>

ApplySnapshot(p) ==
    /\ Apply(p, "snapshot")
    /\ UNCHANGED <<frozen, map, taken, op, key, val, final>>

-----------------------------------------------------------------------------
(* finish: frozen.swap(true)                                               *)
FinishSwap(p, k) ==
    /\ Begin(p, "finish", k)
    /\ IF frozen THEN Return(p, "frozen")
       ELSE pc' = [pc EXCEPT ![p] = "taking"] /\ UNCHANGED ans
    /\ frozen' = TRUE
    /\ UNCHANGED <<map, taken, val, final>>

FinishTake(p) ==
    /\ pc[p] = "taking"
    /\ Return(p, "ok")
    /\ final' = map
    /\ taken' = TRUE
    /\ UNCHANGED <<frozen, map, op, key, val>>

Freeze(p, k) ==
    /\ Begin(p, "freeze", k)
    /\ Return(p, IF frozen THEN "frozen" ELSE "ok")
    /\ frozen' = TRUE
    /\ UNCHANGED <<map, taken, val, final>>

-----------------------------------------------------------------------------
Terminated == \A p \in Procs : pc[p] = "done"

Next ==
    \/ \E p \in Procs, k \in Keys :
          \/ \E o \in OneShot : Check(p, o, k)
          \/ FinishSwap(p, k) \/ Freeze(p, k)
    \/ \E p \in Procs :
          \/ ApplyLate(p) \/ ApplySet(p) \/ ApplyDelete(p) \/ ApplyGetOr(p)
          \/ ApplyGet(p) \/ ApplySnapshot(p) \/ FinishTake(p)
    \/ Terminated /\ UNCHANGED vars

Spec == Init /\ [][Next]_vars
-----------------------------------------------------------------------------
(* PROPERTIES                                                              *)

Done(o) == {p \in Procs : op[p] = o /\ ans[p] = "ok"}

(* One process gets the map.  A set that reported success is in the map    *)
(* that finish returns, unless its key was set again or deleted; one that  *)
(* failed is not.                                                          *)
ReportedIsFinal ==
    /\ \A p, q \in Done("finish") \cup Done("freeze") : p = q
    /\ Done("finish") # {} =>
           \A p \in Procs :
               /\ p \in Done("set") =>
                     \/ final[key[p]] # None
                     \/ \E q \in Done("delete") : key[q] = key[p]
               /\ op[p] \in {"set", "get_or"} /\ ans[p] = "frozen" => final[key[p]] # p

(* Processes that get_or one key nobody sets or deletes get one value      *)
(* (value.rs:576-578).                                                     *)
GetOrAgrees ==
    \A p, q \in Done("get_or") :
        key[p] = key[q] /\ (\A r \in Procs : key[r] = key[p] => op[r] \notin {"set", "delete"})
            => val[p] = val[q]
=============================================================================
