------------------------------- MODULE Scope --------------------------------
(* Names and what they stand for.  resolve.rs gives every reference an     *)
(* address, how many frames up and which slot, and lower.rs keeps it; the  *)
(* evaluator (eval_core.rs, eval_dict.rs, eval_call.rs and the machine of  *)
(* eval_materialize.rs) builds chains of frames at run time and finds the  *)
(* value at the address.  Nothing but the equal shape of the two chains    *)
(* makes the value the one the name stands for.                            *)
(*                                                                         *)
(* The state is that of the machine: what it does next (control), what it  *)
(* goes on with (stack), the thunks (cells) and the frames.  A nested call *)
(* of materialize is a continuation too, and a thunk that only the machine *)
(* holds is left out.  Programs resolve and lower without a diagnostic.    *)
EXTENDS Surface, SequencesExt, FiniteSetsExt, TLC

CONSTANTS
    Programs,       \* terms, each the body of a document
    Fuel            \* steps within which the reference semantics must end

VARIABLES
    program,
    control,
    stack,          \* Vec<Cont>, the top last
    cells,          \* the thunks, by number
    frames          \* the SymbolTables that runtime chains consist of

vars == <<program, control, stack, cells, frames>>

-----------------------------------------------------------------------------
(* RESOLUTION                                                              *)

(* The names that get a slot in the frame of a dict, in order.             *)
StaticNames(entries) ==
    LET named == SelectSeq(entries, LAMBDA e : e.key = "name")
    IN  [i \in DOMAIN named |-> named[i].name]

ParamNames(params) == [i \in DOMAIN params |-> params[i].name]

(* The frames that a Sequential adds: those of its dicts, so far.          *)
DictFrames(exprs) ==
    LET dicts == SelectSeq(exprs, LAMBDA e : e.op = "dict")
    IN  [i \in DOMAIN dicts |-> StaticNames(dicts[i].entries)]

(* Mutant: an arm that declares nothing gets no frame.                     *)
ArmFrames_IfAny(chain, lets) == IF lets = <<>> THEN chain ELSE Append(chain, lets)

(* Every arm gets a frame, one that declares nothing too.                  *)
ArmFrames(chain, lets) == Append(chain, lets)

(* The place of the first x in a sequence, or 0.                           *)
Position(x, seq) == SelectInSeq(seq, LAMBDA y : y = x)

(* The innermost frame that holds the name, or the next, for a skip of 1.  *)
ResolveName(x, chain, skip) ==
    LET holders == {d \in 0..Len(chain) - 1 : Contains(chain[Len(chain) - d], x)}
        depth == CHOOSE d \in holders : Cardinality({e \in holders : e < d}) = skip
    IN  [name |-> x, depth |-> depth, slot |-> Position(x, chain[Len(chain) - depth])]

RECURSIVE ResolvePattern(_, _, _)
ResolvePattern(p, lets, chain) ==
    CASE p.pat = "name" /\ ~Contains(lets, p.name) ->
             [pat |-> "pin", addr |-> ResolveName(p.name, chain, 0)]
      [] p.pat = "dict" ->
             [p EXCEPT !.fields = [i \in DOMAIN @ |->
                 [@[i] EXCEPT !.sub = ResolvePattern(@, lets, chain)]]]
      [] OTHER -> p

(* The core term of t below a chain of frames.  site is the place of t in  *)
(* the program and names the frame of a dict literal.                      *)
RECURSIVE Resolve(_, _, _)
Resolve(t, chain, site) ==
    LET at(i) == Append(site, i)
    IN  CASE t.op = "lit" -> t
          [] t.op = "ref" -> [op |-> "var", addr |-> ResolveName(t.name, chain, 0)]
          [] t.op = "dot" -> [op |-> "var", addr |-> ResolveName(t.name, chain, 1)]
          [] t.op = "get" -> [t EXCEPT !.of = Resolve(@, chain, at(1))]
          [] t.op = "dict" ->
                 LET names == StaticNames(t.entries)
                     entry(i, e) ==
                         IF e.key = "computed"
                         THEN [e EXCEPT !.expr = Resolve(@, chain, at(2 * i)),
                                        !.value = Resolve(@, Append(chain, names), at(2 * i + 1))]
                         ELSE [e EXCEPT !.value = Resolve(@, Append(chain, names), at(2 * i + 1))]
                 IN  [op |-> "dict", site |-> site, names |-> names,
                      entries |-> [i \in DOMAIN t.entries |-> entry(i, t.entries[i])]]
          [] t.op = "fun" ->
                 [t EXCEPT !.body = Resolve(@, Append(chain, ParamNames(t.params)), at(1)),
                           !.params = [i \in DOMAIN @ |->
                               IF @[i].kind = "default"
                               THEN [@[i] EXCEPT !.value = Resolve(@, chain, at(i + 1))]
                               ELSE @[i]]]
          [] t.op = "apply" ->
                 [t EXCEPT !.f = Resolve(@, chain, at(1)),
                           !.args = [i \in DOMAIN @ |-> Resolve(@[i], chain, at(2 * i))],
                           !.named = [i \in DOMAIN @ |->
                               [@[i] EXCEPT !.value = Resolve(@, chain, at(2 * i + 1))]]]
          [] t.op = "block" ->
                 [t EXCEPT !.exprs = [i \in DOMAIN @ |->
                     Resolve(@[i], chain \o DictFrames(SubSeq(t.exprs, 1, i - 1)), at(i))]]
          [] t.op = "match" ->
                 [t EXCEPT !.of = Resolve(@, chain, at(1)),
                           !.arms = [i \in DOMAIN @ |->
                     [@[i] EXCEPT !.pattern = ResolvePattern(@, t.arms[i].lets, chain),
                                  !.body = Resolve(@, ArmFrames(chain, t.arms[i].lets), at(i + 1))]]]

-----------------------------------------------------------------------------
(* VALUES, CELLS AND FRAMES                                                *)

Number(n) == [kind |-> "int", n |-> n]
Error == [kind |-> "error"]

Pending(t, scope) == [is |-> "pending", term |-> t, scope |-> scope]
Busy == [is |-> "busy"]
Settled(v) == [is |-> "settled", value |-> v]

(* The write-once slots of a SymbolTable hold cells.                       *)
Unset == 0

Eval(t, scope) == [do |-> "eval", term |-> t, scope |-> scope]
Force(cell) == [do |-> "force", cell |-> cell]
Return(v) == [do |-> "return", value |-> v]
Fail == Return(Error)

(* A site is a sequence of numbers from 1 on, the frame of a call or of an *)
(* arm has a 0 first, and one frame is empty.                              *)
EmptyFrame == <<0, 0>>
FreshFrame == <<0, Cardinality(DOMAIN frames)>>

WithFrame(id, frame) == [f \in DOMAIN frames \cup {id} |-> IF f = id THEN frame ELSE frames[f]]

(* lookup_in_chain, which gives the name that is found as well.            *)
FrameAt(scope, addr) == frames[scope[Len(scope) - addr.depth]]
Found(scope, addr) ==
    addr.depth < Len(scope) /\ addr.slot \in DOMAIN FrameAt(scope, addr).names
FoundName(scope, addr) == FrameAt(scope, addr).names[addr.slot]
FoundCell(scope, addr) == FrameAt(scope, addr).values[addr.slot]

-----------------------------------------------------------------------------
(* EVALUATION                                                              *)

Init ==
    /\ program \in Programs
    /\ control = Eval(Resolve(program, <<>>, <<>>), <<>>)
    /\ stack = <<>> /\ cells = <<>>
    /\ frames = (EmptyFrame :> [names |-> <<>>, values |-> <<>>])

Evaluating(op) == control.do = "eval" /\ control.term.op = op

Push(wait) == stack' = Append(stack, wait)

EvalLit ==
    /\ Evaluating("lit")
    /\ control' = Return(Number(control.term.n))
    /\ UNCHANGED <<program, stack, cells, frames>>

(* The name at the address is compared, and the slot may be empty.         *)
EvalVar ==
    /\ Evaluating("var")
    /\ LET scope == control.scope
           addr == control.term.addr
       IN  control' = IF /\ Found(scope, addr)
                         /\ FoundName(scope, addr) = addr.name
                         /\ FoundCell(scope, addr) # Unset
                      THEN Force(FoundCell(scope, addr))
                      ELSE Fail
    /\ UNCHANGED <<program, stack, cells, frames>>

EvalGet ==
    /\ Evaluating("get")
    /\ Push([wait |-> "get", key |-> control.term.key])
    /\ control' = Eval(control.term.of, control.scope)
    /\ UNCHANGED <<program, cells, frames>>

(* A function keeps the chain it is made in.                               *)
EvalFun ==
    /\ Evaluating("fun")
    /\ control' = Return([kind |-> "fn", params |-> control.term.params,
                          body |-> control.term.body, scope |-> control.scope])
    /\ UNCHANGED <<program, stack, cells, frames>>

EvalApply ==
    /\ Evaluating("apply")
    /\ Push([wait |-> "call", args |-> control.term.args, named |-> control.term.named,
             scope |-> control.scope])
    /\ control' = Eval(control.term.f, control.scope)
    /\ UNCHANGED <<program, cells, frames>>

EvalBlock ==
    /\ Evaluating("block")
    /\ Push([wait |-> "block", at |-> 1, exprs |-> control.term.exprs, scope |-> control.scope])
    /\ control' = Eval(control.term.exprs[1], control.scope)
    /\ UNCHANGED <<program, cells, frames>>

EvalMatch ==
    /\ Evaluating("match")
    /\ Push([wait |-> "match", arms |-> control.term.arms, scope |-> control.scope])
    /\ control' = Eval(control.term.of, control.scope)
    /\ UNCHANGED <<program, cells, frames>>

ForceCell ==
    /\ control.do = "force"
    /\ LET cell == cells[control.cell]
       IN  CASE cell.is = "settled" ->
                    control' = Return(cell.value) /\ UNCHANGED <<stack, cells>>
             [] cell.is = "busy" ->         \* a circular dependency
                    control' = Fail /\ UNCHANGED <<stack, cells>>
             [] cell.is = "pending" ->
                    /\ control' = Eval(cell.term, cell.scope)
                    /\ Push([wait |-> "memoize", cell |-> control.cell])
                    /\ cells' = [cells EXCEPT ![control.cell] = Busy]
    /\ UNCHANGED <<program, frames>>

(* A dict literal, key by key.                                             *)
Keys(dict, scope, keys) == [do |-> "keys", dict |-> dict, scope |-> scope, keys |-> keys]

AddKey(k, key) == IF Contains(k.keys, key) THEN Fail ELSE [k EXCEPT !.keys = Append(@, key)]

EvalDict ==
    /\ Evaluating("dict")
    /\ control' = Keys(control.term, control.scope, <<>>)
    /\ UNCHANGED <<program, stack, cells, frames>>

NextEntry == control.dict.entries[Len(control.keys) + 1]

(* Values without a key are numbered; a key is computed in the outer scope.*)
NextKey ==
    /\ control.do = "keys" /\ Len(control.keys) < Len(control.dict.entries)
    /\ CASE NextEntry.key = "name" ->
                control' = AddKey(control, NextEntry.name) /\ UNCHANGED stack
         [] NextEntry.key = "auto" ->
                LET earlier == {i \in DOMAIN control.keys : control.dict.entries[i].key = "auto"}
                IN  control' = AddKey(control, ToString(Cardinality(earlier))) /\ UNCHANGED stack
         [] NextEntry.key = "computed" ->
                /\ Push([wait |-> "key", keys |-> control])
                /\ control' = Eval(NextEntry.expr, control.scope)
    /\ UNCHANGED <<program, cells, frames>>

(* Every evaluation makes new thunks, and all of them get the one frame    *)
(* that the resolver made for the literal.  A slot of it is written once.  *)
DictDone ==
    /\ control.do = "keys" /\ Len(control.keys) = Len(control.dict.entries)
    /\ LET dict == control.dict
           inner == Append(control.scope, dict.site)
           cell(key) == Len(cells) + Position(key, control.keys)
           old(slot) == IF dict.site \in DOMAIN frames
                        THEN frames[dict.site].values[slot] ELSE Unset
       IN  /\ cells' = cells \o [i \in DOMAIN dict.entries |->
                   LET t == dict.entries[i].value
                   IN  IF t.op = "lit" THEN Settled(Number(t.n)) ELSE Pending(t, inner)]
           /\ frames' = WithFrame(dict.site,
                   [names |-> dict.names,
                    values |-> [s \in DOMAIN dict.names |->
                        IF old(s) # Unset THEN old(s) ELSE cell(dict.names[s])]])
           /\ control' = Return([kind |-> "dict",
                                 map |-> [key \in ToSet(control.keys) |-> cell(key)]])
    /\ UNCHANGED <<program, stack>>

-----------------------------------------------------------------------------
(* CONTINUATIONS                                                           *)

Top == stack[Len(stack)]
Pop == stack' = Front(stack)
Answers(wait) == control.do = "return" /\ stack # <<>> /\ Top.wait = wait
Answered(wait) == Answers(wait) /\ control.value # Error

(* Values and errors alike settle the thunk.                               *)
Memoize ==
    /\ Answers("memoize")
    /\ cells' = [cells EXCEPT ![Top.cell] = Settled(control.value)]
    /\ Pop
    /\ UNCHANGED <<program, control, frames>>

(* An error passes every other continuation.                               *)
Unwind ==
    /\ control = Fail /\ stack # <<>> /\ Top.wait # "memoize"
    /\ Pop
    /\ UNCHANGED <<program, control, cells, frames>>

GotTarget ==
    /\ Answered("get")
    /\ control' = IF control.value.kind = "dict" /\ Top.key \in DOMAIN control.value.map
                  THEN Force(control.value.map[Top.key])
                  ELSE Fail
    /\ Pop
    /\ UNCHANGED <<program, cells, frames>>

GotKey ==
    /\ Answered("key")
    /\ control' = IF control.value.kind = "int"
                  THEN AddKey(Top.keys, ToString(control.value.n))
                  ELSE Fail
    /\ Pop
    /\ UNCHANGED <<program, cells, frames>>

(* CALLS.  Positional arguments fill the parameters from the left, named   *)
(* ones and defaults those that remain; of two arguments with a name the   *)
(* last counts.  One parameter at most takes the rest.                     *)
Regular(params) == SelectSeq(params, LAMBDA p : p.kind # "rest")
TakesRest(params) == \E i \in DOMAIN params : params[i].kind = "rest"
LastNamed(named, x) == Max({j \in DOMAIN named : named[j].name = x})

(* What bind_args_thunks refuses: a parameter that nothing reaches, too    *)
(* many arguments, a parameter that is given twice, an unknown name.       *)
Refused(params, args, names) ==
    LET regular == Regular(params)
        place(x) == Position(x, ParamNames(regular))
    IN  \/ \E i \in DOMAIN regular :
              regular[i].kind = "plain" /\ i > Len(args) /\ regular[i].name \notin names
        \/ ~TakesRest(params) /\ Len(args) > Len(regular)
        \/ \E x \in names : IF place(x) = 0 THEN ~TakesRest(params) ELSE place(x) <= Len(args)

(* The arguments become thunks of the caller's scope, a default one of an  *)
(* empty scope.  They are stored by slot in a new frame on top of the      *)
(* chain that the function has kept.                                       *)
Invoke ==
    /\ Answered("call")
    /\ LET fn == control.value
           args == Top.args
           named == Top.named
           names == ToSet(ParamNames(named))
           regular == Regular(fn.params)
           ofArg(i) == Len(cells) + i
           ofNamed(x) == ofArg(Len(args) + LastNamed(named, x))
           extra == {i \in DOMAIN args : i > Len(regular)}
           over == {x \in names : \A i \in DOMAIN regular : regular[i].name # x}
           key(i) == ToString(i - Len(regular) - 1)
           rest == [kind |-> "dict",
                    map |-> [k \in {key(i) : i \in extra} \cup over |->
                        IF k \in over THEN ofNamed(k) ELSE ofArg(CHOOSE i \in extra : key(i) = k)]]
           reached(p) == Position(p, regular) \in DOMAIN args \/ p.name \in names
           made == SelectSeq(fn.params, LAMBDA p : p.kind = "rest" \/ ~reached(p))
           given(p) ==
               CASE Contains(made, p) ->
                        ofArg(Len(args) + Len(named) + Position(p, made))
                 [] Position(p, regular) \in DOMAIN args -> ofArg(Position(p, regular))
                 [] OTHER -> ofNamed(p.name)
       IN  IF fn.kind = "fn" /\ ~Refused(fn.params, args, names)
           THEN /\ cells' = cells
                      \o [i \in DOMAIN args |-> Pending(args[i], Top.scope)]
                      \o [i \in DOMAIN named |-> Pending(named[i].value, Top.scope)]
                      \o [i \in DOMAIN made |-> IF made[i].kind = "rest" THEN Settled(rest)
                                              ELSE Pending(made[i].value, <<EmptyFrame>>)]
                /\ frames' = WithFrame(FreshFrame,
                       [names |-> ParamNames(fn.params),
                        values |-> [i \in DOMAIN fn.params |-> given(fn.params[i])]])
                /\ control' = Eval(fn.body, Append(fn.scope, FreshFrame))
           ELSE control' = Fail /\ UNCHANGED <<cells, frames>>
    /\ Pop
    /\ UNCHANGED program

(* The next expression sees the names of a dict that stands before it.     *)
LetrecChainStep ==
    /\ Answered("block")
    /\ LET expr == Top.exprs[Top.at]
           scope == IF expr.op = "dict" /\ expr.names # <<>>
                    THEN Append(Top.scope, expr.site) ELSE Top.scope
       IN  IF Top.at = Len(Top.exprs)
           THEN Pop /\ UNCHANGED control
           ELSE /\ stack' = Append(Front(stack), [Top EXCEPT !.at = @ + 1, !.scope = scope])
                /\ control' = Eval(Top.exprs[Top.at + 1], scope)
    /\ UNCHANGED <<program, cells, frames>>

-----------------------------------------------------------------------------
(* PATTERNS.  Of an arm, todo is what is still to be matched, in order: a  *)
(* pattern with a value, or with a field of a dict.  bound has the values  *)
(* of the names that are bound so far, by slot.                            *)

TryArm(m, i) ==
    IF i > Len(m.arms)
    THEN Fail
    ELSE [do |-> "arm", arms |-> m.arms, scope |-> m.scope, value |-> m.value, at |-> i,
          todo |-> << [pattern |-> m.arms[i].pattern, value |-> m.value] >>, bound |-> <<>>]

Matched(m) == [m EXCEPT !.todo = Tail(@)]
Unless(m, failed) == IF failed THEN TryArm(m, m.at + 1) ELSE Matched(m)

MatchDispatch ==
    /\ Answered("match")
    /\ control' = TryArm([arms |-> Top.arms, scope |-> Top.scope, value |-> control.value], 1)
    /\ Pop
    /\ UNCHANGED <<program, cells, frames>>

Matching(pat) ==
    /\ control.do = "arm" /\ control.todo # <<>>
    /\ "value" \in DOMAIN Head(control.todo)
    /\ Head(control.todo).pattern.pat = pat

Subject == Head(control.todo)

MatchWild ==
    /\ Matching("wild")
    /\ control' = Matched(control)
    /\ UNCHANGED <<program, stack, cells, frames>>

MatchLit ==
    /\ Matching("lit")
    /\ control' = Unless(control, Subject.value # Number(Subject.pattern.n))
    /\ UNCHANGED <<program, stack, cells, frames>>

BindName ==
    /\ Matching("name")
    /\ LET slot == Position(Subject.pattern.name, control.arms[control.at].lets)
           bound == [s \in DOMAIN control.bound \cup {slot} |->
                         IF s = slot THEN Subject.value ELSE control.bound[s]]
       IN  control' = [Matched(control) EXCEPT !.bound = bound]
    /\ UNCHANGED <<program, stack, cells, frames>>

(* A pin is looked up in the chain without the frame of the arm.           *)
MatchPin ==
    /\ Matching("pin")
    /\ LET addr == Subject.pattern.addr
           scope == control.scope
       IN  IF Found(scope, addr) /\ FoundName(scope, addr) = addr.name
                                 /\ FoundCell(scope, addr) # Unset
           THEN /\ Push([wait |-> "pin", arm |-> control])
                /\ control' = Force(FoundCell(scope, addr))
           ELSE /\ control' = IF Found(scope, addr) /\ FoundName(scope, addr) # addr.name
                              THEN Fail ELSE TryArm(control, control.at + 1)
                /\ UNCHANGED stack
    /\ UNCHANGED <<program, cells, frames>>

PrimitiveEq(v, w) == v.kind = w.kind /\ v.kind \in {"int", "dict"} /\ v = w

GotPin ==
    /\ Answered("pin")
    /\ control' = Unless(Top.arm, ~PrimitiveEq(Head(Top.arm.todo).value, control.value))
    /\ Pop
    /\ UNCHANGED <<program, cells, frames>>

MatchDict ==
    /\ Matching("dict")
    /\ LET fields == Subject.pattern.fields
           parts == [i \in DOMAIN fields |->
                         [pattern |-> fields[i].sub, map |-> Subject.value.map, key |-> fields[i].key]]
       IN  control' = IF Subject.value.kind = "dict"
                      THEN [control EXCEPT !.todo = parts \o Tail(@)]
                      ELSE TryArm(control, control.at + 1)
    /\ UNCHANGED <<program, stack, cells, frames>>

(* A field is forced when its turn comes.                                  *)
MatchField ==
    /\ control.do = "arm" /\ control.todo # <<>> /\ "key" \in DOMAIN Subject
    /\ IF Subject.key \in DOMAIN Subject.map
       THEN /\ Push([wait |-> "field", arm |-> control])
            /\ control' = Force(Subject.map[Subject.key])
       ELSE /\ control' = TryArm(control, control.at + 1)
            /\ UNCHANGED stack
    /\ UNCHANGED <<program, cells, frames>>

GotField ==
    /\ Answered("field")
    /\ control' = [Top.arm EXCEPT !.todo[1] = [pattern |-> @.pattern, value |-> control.value]]
    /\ Pop
    /\ UNCHANGED <<program, cells, frames>>

(* The frame of the arm has the names that were bound, in the order of     *)
(* their slots; a value is stored by its slot, though.                     *)
TakeArm ==
    /\ control.do = "arm" /\ control.todo = <<>>
    /\ LET arm == control.arms[control.at]
           slots == SetToSortSeq(DOMAIN control.bound, <)
       IN  /\ cells' = cells \o [i \in DOMAIN slots |-> Settled(control.bound[slots[i]])]
           /\ frames' = WithFrame(FreshFrame,
                  [names |-> [i \in DOMAIN slots |-> arm.lets[slots[i]]],
                   values |-> [i \in DOMAIN slots |->
                                   IF slots[i] = i THEN Len(cells) + i ELSE Unset]])
           /\ control' = Eval(arm.body, Append(control.scope, FreshFrame))
    /\ UNCHANGED <<program, stack>>

Next ==
    \/ EvalLit \/ EvalVar \/ EvalGet \/ EvalFun \/ EvalApply \/ EvalBlock \/ EvalMatch
    \/ ForceCell \/ EvalDict \/ NextKey \/ DictDone
    \/ Memoize \/ Unwind \/ GotTarget \/ GotKey \/ Invoke \/ LetrecChainStep
    \/ MatchDispatch \/ MatchWild \/ MatchLit \/ BindName \/ MatchPin \/ GotPin
    \/ MatchDict \/ MatchField \/ GotField \/ TakeArm

Finished == control.do = "return" /\ stack = <<>>

Spec == Init /\ [][Next]_vars

-----------------------------------------------------------------------------
(* MEANING.  Lexical scope, call by name: an environment is a sequence of  *)
(* frames of named bindings, the innermost last, each a value or a term in *)
(* the environment it was met in; the binding of a dict sees the dict.     *)
(* What does not end within the fuel is an error.                          *)

LetrecFrame(entries, env) ==
    [letrec |-> TRUE,
     binds |-> [x \in ToSet(StaticNames(entries)) |->
         LET entry == CHOOSE e \in ToSet(entries) : e.key = "name" /\ e.name = x
         IN  [term |-> entry.value, entries |-> entries, env |-> env]]]

Binds(names, what) ==
    [letrec |-> FALSE,
     binds |-> [x \in ToSet(names) |-> what[Position(x, names)]]]

(* What a call binds, if it is right: every argument goes to a parameter,  *)
(* or into the rest if there is one, and every parameter has a default, or *)
(* one kind of argument.  A default is closed.                             *)
CallBinds(params, args, named, env) ==
    LET regular == Regular(params)
        places(x) == {i \in DOMAIN args : i <= Len(regular) /\ regular[i].name = x}
        calls(x) == {j \in DOMAIN named : named[j].name = x}
        spare == {i \in DOMAIN args : i > Len(regular)}
        strange == {j \in DOMAIN named : ~Contains(ParamNames(regular), named[j].name)}
        thunk(t) == [term |-> t, env |-> env]
        rest == [k \in {named[j].name : j \in strange} |-> thunk(named[Max(calls(k))].value)]
                @@ FoldSet(LAMBDA i, map :
                               ToString(i - Len(regular) - 1) :> thunk(args[i]) @@ map,
                           <<>>, spare)
        bound(p) ==
            CASE p.kind = "rest" -> [value |-> [kind |-> "dict", map |-> rest]]
              [] places(p.name) # {} -> thunk(args[Max(places(p.name))])
              [] calls(p.name) # {} -> thunk(named[Max(calls(p.name))].value)
              [] OTHER -> [term |-> p.value, env |-> <<>>]
    IN  IF /\ \A i \in DOMAIN regular :
                LET x == regular[i].name
                IN  IF regular[i].kind = "default"
                    THEN places(x) = {} \/ calls(x) = {}
                    ELSE (places(x) = {}) # (calls(x) = {})
           /\ spare \cup strange = {} \/ TakesRest(params)
        THEN {Binds(ParamNames(params), [i \in DOMAIN params |-> bound(params[i])])}
        ELSE {}

(* The binding of a name; .x passes over the nearest dict around it.       *)
Bound(x, env) == \E i \in DOMAIN env : x \in DOMAIN env[i].binds
Binding(x, env) == env[CHOOSE i \in DOMAIN env :
    x \in DOMAIN env[i].binds /\ \A j \in DOMAIN env : j > i => x \notin DOMAIN env[j].binds].binds[x]

OutsideDict(env) ==
    LET nearest == CHOOSE i \in DOMAIN env :
            env[i].letrec /\ \A j \in DOMAIN env : j > i => ~env[j].letrec
    IN  RemoveAt(env, nearest)

Same(v, w) == v.kind = w.kind /\ (v.kind = "int" => v.n = w.n)

RECURSIVE Meaning(_, _, _), BlockMeaning(_, _, _), MatchMeaning(_, _, _, _), Matches(_, _, _, _, _)

Demand(binding, fuel) ==
    CASE "value" \in DOMAIN binding -> binding.value
      [] "entries" \in DOMAIN binding ->
             Meaning(binding.term, Append(binding.env, LetrecFrame(binding.entries, binding.env)), fuel)
      [] OTHER -> Meaning(binding.term, binding.env, fuel)

DictMeaning(entries, env, fuel) ==
    LET key(i) ==
            CASE entries[i].key = "name" -> entries[i].name
              [] entries[i].key = "auto" ->
                     ToString(Cardinality({j \in 1..i - 1 : entries[j].key = "auto"}))
              [] entries[i].key = "computed" ->
                     LET v == Meaning(entries[i].expr, env, fuel)
                     IN  IF v.kind = "int" THEN ToString(v.n) ELSE "no key"
        keys == [i \in DOMAIN entries |-> key(i)]
        frame == LetrecFrame(entries, env)
    IN  IF Contains(keys, "no key") \/ Cardinality(ToSet(keys)) # Len(keys)
        THEN Error
        ELSE [kind |-> "dict",
              map |-> [k \in ToSet(keys) |->
                  [term |-> entries[Position(k, keys)].value,
                   env |-> env, entries |-> entries]]]

Meaning(t, env, fuel) ==
    IF fuel = 0 THEN Error ELSE
    CASE t.op = "lit" -> Number(t.n)
      [] t.op = "ref" -> IF Bound(t.name, env) THEN Demand(Binding(t.name, env), fuel - 1) ELSE Error
      [] t.op = "dot" -> Demand(Binding(t.name, OutsideDict(env)), fuel - 1)
      [] t.op = "fun" -> [kind |-> "fn", params |-> t.params, body |-> t.body, env |-> env]
      [] t.op = "dict" -> DictMeaning(t.entries, env, fuel - 1)
      [] t.op = "get" ->
             LET v == Meaning(t.of, env, fuel - 1)
             IN  IF v.kind = "dict" /\ t.key \in DOMAIN v.map
                 THEN Demand(v.map[t.key], fuel - 1) ELSE Error
      [] t.op = "apply" ->
             LET v == Meaning(t.f, env, fuel - 1)
                 binds == IF v.kind = "fn" THEN CallBinds(v.params, t.args, t.named, env) ELSE {}
             IN  IF binds = {} THEN Error
                 ELSE Meaning(v.body, Append(v.env, CHOOSE b \in binds : TRUE), fuel - 1)
      [] t.op = "block" -> BlockMeaning(t.exprs, env, fuel - 1)
      [] t.op = "match" ->
             LET v == Meaning(t.of, env, fuel - 1)
             IN  IF v = Error THEN Error ELSE MatchMeaning(t.arms, v, env, fuel - 1)

(* let*: each expression sees the names of the dicts before it.            *)
BlockMeaning(exprs, env, fuel) ==
    LET v == Meaning(Head(exprs), env, fuel)
    IN  IF v = Error \/ Len(exprs) = 1
        THEN v
        ELSE BlockMeaning(Tail(exprs),
                          IF Head(exprs).op = "dict"
                          THEN Append(env, LetrecFrame(Head(exprs).entries, env)) ELSE env,
                          fuel)

(* A set with the bindings of a match, if there is one, or with an error.  *)
Matches(p, lets, v, env, fuel) ==
    CASE p.pat = "wild" -> {<<>>}
      [] p.pat = "lit" -> IF v = Number(p.n) THEN {<<>>} ELSE {}
      [] p.pat = "name" ->
             IF Contains(lets, p.name)
             THEN {[x \in {p.name} |-> [value |-> v]]}
             ELSE LET w == Demand(Binding(p.name, env), fuel)
                  IN  IF w = Error THEN {Error} ELSE IF PrimitiveEq(v, w) THEN {<<>>} ELSE {}
      [] p.pat = "dict" ->
             IF v.kind # "dict" THEN {} ELSE
             LET with(found, field) ==
                     IF found \in {{}, {Error}} THEN found
                     ELSE IF field.key \notin DOMAIN v.map THEN {}
                     ELSE LET w == Demand(v.map[field.key], fuel)
                              more == IF w = Error THEN {Error}
                                      ELSE Matches(field.sub, lets, w, env, fuel)
                          IN  IF more \in {{}, {Error}} THEN more
                              ELSE {(CHOOSE f \in found : TRUE) @@ (CHOOSE f \in more : TRUE)}
             IN  FoldLeft(with, {<<>>}, p.fields)

MatchMeaning(arms, v, env, fuel) ==
    IF arms = <<>> THEN Error ELSE
    LET arm == Head(arms)
        found == Matches(arm.pattern, arm.lets, v, env, fuel)
    IN  CASE found = {} -> MatchMeaning(Tail(arms), v, env, fuel)
          [] found = {Error} -> Error
          [] OTHER ->
                 Meaning(arm.body,
                         Append(env, [letrec |-> FALSE, binds |-> CHOOSE f \in found : TRUE]),
                         fuel)

-----------------------------------------------------------------------------
(* PROPERTIES                                                              *)

(* A program that has ended has the value that lexical scoping gives it:   *)
(* the address of every name has led to the binding that the text shows,   *)
(* and a thunk that is shared was none the worse for it.                   *)
Lexical == Finished => Same(control.value, Meaning(program, <<>>, Fuel))
=============================================================================
