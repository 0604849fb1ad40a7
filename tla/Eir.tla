-------------------------------- MODULE Eir --------------------------------
(***************************************************************************)
(* EIR, the expression tree the compiler lowers function bodies to         *)
(* (codegen/body/eir/nodes.rs), cut down to its control flow, and what     *)
(* such a body means in Rust.                                              *)
(*                                                                         *)
(* Data is abstracted to booleans: the value of every external call comes  *)
(* from an input sequence, and what a body does is the sequence of its     *)
(* external calls and how it ends.  An optional child is a sequence of at  *)
(* most one node.                                                          *)
(***************************************************************************)
EXTENDS Naturals, Sequences, FiniteSets, SequencesExt

True == "true"   False == "false"   UnitValue == "()"

(* Expressions. *)
Lit(v)            == [k |-> "lit", v |-> v]
Unit              == [k |-> "unit"]
Var(x)            == [k |-> "var", x |-> x]
Ask(n)            == [k |-> "call", n |-> n, ty |-> "bool"]  \* reads an input
Do(n)             == [k |-> "call", n |-> n, ty |-> "unit"]
And(a, b)         == [k |-> "and", a |-> a, b |-> b]
Or(a, b)          == [k |-> "or", a |-> a, b |-> b]
Try(e)            == [k |-> "try", e |-> e]                  \* e?
Assign(x, e)      == [k |-> "assign", x |-> x, e |-> e]
Block(ss, tail)   == [k |-> "block", stmts |-> ss, tail |-> tail]
MacroStmts(ss)    == [k |-> "macro", stmts |-> ss, tail |-> <<>>]
If(c, then, else) == [k |-> "if", c |-> c, then |-> then, else |-> else]
Match(e, arms)    == [k |-> "match", e |-> e, arms |-> arms]
Arm(p, guard, e)  == [pat |-> p, guard |-> guard, e |-> e]
Loop(l, b)        == [k |-> "loop", label |-> l, body |-> b]
While(l, c, b)    == [k |-> "while", label |-> l, c |-> c, body |-> b]
For(l, c, b)      == [k |-> "for", label |-> l, c |-> c, body |-> b]
Break(l)          == [k |-> "break", label |-> l]
Continue(l)       == [k |-> "continue", label |-> l]
Ret(es)           == [k |-> "return", es |-> es]
Panic             == [k |-> "panic"]      \* RawCodeExpr { divergent: true }

NoLabel == ""

(* Statements: `let x = init else { els };` and `e;`. *)
Let(x, init, els) == [k |-> "let", x |-> x, init |-> init, els |-> els]
Stmt(e)           == [k |-> "expr", e |-> e]

Loops == {"loop", "while", "for"}

(***************************************************************************)
(* The children of a node, as accept_children_mut visits them.             *)
(***************************************************************************)
MapSeq(f(_), s) == [i \in DOMAIN s |-> f(s[i])]

MapArm(f(_), arm) == [arm EXCEPT !.guard = MapSeq(f, @), !.e = f(@)]

MapChildren(e, fe(_), fs(_)) ==
  CASE e.k \in {"and", "or"}    -> [e EXCEPT !.a = fe(@), !.b = fe(@)]
    [] e.k \in {"try", "assign"} -> [e EXCEPT !.e = fe(@)]
    [] e.k \in {"block", "macro"} ->
         [e EXCEPT !.stmts = MapSeq(fs, @), !.tail = MapSeq(fe, @)]
    [] e.k = "if" ->
         [e EXCEPT !.c = fe(@), !.then = fe(@), !.else = MapSeq(fe, @)]
    [] e.k = "match" ->
         [e EXCEPT !.e = fe(@), !.arms = MapSeq(LAMBDA a : MapArm(fe, a), @)]
    [] e.k = "loop" -> [e EXCEPT !.body = fe(@)]
    [] e.k \in {"while", "for"} -> [e EXCEPT !.c = fe(@), !.body = fe(@)]
    [] e.k = "return" -> [e EXCEPT !.es = MapSeq(fe, @)]
    [] OTHER -> e

MapStmt(s, fe(_)) ==
  IF s.k = "expr" THEN [s EXCEPT !.e = fe(@)]
                  ELSE [s EXCEPT !.init = MapSeq(fe, @), !.els = MapSeq(fe, @)]

ChildrenOfStmt(s) ==
  IF s.k = "expr" THEN {s.e} ELSE ToSet(s.init) \cup ToSet(s.els)

Children(e) ==
  CASE e.k \in {"and", "or"}    -> {e.a, e.b}
    [] e.k \in {"try", "assign"} -> {e.e}
    [] e.k \in {"block", "macro"} ->
         UNION {ChildrenOfStmt(s) : s \in ToSet(e.stmts)} \cup ToSet(e.tail)
    [] e.k = "if"    -> {e.c, e.then} \cup ToSet(e.else)
    [] e.k = "match" -> {e.e} \cup UNION {ToSet(a.guard) \cup {a.e} : a \in ToSet(e.arms)}
    [] e.k = "loop"  -> {e.body}
    [] e.k \in {"while", "for"} -> {e.c, e.body}
    [] e.k = "return" -> ToSet(e.es)
    [] OTHER -> {}

RECURSIVE Nodes(_)
Nodes(e) == {e} \cup UNION {Nodes(c) : c \in Children(e)}

\* The break expressions in e that leave a loop or match around e, and those
\* that leave the loop l itself.
RECURSIVE OpenBreaks(_)
OpenBreaks(e) ==
  IF e.k = "break" THEN {e}
  ELSE LET inner == UNION {OpenBreaks(c) : c \in Children(e)} IN
       IF e.k \in Loops THEN {b \in inner : b.label \notin {NoLabel, e.label}}
                        ELSE inner

BreaksOut(l) == {b \in OpenBreaks(l.body) : b.label \in {NoLabel, l.label}}

(***************************************************************************)
(* Types, as rust-analyzer reports them to the compiler.                   *)
(***************************************************************************)
JoinTypes(ts) == IF ts = {"never"} THEN "never"
                                   ELSE CHOOSE t \in ts : t # "never"

RECURSIVE Type(_)
Type(e) ==
  CASE e.k \in {"lit", "var", "and", "or", "try"} -> "bool"
    [] e.k = "call" -> e.ty
    [] e.k \in {"break", "continue", "return", "panic"} -> "never"
    [] e.k \in {"block", "macro"} ->
         IF e.tail # <<>> THEN Type(e.tail[1])
         ELSE IF \E s \in ToSet(e.stmts) : s.k = "expr" /\ Type(s.e) = "never"
              THEN "never" ELSE "unit"
    [] e.k = "if" -> IF e.else = <<>> THEN "unit"
                     ELSE JoinTypes({Type(e.then), Type(e.else[1])})
    [] e.k = "match" -> JoinTypes({Type(a.e) : a \in ToSet(e.arms)})
    [] e.k = "loop" -> IF BreaksOut(e) = {} THEN "never" ELSE "unit"
    [] OTHER -> "unit"

\* EirSemantics::is_divergent
IsDivergent(e) == e.k = "panic" \/ Type(e) = "never"

(***************************************************************************)
(* What a body means in Rust.  A state holds the inputs left, the calls    *)
(* made, the locals and a bound on loop iterations; a result is the state  *)
(* reached and how evaluation ended there: with a value, by leaving a loop *)
(* or the function, with a panic, or "cut" when inputs or iterations ran   *)
(* out.                                                                    *)
(***************************************************************************)
Result(kind, v, st) == [end |-> kind, v |-> v, st |-> st]
Value(v, st)        == Result("value", v, st)
Cut(st)             == Result("cut", UnitValue, st)

StartState(input, fuel) == [in |-> input, log |-> <<>>, env |-> <<>>, fuel |-> fuel]

SetVar(x, v, st) ==
  [st EXCEPT !.env = [y \in DOMAIN @ \cup {x} |-> IF y = x THEN v ELSE @[y]]]

\* An external call is logged; one that answers takes the next input.
CallOut(n, ty, st) ==
  IF ty = "unit" THEN Value(UnitValue, [st EXCEPT !.log = Append(@, n)])
  ELSE IF st.in = <<>> THEN Cut(st)
  ELSE Value(Head(st.in), [st EXCEPT !.in = Tail(@), !.log = Append(@, n)])

\* Go on with a value where there is one.
Onward(r, cont(_, _)) == IF r.end = "value" THEN cont(r.v, r.st) ELSE r

Matches(pat, v) == pat \in {"_", v}

RECURSIVE Eval(_, _), EvalStmts(_, _, _), EvalArms(_, _, _), EvalLoop(_, _)

\* Evaluate e, and go on with its value.
EvalThen(e, st, cont(_, _)) == Onward(Eval(e, st), cont)

EvalLet(s, st) ==
  IF s.init = <<>> THEN Value(UnitValue, st)
  ELSE EvalThen(s.init[1], st, LAMBDA v, st1 :
         IF s.els # <<>> /\ v = False
           THEN Eval(s.els[1], st1)
           ELSE Value(UnitValue, SetVar(s.x, v, st1)))

EvalStmts(ss, tail, st) ==
  IF ss = <<>> THEN IF tail = <<>> THEN Value(UnitValue, st) ELSE Eval(tail[1], st)
  ELSE Onward(IF ss[1].k = "let" THEN EvalLet(ss[1], st) ELSE Eval(ss[1].e, st),
              LAMBDA v, st1 : EvalStmts(Tail(ss), tail, st1))

EvalArms(arms, v, st) ==
  IF ~Matches(arms[1].pat, v) THEN EvalArms(Tail(arms), v, st)
  ELSE IF arms[1].guard = <<>> THEN Eval(arms[1].e, st)
  ELSE EvalThen(arms[1].guard[1], st, LAMBDA g, st1 :
         IF g = True THEN Eval(arms[1].e, st1) ELSE EvalArms(Tail(arms), v, st1))

\* What a loop does after its body ended in r.
AfterTurn(l, r) ==
  LET here == r.v \in {NoLabel, l.label} IN
  IF r.end = "value" \/ (r.end = "continue" /\ here) THEN EvalLoop(l, r.st)
  ELSE IF r.end = "break" /\ here THEN Value(UnitValue, r.st)
  ELSE r

EvalLoop(l, st) ==
  IF st.fuel = 0 THEN Cut(st)
  ELSE Onward(IF l.k = "loop" THEN Value(True, [st EXCEPT !.fuel = @ - 1])
                              ELSE Eval(l.c, [st EXCEPT !.fuel = @ - 1]),
              LAMBDA v, st1 : IF v = True THEN AfterTurn(l, Eval(l.body, st1))
                                          ELSE Value(UnitValue, st1))

Eval(e, st) ==
  CASE e.k = "lit"  -> Value(e.v, st)
    [] e.k = "unit" -> Value(UnitValue, st)
    [] e.k = "var"  -> Value(st.env[e.x], st)
    [] e.k = "call" -> CallOut(e.n, e.ty, st)
    [] e.k = "and"  -> EvalThen(e.a, st, LAMBDA v, st1 :
                         IF v = True THEN Eval(e.b, st1) ELSE Value(v, st1))
    [] e.k = "or"   -> EvalThen(e.a, st, LAMBDA v, st1 :
                         IF v = True THEN Value(v, st1) ELSE Eval(e.b, st1))
    [] e.k = "try"  -> EvalThen(e.e, st, LAMBDA v, st1 :
                         IF v = True THEN Value(v, st1) ELSE Result("return", v, st1))
    [] e.k = "assign" -> EvalThen(e.e, st, LAMBDA v, st1 :
                           Value(UnitValue, SetVar(e.x, v, st1)))
    [] e.k \in {"block", "macro"} -> EvalStmts(e.stmts, e.tail, st)
    [] e.k = "if"   -> EvalThen(e.c, st, LAMBDA v, st1 :
                         IF v = True THEN Eval(e.then, st1)
                         ELSE IF e.else = <<>> THEN Value(UnitValue, st1)
                         ELSE Eval(e.else[1], st1))
    [] e.k = "match" -> EvalThen(e.e, st, LAMBDA v, st1 : EvalArms(e.arms, v, st1))
    [] e.k \in Loops -> EvalLoop(e, st)
    [] e.k \in {"break", "continue"} -> Result(e.k, e.label, st)
    [] e.k = "return" -> IF e.es = <<>> THEN Result("return", UnitValue, st)
                         ELSE EvalThen(e.es[1], st, LAMBDA v, st1 :
                                Result("return", v, st1))
    [] e.k = "panic" -> Result("panic", UnitValue, st)

\* What a caller sees of a function body: its calls and its outcome.
Observe(r) ==
  [log |-> r.st.log, end |-> IF r.end = "value" THEN "return" ELSE r.end,
   v |-> IF r.end \in {"value", "return"} THEN r.v ELSE UnitValue]

RunRust(body, input, fuel) == Observe(Eval(body, StartState(input, fuel)))
=============================================================================
