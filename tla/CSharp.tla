------------------------------- MODULE CSharp -------------------------------
(***************************************************************************)
(* The part of C# that function bodies are emitted in: what a statement    *)
(* list does, and the rules of the C# compiler it has to pass.             *)
(***************************************************************************)
EXTENDS Eir

(* Expressions.  Literals, locals, calls, && and || are those of Eir. *)
CsCond(c, a, b)     == [k |-> "?:", c |-> c, a |-> a, b |-> b]
CsSwitchExpr(e, as) == [k |-> "switchExpr", e |-> e, arms |-> as]
CsThrow(kind, es)   == [k |-> "throw", kind |-> kind, es |-> es]
CsDefault           == [k |-> "default"]
CsDummy             == [k |-> "Dummy.Block"]    \* no such class exists
CsValueTuple        == [k |-> "ValueTuple"]     \* a type, not a value
CsTry(e)            == [k |-> "Helpers.Try", e |-> e]

(* Statements.  A return or an expression statement holds expressions of   *)
(* the above; a loop without a condition is while (true).                  *)
CsExpr(e)           == [k |-> "expr", e |-> e]
CsVar(x, init)      == [k |-> "var", x |-> x, init |-> init]
CsReturn(es)        == [k |-> "return", es |-> es]
CsIf(c, then, else) == [k |-> "if", c |-> c, then |-> then, else |-> else]
CsIfNot(e, p, x, b) == [k |-> "unless", e |-> e, pat |-> p, x |-> x, then |-> b]
CsWhile(c, body)    == [k |-> "while", c |-> c, body |-> body]
CsSwitch(e, as)     == [k |-> "switch", e |-> e, arms |-> as]
CsBreak             == [k |-> "break"]
CsContinue          == [k |-> "continue"]
CsGoto(l)           == [k |-> "goto", l |-> l]
CsLabel(l)          == [k |-> "label", l |-> l]
CsThrows(kind)      == CsExpr(CsThrow(kind, <<>>))

-----------------------------------------------------------------------------
(* Execution.  A statement list ends "normal", in "break", "continue",     *)
(* "goto" or "return", or with an exception ("panic", "throw").            *)

RECURSIVE CsEval(_, _), CsEvalArms(_, _, _)

CsThen(e, st, cont(_, _)) == Onward(CsEval(e, st), cont)

CsEvalArms(arms, v, st) ==
  IF arms = <<>> THEN Result("throw", UnitValue, st)
  ELSE IF ~Matches(arms[1].pat, v) THEN CsEvalArms(Tail(arms), v, st)
  ELSE IF arms[1].guard = <<>> THEN CsEval(arms[1].e, st)
  ELSE CsThen(arms[1].guard[1], st, LAMBDA g, st1 :
         IF g = True THEN CsEval(arms[1].e, st1) ELSE CsEvalArms(Tail(arms), v, st1))

CsEval(e, st) ==
  CASE e.k = "lit"  -> Value(e.v, st)
    [] e.k = "var"  -> Value(st.env[e.x], st)
    [] e.k = "call" -> CallOut(e.n, e.ty, st)
    [] e.k = "and"  -> CsThen(e.a, st, LAMBDA v, st1 :
                         IF v = True THEN CsEval(e.b, st1) ELSE Value(v, st1))
    [] e.k = "or"   -> CsThen(e.a, st, LAMBDA v, st1 :
                         IF v = True THEN Value(v, st1) ELSE CsEval(e.b, st1))
    [] e.k = "assign" -> CsThen(e.e, st, LAMBDA v, st1 :
                           Value(UnitValue, SetVar(e.x, v, st1)))
    [] e.k = "?:"   -> CsThen(e.c, st, LAMBDA v, st1 :
                         CsEval(IF v = True THEN e.a ELSE e.b, st1))
    [] e.k = "switchExpr" -> CsThen(e.e, st, LAMBDA v, st1 : CsEvalArms(e.arms, v, st1))
    [] e.k = "throw" -> IF e.es = <<>> THEN Result(e.kind, UnitValue, st)
                        ELSE CsThen(e.es[1], st, LAMBDA v, st1 :
                               Result(e.kind, UnitValue, st1))
    [] e.k = "Helpers.Try" -> CsThen(e.e, st, LAMBDA v, st1 :
                         IF v = True THEN Value(v, st1)
                                     ELSE Result("throw", UnitValue, st1))
    [] e.k = "default" -> Value(False, st)

RECURSIVE Exec(_, _), ExecList(_, _, _), ExecWhile(_, _), ExecArms(_, _, _)

Normal(st) == Result("normal", UnitValue, st)

\* Where label l stands in a statement list, or 0.
LabelAt(ss, l) ==
  IF \E i \in DOMAIN ss : ss[i] = CsLabel(l)
    THEN CHOOSE i \in DOMAIN ss : ss[i] = CsLabel(l)
    ELSE 0

\* After the i-th statement of ss ended in r: a goto to a label of this list
\* goes on there, one to a label further out leaves the list.
AfterStmt(ss, i, r) ==
  IF r.end = "normal" THEN ExecList(ss, i + 1, r.st)
  ELSE IF r.end = "goto" /\ LabelAt(ss, r.v) > 0 THEN ExecList(ss, LabelAt(ss, r.v), r.st)
  ELSE r

\* Execute ss from its i-th statement.
ExecList(ss, i, st) ==
  IF i > Len(ss) THEN Normal(st) ELSE AfterStmt(ss, i, Exec(ss[i], st))

AfterIteration(s, r) ==
  IF r.end \in {"normal", "continue"} THEN ExecWhile(s, r.st)
  ELSE IF r.end = "break" THEN Normal(r.st)
  ELSE r

ExecWhile(s, st) ==
  IF st.fuel = 0 THEN Cut(st)
  ELSE CsThen(IF s.c = <<>> THEN Lit(True) ELSE s.c[1], [st EXCEPT !.fuel = @ - 1],
              LAMBDA v, st1 : IF v = True THEN AfterIteration(s, ExecList(s.body, 1, st1))
                                          ELSE Normal(st1))

AfterSection(r) == IF r.end = "break" THEN Normal(r.st) ELSE r

ExecArms(arms, v, st) ==
  IF arms = <<>> THEN Result("throw", UnitValue, st)      \* default: throw
  ELSE IF ~Matches(arms[1].pat, v) THEN ExecArms(Tail(arms), v, st)
  ELSE CsThen(IF arms[1].guard = <<>> THEN Lit(True) ELSE arms[1].guard[1], st,
              LAMBDA g, st1 : IF g = True THEN AfterSection(ExecList(arms[1].body, 1, st1))
                                          ELSE ExecArms(Tail(arms), v, st1))

Exec(s, st) ==
  CASE s.k = "expr"   -> CsThen(s.e, st, LAMBDA v, st1 : Normal(st1))
    [] s.k = "var"    -> IF s.init = <<>> THEN Normal(st)
                         ELSE CsThen(s.init[1], st, LAMBDA v, st1 :
                                Normal(SetVar(s.x, v, st1)))
    [] s.k = "return" -> IF s.es = <<>> THEN Result("return", UnitValue, st)
                         ELSE CsThen(s.es[1], st, LAMBDA v, st1 :
                                Result("return", v, st1))
    [] s.k = "if"     -> CsThen(s.c, st, LAMBDA v, st1 :
                           ExecList(IF v = True THEN s.then ELSE s.else, 1, st1))
    [] s.k = "unless" -> CsThen(s.e, st, LAMBDA v, st1 :
                           IF Matches(s.pat, v) THEN Normal(SetVar(s.x, v, st1))
                                                ELSE ExecList(s.then, 1, st1))
    [] s.k = "while"  -> ExecWhile(s, st)
    [] s.k = "switch" -> CsThen(s.e, st, LAMBDA v, st1 : ExecArms(s.arms, v, st1))
    [] s.k \in {"break", "continue"} -> Result(s.k, UnitValue, st)
    [] s.k = "goto"   -> Result("goto", s.l, st)
    [] s.k = "label"  -> Normal(st)

\* A void method returns at its end; `default` is the unit value.
RunCSharp(code, isUnit, input, fuel) ==
  Observe([ExecList(code, 1, StartState(input, fuel)) EXCEPT
             !.end = IF @ = "normal" THEN "return" ELSE @,
             !.v = IF isUnit THEN UnitValue ELSE @])
-----------------------------------------------------------------------------
(* The rules of the C# compiler.                                           *)

CsSubExprs(e) ==
  CASE e.k \in {"and", "or"} -> {e.a, e.b}
    [] e.k = "?:"            -> {e.c, e.a, e.b}
    [] e.k \in {"assign", "Helpers.Try"} -> {e.e}
    [] e.k = "switchExpr"    -> {e.e} \cup UNION {ToSet(a.guard) \cup {a.e} : a \in ToSet(e.arms)}
    [] e.k = "throw"         -> ToSet(e.es)
    [] OTHER -> {}

\* Where a throw expression is allowed in an expression.
ThrowPlaces(e) ==
  CASE e.k = "?:"         -> {e.a, e.b}
    [] e.k = "switchExpr" -> {a.e : a \in ToSet(e.arms)}
    [] OTHER -> {}

RECURSIVE ExprErrors(_)
ExprErrors(e) ==
  UNION {ExprErrors(c) : c \in CsSubExprs(e)}
  \cup (IF e.k = "Dummy.Block" THEN {"unknown name"} ELSE {})
  \cup (IF e.k = "ValueTuple" THEN {"type as a value"} ELSE {})
  \cup (IF \E c \in CsSubExprs(e) \ ThrowPlaces(e) : c.k = "throw"
          THEN {"misplaced throw"} ELSE {})

\* An expression in a place where no throw may stand.
PlainErrors(e) ==
  ExprErrors(e) \cup (IF e.k = "throw" THEN {"misplaced throw"} ELSE {})

StatementLists(s) ==
  CASE s.k = "if"     -> {s.then, s.else}
    [] s.k = "unless" -> {s.then}
    [] s.k = "while"  -> {s.body}
    [] s.k = "switch" -> {a.body : a \in ToSet(s.arms)}
    [] OTHER -> {}

RECURSIVE Gotos(_)
Gotos(ss) ==
  {s.l : s \in {s \in ToSet(ss) : s.k = "goto"}}
  \cup UNION {UNION {Gotos(b) : b \in StatementLists(s)} : s \in ToSet(ss)}

ExprsOf(s) ==
  CASE s.k \in {"expr", "unless"} -> {s.e}
    [] s.k = "var"    -> ToSet(s.init)
    [] s.k = "return" -> ToSet(s.es)
    [] s.k = "if"     -> {s.c}
    [] s.k = "while"  -> ToSet(s.c)
    [] s.k = "switch" -> {s.e} \cup UNION {ToSet(a.guard) : a \in ToSet(s.arms)}
    [] OTHER -> {}

RECURSIVE SubExprs(_), ExprsIn(_)
SubExprs(e) == {e} \cup UNION {SubExprs(c) : c \in CsSubExprs(e)}

\* Every expression in a statement list.
ExprsIn(ss) ==
  UNION {UNION {SubExprs(e) : e \in ExprsOf(s)}
         \cup UNION {ExprsIn(b) : b \in StatementLists(s)} : s \in ToSet(ss)}

(***************************************************************************)
(* Reachability: whether the end of a statement can be reached, whether a  *)
(* break leaves it, and the errors in it.  A label is taken to be          *)
(* reachable where some goto names it (gotos).                             *)
(***************************************************************************)
Flow(end, brk, errs) == [end |-> end, brk |-> brk, errs |-> errs]

\* g after f, and either of them.
FlowThen(f, g) == Flow(g.end, f.brk \/ g.brk, f.errs \cup g.errs)
FlowEither(f, g) == Flow(f.end \/ g.end, f.brk \/ g.brk, f.errs \cup g.errs)
WithErrors(f, errs) == [f EXCEPT !.errs = @ \cup errs]

RECURSIVE FlowOf(_, _, _, _)

FlowOfList(ss, reachable, scope, fn) ==
  LET labels == {s.l : s \in {s \in ToSet(ss) : s.k = "label"}}
      inside == [scope EXCEPT !.labels = @ \cup labels]
      twice  == \/ \E i, j \in DOMAIN ss : i # j /\ ss[i].k = "label" /\ ss[i] = ss[j]
                \/ labels \cap scope.labels # {}
      step(f, s) == FlowThen(f, FlowOf(s, f.end, inside, fn))
  IN FoldLeft(step, Flow(reachable, FALSE, IF twice THEN {"duplicate label"} ELSE {}), ss)

\* "Not all code paths return a value" and its likes.
ReturnErrors(s, fn) ==
  LET kind == IF s.es = <<>> THEN "void"
              ELSE IF s.es[1] = CsDefault THEN "default"
              ELSE IF s.es[1].k = "call" /\ s.es[1].ty = "unit" THEN "void call" ELSE "value"
      fits == IF fn.ret = "bool" THEN kind = "value"
              ELSE kind = (IF fn.async THEN "default" ELSE "void")
  IN IF fits THEN {} ELSE {"wrong return"}

FlowUnless(r, b) ==
  Flow(r, b.brk, b.errs \cup IF b.end THEN {"unassigned local"} ELSE {})

FlowLoop(exits, b) == Flow(exits \/ b.brk, FALSE, b.errs)

FlowSwitch(sections) ==
  Flow(\E f \in sections : f.brk, FALSE,
       UNION {f.errs : f \in sections} \cup
       IF \E f \in sections : f.end THEN {"fall through"} ELSE {})

FlowOf(s, r, scope, fn) ==
  CASE s.k = "expr"   -> Flow(r /\ s.e.k # "throw", FALSE,
                              ExprErrors(s.e) \cup
                              IF s.e.k \in {"call", "assign", "throw", "Helpers.Try"}
                                THEN {} ELSE {"not a statement"})
    [] s.k = "var"    -> Flow(r, FALSE, UNION {PlainErrors(e) : e \in ToSet(s.init)})
    [] s.k = "return" -> Flow(FALSE, FALSE, UNION {PlainErrors(e) : e \in ToSet(s.es)}
                                            \cup ReturnErrors(s, fn))
    [] s.k = "if"     -> WithErrors(FlowEither(FlowOfList(s.then, r, scope, fn),
                                               FlowOfList(s.else, r, scope, fn)),
                                    PlainErrors(s.c))
    [] s.k = "unless" -> WithErrors(FlowUnless(r, FlowOfList(s.then, r, scope, fn)),
                                    PlainErrors(s.e))
    [] s.k = "while"  -> WithErrors(FlowLoop(s.c # <<>> /\ r,
                                             FlowOfList(s.body, r, [scope EXCEPT !.loop = TRUE], fn)),
                                    UNION {PlainErrors(c) : c \in ToSet(s.c)})
    [] s.k = "switch" -> WithErrors(FlowSwitch({FlowOfList(a.body, r, scope, fn) :
                                                  a \in ToSet(s.arms)}),
                                    PlainErrors(s.e))
    [] s.k = "break"  -> Flow(FALSE, r, {})
    [] s.k = "continue" -> Flow(FALSE, FALSE, IF scope.loop THEN {} ELSE {"no loop"})
    [] s.k = "goto"   -> Flow(FALSE, FALSE, IF s.l \in scope.labels THEN {} ELSE {"no label"})
    [] s.k = "label"  -> Flow(r \/ s.l \in scope.gotos, FALSE, {})

MethodErrors(f, fn) ==
  f.errs \cup IF f.end /\ (fn.ret = "bool" \/ fn.async) THEN {"missing return"} ELSE {}

CompileErrors(code, fn) ==
  MethodErrors(FlowOfList(code, TRUE, [labels |-> {}, gotos |-> Gotos(code), loop |-> FALSE], fn),
               fn)
=============================================================================
