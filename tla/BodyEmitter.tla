---------------------------- MODULE BodyEmitter ----------------------------
(***************************************************************************)
(* The C# that is written for a transformed function body                  *)
(* (codegen/body/emitter.rs).  Emitting a statement yields its code,       *)
(* whether the emitter takes it for diverging (EmittedExprInfo), and the   *)
(* errors it logs for what it knows it cannot translate.                   *)
(***************************************************************************)
EXTENDS CSharp

Emitted(code, diverging, logged) ==
  [code |-> code, diverging |-> diverging, logged |-> logged]

\* An emitted expression and what was logged on the way.
Text(code, logged) == [code |-> code, logged |-> logged]

RECURSIVE EmitExpr(_), EmitStmt(_, _)

-----------------------------------------------------------------------------
(* Expressions: emit_expr_str_ast_inner.                                   *)

EmitAll(es) == MapSeq(LAMBDA e : EmitExpr(e), es)
CodeOf(ts)   == MapSeq(LAMBDA t : t.code, ts)
LoggedBy(ts) == UNION {t.logged : t \in ToSet(ts)}

\* BinaryOp::LogicOp: both operators are written "&&".
LogicText(ts) == Text(And(ts[1].code, ts[2].code), LoggedBy(ts))

EmitLogic(e) == LogicText(EmitAll(<<e.a, e.b>>))

\* emit_simple_block_as_expr
EmitBlockAsExpr(b) ==
  IF b.stmts # <<>> THEN Text(CsDummy, {"block in expression place"})
  ELSE IF b.tail = <<>> THEN Text(CsDefault, {})
  ELSE EmitExpr(b.tail[1])

\* emit_if_expr_as_expr; without an else it names the type ValueTuple.
CondText(ts) ==
  Text(CsCond(ts[1].code, ts[2].code, IF Len(ts) = 2 THEN CsValueTuple ELSE ts[3].code),
       LoggedBy(ts))

HasElseIf(e) == e.else # <<>> /\ e.else[1].k = "if"

\* The else-if hides the if it belongs to: its own condition and branch are
\* written twice, those of the outer if are lost.
RECURSIVE EmitIfAsExpr(_)
EmitIfAsExpr(e) ==
  IF HasElseIf(e)
  THEN LET inner == e.else[1]
       IN  CondText(<<EmitExpr(inner.c), EmitBlockAsExpr(inner.then), EmitIfAsExpr(inner)>>)
  ELSE CondText(<<EmitExpr(e.c), EmitBlockAsExpr(e.then)>> \o MapSeq(EmitBlockAsExpr, e.else))

ArmText(pat, ts) ==
  Text(Arm(pat, CodeOf(Front(ts)), Last(ts).code), LoggedBy(ts))

SwitchText(scrutinee, arms) ==
  Text(CsSwitchExpr(scrutinee.code, CodeOf(arms)), scrutinee.logged \cup LoggedBy(arms))

EmitSwitchExpr(e) ==
  SwitchText(EmitExpr(e.e),
             MapSeq(LAMBDA a : ArmText(a.pat, EmitAll(a.guard \o <<a.e>>)), e.arms))

TryText(t)        == Text(CsTry(t.code), t.logged)
AssignText(x, t)  == Text(Assign(x, t.code), t.logged)
ReturnText(ts)    == Text(CsThrow("throw", CodeOf(ts)), LoggedBy(ts))

EmitExpr(e) ==
  CASE e.k \in {"lit", "var", "call"} -> Text(e, {})
    [] e.k = "unit" -> Text(CsDefault, {})
    [] e.k \in {"and", "or"} -> EmitLogic(e)
    [] e.k = "try"  -> TryText(EmitExpr(e.e))
    [] e.k = "assign" -> AssignText(e.x, EmitExpr(e.e))
    [] e.k = "block" -> EmitBlockAsExpr(e)
    [] e.k = "if"   -> EmitIfAsExpr(e)
    [] e.k = "match" -> EmitSwitchExpr(e)
    [] e.k = "return" -> ReturnText(EmitAll(e.es))
    [] e.k \in {"break", "continue"} \cup Loops ->
         Text(CsDefault, {"control flow in expression place"})
    [] e.k = "panic" -> Text(CsThrow("panic", <<>>), {})

-----------------------------------------------------------------------------
(* Statements: emit_expr_as_stmt_ast.                                      *)

BreakLabel(l)    == <<l, "b">>
ContinueLabel(l) == <<l, "c">>
LabelStmts(l)    == IF l[1] = NoLabel THEN <<>> ELSE <<CsLabel(l)>>

Nothing == Emitted(<<>>, FALSE, {})

ReturnCode(bare, ts) ==
  Emitted(<<CsReturn(IF bare THEN <<CsDefault>> ELSE CodeOf(ts))>>, TRUE, LoggedBy(ts))

EmitReturn(e, fn) == ReturnCode(e.es = <<>> /\ fn.async, EmitAll(e.es))

LetCode(x, ts) == Emitted(<<CsVar(x, CodeOf(ts))>>, FALSE, LoggedBy(ts))

LetElseCode(x, t, b) ==
  Emitted(<<CsIfNot(t.code, True, x, b.code)>>, FALSE, t.logged \cup b.logged)

EmitLet(s, fn) ==
  IF s.els = <<>> THEN LetCode(s.x, EmitAll(s.init))
                  ELSE LetElseCode(s.x, EmitExpr(s.init[1]), EmitStmt(s.els[1], fn))

\* emit_block_contents: a block diverges where one of its statements does.
EmitBlockContents(ss, tail, fn) ==
  LET one(s)     == IF s.k = "let" THEN EmitLet(s, fn) ELSE EmitStmt(s.e, fn)
      join(a, b) == Emitted(a.code \o b.code, a.diverging \/ b.diverging,
                            a.logged \cup b.logged)
  IN FoldLeft(join, Nothing, MapSeq(one, ss \o MapSeq(Stmt, tail)))

\* A faulty variant: one diverging branch is enough.
EitherBranchDiverges(c, then, else) ==
  Emitted(<<CsIf(c.code, then.code, else.code)>>, then.diverging \/ else.diverging,
          c.logged \cup then.logged \cup else.logged)

IfCode(c, then, else) ==
  Emitted(<<CsIf(c.code, then.code, else.code)>>, then.diverging /\ else.diverging,
          c.logged \cup then.logged \cup else.logged)

EmitIf(e, fn) ==
  IfCode(EmitExpr(e.c), EmitStmt(e.then, fn),
         IF e.else = <<>> THEN Nothing ELSE EmitStmt(e.else[1], fn))

\* A loop is taken to diverge; its labels stand at the end of its body and
\* behind it.
LoopCode(conditions, label, b) ==
  Emitted(<<CsWhile(CodeOf(conditions), b.code \o LabelStmts(ContinueLabel(label)))>>
            \o LabelStmts(BreakLabel(label)),
          conditions = <<>>, LoggedBy(conditions) \cup b.logged)

EmitLoop(e, fn)  == LoopCode(<<>>, e.label, EmitStmt(e.body, fn))

EmitWhile(e, fn) == LoopCode(<<EmitExpr(e.c)>>, e.label, EmitStmt(e.body, fn))

\* foreach.  It gets no label to jump to.
EmitFor(e, fn)   == LoopCode(<<EmitExpr(e.c)>>, NoLabel, EmitStmt(e.body, fn))

SectionCode(pat, guard, b) ==
  [arm |-> [pat |-> pat, guard |-> CodeOf(guard),
            body |-> IF b.diverging THEN b.code ELSE Append(b.code, CsBreak)],
   diverging |-> b.diverging, logged |-> b.logged \cup LoggedBy(guard)]

EmitSection(a, fn) == SectionCode(a.pat, EmitAll(a.guard), EmitStmt(a.e, fn))

SwitchCode(scrutinee, sections) ==
  Emitted(<<CsSwitch(scrutinee.code, MapSeq(LAMBDA s : s.arm, sections))>>,
          \A s \in ToSet(sections) : s.diverging,
          scrutinee.logged \cup LoggedBy(sections))

EmitMatch(e, fn) ==
  SwitchCode(EmitExpr(e.e), MapSeq(LAMBDA a : EmitSection(a, fn), e.arms))

\* A faulty variant: every break leaves the innermost loop.
PlainBreak(e) == Emitted(<<CsBreak>>, TRUE, {})

EmitBreak(e) ==
  Emitted(IF e.label = NoLabel THEN <<CsBreak>> ELSE <<CsGoto(BreakLabel(e.label))>>,
          TRUE, {})

\* A labelled continue is reported and written as a plain one.
EmitContinue(e) ==
  Emitted(<<CsContinue>>, TRUE, IF e.label = NoLabel THEN {} ELSE {"labelled continue"})

\* RawCodeExpr, and any other expression.
ExprCode(t, diverging) == Emitted(<<CsExpr(t.code)>>, diverging, t.logged)

EmitExprStmt(e) == ExprCode(EmitExpr(e), e.k = "panic")

EmitStmt(e, fn) ==
  CASE e.k \in {"block", "macro"} -> EmitBlockContents(e.stmts, e.tail, fn)
    [] e.k = "return"   -> EmitReturn(e, fn)
    [] e.k = "unit"     -> Emitted(<<>>, FALSE, {})
    [] e.k = "if"       -> EmitIf(e, fn)
    [] e.k = "loop"     -> EmitLoop(e, fn)
    [] e.k = "while"    -> EmitWhile(e, fn)
    [] e.k = "for"      -> EmitFor(e, fn)
    [] e.k = "match"    -> EmitMatch(e, fn)
    [] e.k = "break"    -> EmitBreak(e)
    [] e.k = "continue" -> EmitContinue(e)
    [] OTHER -> EmitExprStmt(e)

\* emit_returning_block: an async body returns default at its end.
BodyCode(r, fn) ==
  LET isUnit == fn.ret = "unit"
      last   == IF isUnit /\ fn.async /\ ~r.diverging THEN <<CsReturn(<<CsDefault>>)>>
                                                      ELSE <<>>
  IN Emitted(r.code \o last, r.diverging,
             r.logged \cup IF ~isUnit /\ ~r.diverging THEN {"body does not diverge"} ELSE {})

EmitReturningBlock(body, fn) ==
  BodyCode(EmitBlockContents(body.stmts, body.tail, fn), fn)
=============================================================================
