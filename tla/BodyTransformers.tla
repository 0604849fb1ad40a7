-------------------------- MODULE BodyTransformers --------------------------
(***************************************************************************)
(* The passes over a function body before it is emitted                    *)
(* (codegen/body/transformer): ImplicitReturns makes every value the       *)
(* function returns the operand of a return statement, ExpandBlockExpr     *)
(* turns the block that initialises a local into statements that assign    *)
(* it.                                                                     *)
(***************************************************************************)
EXTENDS Eir

(* transformer/mod.rs *)

HasStatements(b) == b.stmts # <<>>

RECURSIVE HasStmtInExpr(_)
HasStmtInExpr(e) ==
  CASE e.k = "block" -> HasStatements(e)
    [] e.k = "if"    -> \/ HasStatements(e.then)
                        \/ e.else # <<>> /\ HasStmtInExpr(e.else[1])
    [] e.k = "match" -> \E a \in ToSet(e.arms) : HasStmtInExpr(a.e)
    [] OTHER -> FALSE

-----------------------------------------------------------------------------
(* implicit_returns.rs.  ImplicitReturnsImpl visits expressions whose      *)
(* value the function returns; it says whether the returns are inside now. *)

Visited(inside, e) == [inside |-> inside, e |-> e]

RECURSIVE ReturnsOf(_)

\* visit_expr, Expr::MatchExpr
ReturnArms(arms) ==
  MapSeq(LAMBDA a : LET r == ReturnsOf(a.e) IN
           [a EXCEPT !.e = IF r.inside THEN r.e ELSE Ret(<<r.e>>)], arms)

\* visit_block_like: the tail is returned; without one, the block returns
\* nothing unless one of its statements does not come to an end.
ReturnBlock(b) ==
  IF b.tail # <<>>
    THEN LET r == ReturnsOf(b.tail[1]) IN
         Block(Append(b.stmts, Stmt(IF r.inside THEN r.e ELSE Ret(<<r.e>>))), <<>>)
    ELSE IF \E s \in ToSet(b.stmts) : s.k = "expr" /\ IsDivergent(s.e)
           THEN b
           ELSE Block(Append(b.stmts, Stmt(Ret(<<>>))), <<>>)

ReturnsOf(e) ==
  CASE e.k \in {"panic", "return"} \cup Loops -> Visited(TRUE, e)
    [] e.k = "block" -> Visited(TRUE, ReturnBlock(e))
    [] e.k = "macro" -> Visited(TRUE, [e EXCEPT !.stmts = ReturnBlock(e).stmts])
    [] e.k = "if" ->
         Visited(TRUE, [e EXCEPT !.then = ReturnBlock(@),
                                 !.else = MapSeq(LAMBDA b : ReturnsOf(b).e, @)])
    [] e.k = "match" -> Visited(TRUE, [e EXCEPT !.arms = ReturnArms(@)])
    [] OTHER -> Visited(FALSE, e)

\* A faulty variant: the unit expression is dropped.
DropUnitReturns(ss) ==
  FlattenSeq(MapSeq(LAMBDA s :
    IF s.k = "expr" /\ s.e.k = "return" /\ s.e.es # <<>> /\ Type(s.e.es[1]) = "unit"
      THEN <<Stmt(Ret(<<>>))>> ELSE <<s>>, ss))

\* visit_statements: return f(); becomes f(); return; where f() is a unit.
SplitUnitReturns(ss) ==
  FlattenSeq(MapSeq(LAMBDA s :
    IF s.k = "expr" /\ s.e.k = "return" /\ s.e.es # <<>> /\ Type(s.e.es[1]) = "unit"
      THEN <<Stmt(s.e.es[1]), Stmt(Ret(<<>>))>> ELSE <<s>>, ss))

\* visit_non_returning_block: the tail is a statement like the others.
TailAsStatement(b) ==
  IF b.k # "block" \/ b.tail = <<>> THEN b
  ELSE Block(Append(b.stmts, Stmt(b.tail[1])), <<>>)

RECURSIVE VisitReturns(_)

\* visit_stmt: the value of a return statement is visited like the body's.
VisitReturnStmt(s) ==
  LET isReturn  == s.k = "expr" /\ s.e.k = "return" /\ s.e.es # <<>>
      value     == ReturnsOf(s.e.es[1])
      unwrapped == IF isReturn /\ value.inside THEN Stmt(value.e) ELSE s
      closed    == IF unwrapped.k = "expr" THEN Stmt(TailAsStatement(unwrapped.e))
                                           ELSE unwrapped
  IN MapStmt(closed, VisitReturns)

\* visit_expr and visit_block_expr of ImplicitReturns
VisitReturns(e) ==
  LET opened == IF e.k \in {"while", "for"} THEN [e EXCEPT !.body = TailAsStatement(@)]
                                            ELSE e
      inner  == MapChildren(opened, VisitReturns, VisitReturnStmt)
  IN IF e.k \in {"block", "macro"} THEN [inner EXCEPT !.stmts = SplitUnitReturns(@)]
                                   ELSE inner

\* visit_fn
ImplicitReturns(body) == VisitReturns(ReturnBlock(body))

-----------------------------------------------------------------------------
(* block_expr.rs *)

\* tail_expr_to_assignment_for_block
AssignTail(x, b) ==
  IF b.tail = <<>> THEN b
  ELSE Block(Append(b.stmts, Stmt(Assign(x, b.tail[1]))), <<>>)

\* tail_expr_to_assignment
RECURSIVE TailToAssignment(_, _)
TailToAssignment(x, e) ==
  CASE e.k = "block" -> AssignTail(x, e)
    [] e.k = "if"    -> [e EXCEPT !.then = AssignTail(x, @),
                                  !.else = MapSeq(LAMBDA b : TailToAssignment(x, b), @)]
    [] e.k = "match" -> [e EXCEPT !.arms =
                           MapSeq(LAMBDA a : [a EXCEPT !.e = Assign(x, @)], @)]

RECURSIVE ExpandBlockExpr(_)

\* visit_stmt: let x = block; becomes let x; and the block that assigns x.
ExpandLet(s) ==
  IF s.k = "let" /\ s.els = <<>> /\ s.init # <<>> /\ HasStmtInExpr(s.init[1])
    THEN Stmt(MacroStmts(<<Let(s.x, <<>>, <<>>),
                           Stmt(TailToAssignment(s.x, s.init[1]))>>))
    ELSE s

VisitLet(s) == MapStmt(ExpandLet(s), ExpandBlockExpr)

ExpandBlockExpr(e) == MapChildren(e, ExpandBlockExpr, VisitLet)
=============================================================================
