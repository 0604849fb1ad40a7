------------------------------- MODULE Fragments -------------------------------
(***************************************************************************)
(* Everything that becomes one expression or pattern of C#: what Literals  *)
(* follows, and the expressions whose text the emitter writes with its own *)
(* parentheses.  An expression is built node by node, from the inside.     *)
(***************************************************************************)
EXTENDS Literals, ExpressionText

CONSTANTS Constructors,  \* [k, how, adj, sorts, is]: the nodes of expressions, typed
          MaxDepth       \* bound on the nodes around the innermost one

Simple == Node("name", <<>>)
\* The node c with e as its child i, and names as its other children.
Around(c, i, e) ==
  [k |-> c.k, how |-> c.how, adj |-> c.adj,
   of |-> [j \in DOMAIN c.sorts |-> IF j = i THEN e ELSE Simple]]
Expression(tree, c, depth) == [tree |-> tree, is |-> c.is, depth |-> depth]

InitExpression ==
  /\ \E c \in Constructors :
       c.sorts = <<>> /\ Source("expression", Expression(Around(c, 0, Simple), c, 0))
  /\ stage = "source" /\ eir = Unknown /\ cs = Unknown

Enclose ==
  /\ stage = "source" /\ source.of = "expression" /\ source.it.depth < MaxDepth
  /\ \E c \in Constructors : \E i \in DOMAIN c.sorts :
       /\ c.sorts[i] = source.it.is
       /\ source' = [source EXCEPT
            !.it = Expression(Around(c, i, source.it.tree), c, source.it.depth + 1)]
  /\ UNCHANGED <<stage, eir, cs>>

\* emit_expr as a value, and as a statement.
WriteExpression ==
  /\ stage = "source" /\ source.of = "expression"
  /\ cs' = [value     |-> Read(EmitExpr(source.it.tree)),
            statement |-> Read(EmitStatement(source.it.tree))]
  /\ stage' = "written"
  /\ UNCHANGED <<source, eir>>

FragmentsInit == Init \/ InitExpression
FragmentsNext == Next \/ Enclose \/ WriteExpression
FragmentsSpec == FragmentsInit /\ [][FragmentsNext]_vars

(* The C# compiler reads back the tree that was meant, from the value and  *)
(* from the statement, exactly when no node is in a place where its text   *)
(* needs parentheses that the emitter does not write (emitter.rs:728-1745, *)
(* nodes.rs:174): precedence is never lost anywhere else.                  *)
TextIsExpression ==
  IsWritten /\ source.of = "expression" =>
    LET e == source.it.tree
    IN  /\ (cs.value = MeantTree(e)) <=> ~TextGap(e)
        /\ (cs.statement = MeantTree(e)) <=> ~TextGap(e)
================================================================================
