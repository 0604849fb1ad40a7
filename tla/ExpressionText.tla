---------------------------- MODULE ExpressionText ----------------------------
(***************************************************************************)
(* The text of an expression.  EIR is a tree without parentheses: lowering *)
(* drops those of the source (nodes.rs:174), and the emitter writes its    *)
(* own.  EmitExpr is the text it writes, as tokens; ReadExpr is the tree   *)
(* the C# compiler makes of the tokens; Meant the tree that was meant.     *)
(*                                                                         *)
(* A node is [k, of, how, adj]: its kind, its children, the variant and    *)
(* whether it is dereferenced by the adjustments of a receiver.  Tokens:   *)
(* "id" an identifier or a dotted path, "kw" a keyword that is a type,     *)
(* "lit", "pat", "op" and the punctuation; bodies of statements are one    *)
(* token.  A C# tree is a sequence: its kind, then its children.           *)
(***************************************************************************)
EXTENDS Integers, Sequences, SequencesExt

Node(k, of) == [k |-> k, of |-> of, how |-> "", adj |-> FALSE]

\* A token between all neighbours.
Separated(texts, sep) ==
  FlattenSeq([i \in DOMAIN texts |-> IF i = 1 THEN texts[i] ELSE <<sep>> \o texts[i]])
InParens(text) == <<"(">> \o text \o <<")">>
Arguments(texts) == InParens(Separated(texts, ","))
Braced(texts) == <<"{">> \o Separated(texts, ",") \o <<"}">>

\* emit_adjuster: the receiver, dereferenced if its type was adjusted.
Adjusted(e, text) == IF e.adj THEN text \o <<".", "id", "(", ")">> ELSE text

\* emit_call_expr, by the way the function is resolved; "replaced" calls have
\* other arguments than those of the source.
EmitCall(how, args) ==
  CASE how = "path"     -> <<"id">> \o Arguments(args)
    [] how = "method"   -> args[1] \o <<".", "id">> \o Arguments(Tail(args))
    [] how = "omit"     -> InParens(args[1])
    [] how = "replaced" -> args[1] \o <<".", "id", "(", "id", ")">>

\* A function named as a value.
EmitFunctionValue(how) ==
  IF how = "path" THEN <<"id">>
  ELSE InParens(<<"(", "id", ")", "=>">> \o EmitCall(how, <<<<"id">>>>))

EmitCast(how, text) == <<"(", IF how = "keyword" THEN "kw" ELSE "id", ")">> \o text

\* A faulty variant: no parentheses around the operand.
EmitPrefixBare(k, text) ==
  CASE k = "deref" -> InParens(text)
    [] k = "not"   -> <<"!">> \o text
    [] k = "neg"   -> <<"-">> \o text
EmitPrefix(k, text) ==
  CASE k = "deref" -> InParens(text)
    [] k = "not"   -> <<"!">> \o InParens(text)
    [] k = "neg"   -> <<"-">> \o InParens(text)

EmitBinary(k, texts) == texts[1] \o <<IF k = "assign" THEN "=" ELSE "op">> \o texts[2]

\* emit_if_expr_as_expr
EmitIfText(texts) ==
  InParens(texts[1] \o <<"?">> \o texts[2] \o <<":">> \o IF Len(texts) = 3 THEN texts[3] ELSE <<"id">>)

\* The arms of a match: one, with a guard if there are three children.
EmitMatchText(texts) ==
  InParens(texts[1])
  \o <<"switch", "{", "pat">> \o (IF Len(texts) = 3 THEN <<"when">> \o texts[2] ELSE <<>>)
  \o <<"=>">> \o Last(texts) \o <<",", "}">>

\* The fill of [value; length] is written into a comment.
EmitRepeat(texts) == <<"new[">> \o texts[2] \o <<"]">>
EmitRecord(texts) == <<"new">> \o Braced([i \in DOMAIN texts |-> InParens(texts[i])])
EmitTuple(texts) == IF texts = <<>> THEN <<"default">> ELSE Arguments(texts)
EmitHoles(texts) == <<"$">> \o FlattenSeq([i \in DOMAIN texts |-> <<"{">> \o texts[i] \o <<"}">>]) \o <<"$end">>
EmitClosure(e, texts) ==
  <<"(", "id", ")", "=>">> \o IF e.how = "block" THEN <<"body">> ELSE texts[1]

\* A node, given the texts of its children.
EmitNode(e, texts) ==
      CASE e.k = "name"    -> <<"id">>
        [] e.k = "literal" -> InParens(EmitCast("keyword", <<"lit">>))
        [] e.k = "function" -> EmitFunctionValue(e.how)
        [] e.k = "async"   -> <<"id", "(", "body", ")">>
        [] e.k = "field"   -> Adjusted(e, texts[1]) \o <<".", "id">>
        [] e.k = "call"    -> EmitCall(e.how, <<Adjusted(e, texts[1])>> \o Tail(texts))
        [] e.k = "apply"   -> texts[1] \o Arguments(Tail(texts))
        [] e.k = "index"   -> texts[1] \o <<".", "id">> \o InParens(texts[2])
        [] e.k = "range"   -> <<"id">> \o Arguments(texts)
        [] e.k = "try"     -> <<"id">> \o InParens(texts[1])
        [] e.k = "await"   -> InParens(<<"await">> \o texts[1])
        [] e.k \in {"binary", "assign"} -> InParens(EmitBinary(e.k, texts))
        [] e.k \in {"deref", "not", "neg"} -> EmitPrefix(e.k, texts[1])
        [] e.k \in {"ref", "block"} -> texts[1]
        [] e.k = "cast"    -> EmitCast(e.how, texts[1])
        [] e.k = "let"     -> InParens(texts[1] \o <<"is", "pat">>)
        [] e.k = "if"      -> EmitIfText(texts)
        [] e.k = "match"   -> EmitMatchText(texts)
        [] e.k = "tuple"   -> EmitTuple(texts)
        [] e.k = "record"  -> EmitRecord(texts)
        [] e.k = "list"    -> <<"new">> \o Braced(texts)
        [] e.k = "repeat"  -> EmitRepeat(texts)
        [] e.k = "format"  -> EmitHoles(texts)
        [] e.k = "closure" -> EmitClosure(e, texts)

RECURSIVE EmitExpr(_)
EmitChildren(e) == [i \in DOMAIN e.of |-> EmitExpr(e.of[i])]
EmitExpr(e) == EmitNode(e, EmitChildren(e))

\* As a statement, the outermost parentheses are left out.
EmitStatement(e) ==
  LET texts == EmitChildren(e)
  IN  CASE e.k = "await" -> <<"await">> \o texts[1]
        [] e.k \in {"binary", "assign"} -> EmitBinary(e.k, texts)
        [] OTHER -> EmitNode(e, texts)

--------------------------------------------------------------------------------
(* The C# grammar of expressions, from the weakest operator to the         *)
(* strongest.  Reading from a position gives the tree and the position     *)
(* behind it, 0 if there is none.                                          *)

Got(tree, at) == [tree |-> tree, at |-> at]
None == Got(<<"none">>, 0)
At(ts, i) == IF i \in DOMAIN ts THEN ts[i] ELSE "end"
Then(got, F(_)) == IF got.at = 0 THEN None ELSE F(got)
Expect(ts, got, token) ==
  IF got.at # 0 /\ At(ts, got.at) = token THEN Got(got.tree, got.at + 1) ELSE None

RECURSIVE ReadExpr(_, _), ReadBinary(_, _), ReadSwitch(_, _), ReadUnary(_, _),
          ReadList(_, _, _, _), ReadHoles(_, _, _), ReadPostfix(_, _), TypeEnd(_, _)

Follows(ts, i, tokens) == \A k \in DOMAIN tokens : At(ts, i + k - 1) = tokens[k]

\* A lambda takes all that follows; a conditional takes a binary expression.
ReadExpr(ts, i) ==
  IF Follows(ts, i, <<"(", "id", ")", "=>">>)
  THEN IF At(ts, i + 4) = "body" THEN Got(<<"lambda", <<"body">>>>, i + 5)
       ELSE Then(ReadExpr(ts, i + 4), LAMBDA b : Got(<<"lambda", b.tree>>, b.at))
  ELSE Then(ReadBinary(ts, i), LAMBDA c :
         IF At(ts, c.at) # "?" THEN c
         ELSE Then(Expect(ts, ReadExpr(ts, c.at + 1), ":"), LAMBDA t :
                Then(ReadExpr(ts, t.at), LAMBDA e :
                  Got(<<"conditional", c.tree, t.tree, e.tree>>, e.at))))

\* One operator: what the emitter writes never has two on one level.
ReadBinary(ts, i) ==
  Then(ReadSwitch(ts, i), LAMBDA l :
    CASE At(ts, l.at) = "op" ->
           Then(ReadSwitch(ts, l.at + 1), LAMBDA r : Got(<<"binary", l.tree, r.tree>>, r.at))
      [] At(ts, l.at) = "=" ->
           Then(ReadExpr(ts, l.at + 1), LAMBDA r : Got(<<"assign", l.tree, r.tree>>, r.at))
      [] At(ts, l.at) = "is" ->
           Then(Expect(ts, Got(<<"is", l.tree>>, l.at + 1), "pat"), LAMBDA r : r)
      [] OTHER -> l)

\* A switch is stronger than the operators, and weaker than a prefix; a guard is
\* no lambda.
ReadSwitch(ts, i) ==
  Then(ReadUnary(ts, i), LAMBDA s :
    IF ~Follows(ts, s.at, <<"switch", "{", "pat">>) THEN s
    ELSE LET guard == IF At(ts, s.at + 3) = "when" THEN ReadBinary(ts, s.at + 4)
                      ELSE Got(<<>>, s.at + 3)
         IN  Then(Expect(ts, guard, "=>"), LAMBDA g :
               Then(Expect(ts, Expect(ts, ReadExpr(ts, g.at), ","), "}"), LAMBDA a :
                 Got(<<"switch", s.tree, g.tree, a.tree>>, a.at))))

\* The end of a dotted name, which may be a type.
TypeEnd(ts, i) ==
  IF At(ts, i) # "id" THEN 0
  ELSE IF At(ts, i + 1) = "." THEN TypeEnd(ts, i + 2) ELSE i + 1

\* (name) is a cast if what follows may only begin an operand.
AfterCast == {"(", "!", "id", "lit", "default", "new", "new[", "$", "await"}
IsCast(ts, i) ==
  LET end == TypeEnd(ts, i + 1)
  IN  /\ At(ts, i) = "("
      /\ \/ At(ts, i + 1) = "kw"
         \/ end # 0 /\ At(ts, end) = ")" /\ At(ts, end + 1) \in AfterCast
CastEnd(ts, i) == IF At(ts, i + 1) = "kw" THEN i + 3 ELSE TypeEnd(ts, i + 1) + 1

ReadUnary(ts, i) ==
  LET under(kind, at) == Then(ReadUnary(ts, at), LAMBDA u : Got(<<kind, u.tree>>, u.at))
  IN  CASE At(ts, i) = "-"     -> under("neg", i + 1)
        [] At(ts, i) = "!"     -> under("not", i + 1)
        [] At(ts, i) = "await" -> under("await", i + 1)
        [] IsCast(ts, i)       -> under("cast", CastEnd(ts, i))
        [] OTHER ->
             LET primary ==
                   CASE At(ts, i) = "id"      -> Got(<<"name">>, i + 1)
                     [] At(ts, i) = "lit"     -> Got(<<"literal">>, i + 1)
                     [] At(ts, i) = "default" -> Got(<<"tuple">>, i + 1)
                     [] At(ts, i) = "body"    -> Got(<<"body">>, i + 1)
                     [] At(ts, i) = "("       ->
                          Then(ReadList(ts, i + 1, <<>>, ")"), LAMBDA l :
                            IF Len(l.tree) = 1 THEN Got(l.tree[1], l.at)
                            ELSE Got(<<"tuple">> \o l.tree, l.at))
                     [] At(ts, i) = "new" /\ At(ts, i + 1) = "{" ->
                          Then(ReadList(ts, i + 2, <<>>, "}"), LAMBDA l :
                            Got(<<"new">> \o l.tree, l.at))
                     [] At(ts, i) = "new["    ->
                          Then(Expect(ts, ReadExpr(ts, i + 1), "]"), LAMBDA n :
                            Got(<<"array", n.tree>>, n.at))
                     [] At(ts, i) = "$"       -> ReadHoles(ts, i + 1, <<>>)
                     [] OTHER                 -> None
             IN  Then(primary, LAMBDA p : ReadPostfix(ts, p))

ReadPostfix(ts, got) ==
  CASE At(ts, got.at) = "." /\ At(ts, got.at + 1) = "id" ->
         ReadPostfix(ts, Got(<<"member", got.tree>>, got.at + 2))
    [] At(ts, got.at) = "(" ->
         Then(ReadList(ts, got.at + 1, <<>>, ")"), LAMBDA l :
           ReadPostfix(ts, Got(<<"invoke", got.tree>> \o l.tree, l.at)))
    [] OTHER -> got

ReadList(ts, i, trees, close) ==
  IF At(ts, i) = close THEN Got(trees, i + 1)
  ELSE Then(ReadExpr(ts, IF trees # <<>> /\ At(ts, i) = "," THEN i + 1 ELSE i), LAMBDA e :
         IF At(ts, e.at) \in {",", close} THEN ReadList(ts, e.at, Append(trees, e.tree), close)
         ELSE None)

ReadHoles(ts, i, trees) ==
  IF At(ts, i) = "$end" THEN Got(<<"text">> \o trees, i + 1)
  ELSE IF At(ts, i) # "{" THEN None
  ELSE Then(Expect(ts, ReadExpr(ts, i + 1), "}"), LAMBDA e :
         ReadHoles(ts, e.at, Append(trees, e.tree)))

\* The tree of a whole text.
Read(ts) == LET got == ReadExpr(ts, 1) IN IF got.at = Len(ts) + 1 THEN got.tree ELSE None.tree

--------------------------------------------------------------------------------
(* What the Rust expression says, as a C# tree.                            *)

MeantCall(how, args) ==
  CASE how = "path"     -> <<"invoke", <<"name">>>> \o args
    [] how = "method"   -> <<"invoke", <<"member", args[1]>>>> \o Tail(args)
    [] how = "omit"     -> args[1]
    [] how = "replaced" -> <<"invoke", <<"member", args[1]>>, <<"name">>>>

MeantReceiver(e, tree) == IF e.adj THEN <<"invoke", <<"member", tree>>>> ELSE tree

MeantNode(e, trees) ==
      CASE e.k = "name"    -> <<"name">>
        [] e.k = "literal" -> <<"cast", <<"literal">>>>
        [] e.k = "function" -> IF e.how = "path" THEN <<"name">>
                               ELSE <<"lambda", MeantCall(e.how, <<<<"name">>>>)>>
        [] e.k = "async"   -> <<"invoke", <<"name">>, <<"body">>>>
        [] e.k = "field"   -> <<"member", MeantReceiver(e, trees[1])>>
        [] e.k = "call"    -> MeantCall(e.how, <<MeantReceiver(e, trees[1])>> \o Tail(trees))
        [] e.k = "apply"   -> <<"invoke">> \o trees
        [] e.k = "index"   -> <<"invoke", <<"member", trees[1]>>, trees[2]>>
        [] e.k \in {"range", "try"} -> <<"invoke", <<"name">>>> \o trees
        [] e.k \in {"deref", "ref", "block"} -> trees[1]
        [] e.k = "let"     -> <<"is", trees[1]>>
        [] e.k = "if"      -> <<"conditional", trees[1], trees[2],
                                IF Len(trees) = 3 THEN trees[3] ELSE <<"tuple">>>>
        [] e.k = "match"   -> <<"switch", trees[1], IF Len(trees) = 3 THEN trees[2] ELSE <<>>, Last(trees)>>
        [] e.k \in {"record", "list"} -> <<"new">> \o trees
        [] e.k = "format"  -> <<"text">> \o trees
        [] e.k = "closure" -> <<"lambda", IF e.how = "block" THEN <<"body">> ELSE trees[1]>>
        [] e.k \in {"await", "binary", "assign", "not", "neg", "cast", "tuple", "repeat"} -> <<e.k>> \o trees

RECURSIVE MeantTree(_)
MeantTree(e) == MeantNode(e, [i \in DOMAIN e.of |-> MeantTree(e.of[i])])

--------------------------------------------------------------------------------
(* Where the text says something else.                                     *)

\* The node whose text stands for e: references, blocks and parentheses write
\* nothing of their own.
RECURSIVE Core(_), NameLike(_)
Core(e) == IF e.k \in {"ref", "block"} THEN Core(e.of[1]) ELSE e

\* A text that could be the name of a type.
NameLike(e) ==
  LET c == Core(e)
  IN  c.k = "name" \/ (c.k = "function" /\ c.how = "path") \/ (c.k = "field" /\ ~c.adj /\ NameLike(c.of[1]))

IsCore(e, kinds) == Core(e).k \in kinds
InOwnParens(e) == Core(e).k = "deref" \/ (Core(e).k = "call" /\ Core(e).how = "omit")
Gaps == {"postfix", "prefix", "callee", "minus", "single", "fill", "no else"}
HasGapAt(e, gap) ==
  LET first == e.of[1]
      isReceiver == e.k \in {"field", "apply", "index"} \/ (e.k = "call" /\ (e.adj \/ e.how \notin {"path", "omit"}))
  IN  CASE gap = "postfix" -> isReceiver /\ IsCore(first, {"neg", "not", "cast", "closure", "match"})
        [] gap = "prefix"  -> e.k \in {"cast", "await"} /\ IsCore(first, {"match", "closure"})
        [] gap = "callee"  -> e.k = "apply" /\ InOwnParens(first) /\ NameLike(Core(first).of[1])
        [] gap = "minus"   -> e.k = "cast" /\ e.how = "named" /\ IsCore(first, {"neg"})
        [] gap = "single"  -> e.k = "tuple" /\ Len(e.of) = 1
        [] gap = "fill"    -> e.k = "repeat"
        [] gap = "no else" -> e.k = "if" /\ Len(e.of) = 2

RECURSIVE TextGap(_)
TextGap(e) == (\E gap \in Gaps : HasGapAt(e, gap)) \/ \E i \in DOMAIN e.of : TextGap(e.of[i])
================================================================================
