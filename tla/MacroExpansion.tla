---------------------------- MODULE MacroExpansion ----------------------------
(***************************************************************************)
(* Calls of built-in macros (vec!, format!, assert!, the log macros, ...), *)
(* which macro_expansion.rs reads from their token trees itself and        *)
(* replaces by an expression of its own.                                   *)
(*                                                                         *)
(* A call as the programmer wrote it is a record:                          *)
(*   macro   its name                                                      *)
(*   exprs   the expressions before a format string (all of them for       *)
(*           vec!, try_join! and pin!, the condition of assert!)           *)
(*   kv      the values of the keys of a log macro                         *)
(*   format  <<>> or <<the segments of the format string>>                 *)
(*   args    the arguments of the format string                            *)
(*   types   the types of the statics of lazy_static!, whose values are    *)
(*           exprs, each with its name                                     *)
(*   sep     what stands between exprs, "," or ";"                         *)
(*   comment the number of the element that a comment follows, 0 for none  *)
(*   trailing  whether the list ends with a separator                      *)
(* An expression is [toks, calls, name]: its tokens, whether its           *)
(* evaluation can be observed, and its name ("" if it has none).           *)
(* Expressions are known by their number in the call.                      *)
(***************************************************************************)
EXTENDS Integers, Sequences, SequencesExt

Trees == {"()", "[]", "{}"}      \* an element that is a token tree
NoExpr == 0
FormatExpr == -1                 \* the format string, as an expression
Panic == [m |-> "panic"]

Expressions(call) == call.exprs \o call.kv \o call.args

--------------------------------------------------------------------------------
(* Format strings.  Characters that matter are "{", "}", ":"; a digit is   *)
(* a number, any other word stands for a piece of text.                    *)

Text(words) == [s |-> "text", words |-> words]
Brace(c)    == [s |-> "brace", c |-> c]
Hole(var, spec) == [s |-> "hole", var |-> var, spec |-> spec]
Index(i, spec)  == [s |-> "index", i |-> i, spec |-> spec]
Name(n, spec)   == [s |-> "name", n |-> n, spec |-> spec]

Digits == <<"0", "1", "2">>

(* What the programmer wrote, as characters.                               *)
Written(seg) ==
  CASE seg.s = "text"  -> seg.words
    [] seg.s = "brace" -> <<seg.c, seg.c>>
    [] seg.s = "hole"  ->
         <<"{">> \o seg.var \o (IF seg.spec = <<>> THEN <<>> ELSE <<":">> \o seg.spec) \o <<"}">>
FormatString(segs) == FlattenSeq([i \in DOMAIN segs |-> Written(segs[i])])

Invalid == [ok |-> FALSE]
Parsed(segs) == [ok |-> TRUE, segs |-> segs]
Before(seg, parsed) ==
  IF parsed.ok THEN Parsed(<<seg>> \o parsed.segs) ELSE Invalid

(* rest.find: the first position of one of the characters, 0 for none.     *)
Find(rest, chars) == SelectInSeq(rest, LAMBDA c : c \in chars)
From(rest, n) == SubSeq(rest, n, Len(rest))

Placeholder(var, spec, unnamed) ==
  IF var = <<>> THEN Index(unnamed, spec)
  ELSE IF Len(var) = 1 /\ Contains(Digits, var[1])
       THEN Index(SelectInSeq(Digits, LAMBDA d : d = var[1]) - 1, spec)
       ELSE Name(var, spec)

(* parse_format_string                                                     *)
RECURSIVE ParseFormatString(_, _)
(* A faulty variant: unnamed placeholders are not counted.                 *)
ParsePlaceholderUncounted(rest, end, close, unnamed) ==
  IF end = 0 \/ close = 0 THEN Invalid
  ELSE Before(Placeholder(SubSeq(rest, 2, end - 1), SubSeq(rest, end + 1, close - 1), unnamed),
              ParseFormatString(From(rest, close + 1), unnamed))
ParsePlaceholder(rest, end, close, unnamed) ==
  IF end = 0 \/ close = 0 THEN Invalid
  ELSE LET var == SubSeq(rest, 2, end - 1) IN
       Before(Placeholder(var, SubSeq(rest, end + 1, close - 1), unnamed),
              ParseFormatString(From(rest, close + 1),
                                IF var = <<>> THEN unnamed + 1 ELSE unnamed))
ParseSpecial(rest, unnamed) ==
  IF Len(rest) > 1 /\ rest[2] = rest[1]
  THEN Before(Brace(rest[1]), ParseFormatString(From(rest, 3), unnamed))
  ELSE IF rest[1] = "}" THEN Invalid
  ELSE ParsePlaceholder(rest, Find(rest, {"}", ":"}), Find(rest, {"}"}), unnamed)
ParseFormatString(rest, unnamed) ==
  LET position == Find(rest, {"{", "}"}) IN
  IF rest = <<>> THEN Parsed(<<>>)
  ELSE IF position = 0 THEN Parsed(<<Text(rest)>>)
  ELSE IF position = 1 THEN ParseSpecial(rest, unnamed)
  ELSE Before(Text(SubSeq(rest, 1, position - 1)),
              ParseSpecial(From(rest, position), unnamed))

--------------------------------------------------------------------------------
(* Token trees.  An element is a token or a nested tree; from and to mark  *)
(* the first and the last element of an expression.                        *)

Token(t) == [t |-> t, arg |-> NoExpr, from |-> FALSE, to |-> FALSE]
Elements(i, toks) ==
  [n \in DOMAIN toks |-> [t |-> toks[n], arg |-> i, from |-> n = 1, to |-> n = Len(toks)]]

Named(call, i) ==
  LET e == Expressions(call)[i] IN
  (IF e.name = "" THEN <<>> ELSE <<Token("ident"), Token("=")>>) \o Elements(i, e.toks)

RECURSIVE Joined(_, _)
Joined(parts, sep) ==
  IF Len(parts) <= 1 THEN FlattenSeq(parts)
  ELSE Head(parts) \o <<Token(sep)>> \o Joined(Tail(parts), sep)

WithComment(elements, n) ==
  IF n = 0 THEN elements ELSE InsertAt(elements, n, Token("comment"))

StaticTokens(call, i) ==
  <<Token("static"), Token("ref"), Token("ident"), Token(":")>>
  \o Elements(Len(Expressions(call)) + i, call.types[i]) \o <<Token("=")>>
  \o Elements(i, call.exprs[i].toks) \o <<Token(";")>>
StaticsTokens(call) == FlattenSeq([i \in DOMAIN call.types |-> StaticTokens(call, i)])

ListTokens(call) ==
  LET numbered(from, n) == [i \in 1..n |-> Named(call, from + i)]
      kvFrom   == Len(call.exprs)
      argsFrom == kvFrom + Len(call.kv)
      kv == IF call.kv = <<>> THEN <<>>
            ELSE Joined(numbered(kvFrom, Len(call.kv)), ",") \o <<Token(";")>>
      string == IF call.format = <<>> THEN <<>> ELSE <<Elements(FormatExpr, <<"string">>)>>
      listed == numbered(0, Len(call.exprs)) \o string \o numbered(argsFrom, Len(call.args))
  IN  WithComment(kv \o Joined(listed, call.sep)
                  \o (IF call.trailing THEN <<Token(call.sep)>> ELSE <<>>),
                  call.comment)

TokensOf(call) ==
  IF call.macro = "lazy_static" THEN StaticsTokens(call) ELSE ListTokens(call)

--------------------------------------------------------------------------------
(* MacroParser.  p is what is left of the elements.                        *)

\* A nested tree is not a token, and so taken for the end.
IsEnd(p) == p = <<>> \/ Head(p).t \in Trees

Takes(p, t) == p # <<>> /\ Head(p).t = t

\* The expression that begins and ends with the tokens of the elements
\* taken; for one element alone, with its first token twice.
Descend(taken) ==
  LET one == Len(taken) = 1 IN
  IF /\ Head(taken).from /\ Last(taken).to
     /\ Head(taken).arg = Last(taken).arg
     /\ one => Head(taken).t \notin Trees
  THEN Head(taken).arg ELSE NoExpr

ExprEnds == {"=>", ",", ";"}
TakenUntil(p, ends) ==
  LET stop == SelectInSeq(Tail(p), LAMBDA el : el.t \in ends)
  IN  IF stop = 0 THEN p ELSE SubSeq(p, 1, stop)

NextExpr(p) ==
  IF IsEnd(p) THEN [expr |-> NoExpr, rest |-> p]
  ELSE LET taken == TakenUntil(p, ExprEnds)
       IN  [expr |-> Descend(taken), rest |-> From(p, Len(taken) + 1)]

\* A type goes on to the first of its ends outside of angle brackets.
TypeEnds == {"=>", ",", "=", "|", ";", ":", "[]", "{}", "as", "where"}
Count(p, t) == Len(SelectSeq(p, LAMBDA el : el.t = t))
Depth(p, n) == Count(SubSeq(p, 2, n - 1), "<") - Count(SubSeq(p, 2, n - 1), ">")
TypeTaken(p) ==
  LET outside == {n \in 2..Len(p) : Depth(p, n) = 0 /\ p[n].t \in TypeEnds}
  IN  IF outside = {} THEN p
      ELSE SubSeq(p, 1, (CHOOSE n \in outside : \A k \in outside : n <= k) - 1)
Unbalanced(p) == \E n \in 2..Len(p) : p[n].t = ">" /\ Depth(p, n) = 0
NextType(p) ==
  IF IsEnd(p) \/ Unbalanced(TypeTaken(p)) THEN [expr |-> NoExpr, rest |-> p]
  ELSE [expr |-> Descend(TypeTaken(p)), rest |-> From(p, Len(TypeTaken(p)) + 1)]

--------------------------------------------------------------------------------
(* The arguments of a format string, and what becomes of it.               *)

ArgsFailed == [ok |-> FALSE, exprs |-> <<>>, named |-> <<>>]
NoArgs     == [ok |-> TRUE, exprs |-> <<>>, named |-> <<>>]

RECURSIVE ParseFormatArgsParams(_, _)
WithArg(read, named, rest) ==
  IF read.expr = NoExpr \/ ~rest.ok THEN ArgsFailed
  ELSE IF named THEN [rest EXCEPT !.named = <<read.expr>> \o rest.named]
  ELSE [rest EXCEPT !.exprs = <<read.expr>> \o rest.exprs]
ReadArg(call, read, named) ==
  WithArg(read, named,
          IF read.expr = NoExpr THEN ArgsFailed ELSE ParseFormatArgsParams(call, read.rest))
ParseFormatArgsParams(call, p) ==
  IF ~Takes(p, ",") \/ IsEnd(Tail(p)) THEN NoArgs
  ELSE LET q == Tail(p)
           named == Takes(q, "ident") /\ Takes(Tail(q), "=")
       IN  ReadArg(call, NextExpr(IF named THEN From(q, 3) ELSE q), named)

\* A name that is no argument is a variable of the scope of the call.
Captured(n) == [captured |-> n]
Given(i) == [given |-> i]
ArgumentOf(call, seg, params) ==
  LET fitting == SelectSeq(params.named,
                           LAMBDA i : <<Expressions(call)[i].name>> = seg.n)
  IN  IF fitting = <<>> THEN Captured(seg.n) ELSE Given(Last(fitting))

Supported(seg) == seg.s \in {"index", "name"} => seg.spec \in {<<>>, <<"?">>}
Bound(seg, params) == seg.s = "index" => seg.i < Len(params.exprs)

EmitSegment(call, params, seg) ==
  CASE seg.s = "index" -> [f |-> seg.spec, expr |-> Given(params.exprs[seg.i + 1])]
    [] seg.s = "name"  -> [f |-> seg.spec, expr |-> ArgumentOf(call, seg, params)]
    [] OTHER -> seg

EmitFormatArgs(call, parsed, params) ==
  IF parsed.ok /\ params.ok
     /\ \A i \in DOMAIN parsed.segs : Supported(parsed.segs[i]) /\ Bound(parsed.segs[i], params)
  THEN [m |-> "format",
        segs |-> [i \in DOMAIN parsed.segs |-> EmitSegment(call, params, parsed.segs[i])]]
  ELSE Panic

FormatArgs(call, read) ==
  IF read.expr = FormatExpr
  THEN EmitFormatArgs(call, ParseFormatString(FormatString(call.format[1]), 0),
                      ParseFormatArgsParams(call, read.rest))
  ELSE Panic
ParseRestAsFormatArgs(call, p) == FormatArgs(call, NextExpr(p))

--------------------------------------------------------------------------------
(* emit_expr_macro, macro by macro.                                        *)

List(exprs) == [m |-> "list", exprs |-> exprs]

\* The comma after the first element is taken by the condition, and the
\* loop asks for another one.
RECURSIVE MoreElements(_)
AndMore(read) == IF read.expr = NoExpr THEN <<>> ELSE <<read.expr>> \o MoreElements(read.rest)
MoreElements(p) == IF Takes(p, ",") THEN AndMore(NextExpr(Tail(p))) ELSE <<>>
VecElements(first) ==
  CASE first.expr = NoExpr -> List(<<>>)
    [] first.expr # NoExpr /\ Takes(first.rest, ";") -> Panic
    [] first.expr # NoExpr /\ Takes(first.rest, ",") ->
         List(<<first.expr>> \o MoreElements(Tail(first.rest)))
    [] OTHER -> IF IsEnd(first.rest) THEN List(<<first.expr>>) ELSE Panic

EmitPin(read) == IF read.expr = NoExpr THEN Panic ELSE [m |-> "expr", expr |-> read.expr]

RECURSIVE JoinedExprs(_, _)
JoinOne(read, exprs) ==
  IF read.expr = NoExpr \/ ~(IsEnd(read.rest) \/ Takes(read.rest, ",")) THEN Panic
  ELSE JoinedExprs(IF Takes(read.rest, ",") THEN Tail(read.rest) ELSE read.rest,
                   Append(exprs, read.expr))
JoinedExprs(p, exprs) ==
  IF IsEnd(p) THEN [m |-> "join", exprs |-> exprs] ELSE JoinOne(NextExpr(p), exprs)

WithMessage(kind, exprs, message) ==
  IF message = Panic THEN Panic ELSE [m |-> kind, exprs |-> exprs, message |-> message]
EmitAssert(call, read) ==
  IF read.expr = NoExpr THEN Panic
  ELSE WithMessage("assert", <<read.expr>>,
                   ParseRestAsFormatArgs(call, IF Takes(read.rest, ",") THEN Tail(read.rest)
                                               ELSE read.rest))

\* key = value; is skipped as often as it stands before the string.
RECURSIVE LogMacro(_, _)
AfterValue(call, read) ==
  IF Takes(read.rest, ";") THEN LogMacro(call, Tail(read.rest)) ELSE Panic
LogMacro(call, p) ==
  IF Takes(p, "string") THEN WithMessage("log", <<>>, ParseRestAsFormatArgs(call, p))
  ELSE IF Takes(p, "ident") /\ Takes(Tail(p), "=") THEN AfterValue(call, NextExpr(From(p, 3)))
  ELSE Panic

\* static ref NAME: TYPE = EXPR; as often as it is there.
RECURSIVE LazyStatics(_, _)
StaticValue(read, statics) ==
  IF read.expr = NoExpr \/ ~Takes(read.rest, ";") THEN Panic
  ELSE LazyStatics(Tail(read.rest), Append(statics, read.expr))
StaticType(read, statics) ==
  IF read.expr = NoExpr \/ ~Takes(read.rest, "=") THEN Panic
  ELSE StaticValue(NextExpr(Tail(read.rest)), statics)
LazyStatics(p, statics) ==
  IF IsEnd(p) THEN [m |-> "statics", exprs |-> statics]
  ELSE IF Len(p) >= 4 /\ [n \in 1..4 |-> p[n].t] = <<"static", "ref", "ident", ":">>
       THEN StaticType(NextType(From(p, 5)), statics)
       ELSE Panic

EmitExprMacro(call) ==
  LET tt == TokensOf(call) IN
  CASE call.macro \in {"panic", "unreachable"} -> [m |-> "throw"]
    [] call.macro = "vec"      -> VecElements(NextExpr(tt))
    [] call.macro = "pin"      -> EmitPin(NextExpr(tt))
    [] call.macro = "format"   -> ParseRestAsFormatArgs(call, tt)
    [] call.macro = "log"      -> LogMacro(call, tt)
    [] call.macro = "assert"   -> EmitAssert(call, NextExpr(tt))
    [] call.macro = "try_join" -> JoinedExprs(tt, <<>>)
    [] call.macro = "lazy_static" -> LazyStatics(tt, <<>>)
================================================================================
