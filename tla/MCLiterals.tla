------------------------------ MODULE MCLiterals ------------------------------
(***************************************************************************)
(* Macro calls with up to three expressions of every shape the parser of   *)
(* token trees meets, format strings of up to three segments, and          *)
(* constants of types nested up to three deep.                             *)
(***************************************************************************)
EXTENDS Literals

E(toks, calls) == [toks |-> toks, calls |-> calls, name |-> ""]
Var       == E(<<"ident">>, FALSE)
CallExpr  == E(<<"ident", "()">>, TRUE)
Paren     == E(<<"()">>, FALSE)
TreeFirst == E(<<"()", "punct", "ident", "()">>, TRUE)
Closure   == E(<<"|", "ident", ",", "ident", "|", "ident">>, FALSE)
Compared  == E(<<"ident", "=", "=", "ident">>, FALSE)
Exprs == {Var, CallExpr, Paren, TreeFirst, Closure, Compared}
Named_(e) == [e EXCEPT !.name = "x"]

UpTo(S, n) == UNION {[1..k -> S] : k \in 0..n}
Plain(macro, exprs) ==
  [macro |-> macro, exprs |-> exprs, kv |-> <<>>, format |-> <<>>, args |-> <<>>,
   types |-> <<>>, sep |-> ",", comment |-> 0, trailing |-> FALSE]

ListCalls ==
  {[Plain("vec", es) EXCEPT !.trailing = t] :
     es \in UpTo(Exprs, 3), t \in {FALSE, TRUE}}
  \cup {[Plain("vec", <<e, Var>>) EXCEPT !.sep = ";"] : e \in Exprs}
  \cup {[Plain("vec", es) EXCEPT !.comment = c] : es \in [1..2 -> {Var, CallExpr}], c \in {1, 2, 3}}
  \cup {[Plain("try_join", es) EXCEPT !.trailing = t] :
          es \in UpTo(Exprs, 3), t \in {FALSE, TRUE}}
  \cup {Plain("pin", <<e>>) : e \in Exprs}
  \cup {Plain("panic", <<>>), Plain("unreachable", <<>>)}

Types == {<<"ident">>, <<"ident", "<", "ident", ",", "ident", ">">>,
          <<"ident", "<", "ident", "<", "[]", ">", ">">>, <<"[]">>, <<"()">>}
StaticCalls ==
  {[Plain("lazy_static", es) EXCEPT !.types = ts] :
     es \in [1..2 -> Exprs], ts \in [1..2 -> Types]}

ValidCalls == {c \in ListCalls : c.trailing => c.exprs # <<>>} \cup StaticCalls

Segs ==
  {Text(<<"txt">>), Text(<<"txt", "accent">>), Brace("{"), Brace("}"),
   Hole(<<>>, <<>>), Hole(<<>>, <<"?">>), Hole(<<"0">>, <<>>), Hole(<<"1">>, <<>>),
   Hole(<<"x">>, <<>>), Hole(<<"y">>, <<"?">>), Hole(<<"0">>, <<">5">>)}
LongSegs == {Text(<<"txt">>), Brace("}"), Hole(<<>>, <<>>), Hole(<<"0">>, <<>>),
             Hole(<<"1">>, <<"?">>), Hole(<<"x">>, <<>>)}
FormatSegs ==
  {s \in UpTo(Segs, 2) \cup [1..3 -> LongSegs] : \A i \in 1..(Len(s) - 1) : ~(s[i].s = "text" /\ s[i + 1].s = "text")}
ArgLists ==
  UpTo({Var, CallExpr, Paren, Compared, Closure}, 2)
  \cup {<<Named_(e)>> : e \in {Var, CallExpr, Paren}}
  \cup {<<e, Named_(f)>> : e \in {Var, CallExpr}, f \in {Var, CallExpr}}

\* What rustc accepts: an argument for every hole and a hole for every argument.
Valid(call) ==
  LET segs == call.format[1]
      holes == {k \in DOMAIN segs : segs[k].s = "hole"}
      named == {i \in DOMAIN call.args : call.args[i].name = "x"}
      position(k) == IF segs[k].var = <<>> THEN NthUnnamed(segs, k)
                     ELSE CASE segs[k].var = <<"0">> -> 1 [] segs[k].var = <<"1">> -> 2 [] OTHER -> 0
  IN  /\ \A k \in holes : position(k) <= Len(call.args)
      /\ \A i \in DOMAIN call.args :
           (\E k \in holes : position(k) = i) \/ (i \in named /\ \E k \in holes : segs[k].var = <<"x">>)

WithFormat(call, segs, args) == [call EXCEPT !.format = <<segs>>, !.args = args]
FormatCalls ==
  {c \in {WithFormat(Plain("format", <<>>), s, a) : s \in FormatSegs, a \in ArgLists} : Valid(c)}
Short == {s \in FormatSegs : Len(s) <= 2}
FewArgs == {a \in ArgLists : Len(a) <= 1} \cup {<<CallExpr, CallExpr>>}
AssertCalls ==
  {Plain("assert", <<e>>) : e \in Exprs}
  \cup {c \in {WithFormat(Plain("assert", <<e>>), s, a) : e \in Exprs, s \in Short, a \in FewArgs} :
          Valid(c)}
KeyValues == UpTo({Named_(e) : e \in Exprs}, 1) \cup {<<Named_(Var), Named_(CallExpr)>>}
LogCalls ==
  {c \in {[WithFormat(Plain("log", <<>>), s, a) EXCEPT !.kv = kv] :
            s \in Short, a \in FewArgs, kv \in KeyValues} : Valid(c)}

MCCalls == ValidCalls \cup FormatCalls \cup AssertCalls \cup LogCalls

--------------------------------------------------------------------------------
InTuple(ts) == Tuple(ts, Declared(ts))
InStruct(ts) == Struct(ts, Declared(ts))

Byte == UintTy(1)
Pair == InTuple(<<BoolTy, Byte>>)
Swapped == Tuple(<<BoolTy, UintTy(2)>>, <<2, 1>>)
Row == Array(Byte, 2)
Plus == Direct(<<<<>>, <<Byte>>>>, <<0, 1>>)
Minus == Direct(<<<<>>, <<Byte>>>>, <<-1, 1>>)
First == Niche(<<<<BoolTy>>, <<>>>>, 1, 2)
Middle == Niche(<<<<>>, <<BoolTy>>, <<>>>>, 2, 2)
One == Single(<<Byte>>)

Flat == {BoolTy, Byte, IntTy(1), IntTy(2), CharTy, StrTy, Ref(Byte), Slice(IntTy(2))}
Whole == {Pair, Swapped, Row, Array(IntTy(2), 2), Array(Byte, 0), InTuple(<<>>),
          Plus, Minus, First, Middle, One,
          Struct(<<Byte, IntTy(2)>>, <<2, 1>>), InStruct(<<StrTy, CharTy>>)}
Enclosing(t) ==
  {InStruct(<<t, BoolTy>>), Struct(<<t, BoolTy>>, <<2, 1>>), Ref(t), Slice(t),
   Array(t, 2), InTuple(<<BoolTy, t>>), InTuple(<<t>>),
   Direct(<<<<t>>, <<>>>>, <<3, 4>>), Single(<<Byte, t>>)}
MCConstTypes == Flat \cup Whole \cup UNION {Enclosing(t) : t \in Flat \cup Whole}
              \cup {Ref(Ref(Pair)), Slice(Slice(Byte)), InStruct(<<Ref(InStruct(<<BoolTy, Row>>))>>),
                    Slice(Ref(Row)), Ref(Slice(Plus)), InStruct(<<Byte, Slice(Row)>>)}

RECURSIVE ValuesOf(_), Fields(_)
Fields(ts) ==
  IF ts = <<>> THEN {<<>>}
  ELSE {<<v>> \o rest : v \in ValuesOf(Head(ts)), rest \in Fields(Tail(ts))}
Repeats(t, ns) == UNION {Fields([i \in 1..n |-> t]) : n \in ns}
ValuesOf(t) ==
  CASE t.k = "bool" -> {0, 1}
    [] t.k = "uint" -> {7, 200}
    [] t.k = "int"  -> {-2, 100}
    [] t.k = "char" -> {65, 233}
    [] t.k = "str"  -> {<<>>, <<65, 66>>, <<195, 169>>}
    [] t.k = "ref"  -> ValuesOf(t.to)
    [] t.k = "slice" -> Repeats(t.elem, {0, 2})
    [] t.k = "array" -> Repeats(t.elem, {t.len})
    [] t.k \in {"tuple", "struct"} -> Fields(t.fields)
    [] t.k = "enum" ->
         UNION {{[variant |-> i, fields |-> fs] : fs \in Fields(t.variants[i])} :
                i \in DOMAIN t.variants}

MCLiteralKinds ==
  {[kind |-> k, words |-> w] :
     k \in {"bool", "int", "float", "string", "char", "byte", "byte string", "c string"},
     w \in {<<"txt">>, <<"accent">>}}
================================================================================
