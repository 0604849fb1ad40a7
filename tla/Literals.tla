------------------------------- MODULE Literals -------------------------------
(***************************************************************************)
(* What the compiler computes at its own run time instead of translating:  *)
(* literals, calls of built-in macros, and constants in patterns.  Each is *)
(* followed from the source to the C#, whose meaning is compared with what *)
(* it means in Rust.                                                       *)
(***************************************************************************)
EXTENDS MacroExpansion, ConstEval, FiniteSets

CONSTANTS Calls,       \* the macro calls to expand
          ConstTypes,  \* the types of the constants to write as patterns
          ConstValues(_), \* and the values of a type
          LiteralKinds \* [kind, words]: the literals to write

VARIABLES source,      \* [of, it]: one call, constant or literal
          stage,       \* "source", "read", "written"
          eir,         \* what the compiler made of it
          cs           \* what the C# compiler reads

vars == <<source, stage, eir, cs>>

--------------------------------------------------------------------------------
(* Writing strings.  escape_default writes what is not ASCII as \u{...},   *)
(* which is no escape of C#.                                               *)

NotAscii == "accent"
EscapeDefault(words) ==
  [i \in DOMAIN words |-> IF words[i] = NotAscii THEN "rust escape" ELSE words[i]]
CsRejects(words) == Contains(words, "rust escape")

(* emit_literal_ast                                                        *)
EmitLiteral(lit) ==
  CASE lit.kind \in {"string", "char"} -> [lit EXCEPT !.words = EscapeDefault(lit.words)]
    [] lit.kind \in {"byte string", "c string"} -> [lit EXCEPT !.words = <<>>]
    [] OTHER -> lit

(* emit_expr_str_ast_inner: an interpolated string, a list, or the call of *)
(* a function of the runtime library.                                      *)
EmitSegments(segs) ==
  [i \in DOMAIN segs |->
     IF "words" \in DOMAIN segs[i] THEN [segs[i] EXCEPT !.words = EscapeDefault(@)]
     ELSE segs[i]]
EmitMacro(e) ==
  CASE e.m = "format" -> [e EXCEPT !.segs = EmitSegments(@)]
    [] e.m \in {"assert", "log"} -> [e EXCEPT !.message.segs = EmitSegments(@)]
    [] OTHER -> e

--------------------------------------------------------------------------------
Unknown == [m |-> "unknown"]
Source(kind, it) == source = [of |-> kind, it |-> it]

Init ==
  /\ \/ \E call \in Calls : Source("call", call)
     \/ \E t \in ConstTypes : \E v \in ConstValues(t) : Source("const", [ty |-> t, v |-> v])
     \/ \E lit \in LiteralKinds : Source("literal", lit)
  /\ stage = "source" /\ eir = Unknown /\ cs = Unknown

(* Lowering to EIR: the macro is expanded; a constant stays a path.        *)
ExpandMacro ==
  /\ stage = "source" /\ source.of = "call"
  /\ eir' = EmitExprMacro(source.it)
  /\ stage' = "read"
  /\ UNCHANGED <<source, cs>>

(* Evaluation of the constant that a path pattern names.                   *)
EvaluateConst ==
  /\ stage = "source" /\ source.of = "const"
  /\ eir' = Alloc(Encode(source.it.ty, source.it.v, <<>>))
  /\ stage' = "read"
  /\ UNCHANGED <<source, cs>>

ReadLiteral ==
  /\ stage = "source" /\ source.of = "literal"
  /\ eir' = source.it
  /\ stage' = "read"
  /\ UNCHANGED <<source, cs>>

Write ==
  /\ stage = "read"
  /\ cs' = CASE source.of = "call"    -> EmitMacro(eir)
             [] source.of = "const"   -> EmitConstPat(eir, EvalValue(source.it.ty))
             [] source.of = "literal" -> EmitLiteral(eir)
  /\ stage' = "written"
  /\ UNCHANGED <<source, eir>>

Next == ExpandMacro \/ EvaluateConst \/ ReadLiteral \/ Write
Spec == Init /\ [][Next]_vars

--------------------------------------------------------------------------------
(* What a macro call means in Rust, in the terms of its expansion: every   *)
(* argument of a format string is evaluated once, in the order of the call.*)

Positional(call) == [i \in DOMAIN call.args |-> Len(call.exprs) + Len(call.kv) + i]
Called(call, n) ==
  LET fitting == {i \in DOMAIN call.args : <<call.args[i].name>> = n}
  IN  IF fitting = {} THEN Captured(n)
      ELSE Given(Positional(call)[CHOOSE i \in fitting : TRUE])
NthUnnamed(segs, k) ==
  Len(SelectSeq(SubSeq(segs, 1, k), LAMBDA s : s.s = "hole" /\ s.var = <<>>))
MeantHole(call, segs, k) ==
  CASE segs[k].var = <<>> -> Given(Positional(call)[NthUnnamed(segs, k)])
    [] segs[k].var \in {<<Digits[d]>> : d \in DOMAIN Digits} ->
         Given(Positional(call)[SelectInSeq(Digits, LAMBDA d : <<d>> = segs[k].var)])
    [] OTHER -> Called(call, segs[k].var)
MeantFormat(call) ==
  LET segs == call.format[1] IN
  [m |-> "format",
   segs |-> [k \in DOMAIN segs |->
      IF segs[k].s = "hole" THEN [f |-> segs[k].spec, expr |-> MeantHole(call, segs, k)]
      ELSE segs[k]]]
Numbers(call) == [i \in DOMAIN call.exprs |-> i]
Meant(call) ==
  CASE call.macro \in {"panic", "unreachable"} -> [m |-> "throw"]
    [] call.macro = "vec"  -> [m |-> IF call.sep = "," THEN "list" ELSE "repeat",
                               exprs |-> Numbers(call)]
    [] call.macro = "pin"    -> [m |-> "expr", expr |-> 1]
    [] call.macro = "format" -> MeantFormat(call)
    [] call.macro = "log"    -> [m |-> "log", exprs |-> <<>>, message |-> MeantFormat(call)]
    [] call.macro = "assert" ->
         [m |-> "assert", exprs |-> <<1>>,
          message |-> IF call.format = <<>> THEN Unknown ELSE MeantFormat(call)]
    [] call.macro = "try_join"    -> [m |-> "join", exprs |-> Numbers(call)]
    [] call.macro = "lazy_static" -> [m |-> "statics", exprs |-> Numbers(call)]

(* The observable evaluations, in order: of the C#, which evaluates the    *)
(* holes of an interpolated string, and of the Rust.                       *)
Observable(call, exprs) == SelectSeq(exprs, LAMBDA i : Expressions(call)[i].calls)
HolesOf(segs) ==
  LET given == SelectSeq(segs, LAMBDA s : "f" \in DOMAIN s /\ "given" \in DOMAIN s.expr)
  IN  [i \in DOMAIN given |-> given[i].expr.given]
Evaluated(call, e) ==
  CASE e.m = "format" -> Observable(call, HolesOf(e.segs))
    [] e.m \in {"log", "assert"} -> Observable(call, e.exprs \o HolesOf(e.message.segs))
    [] e.m \in {"list", "join", "statics"} -> Observable(call, e.exprs)
    [] e.m = "expr" -> Observable(call, <<e.expr>>)
    [] OTHER -> <<>>
EvaluatedInRust(call) ==
  IF call.macro \in {"panic", "unreachable"} THEN <<>>
  ELSE Observable(call, Numbers(call) \o [i \in DOMAIN call.kv |-> Len(call.exprs) + i]
                        \o Positional(call))

Segments(e) ==
  CASE e.m = "format" -> e.segs
    [] e.m \in {"log", "assert"} -> e.message.segs
    [] OTHER -> <<>>
TextRejected(segs) ==
  \E i \in DOMAIN segs : "words" \in DOMAIN segs[i] /\ CsRejects(segs[i].words)

RECURSIVE Leaves(_)
Leaves(pattern) ==
  IF pattern.p \in {"panic", "lit", "text"} \/ pattern.parts = <<>> THEN {pattern}
  ELSE UNION {Leaves(pattern.parts[i]) : i \in DOMAIN pattern.parts}
Escapes(leaf) == leaf.p = "text" /\ \E i \in DOMAIN leaf.parts : leaf.parts[i] < 0

\* "refused": the compiler panics; "rejected": the C# compiler complains;
\* "same" or "differs": the C# means what the Rust means, or does not.
CallOutcome(call) ==
  CASE cs = Panic -> "refused"
    [] cs # Panic /\ TextRejected(Segments(cs)) -> "rejected"
    [] OTHER -> IF cs = Meant(call) /\ Evaluated(call, cs) = EvaluatedInRust(call)
                THEN "same" ELSE "differs"
ConstOutcome(const) ==
  IF \E leaf \in Leaves(cs) : leaf.p = "panic" THEN "refused"
  ELSE IF \E leaf \in Leaves(cs) : Escapes(leaf) THEN "rejected"
  ELSE IF cs = PatternOf(const.ty, const.v) THEN "same" ELSE "differs"
LiteralOutcome(lit) ==
  IF CsRejects(cs.words) THEN "rejected"
  ELSE IF cs = lit THEN "same" ELSE "differs"
Outcome ==
  CASE source.of = "call"    -> CallOutcome(source.it)
    [] source.of = "const"   -> ConstOutcome(source.it)
    [] source.of = "literal" -> LiteralOutcome(source.it)

--------------------------------------------------------------------------------
(* What the compiler is known not to translate.                            *)

StartsWithTree(e) == Head(e.toks) \in Trees
Cut(e) == \E n \in 2..Len(e.toks) : e.toks[n] \in ExprEnds
Readable(e) == ~StartsWithTree(e) /\ ~Cut(e)

\* Arguments whose evaluation shows, once each and in order?
InOrder(call) ==
  Observable(call, HolesOf(MeantFormat(call).segs)) = Observable(call, Positional(call))
ByPosition(call) ==
  {MeantHole(call, call.format[1], k).given :
     k \in {n \in DOMAIN call.format[1] :
              /\ call.format[1][n].s = "hole"
              /\ call.format[1][n].var \in {<<>>} \cup {<<d>> : d \in ToSet(Digits)}}}
FormatRefused(call) ==
  \/ \E i \in DOMAIN call.args : ~Readable(call.args[i])
  \/ \E i \in DOMAIN call.args : \* x == y is taken for an argument named x
       Len(call.args[i].toks) > 1 /\ SubSeq(call.args[i].toks, 1, 2) = <<"ident", "=">>
  \/ \E i \in DOMAIN call.args : \* a named argument, used by its position
       call.args[i].name # "" /\ Positional(call)[i] \in ByPosition(call)
  \/ \E k \in DOMAIN call.format[1] :
       call.format[1][k].s = "hole" /\ call.format[1][k].spec \notin {<<>>, <<"?">>}

Refused(call) ==
  CASE call.macro = "vec" -> call.sep = ";" /\ Readable(call.exprs[1])
    [] call.macro = "pin" -> ~Readable(call.exprs[1])
    [] call.macro = "format" -> FormatRefused(call)
    [] call.macro = "assert" ->
         call.format = <<>> \/ ~Readable(call.exprs[1]) \/ FormatRefused(call)
    [] call.macro = "log" ->
         Len(call.kv) > 1 \/ (\E i \in DOMAIN call.kv : ~Readable(call.kv[i]))
         \/ FormatRefused(call)
    [] call.macro = "try_join" ->
         \E i \in DOMAIN call.exprs : /\ Cut(call.exprs[i]) /\ ~StartsWithTree(call.exprs[i])
                                      /\ \A j \in 1..(i - 1) : ~StartsWithTree(call.exprs[j])
    [] call.macro = "lazy_static" ->
         \/ \E i \in DOMAIN call.exprs : ~Readable(call.exprs[i])
         \/ \E i \in DOMAIN call.types : call.types[i][1] \in Trees
    [] OTHER -> FALSE

\* Silently translated to something else.
Changed(call) ==
  CASE call.macro = "vec" ->
         call.sep = ";" \/ Len(call.exprs) > 1 \/ \E i \in DOMAIN call.exprs : ~Readable(call.exprs[i])
    [] call.macro = "try_join" -> \E i \in DOMAIN call.exprs : StartsWithTree(call.exprs[i])
    [] call.macro = "format"   -> ~InOrder(call)
    [] call.macro = "assert"   -> call.format # <<>> /\ ~InOrder(call)
    [] call.macro = "log"      -> ~InOrder(call) \/ \E i \in DOMAIN call.kv : call.kv[i].calls
    [] OTHER -> FALSE

\* The places where arrays and tuples are read as if they began the constant.
RECURSIVE Misplaced(_, _, _)
FieldsMisplaced(fields, order, vs, from) ==
  \E i \in DOMAIN fields : Misplaced(fields[i], vs[i], from + Offset(fields, order, i))
Misplaced(t, v, from) ==
  CASE t.k = "array" -> t.len > 0 /\ (from > 0 \/ \E i \in 1..t.len :
                          Misplaced(t.elem, v[i], from + (i - 1) * SizeOf(t.elem)))
    [] t.k = "slice" -> \E i \in DOMAIN v : Misplaced(t.elem, v[i], (i - 1) * SizeOf(t.elem))
    [] t.k = "tuple" -> t.fields # <<>> /\ (from > 0 \/ FieldsMisplaced(t.fields, t.order, v, from))
    [] t.k = "struct" -> FieldsMisplaced(t.fields, t.order, v, from)
    [] t.k = "enum" ->
         FieldsMisplaced(t.variants[v.variant], Declared(v.fields), v.fields, from + TagSize(t))
    [] t.k = "ref" -> Misplaced(t.to, v, 0)
    [] OTHER -> FALSE

\* What is wrong with the tags of the enums in a value: those that are
\* negative, and those beyond the untagged variant.
TagTrouble(t, variant) ==
  IF t.layout = "direct" /\ t.discr[variant] < 0 THEN {"negative"}
  ELSE IF t.layout = "niche" /\ 1 < t.untagged /\ t.untagged < variant THEN {"beyond untagged"}
  ELSE {}
RECURSIVE TagTroubles(_, _)
FieldTroubles(ts, vs) == UNION {TagTroubles(ts[i], vs[i]) : i \in DOMAIN vs}
TagTroubles(t, v) ==
  CASE t.k \in {"array", "slice"} -> UNION {TagTroubles(t.elem, v[i]) : i \in DOMAIN v}
    [] t.k \in {"tuple", "struct"} -> FieldTroubles(t.fields, v)
    [] t.k = "enum" ->
         TagTrouble(t, v.variant) \cup FieldTroubles(t.variants[v.variant], v.fields)
    [] t.k = "ref" -> TagTroubles(t.to, v)
    [] OTHER -> {}

--------------------------------------------------------------------------------
IsWritten == stage = "written"

HasAccent(call) ==
  \E i \in DOMAIN call.format : \E k \in DOMAIN call.format[i] :
    call.format[i][k].s = "text" /\ Contains(call.format[i][k].words, NotAscii)
Expected(call) ==
  CASE Refused(call) -> "refused"
    [] ~Refused(call) /\ HasAccent(call) -> "rejected"
    [] OTHER -> IF Changed(call) THEN "differs" ELSE "same"

(* A macro call is refused, changed or kept exactly as its shape says:     *)
(* the order and number of the evaluations of its arguments, the elements  *)
(* of its list and the text of its format string are those of Rust in      *)
(* every other case (macro_expansion.rs, emitter.rs:1411-1457).            *)
MacroMeansItsCall ==
  IsWritten /\ source.of = "call" /\ source.it.comment = 0 => Outcome = Expected(source.it)

(* A constant pattern matches the value of the constant, unless an array   *)
(* or a tuple lies inside another value, or the tag of an enum is negative *)
(* or beyond its untagged variant (consts.rs).                             *)
ConstPatternMatches ==
  IsWritten /\ source.of = "const" =>
    LET c == source.it
        troubles == TagTroubles(c.ty, c.v)
    IN  IF "beyond untagged" \in troubles THEN Outcome # "same"
        ELSE IF "negative" \in troubles \/ Misplaced(c.ty, c.v, 0) THEN Outcome = "refused"
        ELSE Outcome \in {"same", "rejected"}

(* Nothing else changes its meaning without an error of the compiler or of *)
(* the C# compiler: a call, a constant, a literal.                         *)
NoSilentChange ==
  IsWritten /\ source.of \in {"call", "const", "literal"} /\ Outcome = "differs" =>
    CASE source.of = "call" ->
           Changed(source.it) \/ (source.it.macro = "vec" /\ source.it.comment # 0)
      [] source.of = "const" -> "beyond untagged" \in TagTroubles(source.it.ty, source.it.v)
      [] source.of = "literal" -> source.it.kind \in {"byte string", "c string"}
================================================================================
