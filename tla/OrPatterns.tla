----------------------------- MODULE OrPatterns -----------------------------
(***************************************************************************)
(* The arms of a match on their way to a C# switch.  C# allows no variable *)
(* under an or-pattern, so MatchOrPatternDefinitions                       *)
(* (transformer/match_or_pattern_definition.rs) copies an arm once for     *)
(* each way its or-patterns can be chosen; the emitter then writes the     *)
(* copies in order, naming the variables of each anew (emitter.rs).        *)
(*                                                                         *)
(* A value is a constructor applied to values; literals, paths, tuples,    *)
(* records and slices without a rest are constructors here.  In x @ p the  *)
(* pattern p is one that C# lets a designation follow once its or-patterns *)
(* are expanded: a type, a record or a tuple.                              *)
(***************************************************************************)
EXTENDS Naturals, Sequences, FiniteSets, SequencesExt

CONSTANTS
  MatchExprs,  \* the lists of arms to compile
  Values,      \* what is matched on
  Arity,       \* the number of fields of a constructor
  Guards,      \* what a guard may accept: sets of bindings
  GuardsCross  \* also judge arms with a guard and several combined or-patterns

(* Patterns. *)
Wild         == [k |-> "wild", ps |-> <<>>]
Rest         == [k |-> "rest", ps |-> <<>>]
Ident(x, ps) == [k |-> "ident", x |-> x, ps |-> ps]      \* x, or x @ p
Ctor(c, ps)  == [k |-> "ctor", c |-> c, ps |-> ps]
OrPat(ps)    == [k |-> "or", ps |-> ps]

Data(c, vs) == [c |-> c, vs |-> vs]

\* An arm p => body, or p if guard => body; guard is a sequence of at most one.
Arm(p, guard, id) == [pat |-> p, guard |-> guard, id |-> id]

RECURSIVE Locals(_)
Locals(p) == (IF p.k = "ident" THEN {p.x} ELSE {})
             \cup UNION {Locals(q) : q \in ToSet(p.ps)}

-----------------------------------------------------------------------------
(* expand_or_pattern: the patterns to use instead (none: the pattern is    *)
(* kept), and whether the pattern declares a variable.                     *)

Expansion(pats, hasLocal) == [pats |-> pats, hasLocal |-> hasLocal]

WithChild(p, i, q) == [p EXCEPT !.ps[i] = q]

\* A faulty variant: only the first pattern is combined with the others.
FirstOnly(result, i, expanded) ==
  [n \in DOMAIN result |-> WithChild(result[n], i, expanded[1])]
  \o [m \in 1 .. Len(expanded) - 1 |-> WithChild(result[1], i, expanded[m + 1])]

\* "We do cross-join": the first choice replaces its pattern in place, the
\* others are pushed at the end.
CrossJoin(result, i, expanded) ==
  [n \in DOMAIN result |-> WithChild(result[n], i, expanded[1])]
  \o FlattenSeq([n \in DOMAIN result |->
       [m \in 1 .. Len(expanded) - 1 |-> WithChild(result[n], i, expanded[m + 1])]])

RECURSIVE ExpandOrPattern(_)

\* process_child!, over the children of any other pattern
ProcessChildren(p) ==
  LET child(acc, i) ==
        LET r == ExpandOrPattern(p.ps[i]) IN
        Expansion(IF r.pats = <<>> THEN acc.pats
                  ELSE CrossJoin(IF acc.pats = <<>> THEN <<p>> ELSE acc.pats, i, r.pats),
                  acc.hasLocal \/ r.hasLocal)
  IN FoldLeftDomain(child, Expansion(<<>>, p.k = "ident"), p.ps)

\* A faulty variant: a choice with or-patterns of its own is kept.
KeepNestedOr(p) ==
  LET choices == [i \in DOMAIN p.ps |-> ExpandOrPattern(p.ps[i])] IN
  IF choices[1].hasLocal THEN Expansion(p.ps, TRUE) ELSE Expansion(<<>>, FALSE)

\* Pat::OrPat
ExpandChoices(p) ==
  LET choices == [i \in DOMAIN p.ps |-> ExpandOrPattern(p.ps[i])]
      instead(i) == IF choices[i].pats = <<>> THEN <<p.ps[i]>> ELSE choices[i].pats
  IN IF choices[1].hasLocal
       THEN Expansion(FlattenSeq([i \in DOMAIN p.ps |-> instead(i)]), TRUE)
       ELSE Expansion(<<>>, FALSE)

ExpandOrPattern(p) == IF p.k = "or" THEN ExpandChoices(p) ELSE ProcessChildren(p)

\* The arms that replace an arm.
ExpandArm(arm) ==
  LET pats == ExpandOrPattern(arm.pat).pats IN
  IF pats = <<>> THEN <<arm>> ELSE [i \in DOMAIN pats |-> [arm EXCEPT !.pat = pats[i]]]

-----------------------------------------------------------------------------
(* Emission.  A C# local is the Rust name and the number of times it was   *)
(* allocated before (alloc_binding_ast).                                   *)

RECURSIVE EmitPattern(_, _)

\* resolve_tuple_like_struct: `..` stands for the fields no pattern is
\* written for; the patterns after it belong to the last fields.
TupleLike(c, ps) ==
  LET rest == {i \in DOMAIN ps : ps[i].k = "rest"} IN
  IF rest = {} THEN ps
  ELSE LET position == CHOOSE i \in rest : \A j \in rest : i <= j
           suffix   == Len(ps) - position
       IN [i \in 1 .. Arity[c] |->
            IF i < position THEN ps[i]
            ELSE IF i > Arity[c] - suffix THEN ps[i - Arity[c] + Len(ps)]
            ELSE Wild]

\* emit_pattern_ast, with the names allocated for the variables so far
EmitPattern(p, names) ==
  CASE p.k = "ident" -> Ident(<<p.x, names[p.x]>>, [i \in DOMAIN p.ps |-> EmitPattern(p.ps[i], names)])
    [] p.k = "ctor" -> LET fields == TupleLike(p.c, p.ps) IN
         Ctor(p.c, [i \in DOMAIN fields |-> EmitPattern(fields[i], names)])
    [] p.k = "or" -> OrPat([i \in DOMAIN p.ps |-> EmitPattern(p.ps[i], names)])
    [] OTHER -> p

-----------------------------------------------------------------------------
VARIABLES
  source,    \* the arms, as written
  todo,      \* the arms still to expand
  arms,      \* the arms the pass has produced and the emitter has not read
  locals,    \* variable -> the number of the C# local it stands for
  allocated, \* variable -> the number of C# locals allocated for it
  sections   \* the sections of the switch

vars == <<source, todo, arms, locals, allocated, sections>>

Names == UNION {UNION {Locals(a.pat) : a \in ToSet(s)} : s \in MatchExprs}

Init ==
  /\ source \in MatchExprs
  /\ todo = source
  /\ arms = <<>>
  /\ locals = [x \in Names |-> 0]
  /\ allocated = [x \in Names |-> 0]
  /\ sections = <<>>

\* visit_expr: the next arm is replaced.
Expand ==
  /\ todo # <<>>
  /\ arms' = arms \o ExpandArm(Head(todo))
  /\ todo' = Tail(todo)
  /\ UNCHANGED <<source, locals, allocated, sections>>

\* The emitter writes the next section: its pattern allocates a local for
\* each of its variables; guard and body then use the last one allocated.
EmitSection ==
  /\ todo = <<>> /\ arms # <<>>
  /\ LET arm == Head(arms) IN
       /\ locals' = [x \in Names |-> IF x \in Locals(arm.pat) THEN allocated[x] ELSE locals[x]]
       /\ allocated' = [x \in Names |-> IF x \in Locals(arm.pat) THEN allocated[x] + 1
                                                                  ELSE allocated[x]]
       /\ sections' = Append(sections,
            [pat |-> EmitPattern(arm.pat, locals'), guard |-> arm.guard, id |-> arm.id,
             reads |-> [x \in Locals(arm.pat) |-> <<x, locals'[x]>>]])
  /\ arms' = Tail(arms)
  /\ UNCHANGED <<source, todo>>

Next == Expand \/ EmitSection

Spec == Init /\ [][Next]_vars
-----------------------------------------------------------------------------
(* What a match means.  In Rust and in C# a pattern is tried choice by     *)
(* choice, from left to right; Rust evaluates a guard for every choice     *)
(* that fits, until one is accepted.                                       *)

NoBinding == <<>>

Bind(env, x, v) == [y \in DOMAIN env \cup {x} |-> IF y = x THEN v ELSE env[y]]

RECURSIVE Bindings(_, _), BindingsOfFields(_, _)

\* The bindings with which p fits v, in the order in which they are tried.
Bindings(p, v) ==
  CASE p.k = "wild" -> <<NoBinding>>
    [] p.k = "ident" -> LET inner == IF p.ps = <<>> THEN <<NoBinding>> ELSE Bindings(p.ps[1], v)
                        IN [i \in DOMAIN inner |-> Bind(inner[i], p.x, v)]
    [] p.k = "or" -> FlattenSeq([i \in DOMAIN p.ps |-> Bindings(p.ps[i], v)])
    [] p.k = "ctor" -> IF p.c = v.c THEN BindingsOfFields(p.ps, v.vs) ELSE <<>>

BindingsOfFields(ps, vs) ==
  IF ps = <<>> THEN <<NoBinding>>
  ELSE IF ps[1].k = "rest"
         THEN BindingsOfFields(Tail(ps), SubSeq(vs, Len(vs) - Len(ps) + 2, Len(vs)))
  ELSE LET first == Bindings(ps[1], vs[1])
           others == BindingsOfFields(Tail(ps), Tail(vs))
           join(a, b) == [x \in DOMAIN a \cup DOMAIN b |-> IF x \in DOMAIN a THEN a[x] ELSE b[x]]
       IN FlattenSeq([i \in DOMAIN first |-> [j \in DOMAIN others |-> join(first[i], others[j])]])

\* The arm that is taken and the values its body sees, where the guard accepts
\* the bindings in accepted.
NoArm == <<>>

RECURSIVE RustMatch(_, _, _)
RustMatch(as, v, accepted) ==
  IF as = <<>> THEN NoArm
  ELSE LET fits == SelectSeq(Bindings(as[1].pat, v),
                             LAMBDA env : as[1].guard = <<>> \/ env \in accepted)
       IN IF fits = <<>> THEN RustMatch(Tail(as), v, accepted) ELSE <<as[1].id, fits[1]>>

\* C# evaluates the guard of a section once.
RECURSIVE CsMatch(_, _, _)
CsMatch(ss, v, accepted) ==
  IF ss = <<>> THEN NoArm
  ELSE LET fits == Bindings(ss[1].pat, v)
           seen == [x \in DOMAIN ss[1].reads |-> fits[1][ss[1].reads[x]]]
       IN IF fits # <<>> /\ (ss[1].guard = <<>> \/ seen \in accepted)
            THEN <<ss[1].id, seen>>
            ELSE CsMatch(Tail(ss), v, accepted)
-----------------------------------------------------------------------------
(* Properties.                                                             *)

\* Whether two or-patterns below one constructor are both expanded.
RECURSIVE Crossed(_)
Crossed(p) ==
  \/ p.k # "or" /\ \E i, j \in DOMAIN p.ps :
       i # j /\ ExpandOrPattern(p.ps[i]).pats # <<>> /\ ExpandOrPattern(p.ps[j]).pats # <<>>
  \/ \E q \in ToSet(p.ps) : Crossed(q)

Done == todo = <<>> /\ arms = <<>>

\* Whatever is matched and whatever the guards accept, the switch runs the
\* body of the arm that Rust runs, and its locals hold what Rust bound.
SameArm ==
  Done /\ (GuardsCross \/ \A a \in ToSet(source) : a.guard = <<>> \/ ~Crossed(a.pat)) =>
    \A v \in Values, accepted \in Guards :
      CsMatch(sections, v, accepted) = RustMatch(source, v, accepted)

RECURSIVE BindsUnderOr(_)
BindsUnderOr(p) == \/ p.k = "or" /\ Locals(p) # {}
                   \/ \E q \in ToSet(p.ps) : BindsUnderOr(q)

\* "C# doesn't support variable declaration in or patterns": none is left.
NoBindingUnderOr == \A s \in ToSet(sections) : ~BindsUnderOr(s.pat)
=============================================================================
