------------------------------- MODULE MCCodegen ------------------------------
(***************************************************************************)
(* Small crates for EmittedProgram, one family per question.               *)
(***************************************************************************)
EXTENDS EmittedProgram

MCCrateName == <<"n">>
MCExcluded == {<<<<"n">>, <<"q">>>>}
MCNesting == 2
MCWrappedTraits == {<<"V">>}

Item(k, name, in) ==
  [k |-> k, name |-> name, in |-> in, attrs |-> <<>>, where |-> FALSE, self |-> FALSE,
   body |-> TRUE, sized |-> FALSE, sig |-> <<>>, uses |-> {}, at |-> <<>>, to |-> 0, of |-> 0,
   lang |-> "", other |-> FALSE, supers |-> {}, shape |-> "unit", fields |-> <<>>,
   variants |-> <<>>, deferred |-> <<>>]

Block(in, at) == [Item("block", <<>>, in) EXCEPT !.at = at]
Adt(k, name, in, shape, fields) ==
  [Item(k, name, in) EXCEPT
     !.shape = shape, !.fields = fields,
     !.variants = IF k # "enum" THEN <<>>
                  ELSE <<[name |-> <<"A">>, shape |-> shape, fields |-> fields],
                         [name |-> <<"B">>, shape |-> "unit", fields |-> <<>>]>>]
Impl(in, to, of, lang) == [Item("impl", <<>>, in) EXCEPT !.to = to, !.of = of, !.lang = lang]
Method(name, in, body) == [Item("fn", name, in) EXCEPT !.self = TRUE, !.body = body]
Using(item, is) == [item EXCEPT !.uses = is]
Deferring(item, is) == [item EXCEPT !.deferred = is]

\* rustc: one name per namespace of a module.
Kinds == [type |-> {"mod", "trait", "struct", "enum", "union"}, value |-> {"fn", "const", "static"}]
Legal(c) ==
  \A i, j \in DOMAIN c : i < j /\ c[i].in = c[j].in /\ c[i].name = c[j].name /\ c[i].name # <<>> =>
    \A s \in DOMAIN Kinds : ~({c[i].k, c[j].k} \subseteq Kinds[s])

--------------------------------------------------------------------------------
(* Modules in modules: equal names, attributes, exclusion. *)
Native == [m |-> "path", name |-> "r2cs_native"]
CfgAttr(holds, metas) == [m |-> "cfg_attr", holds |-> holds, metas |-> metas]
Attributes == {<<>>, <<Native>>, <<CfgAttr("no", <<Native>>)>>,
               <<[m |-> "cfg"], CfgAttr("maybe", <<CfgAttr("maybe", <<Native>>)>>)>>}

ModuleTrees ==
  {<<Item("mod", n1, 0), [Item("mod", n2, in2) EXCEPT !.attrs = attrs], Item("mod", n3, in3),
     Using(Item("fn", <<"a">>, 0), {6}), Using([Item("fn", <<"b">>, 3) EXCEPT !.attrs = fattrs], {4}),
     Adt("struct", <<"A">>, 3, "unit", <<>>)>> :
     n1 \in {<<"p">>, <<"p", "_">>}, n2 \in {<<"p">>, <<"q">>}, n3 \in {<<"p">>, <<"q">>, <<"p", "_">>},
     in2 \in {0, 1}, in3 \in {0, 1, 2}, attrs \in Attributes, fattrs \in {<<>>, <<Native>>}}

--------------------------------------------------------------------------------
(* A type, its impls and where they are; a trait with supertrait. *)
Langs == {"Debug", "Display", "Ord", "PartialOrd", "PartialEq", "Hash"}

AdtShapes == {<<"struct", "record">>, <<"struct", "tuple">>, <<"struct", "unit">>,
              <<"enum", "record">>, <<"enum", "tuple">>, <<"union", "record">>}

\* 1: p, 2: q (left out), 3: a module in q, 4: the type, 5: V, 6-9: its functions,
\* 10: the supertrait, 11: its function.
Required(name) == IF name = Display THEN Fmt ELSE <<"a">>

Traits(name) ==
  <<[Item("trait", name, 0) EXCEPT !.supers = {10}, !.where = TRUE],
    Method(Required(name), 5, FALSE), [Method(<<"b">>, 5, TRUE) EXCEPT !.where = TRUE, !.sig = <<"int">>],
    [Item("fn", <<"n">>, 5) EXCEPT !.body = FALSE], [Item("fn", <<"p">>, 5) EXCEPT !.sized = TRUE],
    Item("trait", <<"B">>, 0), [Item("fn", <<"q">>, 10) EXCEPT !.body = FALSE]>>

TypeAndTraits(shape, fields, in, trait) ==
  <<Item("mod", <<"p">>, 0), Item("mod", <<"q">>, 0), Item("mod", <<"b">>, 2),
    [Adt(shape[1], <<"A">>, in, shape[2], fields) EXCEPT !.where = (in = 1)]>> \o Traits(trait)

ImplOfTrait(at, in, own, trait) ==
  <<Impl(in, 4, 5, ""), Method(Required(trait), at, TRUE), Item("fn", <<"n">>, at)>>
  \o (IF own THEN <<[Method(<<"b">>, at, TRUE) EXCEPT !.sig = <<"int">>]>> ELSE <<>>)
ImplOfSuper(at, in) == <<Impl(in, 4, 10, ""), Item("fn", <<"q">>, at)>>
ImplOfLang(at, in, lang, other) ==
  <<[Impl(in, 4, 0, lang) EXCEPT !.other = other],
    Method(IF lang \in {"Debug", "Display"} THEN Fmt ELSE <<"n">>, at, TRUE)>>

Fields == {<<>>, <<<<"a">>, <<"b">>>>}

TraitImpls ==
  {LET c == TypeAndTraits(shape, <<<<"a">>>>, in, trait) \o ImplOfTrait(12, in1, own, trait)
   IN  c \o ImplOfSuper(Len(c) + 1, in2) :
     shape \in {<<"struct", "record">>, <<"enum", "tuple">>}, in \in {0, 1, 3},
     trait \in {<<"V">>, <<"A">>, Display}, in1 \in {0, 1, 2, 3}, in2 \in {0, 3}, own \in BOOLEAN}

LangImpls ==
  {TypeAndTraits(shape, fields, in, <<"A">>)
     \o ImplOfLang(12, in1, lang, other) \o ImplOfLang(14, 0, lang2, FALSE) :
     shape \in {<<"struct", "unit">>}, fields \in {<<>>}, in \in {1}, in1 \in {0, 2, 3},
     lang \in Langs, other \in BOOLEAN, lang2 \in Langs}

\* Inherent impls, one in another module, with constants; a foreign type.
InherentImpls ==
  {TypeAndTraits(shape, fields, in, <<"A">>)
     \o <<Impl(in, 4, 0, ""), Item("fn", <<"a">>, 12), Using(Item("const", <<"A">>, 12), {}),
          Impl(in1, to, 0, ""), Item("fn", <<"b">>, 15), Using(Item("fn", <<"n">>, in), {13, 14} \cup (IF to = 0 THEN {} ELSE {16}))>> :
     shape \in AdtShapes, fields \in Fields, in \in {0, 1, 2}, in1 \in {0, 1, 3}, to \in {0, 4}}

--------------------------------------------------------------------------------
(* Items in bodies. *)
\* 1: p, 2: a type, 3: its impl, 4: a trait, 5: the owner of the body, 6: its
\* block, 7: an item of it, 8: an impl of it, 9: a function in the impl, 10: a
\* function in the block, 11: a block in it or in the block, 12: an item there,
\* 13: a function in p, 14: its block, 15: an item there, 16 and 17: a module and a
\* trait in the outer block, which nobody writes, 18: a constant of the trait,
\* 19: a derived impl, which is no statement of the block, 20: its function.
\* The emitter writes the outer block outer times, the inner one inner times:
\* twice in an arm that is copied, never in an expression that is dropped.
Times(n, s) == IF n = 0 THEN <<>> ELSE IF n = 1 THEN s ELSE s \o s

Body(to, owner, type, below, k, at, outer, inner) ==
  LET nested == IF k = "mod" THEN <<>> ELSE Times(inner, <<12>>)
      listed == (IF type.k = "union" THEN <<>> ELSE <<7>>) \o <<8, 10>>
  IN  <<Item("mod", <<"p">>, 0), Adt("struct", <<"A">>, 1, "tuple", <<<<"a">>>>), Impl(1, 2, 0, ""),
        Item("trait", <<"A">>, 0),
        Deferring(Using(Item(owner[1], owner[2], owner[3]), {10, 7} \cup (IF below = 6 THEN {12} ELSE {})),
                  Times(outer, listed \o (IF below = 6 THEN nested ELSE <<>>))),
        Block(5, <<"1">>), type, Impl(6, to, 0, ""), Using(Item("fn", <<"b">>, 8), {10}),
        Deferring(Using(Item("fn", <<"n">>, 6), {7} \cup (IF below = 10 THEN {12} ELSE {})),
                  IF below = 10 THEN nested ELSE <<>>),
        Block(below, <<"1", "2">>), Item(k, <<"N">>, 11),
        Deferring(Using(Item("fn", <<"p">>, 1), {2, 15}), <<15>>), Block(13, at), Item("const", <<"N">>, 14),
        Item("mod", <<"q">>, 6), Item("trait", <<"V">>, 6), Item("const", <<"N">>, 4),
        Impl(6, to, 0, ""), Item("fn", <<"q">>, 19)>>

Types == {Adt("struct", <<"A">>, 6, "unit", <<>>), Adt("enum", <<"B">>, 6, "tuple", <<<<"a">>>>),
          Adt("union", <<"B">>, 6, "record", <<<<"a">>>>)}

Bodies ==
  {Body(to, owner, type, below, k, at, 1, 1) :
     to \in {2, 7}, type \in Types,
     owner \in {<<"fn", <<"a">>, 0>>, <<"fn", <<"a">>, 1>>, <<"fn", <<"a">>, 3>>, <<"fn", <<"a">>, 4>>,
                <<"const", <<"A">>, 0>>, <<"const", <<>>, 0>>},
     below \in {6, 10}, k \in {"const", "static", "struct", "mod"}, at \in {<<"1">>, <<"2">>}}

CopiedBodies ==
  {Body(to, owner, type, below, k, <<"2">>, times[1], times[2]) :
     to \in {2, 7}, type \in Types, owner \in {<<"fn", <<"a">>, 3>>, <<"const", <<"A">>, 0>>},
     below \in {6, 10}, k \in {"const", "struct"},
     times \in {<<0, 1>>, <<1, 0>>, <<1, 2>>, <<2, 1>>, <<2, 2>>}}

--------------------------------------------------------------------------------
(* Constants and statics that read one another. *)
Acyclic(uses) ==
  \A i \in 1 .. 3 : i \notin uses[i] /\ \A j \in uses[i] : i \notin uses[j]
                    /\ \A k \in uses[j] : i \notin uses[k]
UseGraphs == {uses \in [1 .. 3 -> SUBSET (1 .. 3)] : Acyclic(uses)}
Value(i) == i + 4
ConstantGraphs ==
  {LET v(i) == Using(Item(IF ins[i] \in {3, 4} THEN "const" ELSE ks[i], <<"C", ToString(i)>>, ins[i]),
                    {Value(j) : j \in uses[i]})
   IN  <<Item("mod", <<"p">>, 0), Adt("struct", <<"A">>, 0, "unit", <<>>), Impl(1, 2, 0, ""),
         Impl(0, 2, 0, ""), v(1), v(2), v(3)>> :
     uses \in UseGraphs,
     ks \in {<<"const", "const", "const">>, <<"const", "static", "const">>, <<"static", "const", "static">>},
     ins \in {<<0, 0, 0>>, <<0, 0, 1>>, <<0, 1, 0>>, <<1, 0, 1>>, <<0, 1, 1>>, <<3, 3, 0>>, <<3, 0, 1>>, <<3, 4, 0>>}}

--------------------------------------------------------------------------------
(* Two names. *)
SnakeNames == {<<"a">>, <<"a", "b">>, <<"a", "_", "b">>, <<"a", "_", "_", "b">>, <<"a", "_">>,
               <<"_", "a">>, <<"a", "1">>, <<"a", "_", "1">>}
TypeNames == {<<"A">>, <<"A", "B">>, <<"A", "_", "B">>, <<"a">>}

NamePairs ==
  {<<Item(k, n1, 0), Item(k, n2, 0)>> : k \in {"mod", "fn", "const", "static"}, n1, n2 \in SnakeNames}
  \cup {<<Adt(k, n1, 0, "record", <<>>), Adt("struct", n2, 0, "record", <<>>), Item("static", n1, 0)>> :
         k \in {"struct", "enum", "trait"}, n1, n2 \in TypeNames}
  \cup {<<Adt("struct", n1, 0, "record", <<>>), Adt("struct", n2, 0, "record", <<>>), Impl(0, 1, 0, ""),
           Item("const", <<"C">>, 3), Method(<<"b">>, 3, TRUE)>> : n1, n2 \in TypeNames}
  \cup {<<Adt("struct", <<"A">>, 0, shape, <<n1, n2>>)>> :
         shape \in {"record"}, n1, n2 \in SnakeNames}
  \cup {<<[Adt("enum", <<"A">>, 0, "unit", <<>>) EXCEPT
             !.variants = <<[name |-> n1, shape |-> "unit", fields |-> <<>>],
                            [name |-> n2, shape |-> "tuple", fields |-> <<<<"a">>>>]>>]>> :
         n1, n2 \in TypeNames}

LegalNames(c) == \A i \in DOMAIN c :
  /\ Cardinality(ToSet(c[i].fields)) = Len(c[i].fields)
  /\ Cardinality({v.name : v \in ToSet(c[i].variants)}) = Len(c[i].variants)

--------------------------------------------------------------------------------
MCCrates ==
  {c \in ModuleTrees \cup TraitImpls \cup LangImpls \cup InherentImpls \cup Bodies
         \cup CopiedBodies \cup ConstantGraphs \cup NamePairs : Legal(c) /\ LegalNames(c)}
================================================================================
