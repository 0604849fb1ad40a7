---------------------------- MODULE CrateEmission ----------------------------
(***************************************************************************)
(* The emission of a crate (codegen/mod.rs, codegen/decl.rs): a walk over  *)
(* its modules, types, traits and functions that writes one C# class       *)
(* inside another.  The calls of the walk that stand inside an open brace  *)
(* are the stack; each step is one item.                                   *)
(*                                                                         *)
(* Besides k, name and in (see Names) an item has                          *)
(*   attrs     its attributes                                              *)
(*   where     whether its generic parameters are constrained              *)
(*   self, body, sized   of a function: a self parameter, a body, an       *)
(*             explicit where Self: Sized                                  *)
(*   sig       of a function: the C# types of its parameters               *)
(*   uses      of a body: the items it names                               *)
(*   deferred  of a body: the items whose statements its emitter writes,   *)
(*             in this order.  An item comes twice if a pass has copied    *)
(*             the arm around it (MatchOrPatternDefinitions) or the        *)
(*             emitter writes what is around it twice (the branch of an    *)
(*             else-if as a value), not at all if that is dropped (a loop  *)
(*             or a block as a value, the branch in front of an else-if)   *)
(*   at        of a block: the index path of its syntax node in its file   *)
(*   to, of, lang, other   of an impl: its type (0: no ADT), its trait in  *)
(*             the crate or its foreign trait, and whether the trait's     *)
(*             argument is another type than its own                       *)
(*   supers    of a trait: its supertraits                                 *)
(*   shape, fields, variants   of a struct or enum                         *)
(* Comments in the output are written but not modelled.                    *)
(***************************************************************************)
EXTENDS Names, Output, FiniteSets

CONSTANTS
  Crates,        \* the crates to compile
  WrappedTraits  \* the traits whose default methods get a wrapper in each impl

IsList(s) == Len(s) \in Nat /\ DOMAIN s = 1 .. Len(s)

\* What Rust lets stand in what; of blocks, those of functions, constants and statics.
StandsIn(c, i) ==
  LET p == c[i].in
      module == p = 0 \/ c[p].k = "mod"
  IN  CASE c[i].k \in {"mod", "trait", "struct", "enum", "union", "impl", "static"} ->
             module \/ c[p].k = "block"
        [] c[i].k \in {"fn", "const"} -> module \/ c[p].k \in {"block", "trait", "impl"}
        [] c[i].k = "block" -> p # 0 /\ c[p].k \in {"fn", "const", "static", "block"}
        [] OTHER -> FALSE

\* The first item around i that is no block.
Owner(c, i) ==
  LET of[j \in 0 .. Len(c)] ==
        IF j = 0 THEN 0 ELSE IF IsBlock(c, c[j].in) THEN of[c[j].in] ELSE c[j].in
  IN  of[i]

\* The function or const whose body an item stands in: 0 if in none.
BodyOwner(c, i) == IF IsBlock(c, c[i].in) THEN Owner(c, i) ELSE 0

\* The kinds of items that are deferred: others are "unsupported".
ItemInBody == {"fn", "struct", "enum", "impl", "const", "static"}

\* What i defers are items of its body.
DefersItsOwn(c, i) ==
  /\ c[i].deferred \in Seq(Items(c))
  /\ \A n \in DOMAIN c[i].deferred :
       LET j == c[i].deferred[n] IN c[j].k \in ItemInBody /\ BodyOwner(c, j) = i

\* Parents come first and nest as in Rust; an impl is for a type and of a trait,
\* if of any in the crate; the parts of a type are sequences.
ASSUME CratesAssumption ==
  \A c \in Crates :
    /\ IsList(c)
    /\ \A i \in Items(c) :
         /\ c[i].in \in 0 .. i - 1
         /\ StandsIn(c, i)
         /\ c[i].to \in 0 .. Len(c) /\ (c[i].to # 0 => IsAdt(c, c[i].to))
         /\ c[i].of \in 0 .. Len(c) /\ (c[i].of # 0 => c[c[i].of].k = "trait")
         /\ IsList(c[i].fields) /\ IsList(c[i].variants)
         /\ \A n \in DOMAIN c[i].variants : IsList(c[i].variants[n].fields)
         /\ DefersItsOwn(c, i)

VARIABLES
  crate,  \* the crate being compiled
  stack,  \* the classes being written, each with what is left to write in it
  out,    \* the output
  decls,  \* the C# declarations written, in order
  bases,  \* the interfaces of the classes written
  refs    \* the references written

cvars == <<crate, stack, out, decls, bases, refs>>

Job(do, i) == [do |-> do, i |-> i, place |-> "normal", impls |-> <<>>, impl |-> 0, n |-> 0]
Jobs(do, is) == [n \in DOMAIN is |-> Job(do, is[n])]
Place(job, place) == [job EXCEPT !.place = place]

Frame(class, todo, blank) == [class |-> class, todo |-> todo, blank |-> blank]
Top == stack[Len(stack)]
Working(do) == stack # <<>> /\ Top.todo # <<>> /\ Head(Top.todo).do = do
ThisJob == Head(Top.todo)
Here == Top.class

\* Goes on in this class: with more to do first.
Continue(more) == stack' = [stack EXCEPT ![Len(stack)].todo = more \o Tail(@)]
\* Opens a class.
Enter(name, todo, blank) ==
  stack' = Append([stack EXCEPT ![Len(stack)].todo = Tail(@)],
                  Frame(Append(Here, name), todo, blank))

\* A declaration: where, its C# name, its C# parameter types, the item it is for.
Decl(what, at, name, sig, i) == [what |-> what, at |-> at, name |-> name, sig |-> sig, item |-> i]
Declare(ds) == decls' = decls \o ds
DeclareClass(name, i) == Declare(<<Decl("class", Here, name, <<>>, i)>>)
Ref(from, path, i) == [from |-> from, path |-> path, to |-> i]
ReferTo(is) == refs' = refs \cup {Ref(Here, ReferencePath(crate, i), i) : i \in is}

--------------------------------------------------------------------------------
(* Parts of a crate. *)

Nothing == <<>>

\* Items in the order in which they are declared.
Select(c, items) ==
  LET upTo[i \in 0 .. Len(c)] ==
        IF i = 0 THEN <<>>
        ELSE IF i \in items THEN Append(upTo[i - 1], i) ELSE upTo[i - 1]
  IN  upTo[Len(c)]

Declarations(c, m, kinds) == Select(c, {i \in Items(c) : c[i].in = m /\ c[i].k \in kinds})
Members(c, i, kinds) == Declarations(c, i, kinds)

\* A faulty variant: only the impls next to the type.
CrateImplsNextToType(c, a) ==
  Select(c, {i \in Items(c) :
    /\ c[i].k = "impl" /\ c[i].to = a /\ c[i].in = ModuleOf(c, a)
    /\ ShouldEmit(c, c[i].in) /\ ShouldEmit(c, i)})

\* emit_crate: the impls of a module that is not left out, by the C# name of
\* their type.  Blocks are no modules of the crate, nor are modules in them.
CrateImpls(c, a) ==
  LET inModule(m) == Select(c, {i \in Items(c) :
        /\ c[i].k = "impl" /\ c[i].in = m /\ c[i].to # 0
        /\ ShouldEmit(c, m) /\ ShouldEmit(c, i)
        /\ AdtClass(c, c[i].to) = AdtClass(c, a)})
      upTo[m \in 0 .. Len(c)] ==
        IF m = 0 THEN inModule(0)
        ELSE IF IsModule(c, m) /\ ~InBody(c, m) THEN upTo[m - 1] \o inModule(m)
        ELSE upTo[m - 1]
  IN  upTo[Len(c)]

\* What the emitter of a body has deferred (add_deferred).
DeferredList(c, owner) == IF owner \in Items(c) THEN c[owner].deferred ELSE <<>>
Deferred(c, owner) == ToSet(DeferredList(c, owner))

\* A faulty variant: one entry for each item.
DeferredOf(c, owner, b) ==
  Select(c, {i \in Deferred(c, owner) : c[i].in = b /\ c[i].k # "impl"})

\* The items of a block, in the order in which they were deferred, and as often.
DeferredIn(c, owner, b) ==
  LET deferred == DeferredList(c, owner)
      upTo[n \in 0 .. Len(deferred)] ==
        IF n = 0 THEN <<>>
        ELSE IF c[deferred[n]].in = b /\ c[deferred[n]].k # "impl"
             THEN Append(upTo[n - 1], deferred[n]) ELSE upTo[n - 1]
  IN  upTo[Len(deferred)]

\* A faulty variant: blocks of blocks come with each block around them.
DeferredBlocksAnyDepth(c, owner, b) ==
  Select(c, {j \in Items(c) : /\ c[j].k = "block" /\ j # b /\ Contains(Around(c, j), b)
                              /\ \E i \in Deferred(c, owner) : Contains(Around(c, i), j)})

\* The block right below b in which an item stands, if any.
BlocksAt(c, b, i) ==
  {j \in Items(c) : c[j].k = "block" /\ c[j].in = b /\ Contains(Around(c, i), j)}

\* The blocks right below b (or the body's outermost) that hold a deferred item,
\* in the order in which the list comes to them.
DeferredBlocks(c, owner, b) ==
  LET deferred == DeferredList(c, owner)
      upTo[n \in 0 .. Len(deferred)] ==
        IF n = 0 THEN <<>>
        ELSE upTo[n - 1] \o Select(c, BlocksAt(c, b, deferred[n]) \ ToSet(upTo[n - 1]))
  IN  upTo[Len(deferred)]

\* The impls that a deferred item brings: itself, or those next to it.
ImplsAt(c, a, i) ==
  {j \in Items(c) : /\ c[j].k = "impl" /\ c[j].to = a
                    /\ i = j \/ (IsAdt(c, i) /\ c[j].in = c[i].in)}

\* A faulty variant: an impl both deferred and next to its type comes twice.
LocalImplsTwice(c, owner, a) ==
  LET deferred == DeferredList(c, owner)
      upTo[n \in 0 .. Len(deferred)] ==
        IF n = 0 THEN <<>> ELSE upTo[n - 1] \o Select(c, ImplsAt(c, a, deferred[n]))
  IN  upTo[Len(deferred)]

\* The impls known when the items of a body are written: those deferred, and
\* those next to a deferred type, each once.
LocalImpls(c, owner, a) ==
  LET deferred == DeferredList(c, owner)
      upTo[n \in 0 .. Len(deferred)] ==
        IF n = 0 THEN <<>>
        ELSE upTo[n - 1] \o Select(c, ImplsAt(c, a, deferred[n]) \ ToSet(upTo[n - 1]))
  IN  upTo[Len(deferred)]

StaticFns(c, t) ==
  Select(c, {f \in Items(c) : c[f].k = "fn" /\ c[f].in = t /\ ~c[f].self /\ ~c[f].sized})

\* The trait and its supertraits.
WithSupers(c, t) ==
  LET from[n \in 0 .. Len(c)] ==
        IF n = 0 THEN {t}
        ELSE LET known == from[n - 1] IN known \cup UNION {c[s].supers : s \in known}
  IN  from[Len(c)]

NeedsStatics(c, t) == \E s \in WithSupers(c, t) : StaticFns(c, s) # <<>>

AdtJob(c, a, impls) == [Job("adt", a) EXCEPT !.impls = impls]
BlockJob(owner, b) == [Job("block", b) EXCEPT !.n = owner]
DeferredJobs(c, owner, b) ==
  LET blocks == DeferredBlocks(c, owner, b) IN [n \in DOMAIN blocks |-> BlockJob(owner, blocks[n])]

--------------------------------------------------------------------------------
(* Modules. *)

\* A faulty variant: statics are written before the constants.
ModuleJobsStaticsFirst(c, m) ==
  LET adts == Declarations(c, m, {"struct", "enum", "union"})
      fns  == Declarations(c, m, {"fn"})
  IN  Jobs("trait", Declarations(c, m, {"trait"}))
      \o Jobs("field", Declarations(c, m, {"static"})) \o Jobs("field", Declarations(c, m, {"const"}))
      \o [n \in DOMAIN fns |-> Place(Job("fn", fns[n]), "free")]
      \o [n \in DOMAIN adts |-> AdtJob(c, adts[n], CrateImpls(c, adts[n]))]
      \o Jobs("module", Declarations(c, m, {"mod"}))

\* Traits, constants and statics, functions, types, then modules.
ModuleJobs(c, m) ==
  LET adts == Declarations(c, m, {"struct", "enum", "union"})
      fns  == Declarations(c, m, {"fn"})
  IN  Jobs("trait", Declarations(c, m, {"trait"}))
      \o Jobs("field", Declarations(c, m, {"const", "static"}))
      \o [n \in DOMAIN fns |-> Place(Job("fn", fns[n]), "free")]
      \o [n \in DOMAIN adts |-> AdtJob(c, adts[n], CrateImpls(c, adts[n]))]
      \o Jobs("module", Declarations(c, m, {"mod"}))

EmitModule ==
  LET m == ThisJob.i
      name == ModSimpleName(crate, m)
      native == m # 0 /\ IsR2csNative(crate, m)
  IN  /\ Working("module")
      /\ \/ /\ ~ShouldEmit(crate, m)
            /\ Continue(Nothing)
            /\ UNCHANGED <<out, decls>>
         \/ /\ ShouldEmit(crate, m) /\ native
            /\ out' = Wln(Wln(out))
            /\ DeclareClass(name, m)
            /\ Continue(Nothing)
         \/ /\ ShouldEmit(crate, m) /\ ~native
            /\ out' = OpenBrace(Text(out))
            /\ DeclareClass(name, m)
            /\ Enter(name, ModuleJobs(crate, m), FALSE)
      /\ UNCHANGED <<crate, bases, refs>>

\* The end of a class: after a type, a variant or a trait comes a blank line.
CloseClass ==
  /\ Len(stack) > 1 /\ Top.todo = <<>>
  /\ out' = IF Top.blank THEN BlankLine(CloseBrace(out)) ELSE CloseBrace(out)
  /\ stack' = SubSeq(stack, 1, Len(stack) - 1)
  /\ UNCHANGED <<crate, decls, bases, refs>>

EmitBlank ==
  /\ Working("blank")
  /\ out' = BlankLine(out)
  /\ Continue(Nothing)
  /\ UNCHANGED <<crate, decls, bases, refs>>

\* The job for an item of a body; an impl comes with its type.
DeferredJob(c, owner, i) ==
  CASE c[i].k = "fn" -> Job("fn", i)
    [] IsAdt(c, i) -> AdtJob(c, i, LocalImpls(c, owner, i))
    [] c[i].k \in {"const", "static"} -> Job("field", i)

\* The items of a body (deferred): a class per block that holds some, inside
\* the class being written; an item deferred twice is written twice.
EmitBlock ==
  LET b == ThisJob.i
      owner == ThisJob.n
      inBlock == DeferredIn(crate, owner, b)
      jobs == [n \in DOMAIN inBlock |-> DeferredJob(crate, owner, inBlock[n])]
  IN  /\ Working("block")
      /\ out' = Indent(Wln(out))
      /\ DeclareClass(ModSimpleName(crate, b), b)
      /\ Enter(ModSimpleName(crate, b), jobs \o DeferredJobs(crate, owner, b), FALSE)
      /\ UNCHANGED <<crate, bases, refs>>

--------------------------------------------------------------------------------
(* Functions, constants and statics. *)

\* A faulty variant: only constraints are indented back.
SignatureDedentIfWhere(c, where) ==
  IF where THEN Dedent(Text(Newline(Indent(Text(c))))) ELSE Indent(Text(c))

\* emit_function_signature: the constraints follow on lines of their own.
Signature(c, where) ==
  Dedent(IF where THEN Text(Newline(Indent(Text(c)))) ELSE Indent(Text(c)))

FnDecl(f, self) ==
  Decl("method", Here, FunctionName(crate, f), (IF self THEN <<"self">> ELSE <<>>) \o crate[f].sig, f)

\* emit_function_inner.
EmitFunction ==
  LET f == ThisJob.i
      fn == crate[f]
      before == IF ThisJob.place = "free" THEN Wln(out) ELSE out
      signature == Signature(RawWln(before), fn.where)
      asStatic == ThisJob.place = "default" /\ fn.self
  IN  /\ Working("fn")
      /\ \/ /\ ~ShouldEmit(crate, f)
            /\ out' = before
            /\ Continue(Nothing)
            /\ UNCHANGED <<decls, refs>>
         \/ /\ ShouldEmit(crate, f) /\ IsR2csNative(crate, f)
            /\ out' = Wln(signature)
            /\ Declare(<<FnDecl(f, asStatic)>>)
            /\ Continue(Nothing)
            /\ UNCHANGED refs
         \/ /\ ShouldEmit(crate, f) /\ ~IsR2csNative(crate, f)
            /\ out' = CloseBrace(Wln(OpenBrace(Newline(signature))))
            /\ Declare(<<FnDecl(f, asStatic)>>)
            /\ ReferTo(fn.uses)
            /\ Continue(DeferredJobs(crate, f, f) \o <<Job("blank", f)>>)
      /\ UNCHANGED <<crate, bases>>

\* emit_const and emit_static; const _ is skipped, whatever its body holds.
EmitField ==
  LET i == ThisJob.i
      unnamed == crate[i].name = <<>>
      name == IF crate[i].k = "const" THEN ConstName(crate[i].name) ELSE StaticName(crate[i].name)
  IN  /\ Working("field")
      /\ out' = Wln(out)
      /\ \/ /\ unnamed
            /\ Continue(Nothing)
            /\ UNCHANGED <<decls, refs>>
         \/ /\ ~unnamed
            /\ Declare(<<Decl("field", Here, name, <<>>, i)>>)
            /\ ReferTo(crate[i].uses)
            /\ Continue(DeferredJobs(crate, i, i))
      /\ UNCHANGED <<crate, bases>>

--------------------------------------------------------------------------------
(* Traits. *)

\* emit_trait: an interface with the methods, an interface with the functions
\* that have no self, and a class with the default bodies.
EmitTrait ==
  LET t == ThisJob.i
      slots == Select(crate, {i \in Items(crate) :
                 /\ crate[i].in = t /\ crate[i].k \in {"fn", "const"} /\ crate[i].name # <<>>
                 /\ crate[i].k = "fn" => crate[i].self})
      header == Indent(RawNewline(Text(Wln(out))))
  IN  /\ Working("trait")
      /\ out' = OpenBrace(Dedent(IF crate[t].where THEN Wln(header) ELSE header))
      /\ DeclareClass(TraitName(crate[t].name), t)
      /\ bases' = bases \cup
           {<<Append(Here, TraitName(crate[t].name)), TraitClass(crate, s)>> : s \in crate[t].supers}
      /\ Enter(TraitName(crate[t].name),
               Jobs("slot", slots)
               \o (IF NeedsStatics(crate, t) THEN <<Job("statics", t)>> ELSE <<>>)
               \o <<Job("defaults", t)>>, TRUE)
      /\ UNCHANGED <<crate, refs>>

EmitSlot ==
  LET i == ThisJob.i
  IN  /\ Working("slot")
      /\ \/ /\ crate[i].k = "fn"
            /\ out' = Wln(Signature(out, crate[i].where))
            /\ Declare(<<Decl("slot", Here, FunctionName(crate, i), crate[i].sig, i)>>)
         \/ /\ crate[i].k = "const"
            /\ out' = Wln(out)
            /\ Declare(<<Decl("slot", Here, ConstName(crate[i].name), <<>>, i)>>)
      /\ Continue(Nothing)
      /\ UNCHANGED <<crate, bases, refs>>

Statics == Fixed("Statics")
Defaults == Fixed("Defaults")

EmitStaticsInterface ==
  LET t == ThisJob.i
  IN  /\ Working("statics")
      /\ out' = OpenBrace(Text(out))
      /\ DeclareClass(Statics, t)
      /\ bases' = bases \cup
           {<<Append(Here, Statics), Append(TraitClass(crate, s), Statics)>> :
              s \in {s \in crate[t].supers : NeedsStatics(crate, s)}}
      /\ Enter(Statics, Jobs("slot", StaticFns(crate, t)), FALSE)
      /\ UNCHANGED <<crate, refs>>

EmitDefaults ==
  LET t == ThisJob.i
      withBody == Select(crate, {f \in Items(crate) :
                    crate[f].k = "fn" /\ crate[f].in = t /\ crate[f].body})
  IN  /\ Working("defaults")
      /\ out' = OpenBrace(Wln(out))
      /\ DeclareClass(Defaults, t)
      /\ Enter(Defaults, [n \in DOMAIN withBody |-> Place(Job("fn", withBody[n]), "default")], FALSE)
      /\ UNCHANGED <<crate, bases, refs>>

--------------------------------------------------------------------------------
(* Types. *)

\* emit_adt_with_impls up to the opening brace.
Interfaces(impls) ==
  {TraitClass(crate, crate[j].of) : j \in {j \in ToSet(impls) : crate[j].of # 0}}
  \cup {<<Fixed("System.IComparable")>> : j \in {j \in ToSet(impls) : crate[j].lang = "Ord"}}

EmitAdt ==
  LET a == ThisJob.i
      adt == crate[a]
      name == StructName(adt.name)
      constrained(c) == Dedent(IF adt.where THEN Wln(Indent(c)) ELSE Indent(c))
      impls == Jobs("impl", ThisJob.impls)
      variants == [n \in DOMAIN adt.variants |-> [Job("variant", a) EXCEPT !.n = n]]
  IN  /\ Working("adt")
      /\ \/ /\ ~ShouldEmit(crate, a)
            /\ out' = Wln(out)
            /\ Continue(Nothing)
            /\ UNCHANGED <<decls, bases>>
         \/ /\ ShouldEmit(crate, a) /\ IsR2csNative(crate, a)
            /\ out' = BlankLine(Wln(Wln(out)))
            /\ DeclareClass(name, a)
            /\ Continue(Nothing)
            /\ UNCHANGED bases
         \/ /\ ShouldEmit(crate, a) /\ ~IsR2csNative(crate, a) /\ adt.k = "union"
            /\ Continue(Nothing)
            /\ UNCHANGED <<out, decls, bases>>
         \/ /\ ShouldEmit(crate, a) /\ ~IsR2csNative(crate, a) /\ adt.k = "struct"
            /\ out' = OpenBrace(constrained(Wln(out)))
            /\ DeclareClass(name, a)
            /\ bases' = bases \cup {<<Append(Here, name), t>> : t \in Interfaces(ThisJob.impls)}
            /\ Enter(name, <<Job("constructable", a), Job("blank", a)>> \o impls, TRUE)
         \/ /\ ShouldEmit(crate, a) /\ ~IsR2csNative(crate, a) /\ adt.k = "enum"
            /\ out' = BlankLine(Wln(OpenBrace(constrained(Wln(Wln(out))))))
            /\ Declare(<<Decl("class", Here, name, <<>>, a),
                         Decl("field", Append(Here, name), Fixed("inner"), <<>>, a),
                         Decl("field", Append(Here, name), Fixed("Value"), <<>>, a),
                         Decl("method", Append(Here, name), Fixed("set"), <<"self">>, a)>>)
            /\ bases' = bases \cup {<<Append(Here, name), t>> : t \in Interfaces(ThisJob.impls)}
            /\ Enter(name, variants \o impls, TRUE)
      /\ UNCHANGED <<crate, refs>>

EmitVariant ==
  LET a == ThisJob.i
      n == ThisJob.n
      name == VariantName(crate[a].variants[n].name)
  IN  /\ Working("variant")
      /\ out' = OpenBrace(Wln(Wln(out)))
      /\ Declare(<<Decl("constructor", Here, StructName(crate[a].name), <<name>>, a),
                   Decl("class", Here, name, <<>>, a)>>)
      /\ Enter(name, <<[Job("constructable", a) EXCEPT !.n = n]>>, TRUE)
      /\ UNCHANGED <<crate, bases, refs>>

\* The code of a tuple constructor, a buffer of its own.
CtorCode(fields) ==
  LET opened == Indent(Newline(Text(NewCode)))
  IN  Wln(Dedent(IF fields THEN Wln(opened) ELSE opened))

\* emit_constructable_def: the fields, and the way to make a value.
EmitConstructable ==
  LET a == ThisJob.i
      def == IF ThisJob.n = 0 THEN crate[a] ELSE crate[a].variants[ThisJob.n]
      some == def.fields # <<>>
      fields == [n \in DOMAIN def.fields |-> Decl("field", Here, FieldName(def.fields[n]), <<>>, a)]
      after == IF some THEN Wln(out) ELSE out
  IN  /\ Working("constructable")
      /\ \/ /\ def.shape = "record"
            /\ out' = after
            /\ Declare(fields)
         \/ /\ def.shape = "tuple"
            /\ out' = Append_(IF some THEN BlankLine(after) ELSE after, CtorCode(some))
            /\ Declare(Append(fields, Decl("method", Here, Fixed("ctor"), def.fields, a)))
         \/ /\ def.shape = "unit"
            /\ out' = Wln(Wln(after))
            /\ Declare(fields \o <<Decl("constructor", Here, Here[Len(Here)], <<>>, a),
                                   Decl("field", Here, Fixed("instance"), <<>>, a)>>)
      /\ Continue(Nothing)
      /\ UNCHANGED <<crate, bases, refs>>

--------------------------------------------------------------------------------
(* Impls. *)

WrapJob(f, impl, place) == [Job("wrap", f) EXCEPT !.impl = impl, !.place = place]

\* A faulty variant: nothing is inherited once the impl has a function.
InheritedUnlessOwn(c, impl) ==
  IF c[impl].of = 0 \/ Members(c, impl, {"fn"}) # <<>> THEN <<>>
  ELSE Members(c, c[impl].of, {"fn"})

\* The trait's functions that the impl leaves to their default, for the traits
\* listed in the code.
Inherited(c, impl) ==
  IF c[impl].of = 0 \/ c[c[impl].of].name \notin WrappedTraits THEN <<>>
  ELSE LET own == {c[f].name : f \in ToSet(Members(c, impl, {"fn"}))}
       IN  Select(c, {f \in Items(c) : c[f].k = "fn" /\ c[f].in = c[impl].of /\ c[f].name \notin own})

\* The members a foreign trait adds: their names and parameter types.
Operators(impl) ==
  LET other == IF impl.other THEN "other" ELSE "self"
      pair == <<"self", other>>
  IN  CASE impl.lang = "PartialOrd" ->
             <<<<"operator<", <<"self", "self">>>>, <<"operator>", <<"self", "self">>>>,
               <<"operator<=", <<"self", "self">>>>, <<"operator>=", <<"self", "self">>>>>>
        [] impl.lang = "Ord"        -> <<<<"CompareTo", <<"self">>>>>>
        [] impl.lang = "PartialEq"  ->
             <<<<"operator==", pair>>, <<"operator!=", pair>>>>
             \o (IF impl.other THEN <<>> ELSE <<<<"Equals", <<"object">>>>>>)
        [] impl.lang = "Hash"       -> <<<<"GetHashCode", <<>>>>>>
        [] impl.lang = "Display"    -> <<<<"ToString", <<>>>>>>
        [] OTHER                    -> <<>>

\* emit_impl_items.
EmitImpl ==
  LET j == ThisJob.i
      items == Members(crate, j, {"fn", "const"})
      jobs == [n \in DOMAIN items |->
                 Job(IF crate[items[n]].k = "fn" THEN "fn" ELSE "field", items[n])]
      inherited == Inherited(crate, j)
      statics == IF crate[j].of = 0 THEN <<>> ELSE StaticFns(crate, crate[j].of)
  IN  /\ Working("impl")
      /\ \/ /\ ~ShouldEmit(crate, j)
            /\ Continue(Nothing)
         \/ /\ ShouldEmit(crate, j)
            /\ Continue(jobs
                 \o [n \in DOMAIN inherited |-> WrapJob(inherited[n], j, "normal")]
                 \o (IF Operators(crate[j]) = <<>> THEN <<>> ELSE <<Job("operators", j)>>)
                 \o (IF statics = <<>> THEN <<>> ELSE <<Job("wrappers", j)>>))
      /\ UNCHANGED <<crate, out, decls, bases, refs>>

\* emit_wrapper_fn: a method that calls the trait's default body, or in Statics
\* the function of the class.
EmitWrapper ==
  LET f == ThisJob.i
      impl == crate[ThisJob.impl]
      callee == IF ThisJob.place = "statics"
                THEN <<StructName(crate[impl.to].name), FunctionName(crate, f)>>
                ELSE TraitClass(crate, impl.of) \o <<Defaults, FunctionName(crate, f)>>
  IN  /\ Working("wrap")
      /\ out' = Dedent(Wln(Indent(Newline(Signature(out, crate[f].where)))))
      /\ Declare(<<FnDecl(f, FALSE)>>)
      /\ refs' = refs \cup {Ref(Here, callee, f)}
      /\ Continue(Nothing)
      /\ UNCHANGED <<crate, bases>>

EmitOperators ==
  LET j == ThisJob.i
      members == Operators(crate[j])
  IN  /\ Working("operators")
      /\ out' = Wln(out)
      /\ Declare([n \in DOMAIN members |->
                    Decl("method", Here, Fixed(members[n][1]), members[n][2], j)])
      /\ Continue(Nothing)
      /\ UNCHANGED <<crate, bases, refs>>

EmitStaticsStruct ==
  LET j == ThisJob.i
      fns == StaticFns(crate, crate[j].of)
  IN  /\ Working("wrappers")
      /\ out' = Indent(Wln(out))
      /\ bases' = bases \cup {<<Append(Here, Statics), Append(TraitClass(crate, crate[j].of), Statics)>>}
      /\ Enter(Statics, [n \in DOMAIN fns |-> WrapJob(fns[n], j, "statics")], FALSE)
      /\ UNCHANGED <<crate, decls, refs>>

--------------------------------------------------------------------------------
\* code_header: the lines at the head of the file.
Header == BlankLine(Wln(BlankLine(Wln(NewCode))))

CrateInit ==
  /\ crate \in Crates
  /\ stack = <<Frame(<<>>, <<Job("module", 0)>>, FALSE)>>
  /\ out = Header
  /\ decls = <<>>
  /\ bases = {}
  /\ refs = {}

CrateNext ==
  \/ EmitModule \/ EmitBlock \/ EmitBlank \/ CloseClass
  \/ EmitFunction \/ EmitField
  \/ EmitTrait \/ EmitSlot \/ EmitStaticsInterface \/ EmitDefaults
  \/ EmitAdt \/ EmitVariant \/ EmitConstructable
  \/ EmitImpl \/ EmitWrapper \/ EmitOperators \/ EmitStaticsStruct

CrateSpec == CrateInit /\ [][CrateNext]_cvars

--------------------------------------------------------------------------------
\* Between two items the output stands at the start of a line and is indented
\* once per open class: no mark asked for is lost in formatted writes
\* (write_fmt) or in buffers appended to it (output.rs:59).
LayoutBalanced == Settled(out, Len(stack) - 1)

Emitted == Len(stack) = 1 /\ Top.todo = <<>>

================================================================================
