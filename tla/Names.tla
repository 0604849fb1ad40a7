-------------------------------- MODULE Names --------------------------------
(***************************************************************************)
(* The items of a crate, the C# names they are given (codegen/names.rs),   *)
(* the paths by which C# refers to them (codegen/ty.rs) and the items left *)
(* out of the output (codegen/item_exclusion.rs).                          *)
(*                                                                         *)
(* A crate is a sequence of items, parents before children; 0 stands for   *)
(* the crate root.  An item has                                            *)
(*   k      "mod", "block" (a block expression that holds items), "trait", *)
(*          "struct", "enum", "union", "fn", "const", "static" or "impl"   *)
(*   name   a sequence of letters; <<>> for an impl, a block and const _   *)
(*   in     the item it is written in; for a block, the function, const or *)
(*          block around it                                                *)
(* and the fields of its kind that CrateEmission describes.                *)
(*                                                                         *)
(* A C# name is a prefix and a sequence of letters.                        *)
(***************************************************************************)
EXTENDS Integers, Sequences, SequencesExt

CONSTANTS
  CrateName,   \* the name of the crate
  Excluded,    \* the Rust paths should_emit leaves out
  Nesting      \* how deep cfg_attr attributes are nested

(* Letters; digits and capitals are their own capitals. *)
Capital == [a |-> "A", b |-> "B", n |-> "N", p |-> "P", q |-> "Q"]
Upper(l) == IF l \in DOMAIN Capital THEN Capital[l] ELSE l

\* The letters between underscores, each part capitalised.
Pascal(s) ==
  LET upTo[i \in 0 .. Len(s)] ==
        IF i = 0 THEN <<>>
        ELSE IF s[i] = "_" THEN upTo[i - 1]
        ELSE Append(upTo[i - 1], IF i = 1 \/ s[i - 1] = "_" THEN Upper(s[i]) ELSE s[i])
  IN  upTo[Len(s)]

\* The same, the first part as it is.
Camel(s) ==
  LET upTo[i \in 0 .. Len(s)] ==
        IF i = 0 THEN <<>>
        ELSE LET before == upTo[i - 1]
             IN  IF s[i] = "_" THEN before
                 ELSE Append(before, IF before # <<>> /\ s[i - 1] = "_" THEN Upper(s[i]) ELSE s[i])
  IN  upTo[Len(s)]

StructName(s)  == <<"s_", Pascal(s)>>
TraitName(s)   == <<"t_", Pascal(s)>>
VariantName(s) == <<"v_", Pascal(s)>>
ModName(s)     == <<"mod_", Pascal(s)>>
FieldName(s)   == <<"f_", Camel(s)>>
MethodName(s)  == <<"m_", Pascal(s)>>
ConstName(s)   == <<"c_", s>>
StaticName(s)  == <<"s_", s>>
Fixed(name)    == <<name, <<>>>>      \* a name the generator writes itself

Fmt == <<"fmt">>

--------------------------------------------------------------------------------
(* The tree of modules. *)

Items(c) == DOMAIN c
IsModule(c, i) == i = 0 \/ c[i].k \in {"mod", "block"}
IsBlock(c, i) == i # 0 /\ c[i].k = "block"
IsAdt(c, i) == i # 0 /\ c[i].k \in {"struct", "enum", "union"}

\* The items around i, i included, from the inside out, up to the root 0.
Around(c, i) ==
  LET up[j \in 0 .. Len(c)] == IF j = 0 THEN <<0>> ELSE <<j>> \o up[c[j].in]
  IN  up[i]

\* In a block of a body, or one.
InBody(c, i) == \E j \in ToSet(Around(c, i)) : IsBlock(c, j)

\* The module an item is in (not the item itself).
ModuleOf(c, i) == SelectSeq(Tail(Around(c, i)), LAMBDA j : IsModule(c, j))[1]
\* hir's module.parent: the block's owner is no module.
ParentModule(c, m) == ModuleOf(c, m)

\* A faulty variant: no underscore is added.
ModSimpleNamePlain(c, m) ==
  IF m = 0 THEN <<"crt_", Pascal(CrateName)>>
  ELSE IF c[m].k = "block" THEN <<"block_", c[m].at>>
  ELSE ModName(c[m].name)

\* mod_simple_name: a module named as its parent gets a different class name,
\* since a C# class has no member of its own name.
ModSimpleName(c, m) ==
  LET of[j \in 0 .. Len(c)] ==
        IF j = 0 THEN <<"crt_", Pascal(CrateName)>>
        ELSE IF c[j].k = "block" THEN <<"block_", c[j].at>>
        ELSE LET parent == ParentModule(c, j)
                 base == ModName(c[j].name)
             IN  IF parent # 0 /\ c[parent].k = "mod" /\ c[parent].name = c[j].name
                    /\ of[parent] = base
                 THEN <<base[1], Append(base[2], "_")>> ELSE base
  IN  of[m]

\* A faulty variant: always from the crate's class on.
ModuleClassAbsolute(c, m) ==
  LET of[j \in 0 .. Len(c)] ==
        IF j = 0 THEN <<ModSimpleName(c, 0)>>
        ELSE Append(of[ParentModule(c, j)], ModSimpleName(c, j))
  IN  of[m]

\* module_class_cs: the names from the crate's class on; from the outermost
\* block on in the body of a function, whose class encloses the reference.
ModuleClass(c, m) ==
  LET of[j \in 0 .. Len(c)] ==
        IF j = 0 THEN <<ModSimpleName(c, 0)>>
        ELSE LET parent == ParentModule(c, j)
             IN  IF IsBlock(c, j) /\ ~IsBlock(c, parent)
                 THEN <<ModSimpleName(c, j)>>
                 ELSE Append(of[parent], ModSimpleName(c, j))
  IN  of[m]

\* function_name: fmt of Debug and of Display would have one name.  Debug is the
\* trait of that lang item, Display whatever trait has this name, in the crate (of)
\* or not (lang); the function may be the impl's or the trait's own.
Display == <<"Display">>
FunctionName(c, f) ==
  LET owner == c[f].in
      impl == owner # 0 /\ c[owner].k = "impl"
      trait == IF impl THEN c[owner].of ELSE IF owner # 0 /\ c[owner].k = "trait" THEN owner ELSE 0
      ofDebug == owner # 0 /\ c[owner].k \in {"impl", "trait"} /\ c[owner].lang = "Debug"
      ofDisplay == (impl /\ c[owner].lang = "Display") \/ (trait # 0 /\ c[trait].name = Display)
  IN  CASE c[f].name = Fmt /\ ofDebug   -> Fixed("DebugFmt")
        [] c[f].name = Fmt /\ ofDisplay -> Fixed("DisplayFmt")
        [] OTHER -> MethodName(c[f].name)

AdtClass(c, a) == Append(ModuleClass(c, ModuleOf(c, a)), StructName(c[a].name))
TraitClass(c, t) == Append(ModuleClass(c, ModuleOf(c, t)), TraitName(c[t].name))

\* The path a body writes for what it uses: a function, const_path_cs, a
\* static, a type or a trait.
ReferencePath(c, i) ==
  LET owner == c[i].in
      place == IF owner # 0 /\ c[owner].k = "impl" THEN AdtClass(c, c[owner].to)
               ELSE ModuleClass(c, ModuleOf(c, i))
  IN  CASE c[i].k = "fn"     -> Append(place, FunctionName(c, i))
        [] c[i].k = "const"  -> Append(place, ConstName(c[i].name))
        [] c[i].k = "static" -> Append(place, StaticName(c[i].name))
        [] c[i].k = "trait"  -> TraitClass(c, i)
        [] OTHER             -> AdtClass(c, i)

--------------------------------------------------------------------------------
(* What is left out.  A Rust path is a sequence of names; <<>> where the   *)
(* code has none, below a block or in one.                                 *)

As == <<" as ">>
ImplStep == <<"<impl>">>

\* An impl of a trait, one of the crate (of) or a foreign one (lang).
OfTrait(c, i) == c[i].of # 0 \/ c[i].lang # ""

RustPath(c, i) ==
  LET of[j \in 0 .. Len(c)] ==
        IF j = 0 THEN <<CrateName>>
        ELSE LET below(up, name) == IF up = <<>> THEN <<>> ELSE Append(up, name)
             IN  CASE c[j].k = "block" -> <<>>
                   [] c[j].k = "impl" /\ c[j].to = 0 ->
                        below(of[ModuleOf(c, j)], ImplStep)
                   [] c[j].k = "impl" /\ c[j].to # 0 ->
                        LET trait == IF c[j].of # 0 THEN of[c[j].of] ELSE <<<<c[j].lang>>>>
                        IN  CASE ~OfTrait(c, j)                        -> of[c[j].to]
                              [] of[c[j].to] = <<>> \/ trait = <<>>   -> <<>>
                              [] OTHER -> of[c[j].to] \o <<As>> \o trait
                   [] OTHER -> below(of[c[j].in], c[j].name)
  IN  of[i]

ShouldEmit(c, i) == RustPath(c, i) \notin Excluded

\* collect_attrs: the attributes, those of a cfg_attr that may hold in its
\* place, until no cfg_attr is left; a cfg is dropped.
CollectAttrs(attrs) ==
  LET opened[n \in 0 .. Nesting] ==
        IF n = 0 THEN ToSet(attrs)
        ELSE UNION {IF a.m # "cfg_attr" THEN {a}
                    ELSE IF a.holds = "no" THEN {} ELSE ToSet(a.metas) : a \in opened[n - 1]}
  IN  {a \in opened[Nesting] : a.m # "cfg"}

HasAttr(attrs, name) == \E a \in CollectAttrs(attrs) : a.m = "path" /\ a.name = name
IsR2csNative(c, i) == HasAttr(c[i].attrs, "r2cs_native")
================================================================================
