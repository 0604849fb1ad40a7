---------------------------- MODULE EmittedProgram ---------------------------
(***************************************************************************)
(* What C# makes of the classes CrateEmission writes: which declaration a  *)
(* reference finds, what a class must implement, and when the constants    *)
(* and statics, which become static readonly fields, get their values.     *)
(* Rust evaluates a constant where it is named; C# initialises the fields  *)
(* of a class in textual order, when the class is first touched.           *)
(***************************************************************************)
EXTENDS CrateCover

VARIABLES
  started,  \* the classes whose initialisation began
  running,  \* the initialisations in progress, innermost last
  ready,    \* the constants and statics that have their value
  reads     \* the reads made: who read what, and whether it was ready

pvars == <<started, running, ready, reads>>

\* Where a declaration is found from outside.
Location(d) == Append(d.at, d.name)
DeclsOf(i) == {n \in DOMAIN decls : decls[n].item = i /\ decls[n].what # "slot"}

\* A simple name is looked for from the innermost class outwards; the rest of
\* the path is then followed.
Lookup(from, path) ==
  LET holders == {n \in 0 .. Len(from) :
                    \E m \in DOMAIN decls :
                      decls[m].at = SubSeq(from, 1, n) /\ decls[m].name = path[1]}
  IN  IF holders = {} THEN {}
      ELSE LET at == SubSeq(from, 1, CHOOSE n \in holders : \A k \in holders : k <= n) \o path
           IN  {m \in DOMAIN decls : Location(decls[m]) = at}

--------------------------------------------------------------------------------
(* Initialisation of classes, once all is written. *)

FieldsOf(class) ==
  LET at == Select(decls, {n \in DOMAIN decls : /\ decls[n].at = class /\ decls[n].what # "slot"
                                                /\ IsValue(crate, decls[n].item)})
  IN  [n \in DOMAIN at |-> decls[at[n]].item]

HasValue(i) == IsValue(crate, i) /\ DeclsOf(i) # {}
Reads(i) == SetToSeq({d \in crate[i].uses : HasValue(d)})
ClassOf(i) == decls[CHOOSE n \in DeclsOf(i) : TRUE].at

Initialiser(class) == [class |-> class, fields |-> FieldsOf(class), left |-> Reads(FieldsOf(class)[1])]
Running == running[Len(running)]
Start(class) == started' = started \cup {class} /\ running' = Append(running, Initialiser(class))

\* Some code touches a class that has fields, first.
Touch ==
  /\ Emitted /\ running = <<>>
  /\ \E class \in {decls[n].at : n \in DOMAIN decls} \ started :
       FieldsOf(class) # <<>> /\ Start(class)
  /\ UNCHANGED <<ready, reads>>

\* The field being initialised reads another one, whose class is initialised
\* first unless that has begun.
Read ==
  /\ running # <<>> /\ Running.left # <<>>
  /\ LET d == Head(Running.left)
     IN  \/ /\ ClassOf(d) \notin started
            /\ Start(ClassOf(d))
            /\ UNCHANGED <<ready, reads>>
         \/ /\ ClassOf(d) \in started
            /\ reads' = reads \cup {[by |-> Head(Running.fields), of |-> d, ready |-> d \in ready]}
            /\ running' = [running EXCEPT ![Len(running)].left = Tail(@)]
            /\ UNCHANGED <<started, ready>>

Store ==
  /\ running # <<>> /\ Running.left = <<>>
  /\ ready' = ready \cup {Head(Running.fields)}
  /\ LET rest == Tail(Running.fields)
     IN  running' = IF rest = <<>> THEN SubSeq(running, 1, Len(running) - 1)
                    ELSE [running EXCEPT ![Len(running)].fields = rest,
                                         ![Len(running)].left = Reads(rest[1])]
  /\ UNCHANGED <<started, reads>>

ProgramInit == CrateInit /\ started = {} /\ running = <<>> /\ ready = {} /\ reads = {}
ProgramNext ==
  \/ CrateNext /\ UNCHANGED pvars
  \/ (Touch \/ Read \/ Store) /\ UNCHANGED cvars

ProgramSpec == ProgramInit /\ [][ProgramNext]_<<cvars, pvars>>

--------------------------------------------------------------------------------
(* Names as rustc's lints want them; the lints also allow an underscore at an *)
(* end or before a digit, which names.rs does not tell from none.            *)
Letters == DOMAIN Capital
Snake(s) == /\ \A n \in DOMAIN s : s[n] \in Letters \cup {"_", "1"}
            /\ s[1] \in Letters
            /\ \A n \in DOMAIN s : s[n] = "_" => n < Len(s) /\ s[n + 1] \in Letters
Camelled(s) == s[1] \notin Letters \cup {"_", "1"} /\ \A n \in DOMAIN s : s[n] # "_"
Idiomatic(c, i) ==
  CASE i = 0 -> TRUE
    [] c[i].k \in {"mod", "fn"} -> Snake(c[i].name)
    [] c[i].k \in {"trait", "struct", "enum", "union"} ->
         /\ Camelled(c[i].name)
         /\ \A n \in DOMAIN c[i].fields : Snake(c[i].fields[n])
         /\ \A v \in ToSet(c[i].variants) :
              Camelled(v.name) /\ \A n \in DOMAIN v.fields : Snake(v.fields[n])
    [] OTHER -> TRUE

--------------------------------------------------------------------------------
(* Properties. *)

\* Every function, constant and static that is translated is written, and once,
\* wherever it stands: impls find the class of their type by its C# name
\* (emit_crate), items of bodies the block they are in (deferred).  What a body
\* defers is written as often as it does, once for each copy of the arm around it,
\* each time the body is written; with a type also its impls.  Two types with one
\* C# name get the impls of both.
SameClass(c, a, b) == a # b /\ AdtClass(c, a) = AdtClass(c, b) /\ ModuleOf(c, a) = ModuleOf(c, b)
Doubled(c, i) ==
  \E j \in ToSet(Around(c, i)) \ {0} :
    c[j].k = "impl" /\ c[j].to # 0 /\ \E b \in Items(c) : IsAdt(c, b) /\ SameClass(c, c[j].to, b)

WithType(c, i) == IF c[i].in # 0 /\ c[c[i].in].k = "impl" THEN c[c[i].in].to ELSE i
Entries(c, i) ==
  LET deferred == DeferredList(c, BodyOwner(c, i))
  IN  Cardinality({n \in DOMAIN deferred : deferred[n] = i})
Emissions(i) == Cardinality({n \in DeclsOf(i) : Own(decls[n])})

EmittedOnce ==
  Emitted =>
    \A i \in Items(crate) : crate[i].k \in {"fn", "const", "static"} /\ ~Doubled(crate, i) =>
      LET found == WithType(crate, i)
      IN  Emissions(i) =
            IF ~Translated(crate, i) THEN 0
            ELSE IF BodyOwner(crate, found) = 0 THEN 1
            ELSE Entries(crate, found) * Emissions(BodyOwner(crate, found))

\* A path written in a body leads C# to the item that Rust finds: from the
\* crate's class, or for an item of a body from the class of its block, which
\* encloses every reference to it (module_class_cs, ty.rs:600).  That it leads
\* to nothing else too is NamesDistinct.
ReferencesResolve ==
  Emitted =>
    \A r \in refs : Translated(crate, r.to) =>
      \E n \in Lookup(r.from, r.path) : decls[n].item = r.to

\* No two declarations of a class have one name (methods: and one list of
\* parameter types), and none has the name of its class, if the Rust names
\* follow the conventions.  The exceptions are members of several impls of one
\* type, blocks of several bodies with one index path, a static named as a
\* type (names.rs:112), and what is written twice since it is deferred twice or
\* in an impl of two types of one C# name.
Overloads(n, m) ==
  {decls[n].what, decls[m].what} \subseteq {"method", "constructor"} /\ decls[n].sig # decls[m].sig
ImplOf(c, i) == LET js == {j \in ToSet(Around(c, i)) \ {0} : c[j].k = "impl"}
                IN  IF js = {} THEN 0 ELSE CHOOSE j \in js : TRUE
Excused(c, i, j) ==
  \/ ~Idiomatic(c, i) \/ ~Idiomatic(c, j)
  \/ i # 0 /\ j # 0 /\ ImplOf(c, i) # ImplOf(c, j)
  \/ i # 0 /\ j # 0 /\ InBody(c, i) /\ InBody(c, j) /\ Around(c, i)[2] # Around(c, j)[2]
  \/ i # 0 /\ j # 0 /\ {"static"} = {c[i].k, c[j].k} \ {"struct", "enum"}

Copied(c, i) ==
  \E j \in ToSet(Around(c, i)) \ {0} :
    LET found == IF c[j].k = "impl" THEN c[j].to ELSE j IN found # 0 /\ Entries(c, found) > 1
WrittenTwice(d) ==
  \E i \in Items(crate) :
    /\ Copied(crate, i) \/ Doubled(crate, i)
    /\ d.item = i \/ \E n \in DeclsOf(i) : IsPrefix(Location(decls[n]), d.at)

NamesDistinct ==
  Emitted =>
    /\ \A n, m \in DOMAIN decls :
         n < m /\ Location(decls[n]) = Location(decls[m]) /\ ~Overloads(n, m) =>
           \/ Excused(crate, decls[n].item, decls[m].item)
           \/ decls[n].item = decls[m].item /\ WrittenTwice(decls[n])
    /\ \A n \in DOMAIN decls :
         LET d == decls[n]
         IN  d.at # <<>> /\ d.what # "constructor" /\ d.name = d.at[Len(d.at)] =>
               \E j \in ToSet(Around(crate, d.item)) : ~Idiomatic(crate, j)

\* A class has a member for every method of its interfaces, but for the default
\* methods of the traits that are not listed in emit_impl_items (mod.rs:409),
\* which C# leaves unimplemented, and for constants.
InterfacesImplemented ==
  Emitted =>
    \A b \in bases : \A n \in DOMAIN decls :
      LET slot == decls[n]
          trait == crate[slot.item].in
          isInterface == \E m \in DOMAIN decls : decls[m].at = b[1] /\ decls[m].what = "slot"
      IN  slot.what = "slot" /\ slot.at = b[2] /\ crate[slot.item].k = "fn" /\ ~isInterface =>
            \/ \E m \in DOMAIN decls : /\ decls[m].at = b[1] /\ decls[m].name = slot.name
                                       /\ decls[m].sig = slot.sig
            \/ crate[slot.item].body /\ crate[trait].name \notin WrappedTraits

\* A constant that is initialised from others reads their values, unless it
\* reads one written later in its class or one whose class needs its own first.
Later(i, d) == d >= i \/ ImplOf(crate, i) # ImplOf(crate, d)
Needs(class, other) ==
  LET consts == {i \in Items(crate) : HasValue(i)}
      from[n \in 0 .. Len(crate)] ==
        IF n = 0 THEN {class}
        ELSE LET known == from[n - 1]
             IN  known \cup {ClassOf(d) : d \in {d \in consts : \E i \in consts :
                                ClassOf(i) \in known /\ d \in crate[i].uses}}
  IN  other \in from[Len(crate)]

ReadsInitialised ==
  \A r \in reads : ~r.ready =>
    IF ClassOf(r.by) = ClassOf(r.of) THEN Later(r.by, r.of) ELSE Needs(ClassOf(r.of), ClassOf(r.by))

\* The constants and statics of a class are of one module, block or impl.
OneHome ==
  \A i, j \in Items(crate) :
    /\ HasValue(i) /\ HasValue(j)
    /\ ClassOf(i) = ClassOf(j) /\ ImplOf(crate, i) = ImplOf(crate, j)
    => crate[i].in = crate[j].in
================================================================================
