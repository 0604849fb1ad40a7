------------------------------- MODULE CrateWalk -------------------------------
(***************************************************************************)
(* No item is written twice, but those a body defers twice.  The emitter   *)
(* keeps no set of what it has written; that it comes to each other item   *)
(* once follows from how it finds them: an item of a module, trait, impl   *)
(* or body where it is declared, an impl through its type, wherever it     *)
(* stands.  WalkInv says this of the jobs on the stack: an item has one    *)
(* job at most, or is written, and only once the item it is found through  *)
(* has been opened.  OrderInv says in which order constants and statics    *)
(* come.                                                                   *)
(***************************************************************************)
EXTENDS CrateEmission

\* The C# name of a type in a module is no other type's (adt_key finds the
\* impls of a type by it).
ClassesDistinct(c) ==
  \A a, b \in Items(c) :
    IsAdt(c, a) /\ IsAdt(c, b) /\ a # b /\ ~IsBlock(c, c[a].in) =>
      AdtClass(c, a) # AdtClass(c, b)

\* No body defers an item twice, and those of a block come in their order: no
\* inner item stands in an arm that is copied (MatchOrPatternDefinitions), or in
\* the branch of an else-if as a value.
DeferredOnce(c) ==
  \A owner \in Items(c) :
    LET deferred == c[owner].deferred
    IN  \A n, m \in DOMAIN deferred :
          LET i == deferred[n]
              j == deferred[m]
          IN  n < m /\ c[i].in = c[j].in /\ "impl" \notin {c[i].k, c[j].k} => i < j

\* Then one way leads the walk to an item.
FoundInOneWay(c) == ClassesDistinct(c) /\ DeferredOnce(c)

OfTraitFn(c, i) == i # 0 /\ c[i].k = "fn" /\ c[i].in # 0 /\ c[c[i].in].k = "trait"
InDefaults(class) == class # <<>> /\ class[Len(class)] = Defaults

\* The declaration that carries the body or value of an item, not the slot or
\* the wrapper of a trait's function.
Own(d) == d.what # "slot" /\ (OfTraitFn(crate, d.item) => InDefaults(d.at))

Written(i) == \E n \in DOMAIN decls : Own(decls[n]) /\ decls[n].item = i

--------------------------------------------------------------------------------
(* The jobs that are left. *)

\* Jobs that write an item, and jobs that go on with one.
ItemJobs == {"module", "trait", "adt", "impl", "fn", "field", "block"}
PartJobs == {"variant", "constructable", "statics", "defaults"}

Pending(jobs, i) ==
  \E k \in DOMAIN stack : \E n \in DOMAIN stack[k].todo :
    stack[k].todo[n].do \in jobs /\ stack[k].todo[n].i = i

Tied(a, b) ==
  a.i = b.i /\ ({a.do, b.do} \subseteq ItemJobs \/ {a.do, b.do} = {"defaults"})

OncePending ==
  \A k1, k2 \in DOMAIN stack :
    \A n1 \in DOMAIN stack[k1].todo, n2 \in DOMAIN stack[k2].todo :
      Tied(stack[k1].todo[n1], stack[k2].todo[n2]) => k1 = k2 /\ n1 = n2

\* What a job is for, and in which class it stands.
JobFits(job, class) ==
  /\ job.do = "module" => job.i = 0 \/ (job.i \in Items(crate) /\ crate[job.i].k = "mod")
  /\ job.do \in (ItemJobs \cup PartJobs) \ {"module"} => job.i \in Items(crate)
  /\ job.do \in {"trait", "statics", "defaults"} => crate[job.i].k = "trait"
  /\ job.do = "adt" =>
       /\ IsAdt(crate, job.i)
       /\ \A n \in DOMAIN job.impls :
            /\ job.impls[n] \in Items(crate)
            /\ crate[job.impls[n]].k = "impl" /\ crate[job.impls[n]].to = job.i
            /\ \A m \in DOMAIN job.impls : job.impls[n] = job.impls[m] => n = m
  /\ job.do = "impl" =>
       crate[job.i].k = "impl" /\ crate[job.i].to # 0 /\ ~InDefaults(class)
  /\ job.do = "fn" =>
       crate[job.i].k = "fn" /\ (OfTraitFn(crate, job.i) => InDefaults(class))
  /\ job.do = "field" => crate[job.i].k \in {"const", "static"}
  /\ job.do = "block" => crate[job.i].k = "block"
  /\ job.do = "variant" => job.n \in DOMAIN crate[job.i].variants
  /\ job.do = "constructable" => job.n \in {0} \cup DOMAIN crate[job.i].variants
  /\ job.do \in {"variant", "constructable"} => IsAdt(crate, job.i)
  /\ job.do = "wrappers" =>
       job.i \in Items(crate) /\ crate[job.i].k = "impl" /\ crate[job.i].of # 0
  /\ job.do = "operators" => job.i \in Items(crate) /\ crate[job.i].k = "impl"
  /\ job.do = "wrap" =>
       job.i \in Items(crate) /\ OfTraitFn(crate, job.i) /\ ~InDefaults(class)

JobsFit ==
  \A k \in DOMAIN stack : \A n \in DOMAIN stack[k].todo :
    JobFits(stack[k].todo[n], stack[k].class)

--------------------------------------------------------------------------------
(* How an item is found. *)

\* Through what: an impl through its type.
Home(c, i) == IF c[i].k = "impl" THEN c[i].to ELSE c[i].in

\* p is written, and the jobs for what is found through it have been made.
Opened(p) ==
  IF p # 0 /\ crate[p].k = "impl"
    THEN crate[p].to # 0 /\ Written(crate[p].to) /\ ~Pending({"impl"}, p)
    ELSE Written(p) /\ (p # 0 /\ crate[p].k = "trait" => ~Pending({"defaults"}, p))

\* The walk has come to i.
Reached(i) == Pending(ItemJobs, i) \/ (crate[i].k # "impl" /\ Written(i))

FoundOnce ==
  /\ \A i \in Items(crate) : Reached(i) => Opened(Home(crate, i))
  /\ \A i \in Items(crate) \cup {0} :
       /\ Pending(ItemJobs \ {"impl"}, i) => ~Written(i)
       /\ Pending(PartJobs, i) => Written(i)

\* Every function, constant, static, module and block is written once at most.
WrittenOnce ==
  \A n, m \in DOMAIN decls :
    /\ Own(decls[n]) /\ Own(decls[m]) /\ decls[n].item = decls[m].item
    /\ decls[n].item = 0 \/ crate[decls[n].item].k \in {"fn", "const", "static", "mod", "block"}
    => n = m

Walk == OncePending /\ JobsFit /\ FoundOnce /\ WrittenOnce

--------------------------------------------------------------------------------
(* The order of constants and statics, in which C# gives them their values. *)

IsValue(c, i) == i \in Items(c) /\ c[i].k \in {"const", "static"}
SideBySide(i, j) == IsValue(crate, i) /\ IsValue(crate, j) /\ crate[i].in = crate[j].in

\* The jobs for those of one module, block or impl stand in one class, in order,
FieldsInOrder ==
  \A k1, k2 \in DOMAIN stack :
    \A n1 \in DOMAIN stack[k1].todo, n2 \in DOMAIN stack[k2].todo :
      LET a == stack[k1].todo[n1]
          b == stack[k2].todo[n2]
      IN  a.do = "field" /\ b.do = "field" /\ SideBySide(a.i, b.i) =>
            k1 = k2 /\ (n1 < n2 => a.i < b.i)

\* and come after those that are written,
WrittenBefore ==
  \A n \in DOMAIN decls : \A k \in DOMAIN stack : \A m \in DOMAIN stack[k].todo :
    LET job == stack[k].todo[m]
    IN  Own(decls[n]) /\ job.do = "field" /\ SideBySide(decls[n].item, job.i) =>
          decls[n].item < job.i

\* in order.
WrittenInOrder ==
  \A n, m \in DOMAIN decls :
    n < m /\ Own(decls[n]) /\ Own(decls[m]) /\ SideBySide(decls[n].item, decls[m].item) =>
      decls[n].item < decls[m].item

Ordered == FieldsInOrder /\ WrittenBefore /\ WrittenInOrder

--------------------------------------------------------------------------------
\* The inductive invariant of the walk over a crate.
WalkInv == FoundInOneWay(crate) => Walk

\* The constants and statics of one module, block or impl are written in the
\* order in which they are declared, whatever classes are written between them
\* (emit_module, deferred, emit_impl_items).
OrderInv == FoundInOneWay(crate) => Ordered
================================================================================
