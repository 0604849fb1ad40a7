------------------------------ MODULE CrateCover ------------------------------
(***************************************************************************)
(* Every item that is to be translated is written.  Translated says of an  *)
(* item whether it is, from the items around it; the emitter never asks    *)
(* that: each handler tests its own item, and the lists of jobs must bring *)
(* it to every item that passes, through impls found by emit_crate or next *)
(* to a type of a body, and blocks found by what they hold.  CoverInv is   *)
(* the inductive form: while jobs are left, whatever is found through an   *)
(* item that is open has a job or is written, and every job is for an item *)
(* whose surroundings are translated.                                      *)
(***************************************************************************)
EXTENDS CrateWalk

(* What of the Rust program is translated, item by item. *)

\* The emitter comes to an item of a body: its statement is written, or that of a
\* type next to an impl.  It is not where the emitter drops what is around it
\* (a loop or a block as a value, a branch in front of an else-if).
Met(c, i) ==
  IsBlock(c, c[i].in) =>
    \E j \in Deferred(c, BodyOwner(c, i)) :
      i = j \/ (c[i].k = "impl" /\ IsAdt(c, j) /\ c[i].in = c[j].in)

\* Where an item of its kind is translated at all, if what it is found through
\* is.  Not: in a body traits, modules, what the emitter does not come to, and
\* impls of a type from outside of it; impls of what is no type of the crate, or
\* in a module left out; a trait's constants and functions without a body; the
\* body of a native function.
Placed(c, i) ==
  LET k == c[i].k
      owner == c[i].in
  IN  CASE k \in {"mod", "trait"} -> ~InBody(c, i)
        [] k = "impl" -> /\ c[i].to # 0
                         /\ IF InBody(c, i)
                            THEN /\ InBody(c, c[i].to) /\ BodyOwner(c, c[i].to) = BodyOwner(c, i)
                                 /\ Met(c, i)
                            ELSE ShouldEmit(c, owner) /\ ~InBody(c, c[i].to)
        [] k = "block" -> ~(c[owner].k = "fn" /\ IsR2csNative(c, owner))
        [] k = "fn" -> Met(c, i) /\ (owner # 0 /\ c[owner].k = "trait" => c[i].body)
        [] k \in {"const", "static"} -> Met(c, i) /\ (owner # 0 => c[owner].k # "trait")
        [] OTHER -> Met(c, i)

\* What its handler asks: not left out by its path, nor marked r2cs_native; no
\* union; no const _.
Passes(c, i) ==
  LET k == c[i].k
  IN  CASE k \in {"mod", "struct", "enum"} -> ShouldEmit(c, i) /\ ~IsR2csNative(c, i)
        [] k \in {"impl", "fn"} -> ShouldEmit(c, i)
        [] k \in {"const", "static"} -> c[i].name # <<>>
        [] k = "union" -> FALSE
        [] OTHER -> TRUE

Translated(c, i) ==
  LET of[j \in 0 .. Len(c)] ==
        IF j = 0 THEN ShouldEmit(c, 0) ELSE Placed(c, j) /\ Passes(c, j) /\ of[Home(c, j)]
  IN  of[i]

\* A block gets a class only for the items it holds.
Wanted(c, i) ==
  /\ Translated(c, i)
  /\ IsBlock(c, i) => \E j \in Deferred(c, Owner(c, i)) : Contains(Around(c, j), i)

--------------------------------------------------------------------------------
(* The inductive invariant. *)

Due(c, i) == i = 0 \/ (Placed(c, i) /\ Translated(c, Home(c, i)))

\* A job for an item is made where the item may be translated; a type comes with
\* the impls that may be, and a block with the function or const it is in.
JobDue(job) ==
  /\ job.do \in ItemJobs => Due(crate, job.i)
  /\ job.do = "defaults" => Translated(crate, job.i)
  /\ job.do = "block" => job.n = Owner(crate, job.i)
  /\ job.do = "adt" =>
       \A j \in Items(crate) : crate[j].k = "impl" /\ crate[j].to = job.i =>
         /\ j \in ToSet(job.impls) => Placed(crate, j)
         /\ Placed(crate, j) /\ Passes(crate, j) => j \in ToSet(job.impls)

JobsDue == \A k \in DOMAIN stack : \A n \in DOMAIN stack[k].todo : JobDue(stack[k].todo[n])

WrittenDue ==
  \A i \in Items(crate) :
    crate[i].k \in {"fn", "const", "static"} /\ Written(i) => Translated(crate, i)

\* The walk has come to all that is found through an open item.
AllReached ==
  /\ Translated(crate, 0) => Pending(ItemJobs, 0) \/ Written(0)
  /\ \A i \in Items(crate) :
       crate[i].k # "impl" /\ Wanted(crate, i) /\ Opened(Home(crate, i)) => Reached(i)

Covered == JobsDue /\ WrittenDue /\ AllReached

\* Whatever is found through an item that is open has a job or is written, and
\* each job is for an item that may be translated, wherever impls, traits and
\* bodies stand.
CoverInv == FoundInOneWay(crate) => Covered
================================================================================
