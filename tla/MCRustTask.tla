----------------------------- MODULE MCRustTask -----------------------------
(***************************************************************************)
(* Instances of RustTask for TLC: a root that awaits a middle task and a   *)
(* leaf of its own; the middle task awaits another leaf.                   *)
(***************************************************************************)
EXTENDS RustTaskCancel, TLC

CONSTANTS root, mid, leaf, leaf2

MCTasks  == {root, mid, leaf, leaf2}
MCLeaves == {leaf, leaf2}
MCParent == (mid :> root) @@ (leaf :> mid) @@ (leaf2 :> root)

\* The smaller tree of the test RustTaskTest: a chain.
ChainTasks  == {root, mid, leaf}
ChainLeaves == {leaf}
ChainParent == (mid :> root) @@ (leaf :> mid)

\* Threads run the same code.  Only runs without liveness use this.
ThreadSymmetry == Permutations(Threads)
=============================================================================
