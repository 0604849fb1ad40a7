------------------------------- MODULE Future -------------------------------
(***************************************************************************)
(* What RustTask promises whoever awaits it ("The type represents Future   *)
(* in Rust", Task.cs): a lazy computation that does not start before it is *)
(* awaited, settles at most once, and then wakes the one awaiting it       *)
(* exactly once.                                                           *)
(***************************************************************************)
VARIABLES
  phase,    \* TaskState of the awaited task
  waiter    \* the awaiting method: "fresh", "awaiting" or "served"

vars == <<phase, waiter>>

Settled == {"CompletedSuccessfully", "Failed", "Cancelled"}

Init == phase = "Created" /\ waiter = "fresh"

Await ==
  /\ waiter = "fresh"
  /\ waiter' = "awaiting"
  /\ UNCHANGED phase

Start ==
  /\ phase = "Created" /\ waiter = "awaiting"
  /\ phase' = "Running"
  /\ UNCHANGED waiter

Settle ==
  /\ phase = "Running"
  /\ phase' \in Settled
  /\ UNCHANGED waiter

Wake ==
  /\ waiter = "awaiting" /\ phase \in Settled
  /\ waiter' = "served"
  /\ UNCHANGED phase

Next == Await \/ Start \/ Settle \/ Wake

Safety == Init /\ [][Next]_vars

Spec == Safety /\ WF_vars(Next)
=============================================================================
