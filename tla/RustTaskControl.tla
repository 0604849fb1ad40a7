-------------------------- MODULE RustTaskControl ---------------------------
(***************************************************************************)
(* Who runs the body of an async method, as long as nobody has called      *)
(* Cancel.  Task.cs takes no lock and checks State only where it says so;  *)
(* what keeps two threads out of one body is that the right to run it is   *)
(* handed on: from the method that starts the task to its body, from the   *)
(* body to the continuation it registers, from there to whoever completes  *)
(* the awaited task.  ControlInv states this for every frame of every      *)
(* thread and for every continuation; the properties of RustTask that the  *)
(* run pool checks follow from it.                                         *)
(***************************************************************************)
EXTENDS RustTask

\* Frames that run a body, that stand between the suspension of a body and its
\* next MoveNext, and that publish how it ended.
RunningPC == {"body", "leafCheck", "wrap", "isCompleted", "awaitOnCompleted",
              "getResult", "setException"} \cup StartPC
WaitingPC == {"register", "resume", "wrapperTake"}
EndingPC  == {"publish", "clear", "notify"}
ControlPC == RunningPC \cup WaitingPC \cup EndingPC \cup {"setResult"}

\* Frames of a body that has started the task it awaits.
AwaitingPC == {"isCompleted", "awaitOnCompleted", "register"}

\* No frame of any thread controls b: its continuation does, or nobody yet.
FreeOfControl(b) ==
  \A th \in Threads : \A i \in 1 .. Len(stack[th]) :
    stack[th][i].pc \in ControlPC => stack[th][i].task # b

\* Nothing but the end of u resumes b.
Parked(b, u) ==
  body[b] = "suspended" /\ awaitingTask[b] = u /\ FreeOfControl(b)

\* A body has one controlling frame, a wrapper one call of OnCompleted.
Rivals(f, g) ==
  f.task = g.task /\ (f.pc \in ControlPC <=> g.pc \in ControlPC)

SoleControl ==
  \A t1, t2 \in Threads :
    \A i \in 1 .. Len(stack[t1]), j \in 1 .. Len(stack[t2]) :
      Rivals(stack[t1][i], stack[t2][j]) => t1 = t2 /\ i = j
-----------------------------------------------------------------------------
(* What holds of a frame.                                                  *)

\* How far its task has come, and what it is going to do.
ControlFits(f) ==
  /\ f.pc \in ControlPC \cup {"wrapperOnCompleted"}
  /\ f.pc \in RunningPC => body[f.task] = "running"
  /\ f.pc \in WaitingPC => body[f.task] = "suspended"
  /\ f.pc \in EndingPC  => body[f.task] = "ended"
  /\ f.pc = "setResult" => /\ body[f.task] \in {"running", "ended"}
                           /\ f.task \in Tasks => state[f.task] = "Running"
  /\ f.pc = "publish" => state[f.task] = "Running"
  /\ f.pc \in {"clear", "notify"} => state[f.task] \in Terminal
  /\ f.pc = "setException" => f.arg # "RustCancellationException"
  /\ f.pc = "register" => awaitingTask[f.task] = f.arg
  /\ f.pc \in StartPC \cup AwaitingPC /\ f.arg \in Tasks => ~onCompleted[f.arg]
  /\ f.pc \in AwaitingPC /\ f.arg \in Tasks => body[f.arg] # "fresh"
  /\ f.pc \in {"leafCheck", "wrap"} =>
       callback[f.task] = "none" /\ todo[f.task] = {}

\* A body awaits every task it has started before it does anything else.
AwaitedFits(f) ==
  f.pc \in ControlPC =>
    \A t \in Tasks : Awaiter(t) = f.task /\ state[t] = "Running" =>
      f.pc \in AwaitingPC /\ f.arg = t

\* The client ends only after it started Root.
ClientFits(f) ==
  f.task = Client =>
    \/ f.pc \in StartPC
    \/ f.pc = "body" /\ Root \in todo[Client]
    \/ state[Root] # "Created"

\* The continuation a frame is going to call, if one is registered, is that of
\* a body which nothing else resumes.
WakeFits(f) ==
  /\ f.pc \in ControlPC /\ f.task \in Tasks /\ onCompleted[f.task] =>
       Parked(Awaiter(f.task), f.task)
  /\ f.pc = "wrapperOnCompleted" =>
       /\ callback[f.task] = "fired"
       /\ continuation[f.task] => Parked(f.task, Wrapper)

Fits(f) == ControlFits(f) /\ AwaitedFits(f) /\ ClientFits(f) /\ WakeFits(f)

EveryFrameFits ==
  \A th \in Threads : \A i \in 1 .. Len(stack[th]) : Fits(stack[th][i])
-----------------------------------------------------------------------------
(* What holds of a body, its task and its wrapper.                         *)

\* The State of a task tells how far its body has come.
StateFits(b) ==
  b \in Tasks =>
    /\ state[b] # "Cancelled"
    /\ body[b] = "fresh" => state[b] = "Created"
    /\ body[b] \in {"running", "suspended"} => state[b] = "Running"
    /\ body[b] = "ended" => state[b] # "Created"

\* Whoever started a running task is still there for it.
RunningAreAwaited(b) ==
  \A t \in Tasks : Awaiter(t) = b /\ state[t] = "Running" =>
    \/ body[b] = "running"
    \/ body[b] = "suspended" /\ awaitingTask[b] = t

\* A continuation registered before the end is that of a body which waits for
\* this end.
ContinuationFits(b) ==
  /\ b \in Tasks /\ onCompleted[b] /\ body[b] # "ended" => Parked(Awaiter(b), b)
  /\ b \in Leaves /\ continuation[b] /\ callback[b] # "fired" => Parked(b, Wrapper)

\* A body that waits has registered its continuation (though maybe too late).
WaitingIsRegistered(b) ==
  body[b] = "suspended" /\ FreeOfControl(b) =>
    /\ awaitingTask[b] \in Tasks => onCompleted[awaitingTask[b]]
    /\ awaitingTask[b] = Wrapper => continuation[b]

\* What is still to be awaited has no continuation yet.
UnawaitedIsUnregistered(b) ==
  /\ \A t \in Tasks : Awaiter(t) = b /\ t \in todo[b] => ~onCompleted[t]
  /\ b \in Leaves /\ todo[b] # {} => callback[b] = "none"

\* The client awaits Root before it ends.
ClientStartsRoot(b) ==
  b = Client => /\ body[b] = "fresh" => Root \in todo[Client]
                /\ body[b] \in {"suspended", "ended"} => state[Root] # "Created"

BodyFits(b) ==
  /\ StateFits(b) /\ RunningAreAwaited(b) /\ ContinuationFits(b)
  /\ WaitingIsRegistered(b) /\ UnawaitedIsUnregistered(b)
  /\ ClientStartsRoot(b)

EveryBodyFits == \A b \in Bodies : BodyFits(b)

\* Nothing is cancelled, and no check of the runtime has failed.
Undisturbed ==
  /\ \A l \in Leaves : ~cts[l]
  /\ \A th \in Threads : ~raised[th]
  /\ escaped = {} /\ reentered = {}

Control == SoleControl /\ EveryFrameFits /\ EveryBodyFits /\ Undisturbed

\* Until somebody calls Cancel, control of every body is in one place.
ControlInv == cancelCalls = {} => Control
=============================================================================
