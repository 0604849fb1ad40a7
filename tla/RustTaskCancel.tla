-------------------------- MODULE RustTaskCancel ---------------------------
(***************************************************************************)
(* One thread and a Cancel of Root, as the tests of the runtime drive it.  *)
(* Before the Cancel nothing happens between a check and what it is made   *)
(* for, so every body that waits is going to be resumed (BeforeCancel).    *)
(* The Cancel goes down the chain of awaited tasks, the leaf's body ends   *)
(* in the cancellation, and each Cancel on the way back ends the body that *)
(* waits for its task (SinceCancel).                                       *)
(***************************************************************************)
EXTENDS RustTaskControl

\* One thread, and nobody cancels but the one who awaits Root, after the start.
OneThread ==
  /\ \E th : Threads = {th}
  /\ Cancellable \subseteq {Root}
  /\ CancelCreated = FALSE

\* What th executes: a frame of b that stands at one of pcs.
Runs(th, pcs, b) ==
  stack[th] # <<>> /\ Top(th).pc \in pcs /\ Top(th).task = b
-----------------------------------------------------------------------------
(* Before the Cancel.                                                      *)

\* Methods that have called another one wait for the task they started.
CallersAreStarters(th) ==
  \A i \in 1 .. Len(stack[th]) - 1 :
    stack[th][i].pc = "isCompleted" /\ stack[th][i].arg \in Tasks

\* A body that has begun and not ended is on the stack or suspended.
BusyIsRun(th) ==
  \A b \in Bodies : body[b] = "running" =>
    \E i \in 1 .. Len(stack[th]) : stack[th][i].task = b /\ stack[th][i].pc \in ControlPC

\* Its end is published.
EndIsPublished(th) ==
  \A t \in Tasks : body[t] = "ended" /\ state[t] = "Running" =>
    Runs(th, {"setResult", "publish"}, t)

\* What b waits for has still to happen, or is happening.
WillWake(th, b) ==
  IF awaitingTask[b] = Wrapper
    THEN \/ underlying[b] = "pending" /\ callback[b] = "registered"
         \/ callback[b] = "queued"
         \/ Runs(th, {"wrapperOnCompleted"}, b)
    ELSE \/ state[awaitingTask[b]] = "Running"
         \/ Runs(th, {"clear", "notify"}, awaitingTask[b])

WaitingIsWoken(th) ==
  \A b \in Bodies : body[b] = "suspended" => Runs(th, WaitingPC, b) \/ WillWake(th, b)

\* Nothing has happened since the body found what it awaits not completed.
AwaitsPending(th) ==
  stack[th] # <<>> =>
    LET f == Top(th) IN
    /\ f.pc \in AwaitingPC /\ f.arg = Wrapper =>
         underlying[f.task] = "pending" /\ callback[f.task] = "registered"
    /\ f.pc \in {"awaitOnCompleted", "register"} /\ f.arg # Wrapper =>
         state[f.arg] = "Running"

MachineIsCleared(th) ==
  \A t \in Tasks : state[t] \in Terminal /\ stateMachine[t] => Runs(th, {"clear"}, t)

\* A leaf's body ends after its .NET Task, and is resumed by it once.
LeafEndsAfter(th, l) ==
  /\ todo[l] # {} => underlying[l] = "none"
  /\ body[l] \in {"fresh", "ended"} => underlying[l] # "pending"
  /\ Runs(th, {"wrap"}, l) => underlying[l] = "pending"
  /\ Runs(th, {"body", "setResult", "setException"}, l) => underlying[l] # "pending"
  /\ continuation[l] => body[l] = "suspended" /\ ~Runs(th, {"resume"}, l)

BeforeCancel(th) ==
  /\ CallersAreStarters(th) /\ BusyIsRun(th) /\ EndIsPublished(th)
  /\ WaitingIsWoken(th)
  /\ AwaitsPending(th) /\ MachineIsCleared(th)
  /\ \A l \in Leaves : LeafEndsAfter(th, l)
-----------------------------------------------------------------------------
(* During the Cancel, and after it.                                        *)

\* Frames of the Cancel of a task, and of the body that a Cancel resumes.
CancelPC == {"cancel", "cancelMachine", "cancelSet", "cancelInner",
             "cancelCheck", "cancelNotify"}
WokenPC  == {"wrapperOnCompleted", "wrapperTake", "resume", "getResult", "setException"}

ChainPC  == CancelPC \cup WokenPC \cup {"wrapperCancel"}

\* Who calls whom: a Cancel that of the awaited task, or the body it resumes.
Calls(f, g) ==
  \/ /\ f.pc = "cancelCheck" /\ g.pc \in CancelPC
     /\ g.task # Root /\ Awaiter(g.task) = f.task
     /\ awaitingTask[f.task] = g.task /\ body[f.task] = "suspended"
  \/ /\ f.pc = "cancelCheck" /\ g.pc \in WokenPC \cup {"wrapperCancel"}
     /\ g.task = f.task
  \/ /\ f.pc = "wrapperOnCompleted" /\ g.pc \in WokenPC
     /\ g.task = f.task

\* The outermost: Cancel of Root, the client that it resumes, or the end of a
\* .NET Task that nobody waits for any more.
Outermost(f) ==
  \/ /\ f.pc \in CancelPC /\ f.task = Root
     /\ f.pc # "cancel" => body[Client] = "suspended" /\ awaitingTask[Client] = Root
  \/ f.pc \in WokenPC \ {"wrapperOnCompleted"} /\ f.task = Client
  \/ f.pc = "wrapperOnCompleted" /\ ~continuation[f.task] /\ body[Client] # "suspended"

CancelChain(th) ==
  /\ \A i \in 1 .. Len(stack[th]) : stack[th][i].pc \in ChainPC
  /\ \A i \in 1 .. Len(stack[th]) - 1 : Calls(stack[th][i], stack[th][i + 1])
  /\ stack[th] # <<>> => Outermost(stack[th][1])
  /\ \A i, j \in 1 .. Len(stack[th]) :
       stack[th][i].pc \in CancelPC /\ stack[th][j].pc \in CancelPC
         /\ stack[th][i].task = stack[th][j].task => i = j

\* The body of b waits, for a task that runs or for its .NET Task.
Waits(b) ==
  /\ body[b] = "suspended"
  /\ IF awaitingTask[b] = Wrapper THEN continuation[b] /\ ~cts[b]
     ELSE state[awaitingTask[b]] = "Running"

\* What made b's body go on was the cancellation.
SeesCancel(b, u) ==
  IF u = Wrapper THEN cts[b] /\ ~continuation[b] ELSE state[u] = "Cancelled"

Gone(t) == body[t] = "ended" /\ ~stateMachine[t]

\* What holds of the running frame.
TopCancels(f) ==
  /\ f.pc = "cancel" /\ state[f.task] # "Running" => f.task = Root /\ state[Root] \in Terminal
  /\ f.pc \in {"cancelMachine", "cancelSet"} => state[f.task] = "Running"
  /\ f.pc = "cancelInner" => Waits(f.task)
  /\ f.pc \in {"cancelCheck", "cancelNotify"} => Gone(f.task)
  /\ f.pc = "wrapperCancel" => Waits(f.task) /\ awaitingTask[f.task] = Wrapper
  /\ f.pc = "wrapperOnCompleted" /\ body[f.task] = "suspended" => continuation[f.task]
  /\ f.pc = "wrapperTake" => continuation[f.task]
  /\ f.pc = "resume" => body[f.task] = "suspended" /\ SeesCancel(f.task, awaitingTask[f.task])
  /\ f.pc = "getResult" => body[f.task] = "running" /\ SeesCancel(f.task, f.arg)
  /\ f.pc = "setException" => /\ body[f.task] = "running"
                              /\ f.arg = "RustCancellationException"
                              /\ f.task \in Leaves => SeesCancel(f.task, Wrapper)

\* What holds of every frame.
FrameCancels(f) ==
  /\ f.pc \in {"cancelInner", "cancelCheck", "cancelNotify"} =>
       state[f.task] = "Cancelled" /\ onCompleted[f.task]
  /\ f.pc = "wrapperOnCompleted" /\ continuation[f.task] => cts[f.task]
  /\ f.pc = "wrapperTake" => cts[f.task]

\* The Cancel of b has set its State, and waits for its body to end.
Cancelling(th, b) ==
  \E i \in 1 .. Len(stack[th]) :
    stack[th][i].task = b /\ stack[th][i].pc \in {"cancelInner", "cancelCheck"}

\* What holds of a task: it runs while its body waits and is awaited, and a
\* cancelled one ends under its Cancel, which came from its awaiter.
TaskCancels(th, t) ==
  /\ body[t] = "fresh" <=> state[t] = "Created"
  /\ body[t] = "ended" => Gone(t) /\ state[t] \in Terminal
  /\ body[t] \in {"running", "suspended"} => state[t] \in {"Running", "Cancelled"}
  /\ state[t] = "Running" =>
       /\ Waits(t) /\ onCompleted[t]
       /\ body[Awaiter(t)] = "suspended" /\ awaitingTask[Awaiter(t)] = t
  /\ body[t] = "suspended" /\ state[t] = "Cancelled" => Cancelling(th, t)
  /\ state[t] = "Cancelled" => t = Root \/ state[Awaiter(t)] = "Cancelled"

LeafCancels(l) ==
  /\ underlying[l] = "pending" => cts[l] \/ body[l] = "suspended"
  /\ continuation[l] => body[l] = "suspended" /\ awaitingTask[l] = Wrapper

\* The client has started Root, and waits for it as long as the Cancel has not resumed it.
ClientCancels(th) ==
  /\ body[Client] # "fresh" /\ state[Root] # "Created"
  /\ body[Client] = "suspended" =>
       stack[th] # <<>> /\ (stack[th][1].pc = "cancel" => state[Root] = "Running")

EveryBodyCancels(th) ==
  /\ \A b \in Bodies : body[b] = "running" => Runs(th, {"getResult", "setException"}, b)
  /\ \A t \in Tasks : TaskCancels(th, t)
  /\ \A l \in Leaves : LeafCancels(l)
  /\ ClientCancels(th)

EveryFrameCancels(th) ==
  /\ stack[th] # <<>> => TopCancels(Top(th))
  /\ \A i \in 1 .. Len(stack[th]) : FrameCancels(stack[th][i])

SinceCancel(th) ==
  /\ CancelChain(th) /\ EveryFrameCancels(th) /\ EveryBodyCancels(th)
  /\ ~raised[th] /\ escaped = {} /\ reentered = {}

\* The inductive invariant of a process with one thread.
SingleInv ==
  \A th \in Threads : IF cancelCalls = {} THEN BeforeCancel(th) ELSE SinceCancel(th)
=============================================================================
