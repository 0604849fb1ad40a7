----------------------- MODULE RustTaskFuture_proofs ------------------------
(***************************************************************************)
(* What follows from ControlInv: the properties of the run pool, for any   *)
(* set of threads and any tree of tasks, until somebody calls Cancel; and  *)
(* that Root and its client then keep what the abstract future promises.   *)
(***************************************************************************)
EXTENDS RustTaskControl_proofs

\* The invariants together.
RuntimeInv == TypeOK /\ MachineInv /\ ControlInv

LEMMA RuntimeIsSafe == Spec => []RuntimeInv
BY TypeInit, TypeStep, MachineInit, MachineStep, ControlInit, ControlStep, PTL
   DEF Spec, RuntimeInv

\* MoveNext is called on suspended bodies only, whatever threads complete the
\* awaited tasks: no continuation runs twice, and none while its body runs.
THEOREM NoReentryUntilCancel == Spec => [](cancelCalls = {} => NoReentry)
<1>1. RuntimeInv => (cancelCalls = {} => NoReentry)
  BY DEF RuntimeInv, ControlInv, Control, Undisturbed, NoReentry
<1> QED BY <1>1, RuntimeIsSafe, PTL

\* No check of Task.cs against impossible states fails, so no exception leaves
\* the runtime, on a thread of the pool or to whoever called it.
THEOREM NoEscapeUntilCancel == Spec => [](cancelCalls = {} => NoEscape)
<1>1. RuntimeInv => (cancelCalls = {} => NoEscape)
  BY DEF RuntimeInv, ControlInv, Control, Undisturbed, NoEscape
<1> QED BY <1>1, RuntimeIsSafe, PTL

\* A task does not outlive the task that awaits it.
THEOREM AwaitedEndsFirstUntilCancel == Spec => [](cancelCalls = {} => AwaitedEndsFirst)
<1>1. RuntimeInv => (cancelCalls = {} => AwaitedEndsFirst)
  <2> SUFFICES ASSUME RuntimeInv, cancelCalls = {},
                      NEW t \in Tasks \ {Root}, state[t] = "Running"
               PROVE  state[Awaiter(t)] = "Running"
    BY DEF AwaitedEndsFirst
  <2>1. Awaiter(t) \in Tasks /\ Awaiter(t) \in Bodies
    BY TreeAssumption DEF Awaiter, Bodies
  <2>2. BodyFits(Awaiter(t))
    BY <2>1 DEF RuntimeInv, ControlInv, Control, EveryBodyFits
  <2>3. body[Awaiter(t)] \in {"running", "suspended"}
    BY <2>2 DEF BodyFits, RunningAreAwaited
  <2> QED BY <2>1, <2>2, <2>3 DEF BodyFits, StateFits
<1> QED BY <1>1, RuntimeIsSafe, PTL
-----------------------------------------------------------------------------
(***************************************************************************)
(* What a step does to the State of a task and to the client.              *)
(***************************************************************************)
StateGoesOn(t) ==
  \/ state'[t] = state[t]
  \/ state[t] = "Created" /\ state'[t] = "Running"
  \/ state[t] = "Running" /\ state'[t] \in Terminal

LEMMA StateStep ==
  ASSUME TypeOK, MachineInv, Control, NEW th \in Threads, Step(th), NEW t \in Tasks
  PROVE  /\ StateGoesOn(t)
         /\ state'[t] # state[t] /\ state[t] = "Created" =>
              Top(th).task = Awaiter(t) /\ body[Awaiter(t)] = "running"
<1> USE DEF StateGoesOn
<1>1. CASE RunTask(th)
  <2>1. stack[th] # <<>> /\ Top(th).pc = "runTask"
    BY <1>1 DEF RunTask, At
  <2>2. PICK b \in Bodies, u \in Tasks :
          /\ b = Top(th).task /\ u = Top(th).arg /\ u \in Awaitable(b)
          /\ Fits(Top(th)) /\ body[u] = "fresh"
    BY <2>1, TopFits, FrameTypes, RunningFrame DEF FrameFits, Top, StartPC
  <2>3. Awaiter(u) = b /\ u \in Bodies
    BY <2>2, AwaitableTypes DEF Bodies
  <2>4. state[u] = "Created" /\ body[b] = "running"
    BY <2>1, <2>2, <2>3
       DEF Control, EveryBodyFits, BodyFits, StateFits, Fits, ControlFits, RunningPC, StartPC
  <2>5. state' = [state EXCEPT ![u] = "Running"]
    BY <1>1, <2>2 DEF RunTask
  <2> QED BY <2>2, <2>3, <2>4, <2>5 DEF TypeOK
<1>2. CASE Publish(th)
  <2>1. stack[th] # <<>> /\ Top(th).pc = "publish"
    BY <1>2 DEF Publish, At
  <2>2. PICK u \in Tasks, v \in {"CompletedSuccessfully", "Failed"} :
          u = Top(th).task /\ v = Top(th).arg /\ Fits(Top(th))
    BY <2>1, TopFits, FrameTypes
  <2>3. state[u] = "Running"
    BY <2>1, <2>2 DEF Fits, ControlFits
  <2>4. state' = [state EXCEPT ![u] = v]
    BY <1>2, <2>2 DEF Publish
  <2> QED BY <2>2, <2>3, <2>4 DEF TypeOK, Terminal
<1>3. CASE ~RunTask(th) /\ ~Publish(th)
  <2>1. UNCHANGED state
    BY <1>3, NothingUnwinds
       DEF Step, BodyAwaits, BodyReturns, BodyThrows, LeafCallsAction, LeafChecks,
       WrapperCreated, GetAwaiter, IsCompleted, AwaitOnCompleted, StartTask,
       Register, Resume, GetResult, ClientEnds, SetResult, SetException,
       ClearStateMachine, RunCallOnCompleted, WrapperOnCompleted, WrapperTakes, taskVars
  <2> QED BY <2>1
<1> QED BY <1>1, <1>2, <1>3

LEMMA EntryState ==
  ASSUME NEW th \in Threads,
         \/ External(th) \/ ClientStart(th) \/ \E t \in Cancellable : ClientCancel(th, t)
  PROVE  UNCHANGED state
BY DEF External, UnderlyingCompletes, RunQueuedCallback, ClientStart, ClientCancel, taskVars

\* A task that has ended stays as it ended, until Cancel is called ...
LEMMA FinalStep ==
  ASSUME RuntimeInv, cancelCalls = {}, [Next]_vars, NEW t \in Tasks, state[t] \in Terminal
  PROVE  state'[t] = state[t]
<1>1. CASE UNCHANGED vars
  BY <1>1 DEF vars, taskVars
<1>2. CASE Next
  <2>1. Control
    BY DEF RuntimeInv, ControlInv
  <2>2. ASSUME NEW th \in Threads, Step(th) PROVE state'[t] = state[t]
    BY <2>1, <2>2, StateStep DEF RuntimeInv, StateGoesOn, Terminal
  <2> QED BY <1>2, <2>2, EntryState DEF Next
<1> QED BY <1>1, <1>2

\* ... so it does in every program that never calls it.
THEOREM TerminalIsFinalWithoutCancel ==
  ASSUME Cancellable = {}
  PROVE  Spec => TerminalIsFinal
<1>1. RuntimeInv /\ [Next]_vars =>
        [\A t \in Tasks : state[t] \in Terminal => state'[t] = state[t]]_vars
  <2>1. RuntimeInv => cancelCalls = {}
    BY DEF RuntimeInv, TypeOK
  <2> QED BY <2>1, FinalStep
<1> QED BY <1>1, RuntimeIsSafe, PTL DEF Spec, TerminalIsFinal
-----------------------------------------------------------------------------
(***************************************************************************)
(* The abstract future.                                                    *)
(***************************************************************************)
ClientGoesOn ==
  \/ body'[Client] = body[Client]
  \/ body[Client] \in {"running", "suspended"} /\ body'[Client] \in {"running", "suspended"}
  \/ /\ body[Client] \in {"running", "suspended"} /\ body'[Client] = "ended"
     /\ state[Root] \in Terminal

LEMMA ClientStep ==
  ASSUME TypeOK, Control, NEW th \in Threads, Step(th)
  PROVE  /\ ClientGoesOn
         /\ body'[Client] # body[Client] => Top(th).task = Client /\ UNCHANGED state
<1> USE DEF ClientGoesOn
<1>1. /\ Client \in Bodies /\ Client \notin Tasks /\ Root \in Tasks /\ Awaiter(Root) = Client
  BY NamesAssumption, TreeAssumption DEF Bodies, Awaiter
<1>2. stack[th] # <<>> => Top(th) \in Frames /\ Fits(Top(th))
  BY TopFits
<1>3. CASE RunTask(th)
  <2>1. Top(th).arg \in Tasks
    BY <1>2, <1>3, FrameTypes DEF RunTask, At, StartPC
  <2>2. body'[Client] = body[Client]
    BY <1>1, <1>3, <2>1 DEF RunTask, TypeOK
  <2> QED BY <2>2
<1>4. CASE SetResult(th) \/ SetException(th)
  <2>1. Top(th).task \in Tasks /\ body' = [body EXCEPT ![Top(th).task] = "ended"]
    BY <1>4 DEF SetResult, SetException
  <2>2. body'[Client] = body[Client]
    BY <1>1, <2>1 DEF TypeOK
  <2> QED BY <2>2
<1>5. CASE AwaitOnCompleted(th) \/ Resume(th)
  <2>1. PICK v \in {"running", "suspended"} :
          UNCHANGED body \/ body' = [body EXCEPT ![Top(th).task] = v]
    BY <1>5 DEF AwaitOnCompleted, Resume
  <2>2. body[Top(th).task] \in {"running", "suspended"} /\ Top(th).task \in Bodies
    BY <1>2, <1>5, FrameTypes
       DEF AwaitOnCompleted, Resume, At, Fits, ControlFits, RunningPC, WaitingPC
  <2>3. UNCHANGED state
    BY <1>5 DEF AwaitOnCompleted, Resume, taskVars
  <2> QED BY <1>1, <2>1, <2>2, <2>3 DEF TypeOK
<1>6. CASE ClientEnds(th)
  <2>1. /\ stack[th] # <<>> /\ Top(th).pc \in {"setResult", "setException"}
        /\ Top(th).task = Client
        /\ body' = [body EXCEPT ![Client] = "ended"] /\ UNCHANGED state
    BY <1>6 DEF ClientEnds, At, taskVars
  <2>2. state[Root] # "Created" /\ state[Root] # "Running"
    BY <1>1, <1>2, <2>1
       DEF Fits, ClientFits, AwaitedFits, AwaitingPC, ControlPC, RunningPC, StartPC
  <2>3. body[Client] \in {"running", "ended"}
    BY <1>1, <1>2, <2>1 DEF Fits, ControlFits, RunningPC
  <2>4. state[Root] \in Terminal
    BY <1>1, <2>2 DEF TypeOK, TaskState
  <2> QED BY <1>1, <2>1, <2>3, <2>4 DEF TypeOK
<1>7. CASE ~RunTask(th) /\ ~SetResult(th) /\ ~SetException(th) /\ ~AwaitOnCompleted(th)
           /\ ~Resume(th) /\ ~ClientEnds(th)
  <2>1. UNCHANGED body
    BY <1>7, NothingUnwinds
       DEF Step, BodyAwaits, BodyReturns, BodyThrows, LeafCallsAction, LeafChecks,
       WrapperCreated, GetAwaiter, IsCompleted, StartTask, Register, GetResult, Publish,
       ClearStateMachine, RunCallOnCompleted, WrapperOnCompleted, WrapperTakes, bodyVars
  <2> QED BY <2>1
<1> QED BY <1>3, <1>4, <1>5, <1>6, <1>7

LEMMA FutureInit == Init => AbstractFuture!Init
BY TreeAssumption DEF Init, AbstractFuture!Init, Bodies

\* Every step of the runtime is one of the future's, or none that it sees.
LEMMA FutureStep ==
  RuntimeInv /\ cancelCalls = {} /\ [Next]_vars => [AbstractFuture!Next]_(AbstractFuture!vars)
<1> SUFFICES ASSUME RuntimeInv, cancelCalls = {}, [Next]_vars
             PROVE  [AbstractFuture!Next]_(AbstractFuture!vars)
  OBVIOUS
<1> USE DEF AbstractFuture!Next, AbstractFuture!vars, AbstractFuture!Await,
        AbstractFuture!Start, AbstractFuture!Settle, AbstractFuture!Wake,
        AbstractFuture!Settled
<1>1. /\ TypeOK /\ MachineInv /\ Control
      /\ Root \in Tasks /\ Client \in Bodies /\ Awaiter(Root) = Client /\ Client \notin Tasks
  BY TreeAssumption, NamesAssumption DEF RuntimeInv, ControlInv, Bodies, Awaiter
<1>2. CASE UNCHANGED vars
  BY <1>2 DEF vars, taskVars, bodyVars
<1>3. ASSUME NEW th \in Threads, Step(th) PROVE [AbstractFuture!Next]_(AbstractFuture!vars)
  <2>1. /\ StateGoesOn(Root) /\ ClientGoesOn
        /\ state'[Root] # state[Root] /\ state[Root] = "Created" => body[Client] = "running"
        /\ body'[Client] # body[Client] => UNCHANGED state
    BY <1>1, <1>3, StateStep, ClientStep
  <2> QED BY <2>1 DEF StateGoesOn, ClientGoesOn, Terminal
<1>4. ASSUME NEW th \in Threads, ClientStart(th) PROVE [AbstractFuture!Next]_(AbstractFuture!vars)
  <2>1. body[Client] = "fresh" /\ body'[Client] = "running"
    BY <1>1, <1>4 DEF ClientStart, TypeOK
  <2> QED BY <1>4, <2>1, EntryState
<1>5. ASSUME NEW th \in Threads,
             External(th) \/ \E t \in Cancellable : ClientCancel(th, t)
      PROVE  [AbstractFuture!Next]_(AbstractFuture!vars)
  <2>1. UNCHANGED <<state, body>>
    BY <1>5 DEF External, UnderlyingCompletes, RunQueuedCallback, ClientCancel,
       taskVars, bodyVars
  <2> QED BY <2>1
<1> QED BY <1>2, <1>3, <1>4, <1>5 DEF Next

\* Where Cancel is never called, Root and its client implement the safety half
\* of the abstract future, on any number of threads: Root is not started before
\* the client awaits it, settles once, and the client goes on only after.
THEOREM FutureIsKept ==
  ASSUME Cancellable = {}
  PROVE  Spec => NeverMisleads
<1>1. RuntimeInv => cancelCalls = {}
  BY DEF RuntimeInv, TypeOK
<1>2. RuntimeInv /\ [Next]_vars => [AbstractFuture!Next]_(AbstractFuture!vars)
  BY <1>1, FutureStep
<1> QED BY <1>2, FutureInit, RuntimeIsSafe, PTL
        DEF Spec, NeverMisleads, AbstractFuture!Safety
=============================================================================
