----------------------- MODULE RustTaskCancel_proofs -----------------------
(***************************************************************************)
(* On one thread, with a Cancel of Root at any time after its start: for   *)
(* any tree of tasks every completion resumes its awaiter, the Cancel      *)
(* reaches every task and token below Root, and no check of Task.cs fails. *)
(***************************************************************************)
EXTENDS RustTaskCancel, RustTaskFuture_proofs

(***************************************************************************)
(* The stack of the one thread after a step.                               *)
(***************************************************************************)
LEMMA ShapeOf ==
  ASSUME StackOK, NEW th \in Threads, stack[th] # <<>>
  PROVE  /\ stack[th] \in Seq(Frames) /\ Len(stack[th]) \in Nat \ {0}
         /\ Below(th) \in Seq(Frames) /\ Len(Below(th)) = Len(stack[th]) - 1
         /\ \A i \in 1 .. Len(stack[th]) - 1 : Below(th)[i] = stack[th][i]
<1> DEFINE s == stack[th]
<1>1. s \in Seq(Frames) /\ s # <<>>
  BY DEF StackOK
<1>2. /\ Len(s) \in Nat \ {0}
      /\ SubSeq(s, 1, Len(s) - 1) \in Seq(Frames) /\ Len(SubSeq(s, 1, Len(s) - 1)) = Len(s) - 1
      /\ \A i \in 1 .. Len(s) - 1 : SubSeq(s, 1, Len(s) - 1)[i] = s[i]
  <2> HIDE DEF s
  <2> QED BY <1>1, BelowSeq
<1> QED BY <1>1, <1>2 DEF Below

LEMMA GotoShape ==
  ASSUME StackOK, NEW th \in Threads, stack[th] # <<>>, NEW f \in Frames, Goto(th, f)
  PROVE  /\ stack'[th] # <<>> /\ Len(stack'[th]) = Len(stack[th])
         /\ Top(th)' = f /\ stack'[th][Len(stack[th])] = f
         /\ \A i \in 1 .. Len(stack[th]) - 1 : stack'[th][i] = stack[th][i]
<1>1. PICK b \in Seq(Frames) :
        /\ b = Below(th) /\ Len(b) = Len(stack[th]) - 1 /\ Len(stack[th]) \in Nat \ {0}
        /\ \A i \in 1 .. Len(stack[th]) - 1 : b[i] = stack[th][i]
  BY ShapeOf
<1>2. stack'[th] = Append(b, f)
  BY <1>1 DEF Goto, StackOK
<1>3. /\ Append(b, f) # <<>> /\ Len(Append(b, f)) = Len(b) + 1
      /\ \A i \in 1 .. Len(b) : Append(b, f)[i] = b[i]
      /\ Append(b, f)[Len(b) + 1] = f
  BY AppendProperties
<1> QED BY <1>1, <1>2, <1>3 DEF Top

LEMMA ReturnShape ==
  ASSUME StackOK, NEW th \in Threads, stack[th] # <<>>, Return(th)
  PROVE  /\ Len(stack'[th]) = Len(stack[th]) - 1
         /\ stack'[th] = <<>> <=> Len(stack[th]) = 1
         /\ \A i \in 1 .. Len(stack[th]) - 1 : stack'[th][i] = stack[th][i]
         /\ stack'[th] # <<>> => /\ Len(stack[th]) - 1 \in 1 .. Len(stack[th]) - 1
                                 /\ Top(th)' = stack[th][Len(stack[th]) - 1]
<1>1. PICK b \in Seq(Frames) :
        /\ b = Below(th) /\ Len(b) = Len(stack[th]) - 1 /\ Len(stack[th]) \in Nat \ {0}
        /\ \A i \in 1 .. Len(stack[th]) - 1 : b[i] = stack[th][i]
  BY ShapeOf
<1>2. stack'[th] = b
  BY <1>1 DEF Return, StackOK
<1>3. b = <<>> <=> Len(b) = 0
  BY EmptySeq
<1> QED BY <1>1, <1>2, <1>3 DEF Top

LEMMA CallShape ==
  ASSUME StackOK, NEW th \in Threads, stack[th] # <<>>,
         NEW f \in Frames, NEW g \in Frames, Call(th, f, g)
  PROVE  /\ stack'[th] # <<>> /\ Len(stack'[th]) = Len(stack[th]) + 1
         /\ Top(th)' = g /\ stack'[th][Len(stack[th]) + 1] = g
         /\ stack'[th][Len(stack[th])] = f
         /\ \A i \in 1 .. Len(stack[th]) - 1 : stack'[th][i] = stack[th][i]
<1>1. PICK b \in Seq(Frames) :
        /\ b = Below(th) /\ Len(b) = Len(stack[th]) - 1 /\ Len(stack[th]) \in Nat \ {0}
        /\ \A i \in 1 .. Len(stack[th]) - 1 : b[i] = stack[th][i]
  BY ShapeOf
<1>5. /\ Append(b, f) \in Seq(Frames) /\ Len(Append(b, f)) = Len(b) + 1
      /\ Append(b, f)[Len(b) + 1] = f
      /\ \A i \in 1 .. Len(b) : Append(b, f)[i] = b[i]
  BY AppendProperties
<1>2. PICK c \in Seq(Frames) :
        /\ c = Append(b, f) /\ Len(c) = Len(b) + 1 /\ c[Len(b) + 1] = f
        /\ \A i \in 1 .. Len(b) : c[i] = b[i]
  BY <1>5
<1>3. stack'[th] = Append(c, g)
  BY <1>1, <1>2 DEF Call, StackOK
<1>4. /\ Append(c, g) # <<>> /\ Len(Append(c, g)) = Len(c) + 1
      /\ \A i \in 1 .. Len(c) : Append(c, g)[i] = c[i]
      /\ Append(c, g)[Len(c) + 1] = g
  BY AppendProperties
<1> QED BY <1>1, <1>2, <1>3, <1>4 DEF Top

LEMMA EnterShape ==
  ASSUME StackOK, NEW th \in Threads, NEW f \in Frames, NEW from, Enter(th, f, from)
  PROVE  /\ stack[th] = <<>> /\ stack'[th] # <<>> /\ Len(stack'[th]) = 1
         /\ Top(th)' = f /\ stack'[th][1] = f
<1>1. stack[th] = <<>> /\ stack'[th] = <<f>>
  BY DEF Enter, Idle, StackOK
<1>2. Len(<<f>>) = 1 /\ <<f>>[1] = f /\ <<f>> # <<>>
  OBVIOUS
<1> QED BY <1>1, <1>2 DEF Top
-----------------------------------------------------------------------------
(***************************************************************************)
(* Before the Cancel.                                                      *)
(***************************************************************************)

\* The running frame controls d.
Controls(th, d) == Top(th).task = d /\ Top(th).pc \in ControlPC

LEMMA BeforeGoto ==
  ASSUME StackOK, NEW th \in Threads, BeforeCancel(th), stack[th] # <<>>,
         NEW g \in Frames, Goto(th, g),
         \A d \in Bodies : body'[d] = "running" =>
           \/ g.task = d /\ g.pc \in ControlPC
           \/ body[d] = "running" /\ ~Controls(th, d)
  PROVE  /\ CallersAreStarters(th)' /\ BusyIsRun(th)'
         /\ stack'[th] # <<>> /\ Top(th)' = g
         /\ \A pcs, d : Runs(th, pcs, d) <=> Top(th).pc \in pcs /\ Top(th).task = d
         /\ \A pcs, d : Runs(th, pcs, d)' <=> g.pc \in pcs /\ g.task = d
<1> DEFINE n == Len(stack[th])
<1>1. /\ n \in Nat \ {0} /\ n \in 1 .. Len(stack'[th]) /\ Len(stack'[th]) = n
      /\ Top(th) = stack[th][n]
      /\ stack'[th] # <<>> /\ Top(th)' = g /\ stack'[th][n] = g
      /\ \A i \in 1 .. n - 1 : i \in 1 .. Len(stack'[th]) /\ stack'[th][i] = stack[th][i]
  BY ShapeOf, GotoShape DEF Top
<1> HIDE DEF n
<1>2. CallersAreStarters(th)'
  BY <1>1 DEF BeforeCancel, CallersAreStarters, n
<1>3. ASSUME NEW d \in Bodies, body'[d] = "running"
      PROVE  \E i \in 1 .. Len(stack'[th]) : stack'[th][i].task = d /\ stack'[th][i].pc \in ControlPC
  <2>1. CASE g.task = d /\ g.pc \in ControlPC
    BY <1>1, <2>1
  <2>2. CASE body[d] = "running" /\ ~Controls(th, d)
    <3>1. PICK i \in 1 .. n : stack[th][i].task = d /\ stack[th][i].pc \in ControlPC
      BY <2>2 DEF BeforeCancel, BusyIsRun, n
    <3>2. i \in 1 .. n - 1
      BY <1>1, <2>2, <3>1 DEF Controls
    <3> QED BY <1>1, <3>1, <3>2
  <2> QED BY <1>3, <2>1, <2>2
<1> QED BY <1>1, <1>2, <1>3 DEF BusyIsRun, Runs

LEMMA BeforeReturn ==
  ASSUME StackOK, NEW th \in Threads, BeforeCancel(th), stack[th] # <<>>, Return(th),
         \A d \in Bodies : body'[d] = "running" => body[d] = "running" /\ ~Controls(th, d)
  PROVE  /\ CallersAreStarters(th)' /\ BusyIsRun(th)'
         /\ stack'[th] # <<>> => Top(th)'.pc = "isCompleted" /\ Top(th)'.arg \in Tasks
         /\ \A pcs, d : Runs(th, pcs, d) <=> Top(th).pc \in pcs /\ Top(th).task = d
         /\ \A pcs, d : Runs(th, pcs, d)' => "isCompleted" \in pcs
<1> DEFINE n == Len(stack[th])
<1>1. /\ n \in Nat \ {0} /\ Len(stack'[th]) = n - 1
      /\ Top(th) = stack[th][n]
      /\ stack'[th] # <<>> => n - 1 \in 1 .. n - 1 /\ Top(th)' = stack[th][n - 1]
      /\ \A i \in 1 .. n - 1 : stack'[th][i] = stack[th][i]
  BY ShapeOf, ReturnShape DEF Top
<1> HIDE DEF n
<1>2. CallersAreStarters(th)'
  BY <1>1 DEF BeforeCancel, CallersAreStarters, n
<1>3. ASSUME NEW d \in Bodies, body'[d] = "running"
      PROVE  \E i \in 1 .. Len(stack'[th]) : stack'[th][i].task = d /\ stack'[th][i].pc \in ControlPC
  <2>1. PICK i \in 1 .. n : stack[th][i].task = d /\ stack[th][i].pc \in ControlPC
    BY <1>3 DEF BeforeCancel, BusyIsRun, n
  <2>2. i \in 1 .. n - 1
    BY <1>1, <1>3, <2>1 DEF Controls
  <2> QED BY <1>1, <2>1, <2>2
<1>4. stack'[th] # <<>> => Top(th)'.pc = "isCompleted" /\ Top(th)'.arg \in Tasks
  BY <1>1 DEF BeforeCancel, CallersAreStarters, n
<1> QED BY <1>1, <1>2, <1>3, <1>4 DEF BusyIsRun, Runs

LEMMA BeforeEnter ==
  ASSUME StackOK, NEW th \in Threads, BeforeCancel(th), NEW g \in Frames, NEW from, Enter(th, g, from),
         \A d \in Bodies : body'[d] = "running" =>
           body[d] = "running" \/ (g.task = d /\ g.pc \in ControlPC)
  PROVE  /\ CallersAreStarters(th)' /\ BusyIsRun(th)'
         /\ stack'[th] # <<>> /\ Top(th)' = g
         /\ \A pcs, d : ~Runs(th, pcs, d)
         /\ \A pcs, d : Runs(th, pcs, d)' <=> g.pc \in pcs /\ g.task = d
<1>1. /\ stack[th] = <<>> /\ stack'[th] # <<>> /\ Len(stack'[th]) = 1
      /\ Top(th)' = g /\ stack'[th][1] = g
      /\ 1 .. Len(stack[th]) = {}
  BY EnterShape, EmptySeq
<1> QED BY <1>1 DEF CallersAreStarters, BeforeCancel, BusyIsRun, Runs

\* On one thread a suspended body is controlled by the running frame only.
LEMMA SuspendedIsFree ==
  ASSUME TypeOK, Control, NEW th, Threads = {th}, BeforeCancel(th),
         NEW d \in Bodies, body[d] = "suspended", stack[th] # <<>> => ~Controls(th, d)
  PROVE  FreeOfControl(d)
<1> SUFFICES ASSUME NEW i \in 1 .. Len(stack[th]), stack[th][i].pc \in ControlPC, stack[th][i].task = d
             PROVE  FALSE
  BY DEF FreeOfControl
<1>1. stack[th] # <<>>
  BY EmptySeq
<1>2. Len(stack[th]) \in Nat \ {0} /\ Top(th) = stack[th][Len(stack[th])]
  BY <1>1, ShapeOf DEF TypeOK, StackOK, Top
<1>3. i \in 1 .. Len(stack[th]) - 1
  BY <1>1, <1>2 DEF Controls
<1>4. stack[th][i].pc = "isCompleted"
  BY <1>3 DEF BeforeCancel, CallersAreStarters
<1>5. ControlFits(stack[th][i])
  BY DEF Control, EveryFrameFits, Fits
<1> QED BY <1>4, <1>5 DEF ControlFits, RunningPC

\* What a body waits for.
LEMMA WaitingTypes ==
  ASSUME TypeOK, NEW d \in Bodies, body[d] = "suspended"
  PROVE  /\ awaitingTask[d] \in Awaitable(d)
         /\ awaitingTask[d] = Wrapper => d \in Leaves
         /\ awaitingTask[d] # Wrapper =>
              /\ awaitingTask[d] \in Tasks /\ Awaiter(awaitingTask[d]) = d
              /\ awaitingTask[d] # d
<1>1. awaitingTask[d] \in Awaitable(d)
  BY DEF TypeOK
<1>2. \A t \in Tasks : Awaiter(t) # t
  BY TreeAssumption, NamesAssumption DEF Awaiter
<1> QED BY <1>1, <1>2, AwaitableTypes, NamesAssumption DEF Bodies

\* A step of a running body that neither ends it nor waits.
LEMMA QuietGoto ==
  ASSUME TypeOK, Control, NEW th, Threads = {th}, BeforeCancel(th), stack[th] # <<>>,
         NEW b, b = Top(th).task, Top(th).pc \in RunningPC,
         NEW g \in Frames, Goto(th, g), g.task = b, g.pc \in RunningPC \cup {"setResult"},
         UNCHANGED <<state, stateMachine, awaitingTask, body, callback, continuation>>,
         \A l \in Leaves : l # b => underlying'[l] = underlying[l] /\ todo'[l] = todo[l],
         AwaitsPending(th)', b \in Leaves => LeafEndsAfter(th, b)'
  PROVE  BeforeCancel(th)'
<1> USE DEF ControlPC, RunningPC, WaitingPC, EndingPC, StartPC
<1>1. b \in Bodies /\ body[b] = "running"
  BY TopFits DEF Fits, ControlFits
<1>2. /\ CallersAreStarters(th)' /\ BusyIsRun(th)'
      /\ \A pcs, d : Runs(th, pcs, d) <=> Top(th).pc \in pcs /\ Top(th).task = d
      /\ \A pcs, d : Runs(th, pcs, d)' <=> g.pc \in pcs /\ g.task = d
  BY BeforeGoto DEF Controls, TypeOK, StackOK
<1>3. EndIsPublished(th)'
  BY <1>2 DEF EndIsPublished, BeforeCancel
<1>4. WaitingIsWoken(th)'
  <2> SUFFICES ASSUME NEW d \in Bodies, body[d] = "suspended" PROVE WillWake(th, d)'
    BY DEF WaitingIsWoken
  <2>1. WillWake(th, d) /\ d # b
    BY <1>1, <1>2 DEF BeforeCancel, WaitingIsWoken
  <2> QED BY <1>2, <2>1, WaitingTypes DEF WillWake
<1>5. MachineIsCleared(th)'
  BY <1>2 DEF MachineIsCleared, BeforeCancel
<1>6. ASSUME NEW l \in Leaves, l # b PROVE LeafEndsAfter(th, l)'
  BY <1>2, <1>6 DEF LeafEndsAfter, BeforeCancel
<1> QED BY <1>2, <1>3, <1>4, <1>5, <1>6 DEF BeforeCancel

LEMMA QuietSteps ==
  ASSUME TypeOK, MachineInv, Control, NEW th, Threads = {th}, BeforeCancel(th),
         \/ BodyAwaits(th) \/ BodyReturns(th) \/ BodyThrows(th)
         \/ LeafCallsAction(th) \/ LeafChecks(th) \/ GetAwaiter(th)
         \/ StartTask(th) \/ IsCompleted(th) \/ GetResult(th)
  PROVE  BeforeCancel(th)'
<1> USE DEF ControlPC, RunningPC, WaitingPC, EndingPC, StartPC, AwaitPC, AwaitingPC
<1>1. stack[th] # <<>> /\ StackOK
  BY DEF BodyAwaits, BodyReturns, BodyThrows, LeafCallsAction, LeafChecks, GetAwaiter,
     StartTask, IsCompleted, GetResult, At, TypeOK, StackOK
<1>2. PICK f \in Frames, b \in Bodies :
         /\ f = Top(th) /\ b = f.task /\ Fits(f) /\ BodyFits(b)
         /\ f.pc \in RunningPC => body[b] = "running"
  BY <1>1, TopFits DEF Fits, ControlFits
<1>3. /\ f.pc \in StartPC \cup AwaitPC => f.arg \in Awaitable(b)
      /\ f.pc \in StartPC => f.arg \in Tasks /\ f.arg # Wrapper
      /\ Awaitable(b) \subseteq Tasks \cup {Wrapper}
      /\ b \in Leaves => Awaitable(b) = {Wrapper}
      /\ Wrapper \in Awaitable(b) => b \in Leaves
      /\ todo[b] \subseteq Awaitable(b) /\ Wrapper \notin Tasks
      /\ Leaves \subseteq Tasks
  <2>1. b \in Leaves => Awaitable(b) = {Wrapper}
    BY DEF Awaitable
  <2>2. Wrapper \notin Tasks /\ Leaves \subseteq Tasks /\ todo[b] \subseteq Awaitable(b)
    BY TreeAssumption, NamesAssumption DEF TypeOK
  <2>3. /\ f.pc \in StartPC \cup AwaitPC => f.arg \in Awaitable(b)
        /\ f.pc \in StartPC => f.arg \in Tasks
    BY <1>2, FrameTypes
  <2> QED BY <2>1, <2>2, <2>3, AwaitableTypes
<1>4. \A pcs, d : Runs(th, pcs, d) <=> f.pc \in pcs /\ f.task = d
  BY <1>1, <1>2 DEF Runs
<1>5. ASSUME NEW g \in Frames, Goto(th, g)
      PROVE  /\ stack'[th] # <<>> /\ Top(th)' = g
             /\ \A pcs, d : Runs(th, pcs, d)' <=> g.pc \in pcs /\ g.task = d
  BY <1>1, <1>5, GotoShape DEF Runs
<1>6. ASSUME NEW u \in todo[b], b \notin Leaves, f.pc = "body",
             todo' = [todo EXCEPT ![b] = @ \ {u}], Goto(th, Frame("getAwaiter", b, u)),
             UNCHANGED <<taskVars, body, wrapperVars>>
      PROVE  BeforeCancel(th)'
  <2>1. PICK g \in Frames : g = Frame("getAwaiter", b, u)
    BY <1>3, <1>6, NewFrame
  <2>2. AwaitsPending(th)'
    BY <1>5, <1>6, <2>1 DEF AwaitsPending, Frame
  <2> QED BY <1>1, <1>2, <1>6, <2>1, <2>2, QuietGoto DEF Frame, taskVars, wrapperVars, TypeOK
<1>7. ASSUME NEW g \in Frames, Goto(th, g), g.task = b,
             \/ /\ f.pc \in {"body", "leafCheck"} /\ g.pc = "setResult"
                /\ b \in Leaves => todo[b] = {} /\ underlying[b] # "pending"
             \/ f.pc \in RunningPC /\ g.pc = "setException" /\ (b \in Leaves => underlying[b] # "pending")
             \/ f.pc \in StartPC /\ g.pc \in StartPC
             \/ f.pc \in StartPC /\ g.pc = "isCompleted" /\ g.arg = f.arg
             \/ f.pc = "leafCheck" /\ g.pc = "wrap" /\ underlying[b] = "pending"
             \/ f.pc = "isCompleted" /\ g.pc = "getResult"
             \/ /\ f.pc = "isCompleted" /\ g.pc = "awaitOnCompleted" /\ g.arg = f.arg
                /\ ~Completed(b, f.arg)
             \/ f.pc = "getResult" /\ g.pc = "body" /\ (b \in Leaves => underlying[b] # "pending"),
             UNCHANGED <<taskVars, bodyVars, wrapperVars>>
      PROVE  BeforeCancel(th)'
  <2>1. AwaitsPending(th)'
    <3>1. SUFFICES ASSUME g.pc \in AwaitingPC
                   PROVE  /\ g.arg = Wrapper =>
                               underlying[b] = "pending" /\ callback[b] = "registered"
                          /\ g.pc \in {"awaitOnCompleted", "register"} /\ g.arg # Wrapper =>
                               state[g.arg] = "Running"
      BY <1>5, <1>7 DEF AwaitsPending, taskVars, wrapperVars
    <3>2. f.pc = "isCompleted" /\ f.arg = Wrapper =>
            underlying[b] = "pending" /\ callback[b] = "registered"
      BY <1>1, <1>2 DEF BeforeCancel, AwaitsPending
    <3>3. ASSUME f.pc = "isCompleted", f.arg # Wrapper, ~Completed(b, f.arg)
          PROVE  state[f.arg] = "Running"
      <4>1. f.arg \in Tasks /\ body[f.arg] # "fresh" /\ state[f.arg] \notin Terminal
        BY <1>2, <1>3, <3>3 DEF Fits, ControlFits, Completed
      <4>2. f.arg \in Bodies /\ BodyFits(f.arg)
        BY <4>1 DEF Bodies, Control, EveryBodyFits
      <4> QED BY <4>1, <4>2 DEF BodyFits, StateFits, TypeOK, TaskState
    <3> QED BY <1>3, <1>7, <3>1, <3>2, <3>3
  <2>2. ASSUME b \in Leaves PROVE LeafEndsAfter(th, b)'
    BY <1>2, <1>3, <1>4, <1>5, <1>7, <2>2 DEF LeafEndsAfter, BeforeCancel, bodyVars, wrapperVars
  <2> QED BY <1>1, <1>2, <1>7, <2>1, <2>2, QuietGoto DEF taskVars, bodyVars, wrapperVars
<1>8. CASE BodyAwaits(th)
  BY <1>2, <1>6, <1>8 DEF BodyAwaits, At
<1>9. CASE BodyReturns(th)
  <2>1. PICK g \in Frames : g = Frame("setResult", b, None)
    BY NewFrame
  <2>2. f.pc = "body" /\ Goto(th, g) /\ UNCHANGED <<taskVars, bodyVars, wrapperVars>>
    BY <1>2, <1>9, <2>1 DEF BodyReturns, At
  <2>3. b \in Leaves => todo[b] = {} /\ underlying[b] # "pending"
    BY <1>2, <1>4, <1>9, <2>2 DEF BodyReturns, BeforeCancel, LeafEndsAfter
  <2> QED BY <1>7, <2>1, <2>2, <2>3 DEF Frame
<1>10. CASE BodyThrows(th)
  <2>1. PICK e \in Exceptions : Catch(th, e)
    BY <1>10 DEF BodyThrows, Exceptions
  <2>2. PICK g \in Frames : g = Frame("setException", b, e)
    BY NewFrame
  <2>3. /\ f.pc = "body" /\ Goto(th, g) /\ UNCHANGED <<taskVars, bodyVars, wrapperVars>>
        /\ b \notin Leaves
    BY <1>2, <1>10, <2>1, <2>2 DEF BodyThrows, At, Catch
  <2> QED BY <1>7, <2>2, <2>3 DEF Frame
<1>11. CASE LeafCallsAction(th)
  <2>1. PICK g \in Frames :
           /\ Goto(th, g) /\ g.task = b
           /\ g.pc = "leafCheck" \/ (g.pc = "setException" /\ UNCHANGED underlying)
    <3>1. CASE Catch(th, "Error") /\ UNCHANGED underlying
      <4>1. Frame("setException", b, "Error") \in Frames
        BY NewFrame DEF Exceptions
      <4> QED BY <1>2, <3>1, <4>1 DEF Catch, Frame
    <3>2. CASE Goto(th, Frame("leafCheck", b, None))
      <4>1. Frame("leafCheck", b, None) \in Frames
        BY <1>2, <1>11, NewFrame DEF LeafCallsAction, LeafPC
      <4> QED BY <3>2, <4>1 DEF Frame
    <3> QED BY <1>2, <1>11, <3>1, <3>2 DEF LeafCallsAction
  <2>2. /\ f.pc = "body" /\ b \in Leaves /\ todo[b] = {Wrapper}
        /\ todo' = [todo EXCEPT ![b] = {}]
        /\ UNCHANGED <<taskVars, body, callback, cts, continuation>>
        /\ \A l \in Leaves : l # b => underlying'[l] = underlying[l]
    BY <1>2, <1>11 DEF LeafCallsAction, At, TypeOK
  <2>3. AwaitsPending(th)'
    BY <1>5, <2>1 DEF AwaitsPending
  <2>4. LeafEndsAfter(th, b)'
    BY <1>2, <1>4, <1>5, <2>1, <2>2 DEF LeafEndsAfter, BeforeCancel, TypeOK
  <2> QED BY <1>1, <1>2, <2>1, <2>2, <2>3, <2>4, QuietGoto DEF taskVars, TypeOK
<1>12. CASE LeafChecks(th)
  <2>1. b \in Leaves /\ f.pc = "leafCheck" /\ UNCHANGED <<taskVars, bodyVars, wrapperVars>>
    BY <1>2, <1>12, FrameTypes DEF LeafChecks, At, LeafPC
  <2>2. /\ Frame("setResult", b, None) \in Frames /\ Frame("setException", b, "Error") \in Frames
        /\ Frame("wrap", b, None) \in Frames
    BY <2>1, NewFrame DEF Exceptions, LeafPC
  <2>3. todo[b] = {}
    BY <1>2, <2>1 DEF Fits, ControlFits
  <2>4. CASE underlying[b] = "done" /\ Goto(th, Frame("setResult", b, None))
    BY <1>7, <2>1, <2>2, <2>3, <2>4 DEF Frame
  <2>5. CASE underlying[b] = "faulted" /\ Catch(th, "Error")
    BY <1>2, <1>7, <2>1, <2>2, <2>5 DEF Frame, Catch
  <2>6. CASE underlying[b] = "pending" /\ Goto(th, Frame("wrap", b, None))
    BY <1>7, <2>1, <2>2, <2>6 DEF Frame
  <2> QED BY <1>2, <1>12, <2>4, <2>5, <2>6 DEF LeafChecks
<1>13. CASE GetAwaiter(th)
  <2>1. PICK pc \in {"startTask", "isCompleted"} :
           f.pc = "getAwaiter" /\ Goto(th, Frame(pc, b, f.arg)) /\ UNCHANGED <<taskVars, bodyVars, wrapperVars>>
    BY <1>2, <1>13 DEF GetAwaiter, At
  <2>2. Frame(pc, b, f.arg) \in Frames
    BY <1>3, <2>1, NewFrame
  <2> QED BY <1>7, <2>1, <2>2 DEF Frame
<1>14. CASE StartTask(th)
  <2>1. f.pc = "startTask" /\ b \notin Leaves /\ UNCHANGED <<taskVars, bodyVars, wrapperVars>>
    BY <1>2, <1>3, <1>14 DEF StartTask, At
  <2>2. Frame("runTask", b, f.arg) \in Frames /\ Frame("setException", b, "Error") \in Frames
    BY <1>3, <2>1, NewFrame DEF Exceptions
  <2>3. Goto(th, Frame("runTask", b, f.arg)) \/ Goto(th, Frame("setException", b, "Error"))
    BY <1>2, <1>14 DEF StartTask, Catch
  <2> QED BY <1>7, <2>1, <2>2, <2>3 DEF Frame
<1>15. CASE IsCompleted(th)
  <2>1. PICK pc \in {"getResult", "awaitOnCompleted"} :
           /\ f.pc = "isCompleted" /\ Goto(th, Frame(pc, b, f.arg))
           /\ pc = "awaitOnCompleted" => ~Completed(b, f.arg)
           /\ UNCHANGED <<taskVars, bodyVars, wrapperVars>>
    BY <1>2, <1>15 DEF IsCompleted, At
  <2>2. Frame(pc, b, f.arg) \in Frames
    BY <1>3, <2>1, NewFrame
  <2> QED BY <1>7, <2>1, <2>2 DEF Frame
<1>16. CASE GetResult(th)
  <2>1. /\ f.pc = "getResult" /\ UNCHANGED <<taskVars, bodyVars, wrapperVars>>
        /\ f.arg = Wrapper => cts[b] \/ underlying[b] # "pending"
    BY <1>2, <1>16 DEF GetResult, At
  <2>2. b \in Leaves => underlying[b] # "pending"
    BY <1>3, <2>1 DEF Control, Undisturbed
  <2>3. Goto(th, Frame("body", b, None)) \/ \E e \in Exceptions : Goto(th, Frame("setException", b, e))
    BY <1>2, <1>16 DEF GetResult, Catch, Result, Exceptions
  <2>4. Frame("body", b, None) \in Frames /\ \A e \in Exceptions : Frame("setException", b, e) \in Frames
    BY NewFrame
  <2>5. CASE Goto(th, Frame("body", b, None))
    BY <1>7, <2>1, <2>2, <2>4, <2>5 DEF Frame
  <2>6. ASSUME NEW e \in Exceptions, Goto(th, Frame("setException", b, e)) PROVE BeforeCancel(th)'
    BY <1>7, <2>1, <2>2, <2>4, <2>6 DEF Frame
  <2> QED BY <2>3, <2>5, <2>6
<1> QED BY <1>8, <1>9, <1>10, <1>11, <1>12, <1>13, <1>14, <1>15, <1>16

LEMMA StartBefore ==
  ASSUME TypeOK, MachineInv, Control, NEW th, Threads = {th}, BeforeCancel(th), RunTask(th)
  PROVE  BeforeCancel(th)'
<1> USE DEF ControlPC, RunningPC, WaitingPC, EndingPC, StartPC, AwaitPC
<1>1. stack[th] # <<>> /\ StackOK
  BY DEF RunTask, At, TypeOK, StackOK
<1>2. PICK f \in Frames, b \in Bodies :
         /\ f = Top(th) /\ b = f.task /\ Fits(f) /\ f.pc = "runTask"
         /\ body[b] = "running"
  BY <1>1, TopFits DEF Fits, ControlFits, RunTask, At
<1>3. PICK u \in Tasks : u = f.arg /\ u \in Awaitable(b) /\ u \in Bodies
  BY <1>2, FrameTypes DEF Bodies
<1>4. body[u] = "fresh" /\ u # b
  BY <1>1, <1>2, <1>3, RunningFrame DEF FrameFits, Top
<1>5. PICK c \in Frames, g \in Frames :
         /\ Call(th, c, g)
         /\ c.pc = "isCompleted" /\ c.task = b /\ c.arg = u
         /\ g.pc = "body" /\ g.task = u
  <2>1. Frame("isCompleted", b, u) \in Frames /\ Frame("body", u, None) \in Frames
    BY <1>3, NewFrame
  <2> QED BY <1>2, <1>3, <2>1 DEF RunTask, Frame
<1>6. /\ UNCHANGED <<stateMachine, onCompleted, awaitingTask, todo, wrapperVars>>
      /\ state'[u] = "Running" /\ \A t \in Tasks : t # u => state'[t] = state[t]
      /\ body'[u] = "running" /\ \A d \in Bodies : d # u => body'[d] = body[d]
  BY <1>2, <1>3 DEF RunTask, TypeOK
<1> DEFINE n == Len(stack[th])
<1>7. /\ n \in Nat \ {0} /\ Len(stack'[th]) = n + 1
      /\ stack'[th] # <<>> /\ Top(th)' = g /\ stack'[th][n + 1] = g /\ stack'[th][n] = c
      /\ \A i \in 1 .. n - 1 : stack'[th][i] = stack[th][i]
      /\ Top(th) = stack[th][n]
  BY <1>1, <1>5, ShapeOf, CallShape DEF Top
<1>8. /\ \A pcs, d : Runs(th, pcs, d) <=> f.pc \in pcs /\ f.task = d
      /\ \A pcs, d : Runs(th, pcs, d)' <=> g.pc \in pcs /\ g.task = d
  BY <1>1, <1>2, <1>7 DEF Runs
<1> HIDE DEF n
<1>9. CallersAreStarters(th)'
  BY <1>5, <1>7 DEF CallersAreStarters, BeforeCancel, n
<1>10. BusyIsRun(th)'
  <2> SUFFICES ASSUME NEW d \in Bodies, body'[d] = "running"
               PROVE  \E i \in 1 .. n + 1 : stack'[th][i].task = d /\ stack'[th][i].pc \in ControlPC
    BY <1>7 DEF BusyIsRun
  <2>1. CASE d = u
    BY <1>5, <1>7, <2>1
  <2>2. CASE d = b
    BY <1>5, <1>7, <2>2
  <2>3. CASE d # u /\ d # b
    <3>1. PICK i \in 1 .. n : stack[th][i].task = d /\ stack[th][i].pc \in ControlPC
      BY <1>6, <2>3 DEF BeforeCancel, BusyIsRun, n
    <3>2. i \in 1 .. n - 1
      BY <1>2, <1>7, <2>3, <3>1
    <3> QED BY <1>7, <3>1, <3>2
  <2> QED BY <2>1, <2>2, <2>3
<1>11. EndIsPublished(th)'
  BY <1>2, <1>6, <1>8, TreeAssumption DEF EndIsPublished, BeforeCancel, Bodies
<1>12. WaitingIsWoken(th)'
  <2> SUFFICES ASSUME NEW d \in Bodies, d # u, body[d] = "suspended" PROVE WillWake(th, d)'
    BY <1>6 DEF WaitingIsWoken
  <2>1. WillWake(th, d)
    BY <1>2, <1>8 DEF BeforeCancel, WaitingIsWoken
  <2>2. awaitingTask[d] # Wrapper => awaitingTask[d] \in Tasks
    BY WaitingTypes
  <2> QED BY <1>2, <1>6, <1>8, <2>1, <2>2 DEF WillWake, wrapperVars
<1>13. AwaitsPending(th)'
  BY <1>5, <1>7 DEF AwaitsPending, AwaitingPC
<1>14. MachineIsCleared(th)'
  BY <1>2, <1>6, <1>8 DEF MachineIsCleared, BeforeCancel, Terminal
<1>15. ASSUME NEW l \in Leaves PROVE LeafEndsAfter(th, l)'
  BY <1>2, <1>4, <1>5, <1>6, <1>8, TreeAssumption DEF LeafEndsAfter, BeforeCancel, wrapperVars, Bodies
<1> QED BY <1>9, <1>10, <1>11, <1>12, <1>13, <1>14, <1>15 DEF BeforeCancel

\* A body waits, and goes on.
LEMMA WaitSteps ==
  ASSUME TypeOK, Control, NEW th, Threads = {th}, BeforeCancel(th),
         \/ WrapperCreated(th) \/ AwaitOnCompleted(th) \/ Register(th)
         \/ Resume(th) \/ WrapperOnCompleted(th) \/ WrapperTakes(th)
  PROVE  BeforeCancel(th)'
<1> USE DEF ControlPC, RunningPC, WaitingPC, EndingPC, StartPC, AwaitPC
<1>1. stack[th] # <<>> /\ StackOK
  BY DEF WrapperCreated, AwaitOnCompleted, Register, Resume, WrapperOnCompleted, WrapperTakes,
     At, TypeOK, StackOK
<1>2. PICK f \in Frames, b \in Bodies :
         /\ f = Top(th) /\ b = f.task /\ Fits(f) /\ BodyFits(b)
         /\ f.pc \in RunningPC => body[b] = "running"
         /\ f.pc \in WaitingPC => body[b] = "suspended"
  BY <1>1, TopFits DEF Fits, ControlFits
<1>3. /\ f.pc \in AwaitPC => f.arg \in Awaitable(b)
      /\ f.pc \in LeafPC => b \in Leaves
      /\ Wrapper \in Awaitable(b) => b \in Leaves
      /\ Awaitable(b) \subseteq Tasks \cup {Wrapper}
      /\ b \in Leaves => Awaitable(b) = {Wrapper}
  <2>1. b \in Leaves => Awaitable(b) = {Wrapper}
    BY DEF Awaitable
  <2> QED BY <1>2, <2>1, FrameTypes, AwaitableTypes
<1>4. \A pcs, d : Runs(th, pcs, d) <=> f.pc \in pcs /\ f.task = d
  BY <1>1, <1>2 DEF Runs
<1>5. ASSUME NEW d \in Bodies, body[d] = "suspended"
      PROVE  /\ (f.pc \in WaitingPC /\ b = d) \/ WillWake(th, d)
             /\ awaitingTask[d] = Wrapper => d \in Leaves
             /\ awaitingTask[d] # Wrapper => awaitingTask[d] \in Tasks
  BY <1>2, <1>4, <1>5, WaitingTypes DEF BeforeCancel, WaitingIsWoken
<1>6. CASE WrapperCreated(th)
  <2>1. /\ f.pc = "wrap" /\ Goto(th, Frame("isCompleted", b, Wrapper))
        /\ UNCHANGED <<taskVars, bodyVars, underlying, cts, continuation>>
    BY <1>2, <1>6 DEF WrapperCreated, At
  <2>2. b \in Leaves /\ underlying[b] = "pending"
    BY <1>2, <1>3, <1>4, <2>1 DEF LeafPC, BeforeCancel, LeafEndsAfter
  <2>3. callback'[b] = "registered" /\ \A l \in Leaves : l # b => callback'[l] = callback[l]
    BY <1>2, <1>6, <2>2 DEF WrapperCreated, TypeOK
  <2>4. PICK g \in Frames : g = Frame("isCompleted", b, Wrapper)
    <3>1. Wrapper \in Awaitable(b)
      BY <1>3, <2>2
    <3> QED BY <3>1, NewFrame
  <2>5. /\ CallersAreStarters(th)' /\ BusyIsRun(th)' /\ stack'[th] # <<>> /\ Top(th)' = g
        /\ \A pcs, d : Runs(th, pcs, d)' <=> g.pc \in pcs /\ g.task = d
    BY <1>1, <1>2, <2>1, <2>4, BeforeGoto DEF Frame, Controls, bodyVars
  <2>6. EndIsPublished(th)' /\ MachineIsCleared(th)'
    BY <1>4, <2>1, <2>5 DEF EndIsPublished, MachineIsCleared, BeforeCancel, taskVars, bodyVars
  <2>7. AwaitsPending(th)'
    BY <2>1, <2>2, <2>3, <2>4, <2>5 DEF AwaitsPending, Frame
  <2>8. WaitingIsWoken(th)'
    BY <1>2, <1>4, <1>5, <2>1, <2>3, <2>5 DEF WaitingIsWoken, WillWake, taskVars, bodyVars
  <2>9. ASSUME NEW l \in Leaves PROVE LeafEndsAfter(th, l)'
    BY <1>2, <1>4, <2>1, <2>4, <2>5 DEF LeafEndsAfter, BeforeCancel, bodyVars, Frame
  <2> QED BY <2>5, <2>6, <2>7, <2>8, <2>9 DEF BeforeCancel
<1>7. CASE AwaitOnCompleted(th)
  <2>1. /\ f.pc = "awaitOnCompleted" /\ Goto(th, Frame("register", b, f.arg))
        /\ UNCHANGED <<state, stateMachine, onCompleted, todo, wrapperVars>>
        /\ body'[b] = "suspended" /\ \A d \in Bodies : d # b => body'[d] = body[d]
        /\ awaitingTask'[b] = f.arg /\ \A d \in Bodies : d # b => awaitingTask'[d] = awaitingTask[d]
    BY <1>2, <1>7 DEF AwaitOnCompleted, At, TypeOK
  <2>2. PICK g \in Frames : g = Frame("register", b, f.arg)
    BY <1>3, <2>1, NewFrame
  <2>3. /\ CallersAreStarters(th)' /\ BusyIsRun(th)' /\ stack'[th] # <<>> /\ Top(th)' = g
        /\ \A pcs, d : Runs(th, pcs, d)' <=> g.pc \in pcs /\ g.task = d
    BY <1>1, <1>2, <2>1, <2>2, BeforeGoto DEF Frame, Controls
  <2>4. EndIsPublished(th)' /\ MachineIsCleared(th)'
    BY <1>2, <1>4, <2>1, <2>3, TreeAssumption DEF EndIsPublished, MachineIsCleared, BeforeCancel, Bodies
  <2>5. AwaitsPending(th)'
    BY <1>1, <1>2, <2>1, <2>2, <2>3 DEF BeforeCancel, AwaitsPending, AwaitingPC, Frame, wrapperVars
  <2>6. WaitingIsWoken(th)'
    BY <1>2, <1>4, <1>5, <2>1, <2>2, <2>3 DEF WaitingIsWoken, WillWake, wrapperVars, Frame
  <2>7. ASSUME NEW l \in Leaves PROVE LeafEndsAfter(th, l)'
    BY <1>2, <1>4, <2>1, <2>2, <2>3, TreeAssumption DEF LeafEndsAfter, BeforeCancel, Frame, wrapperVars, Bodies
  <2> QED BY <2>3, <2>4, <2>5, <2>6, <2>7 DEF BeforeCancel
<1>8. CASE Register(th)
  <2>1. /\ f.pc = "register" /\ awaitingTask[b] = f.arg
        /\ f.arg \in Tasks => ~onCompleted[f.arg]
        /\ UNCHANGED <<state, stateMachine, awaitingTask, bodyVars, underlying, callback, cts>>
    BY <1>2, <1>8 DEF Register, At, Fits, ControlFits, AwaitingPC
  <2>2. /\ Return(th)
        /\ \A l \in Leaves : continuation'[l] => continuation[l] \/ l = b
    BY <1>2, <1>3, <1>8, <2>1 DEF Register, TypeOK
  <2>3. /\ CallersAreStarters(th)' /\ BusyIsRun(th)'
        /\ stack'[th] # <<>> => Top(th)'.pc = "isCompleted" /\ Top(th)'.arg \in Tasks
        /\ \A pcs, d : Runs(th, pcs, d)' => "isCompleted" \in pcs
    BY <1>1, <1>2, <2>1, <2>2, BeforeReturn DEF Controls, bodyVars
  <2>4. /\ f.arg = Wrapper => underlying[b] = "pending" /\ callback[b] = "registered"
        /\ f.arg # Wrapper => state[f.arg] = "Running"
    BY <1>1, <1>2, <2>1 DEF BeforeCancel, AwaitsPending, AwaitingPC
  <2>5. EndIsPublished(th)' /\ MachineIsCleared(th)'
    BY <1>4, <2>1, <2>3 DEF EndIsPublished, MachineIsCleared, BeforeCancel, bodyVars
  <2>6. AwaitsPending(th)'
    BY <2>3, NamesAssumption DEF AwaitsPending
  <2>7. WaitingIsWoken(th)'
    BY <1>2, <1>4, <1>5, <2>1, <2>3, <2>4 DEF WaitingIsWoken, WillWake, bodyVars
  <2>8. ASSUME NEW l \in Leaves PROVE LeafEndsAfter(th, l)'
    BY <1>2, <1>4, <2>1, <2>2, <2>3 DEF LeafEndsAfter, BeforeCancel, bodyVars
  <2> QED BY <2>3, <2>5, <2>6, <2>7, <2>8 DEF BeforeCancel
<1>9. CASE Resume(th)
  <2>1. /\ f.pc = "resume" /\ Goto(th, Frame("getResult", b, awaitingTask[b]))
        /\ UNCHANGED <<taskVars, todo, wrapperVars>>
        /\ body'[b] = "running" /\ \A d \in Bodies : d # b => body'[d] = body[d]
    BY <1>2, <1>9 DEF Resume, At, TypeOK
  <2>2. PICK g \in Frames : g = Frame("getResult", b, awaitingTask[b])
    BY <1>2, <2>1, WaitingTypes, NewFrame
  <2>3. /\ CallersAreStarters(th)' /\ BusyIsRun(th)' /\ stack'[th] # <<>> /\ Top(th)' = g
        /\ \A pcs, d : Runs(th, pcs, d)' <=> g.pc \in pcs /\ g.task = d
    BY <1>1, <1>2, <2>1, <2>2, BeforeGoto DEF Frame, Controls
  <2>4. EndIsPublished(th)' /\ MachineIsCleared(th)'
    BY <1>2, <1>4, <2>1, <2>3, TreeAssumption DEF EndIsPublished, MachineIsCleared, BeforeCancel, Bodies, taskVars
  <2>5. AwaitsPending(th)'
    BY <2>2, <2>3 DEF AwaitsPending, AwaitingPC, Frame
  <2>6. WaitingIsWoken(th)'
    BY <1>2, <1>4, <1>5, <2>1, <2>3 DEF WaitingIsWoken, WillWake, wrapperVars, taskVars
  <2>7. ASSUME NEW l \in Leaves PROVE LeafEndsAfter(th, l)'
    BY <1>2, <1>4, <2>1, <2>2, <2>3, TreeAssumption DEF LeafEndsAfter, BeforeCancel, Frame, wrapperVars, Bodies
  <2> QED BY <2>3, <2>4, <2>5, <2>6, <2>7 DEF BeforeCancel
<1>10. CASE WrapperTakes(th)
  <2>1. /\ f.pc = "wrapperTake" /\ Goto(th, Frame("resume", b, None)) /\ b \in Leaves
        /\ UNCHANGED <<taskVars, bodyVars, underlying, callback, cts>>
        /\ ~continuation'[b] /\ \A l \in Leaves : l # b => continuation'[l] = continuation[l]
    BY <1>2, <1>3, <1>10 DEF WrapperTakes, At, TypeOK, LeafPC
  <2>2. PICK g \in Frames : g = Frame("resume", b, None)
    BY NewFrame
  <2>3. /\ CallersAreStarters(th)' /\ BusyIsRun(th)' /\ stack'[th] # <<>> /\ Top(th)' = g
        /\ \A pcs, d : Runs(th, pcs, d)' <=> g.pc \in pcs /\ g.task = d
    BY <1>1, <1>2, <2>1, <2>2, BeforeGoto DEF Frame, Controls, bodyVars
  <2>4. EndIsPublished(th)' /\ MachineIsCleared(th)'
    BY <1>4, <2>1, <2>3 DEF EndIsPublished, MachineIsCleared, BeforeCancel, bodyVars, taskVars
  <2>5. AwaitsPending(th)'
    BY <2>2, <2>3 DEF AwaitsPending, AwaitingPC, Frame
  <2>6. WaitingIsWoken(th)'
    BY <1>2, <1>4, <1>5, <2>1, <2>2, <2>3 DEF WaitingIsWoken, WillWake, bodyVars, taskVars, Frame
  <2>7. ASSUME NEW l \in Leaves PROVE LeafEndsAfter(th, l)'
    BY <1>2, <1>4, <2>1, <2>2, <2>3 DEF LeafEndsAfter, BeforeCancel, Frame, bodyVars
  <2> QED BY <2>3, <2>4, <2>5, <2>6, <2>7 DEF BeforeCancel
<1>11. CASE WrapperOnCompleted(th)
  <2>1. /\ f.pc = "wrapperOnCompleted" /\ b \in Leaves
        /\ UNCHANGED <<taskVars, bodyVars, wrapperVars>>
    BY <1>2, <1>3, <1>11 DEF WrapperOnCompleted, At, LeafPC
  <2>2. CASE continuation[b]
    <3>1. PICK g \in Frames : g = Frame("wrapperTake", b, None) /\ Goto(th, g)
      BY <1>2, <1>11, <2>1, <2>2, NewFrame DEF WrapperOnCompleted, LeafPC
    <3>2. body[b] = "suspended"
      BY <2>1, <2>2 DEF BeforeCancel, LeafEndsAfter
    <3>3. /\ CallersAreStarters(th)' /\ BusyIsRun(th)' /\ stack'[th] # <<>> /\ Top(th)' = g
          /\ \A pcs, d : Runs(th, pcs, d)' <=> g.pc \in pcs /\ g.task = d
      BY <1>1, <1>2, <2>1, <3>1, <3>2, BeforeGoto DEF Frame, Controls, bodyVars
    <3>4. EndIsPublished(th)' /\ MachineIsCleared(th)'
      BY <1>4, <2>1, <3>3 DEF EndIsPublished, MachineIsCleared, BeforeCancel, bodyVars, taskVars
    <3>5. AwaitsPending(th)'
      BY <3>1, <3>3 DEF AwaitsPending, AwaitingPC, Frame
    <3>6. WaitingIsWoken(th)'
      BY <1>2, <1>4, <1>5, <2>1, <3>1, <3>3 DEF WaitingIsWoken, WillWake, bodyVars, taskVars, wrapperVars, Frame
    <3>7. ASSUME NEW l \in Leaves PROVE LeafEndsAfter(th, l)'
      BY <1>2, <1>4, <2>1, <3>1, <3>3 DEF LeafEndsAfter, BeforeCancel, Frame, bodyVars, wrapperVars
    <3> QED BY <3>3, <3>4, <3>5, <3>6, <3>7 DEF BeforeCancel
  <2>3. CASE ~continuation[b]
    <3>1. Return(th)
      BY <1>2, <1>11, <2>3 DEF WrapperOnCompleted
    <3>2. /\ CallersAreStarters(th)' /\ BusyIsRun(th)'
          /\ stack'[th] # <<>> => Top(th)'.pc = "isCompleted" /\ Top(th)'.arg \in Tasks
          /\ \A pcs, d : Runs(th, pcs, d)' => "isCompleted" \in pcs
      BY <1>1, <1>2, <2>1, <3>1, BeforeReturn DEF Controls, bodyVars
    <3>3. body[b] # "suspended"
      <4> SUFFICES ASSUME body[b] = "suspended" PROVE FALSE
        OBVIOUS
      <4>1. FreeOfControl(b)
        BY <1>2, <2>1, SuspendedIsFree DEF Controls
      <4>2. awaitingTask[b] = Wrapper
        BY <1>3, <2>1, WaitingTypes
      <4> QED BY <1>2, <2>3, <4>1, <4>2 DEF BodyFits, WaitingIsRegistered
    <3>4. EndIsPublished(th)' /\ MachineIsCleared(th)'
      BY <1>4, <2>1, <3>2 DEF EndIsPublished, MachineIsCleared, BeforeCancel, bodyVars, taskVars
    <3>5. AwaitsPending(th)'
      BY <3>2, NamesAssumption DEF AwaitsPending
    <3>6. WaitingIsWoken(th)'
      BY <1>2, <1>4, <1>5, <2>1, <3>2, <3>3 DEF WaitingIsWoken, WillWake, bodyVars, taskVars, wrapperVars
    <3>7. ASSUME NEW l \in Leaves PROVE LeafEndsAfter(th, l)'
      BY <1>2, <1>4, <2>1, <3>2 DEF LeafEndsAfter, BeforeCancel, bodyVars, wrapperVars
    <3> QED BY <3>2, <3>4, <3>5, <3>6, <3>7 DEF BeforeCancel
  <2> QED BY <2>2, <2>3
<1> QED BY <1>6, <1>7, <1>8, <1>9, <1>10, <1>11

\* A body ends, its task is published and its awaiter resumed.
LEMMA EndSteps ==
  ASSUME TypeOK, MachineInv, Control, NEW th, Threads = {th}, BeforeCancel(th),
         \/ ClientEnds(th) \/ SetResult(th) \/ SetException(th) \/ Publish(th)
         \/ ClearStateMachine(th) \/ RunCallOnCompleted(th)
  PROVE  BeforeCancel(th)'
<1> USE DEF ControlPC, RunningPC, WaitingPC, EndingPC, StartPC
<1>1. stack[th] # <<>> /\ StackOK
  BY DEF ClientEnds, SetResult, SetException, Publish, ClearStateMachine, RunCallOnCompleted,
     At, TypeOK, StackOK
<1>2. PICK f \in Frames, b \in Bodies :
         /\ f = Top(th) /\ b = f.task /\ Fits(f) /\ BodyFits(b)
         /\ f.pc \in {"setResult", "setException", "publish", "clear", "notify"}
         /\ f.pc = "setException" => body[b] = "running" /\ f.arg # "RustCancellationException"
         /\ f.pc \in EndingPC => body[b] = "ended"
         /\ f.pc = "setResult" => body[b] \in {"running", "ended"} /\ (b \in Tasks => state[b] = "Running")
         /\ f.pc = "publish" => state[b] = "Running"
         /\ f.pc \in {"clear", "notify"} => state[b] \in Terminal
  BY <1>1, TopFits, NothingUnwinds DEF Fits, ControlFits, ClientEnds, SetResult, SetException, Publish,
     ClearStateMachine, RunCallOnCompleted, At
<1>3. /\ f.pc \in {"publish", "clear", "notify"} => b \in Tasks
      /\ f.pc = "publish" => f.arg \in {"CompletedSuccessfully", "Failed"}
      /\ f.pc = "setException" => f.arg \in Exceptions
      /\ Client \notin Tasks /\ Leaves \subseteq Tasks /\ Tasks \subseteq Bodies
  BY <1>2, FrameTypes, TreeAssumption, NamesAssumption DEF TaskPC, Bodies
<1>4. \A pcs, d : Runs(th, pcs, d) <=> f.pc \in pcs /\ f.task = d
  BY <1>1, <1>2 DEF Runs
<1>5. ASSUME NEW d \in Bodies, body[d] = "suspended"
      PROVE  /\ WillWake(th, d)
             /\ awaitingTask[d] = Wrapper => d \in Leaves
             /\ awaitingTask[d] # Wrapper =>
                  awaitingTask[d] \in Tasks /\ Awaiter(awaitingTask[d]) = d
  BY <1>2, <1>4, <1>5, WaitingTypes DEF BeforeCancel, WaitingIsWoken
<1>6. ASSUME NEW g \in Frames, Goto(th, g),
             \A d \in Bodies : body'[d] = "running" => body[d] = "running" /\ d # b
      PROVE  /\ CallersAreStarters(th)' /\ BusyIsRun(th)' /\ stack'[th] # <<>> /\ Top(th)' = g
             /\ \A pcs, d : Runs(th, pcs, d)' <=> g.pc \in pcs /\ g.task = d
             /\ g.pc \notin AwaitingPC => AwaitsPending(th)'
  <2>1. /\ CallersAreStarters(th)' /\ BusyIsRun(th)' /\ stack'[th] # <<>> /\ Top(th)' = g
        /\ \A pcs, d : Runs(th, pcs, d)' <=> g.pc \in pcs /\ g.task = d
    BY <1>1, <1>2, <1>6, BeforeGoto DEF Controls
  <2> QED BY <2>1 DEF AwaitsPending, AwaitingPC
<1>7. ASSUME Return(th),
             \A d \in Bodies : body'[d] = "running" => body[d] = "running" /\ d # b
      PROVE  /\ CallersAreStarters(th)' /\ BusyIsRun(th)' /\ AwaitsPending(th)'
             /\ \A pcs, d : Runs(th, pcs, d)' => "isCompleted" \in pcs
  <2>1. /\ CallersAreStarters(th)' /\ BusyIsRun(th)'
        /\ stack'[th] # <<>> => Top(th)'.pc = "isCompleted" /\ Top(th)'.arg \in Tasks
        /\ \A pcs, d : Runs(th, pcs, d)' => "isCompleted" \in pcs
    BY <1>1, <1>2, <1>7, BeforeReturn DEF Controls
  <2> QED BY <2>1, NamesAssumption DEF AwaitsPending
<1>8. CASE ClientEnds(th)
  <2>1. /\ f.pc \in {"setResult", "setException"} /\ b = Client /\ Return(th)
        /\ UNCHANGED <<taskVars, todo, wrapperVars>>
        /\ body'[b] = "ended" /\ \A d \in Bodies : d # b => body'[d] = body[d]
    BY <1>2, <1>8 DEF ClientEnds, At, TypeOK
  <2>2. /\ CallersAreStarters(th)' /\ BusyIsRun(th)' /\ AwaitsPending(th)'
        /\ \A pcs, d : Runs(th, pcs, d)' => "isCompleted" \in pcs
    BY <1>7, <2>1
  <2>3. EndIsPublished(th)' /\ MachineIsCleared(th)'
    BY <1>2, <1>3, <1>4, <2>1, <2>2 DEF EndIsPublished, MachineIsCleared, BeforeCancel, taskVars
  <2>4. WaitingIsWoken(th)'
    BY <1>2, <1>4, <1>5, <2>1, <2>2 DEF WaitingIsWoken, WillWake, wrapperVars, taskVars
  <2>5. ASSUME NEW l \in Leaves PROVE LeafEndsAfter(th, l)'
    BY <1>2, <1>3, <1>4, <2>1, <2>2 DEF LeafEndsAfter, BeforeCancel, wrapperVars
  <2> QED BY <2>2, <2>3, <2>4, <2>5 DEF BeforeCancel
<1>9. CASE SetResult(th) \/ SetException(th)
  <2>1. /\ f.pc \in {"setResult", "setException"} /\ b \in Tasks
        /\ UNCHANGED <<state, stateMachine, onCompleted, awaitingTask, todo, wrapperVars>>
        /\ body'[b] = "ended" /\ \A d \in Bodies : d # b => body'[d] = body[d]
    <3>1. state[b] = "Running" /\ b \in Tasks
      BY <1>2, <1>9 DEF BodyFits, StateFits, SetResult, SetException, At
    <3> QED BY <1>2, <1>9, <3>1 DEF SetResult, SetException, At, TypeOK, taskVars
  <2>2. PICK g \in Frames : Goto(th, g) /\ g.task = b /\ g.pc \in {"setResult", "publish"}
    <3>1. /\ Frame("publish", b, "CompletedSuccessfully") \in Frames
          /\ Frame("publish", b, "Failed") \in Frames
          /\ Frame("setResult", b, None) \in Frames
      BY <2>1, NewFrame
    <3>2. state[b] = "Running"
      BY <1>2, <2>1 DEF BodyFits, StateFits
    <3>3. CASE SetResult(th)
      BY <1>2, <3>1, <3>2, <3>3 DEF SetResult, Frame
    <3>4. CASE SetException(th)
      <4>1. f.pc = "setException" /\ f.arg \in {"ReturnException", "Error"}
        BY <1>2, <1>3, <3>4 DEF SetException, At, Exceptions
      <4>2. Goto(th, Frame("setResult", b, None)) \/ Goto(th, Frame("publish", b, "Failed"))
        BY <1>2, <3>2, <3>4, <4>1 DEF SetException
      <4> QED BY <3>1, <4>2 DEF Frame
    <3> QED BY <1>9, <3>3, <3>4
  <2>3. /\ CallersAreStarters(th)' /\ BusyIsRun(th)' /\ AwaitsPending(th)'
        /\ \A pcs, d : Runs(th, pcs, d)' <=> g.pc \in pcs /\ g.task = d
    BY <1>6, <2>1, <2>2 DEF AwaitingPC
  <2>4. EndIsPublished(th)' /\ MachineIsCleared(th)'
    BY <1>2, <1>3, <1>4, <2>1, <2>2, <2>3 DEF EndIsPublished, MachineIsCleared, BeforeCancel
  <2>5. WaitingIsWoken(th)'
    BY <1>2, <1>4, <1>5, <2>1, <2>2, <2>3 DEF WaitingIsWoken, WillWake, wrapperVars
  <2>6. ASSUME NEW l \in Leaves PROVE LeafEndsAfter(th, l)'
    BY <1>2, <1>3, <1>4, <2>1, <2>2, <2>3 DEF LeafEndsAfter, BeforeCancel, wrapperVars
  <2> QED BY <2>3, <2>4, <2>5, <2>6 DEF BeforeCancel
<1>10. CASE Publish(th)
  <2>1. /\ f.pc = "publish" /\ b \in Tasks /\ Goto(th, Frame("clear", b, None))
        /\ UNCHANGED <<stateMachine, onCompleted, awaitingTask, bodyVars, wrapperVars>>
        /\ state'[b] \in Terminal /\ \A t \in Tasks : t # b => state'[t] = state[t]
    BY <1>2, <1>3, <1>10 DEF Publish, At, TypeOK, Terminal
  <2>2. PICK g \in Frames : g = Frame("clear", b, None)
    BY <2>1, NewFrame DEF TaskPC
  <2>3. /\ CallersAreStarters(th)' /\ BusyIsRun(th)' /\ AwaitsPending(th)'
        /\ \A pcs, d : Runs(th, pcs, d)' <=> g.pc \in pcs /\ g.task = d
    BY <1>2, <1>6, <2>1, <2>2 DEF AwaitingPC, Frame, bodyVars
  <2>4. EndIsPublished(th)' /\ MachineIsCleared(th)'
    BY <1>2, <1>3, <1>4, <2>1, <2>2, <2>3 DEF EndIsPublished, MachineIsCleared, BeforeCancel, Terminal, Frame, bodyVars
  <2>5. WaitingIsWoken(th)'
    BY <1>2, <1>4, <1>5, <2>1, <2>2, <2>3 DEF WaitingIsWoken, WillWake, wrapperVars, bodyVars, Frame
  <2>6. ASSUME NEW l \in Leaves PROVE LeafEndsAfter(th, l)'
    BY <1>2, <1>3, <1>4, <2>1, <2>2, <2>3 DEF LeafEndsAfter, BeforeCancel, wrapperVars, bodyVars, Frame
  <2> QED BY <2>3, <2>4, <2>5, <2>6 DEF BeforeCancel
<1>11. CASE ClearStateMachine(th)
  <2>1. /\ f.pc = "clear" /\ b \in Tasks /\ Goto(th, Frame("notify", b, None))
        /\ UNCHANGED <<state, onCompleted, awaitingTask, bodyVars, wrapperVars>>
        /\ ~stateMachine'[b] /\ \A t \in Tasks : t # b => stateMachine'[t] = stateMachine[t]
    BY <1>2, <1>3, <1>11 DEF ClearStateMachine, At, TypeOK
  <2>2. PICK g \in Frames : g = Frame("notify", b, None)
    BY <2>1, NewFrame DEF TaskPC
  <2>3. /\ CallersAreStarters(th)' /\ BusyIsRun(th)' /\ AwaitsPending(th)'
        /\ \A pcs, d : Runs(th, pcs, d)' <=> g.pc \in pcs /\ g.task = d
    BY <1>2, <1>6, <2>1, <2>2 DEF AwaitingPC, Frame, bodyVars
  <2>4. EndIsPublished(th)' /\ MachineIsCleared(th)'
    BY <1>2, <1>3, <1>4, <2>1, <2>2, <2>3 DEF EndIsPublished, MachineIsCleared, BeforeCancel, Frame, bodyVars
  <2>5. WaitingIsWoken(th)'
    BY <1>2, <1>4, <1>5, <2>1, <2>2, <2>3 DEF WaitingIsWoken, WillWake, wrapperVars, bodyVars, Frame
  <2>6. ASSUME NEW l \in Leaves PROVE LeafEndsAfter(th, l)'
    BY <1>2, <1>3, <1>4, <2>1, <2>2, <2>3 DEF LeafEndsAfter, BeforeCancel, wrapperVars, bodyVars, Frame
  <2> QED BY <2>3, <2>4, <2>5, <2>6 DEF BeforeCancel
<1>12. CASE RunCallOnCompleted(th)
  <2>1. /\ f.pc = "notify" /\ b \in Tasks
        /\ UNCHANGED <<taskVars, bodyVars, wrapperVars>>
    BY <1>2, <1>3, <1>12 DEF RunCallOnCompleted, At
  <2>2. /\ Awaiter(b) \in Bodies /\ Awaiter(b) \notin Leaves
        /\ Awaiter(b) # b
    BY <2>1, AwaiterType, TreeAssumption, NamesAssumption DEF Awaiter
  <2>3. CASE onCompleted[b]
    <3>1. PICK g \in Frames : g = Frame("resume", Awaiter(b), None) /\ Goto(th, g)
      BY <1>2, <1>12, <2>2, <2>3, NewFrame DEF RunCallOnCompleted
    <3>2. /\ CallersAreStarters(th)' /\ BusyIsRun(th)' /\ AwaitsPending(th)'
          /\ \A pcs, d : Runs(th, pcs, d)' <=> g.pc \in pcs /\ g.task = d
      BY <1>2, <1>6, <2>1, <3>1 DEF AwaitingPC, Frame, bodyVars
    <3>3. EndIsPublished(th)' /\ MachineIsCleared(th)'
      BY <1>2, <1>4, <2>1, <3>2 DEF EndIsPublished, MachineIsCleared, BeforeCancel, bodyVars, taskVars
    <3>4. WaitingIsWoken(th)'
      BY <1>2, <1>4, <1>5, <2>1, <3>1, <3>2 DEF WaitingIsWoken, WillWake, wrapperVars, bodyVars, taskVars, Frame
    <3>5. ASSUME NEW l \in Leaves PROVE LeafEndsAfter(th, l)'
      BY <1>2, <1>4, <2>1, <2>2, <3>1, <3>2 DEF LeafEndsAfter, BeforeCancel, wrapperVars, bodyVars, Frame
    <3> QED BY <3>2, <3>3, <3>4, <3>5 DEF BeforeCancel
  <2>4. CASE ~onCompleted[b]
    <3>1. Return(th)
      BY <1>2, <1>12, <2>4 DEF RunCallOnCompleted
    <3>2. /\ CallersAreStarters(th)' /\ BusyIsRun(th)' /\ AwaitsPending(th)'
          /\ \A pcs, d : Runs(th, pcs, d)' => "isCompleted" \in pcs
      BY <1>2, <1>7, <2>1, <3>1 DEF bodyVars
    <3>3. ASSUME NEW d \in Bodies, body[d] = "suspended", awaitingTask[d] = b PROVE FALSE
      <4>1. d # b
        BY <1>2, <2>1, <3>3
      <4>2. FreeOfControl(d)
        BY <1>2, <3>3, <4>1, SuspendedIsFree DEF Controls
      <4>3. WaitingIsRegistered(d)
        BY DEF Control, EveryBodyFits, BodyFits
      <4> QED BY <2>1, <2>4, <3>3, <4>2, <4>3 DEF WaitingIsRegistered
    <3>4. EndIsPublished(th)' /\ MachineIsCleared(th)'
      BY <1>4, <2>1, <3>2, <1>2 DEF EndIsPublished, MachineIsCleared, BeforeCancel, bodyVars, taskVars
    <3>5. WaitingIsWoken(th)'
      BY <1>2, <1>4, <1>5, <2>1, <3>2, <3>3 DEF WaitingIsWoken, WillWake, wrapperVars, bodyVars, taskVars
    <3>6. ASSUME NEW l \in Leaves PROVE LeafEndsAfter(th, l)'
      BY <1>4, <2>1, <3>2 DEF LeafEndsAfter, BeforeCancel, wrapperVars, bodyVars
    <3> QED BY <3>2, <3>4, <3>5, <3>6 DEF BeforeCancel
  <2> QED BY <2>3, <2>4
<1> QED BY <1>8, <1>9, <1>10, <1>11, <1>12

LEMMA EntryBefore ==
  ASSUME TypeOK, Control, NEW th, Threads = {th}, BeforeCancel(th),
         External(th) \/ ClientStart(th)
  PROVE  BeforeCancel(th)'
<1> USE DEF ControlPC, RunningPC, WaitingPC, EndingPC, StartPC
<1>1. /\ stack[th] = <<>> /\ StackOK
      /\ \A pcs, d : ~Runs(th, pcs, d)
  BY DEF External, UnderlyingCompletes, RunQueuedCallback, ClientStart, Enter, Idle, Runs,
     TypeOK, StackOK
<1>2. ASSUME NEW d \in Bodies, body[d] = "suspended"
      PROVE  /\ WillWake(th, d)
             /\ awaitingTask[d] = Wrapper => d \in Leaves
  BY <1>1, <1>2, WaitingTypes DEF BeforeCancel, WaitingIsWoken
<1>3. ASSUME NEW l \in Leaves, callback[l] \in {"registered", "queued"},
             \E from : Enter(th, Frame("wrapperOnCompleted", l, None), from),
             callback' = [callback EXCEPT ![l] = "fired"],
             \/ UNCHANGED underlying
             \/ /\ underlying[l] = "pending"
                /\ \E o \in {"done", "faulted"} : underlying' = [underlying EXCEPT ![l] = o],
             UNCHANGED <<taskVars, bodyVars, cts, continuation>>
      PROVE  BeforeCancel(th)'
  <2>1. PICK g, from : g \in Frames /\ g = Frame("wrapperOnCompleted", l, None) /\ Enter(th, g, from)
    BY <1>3, NewFrame DEF LeafPC
  <2>2. /\ CallersAreStarters(th)' /\ BusyIsRun(th)' /\ stack'[th] # <<>> /\ Top(th)' = g
        /\ \A pcs, d : Runs(th, pcs, d)' <=> g.pc \in pcs /\ g.task = d
    BY <1>1, <1>3, <2>1, BeforeEnter DEF bodyVars
  <2>3. /\ \A k \in Leaves : k # l => underlying'[k] = underlying[k] /\ callback'[k] = callback[k]
        /\ \A k \in Leaves : underlying'[k] = underlying[k] \/ (underlying[k] = "pending" /\ underlying'[k] # "pending")
    BY <1>3 DEF TypeOK
  <2>4. EndIsPublished(th)' /\ MachineIsCleared(th)' /\ AwaitsPending(th)'
    BY <1>1, <1>3, <2>1, <2>2 DEF EndIsPublished, MachineIsCleared, AwaitsPending, AwaitingPC,
       BeforeCancel, bodyVars, taskVars, Frame
  <2>5. WaitingIsWoken(th)'
    BY <1>1, <1>2, <1>3, <2>1, <2>2, <2>3 DEF WaitingIsWoken, WillWake, bodyVars, taskVars, Frame
  <2>6. ASSUME NEW k \in Leaves PROVE LeafEndsAfter(th, k)'
    BY <1>1, <1>3, <2>1, <2>2, <2>3 DEF LeafEndsAfter, BeforeCancel, bodyVars, Frame
  <2> QED BY <2>2, <2>4, <2>5, <2>6 DEF BeforeCancel
<1>4. ASSUME NEW l \in Leaves, UnderlyingCompletes(th, l) PROVE BeforeCancel(th)'
  <2>1. CASE callback[l] = "registered"
    BY <1>3, <1>4, <2>1 DEF UnderlyingCompletes
  <2>2. CASE callback[l] # "registered"
    <3>1. /\ UNCHANGED <<taskVars, bodyVars, callback, cts, continuation, stack>>
          /\ \A k \in Leaves : k # l => underlying'[k] = underlying[k]
          /\ underlying[l] = "pending" /\ underlying'[l] # "pending"
      BY <1>4, <2>2 DEF UnderlyingCompletes, TypeOK
    <3>2. \A pcs, d : ~Runs(th, pcs, d)'
      BY <1>1, <3>1 DEF Runs
    <3>3. /\ CallersAreStarters(th)' /\ BusyIsRun(th)' /\ EndIsPublished(th)'
          /\ MachineIsCleared(th)' /\ AwaitsPending(th)'
      BY <1>1, <3>1, <3>2 DEF BeforeCancel, CallersAreStarters, BusyIsRun, EndIsPublished,
         MachineIsCleared, AwaitsPending, bodyVars, taskVars
    <3>4. WaitingIsWoken(th)'
      BY <1>1, <1>2, <2>2, <3>1 DEF WaitingIsWoken, WillWake, bodyVars, taskVars
    <3>5. ASSUME NEW k \in Leaves PROVE LeafEndsAfter(th, k)'
      BY <1>1, <3>1, <3>2 DEF LeafEndsAfter, BeforeCancel, bodyVars
    <3> QED BY <3>3, <3>4, <3>5 DEF BeforeCancel
  <2> QED BY <2>1, <2>2
<1>5. ASSUME NEW l \in Leaves, RunQueuedCallback(th, l) PROVE BeforeCancel(th)'
  BY <1>3, <1>5 DEF RunQueuedCallback
<1>6. CASE ClientStart(th)
  <2>1. PICK g \in Frames : g = Frame("body", Client, None) /\ Enter(th, g, "client")
    BY <1>6, NewFrame DEF ClientStart, Bodies
  <2>2. /\ body[Client] = "fresh" /\ body'[Client] = "running"
        /\ \A d \in Bodies : d # Client => body'[d] = body[d]
        /\ Client \notin Tasks /\ Leaves \subseteq Tasks
        /\ UNCHANGED <<taskVars, todo, wrapperVars>>
    BY <1>6, TreeAssumption, NamesAssumption DEF ClientStart, TypeOK, Bodies
  <2>3. /\ CallersAreStarters(th)' /\ BusyIsRun(th)' /\ stack'[th] # <<>> /\ Top(th)' = g
        /\ \A pcs, d : Runs(th, pcs, d)' <=> g.pc \in pcs /\ g.task = d
    BY <1>1, <2>1, <2>2, BeforeEnter DEF Frame
  <2>4. EndIsPublished(th)' /\ MachineIsCleared(th)' /\ AwaitsPending(th)'
    BY <1>1, <2>1, <2>2, <2>3 DEF EndIsPublished, MachineIsCleared, AwaitsPending, AwaitingPC,
       BeforeCancel, Bodies, taskVars, Frame
  <2>5. WaitingIsWoken(th)'
    BY <1>1, <1>2, <2>2, <2>3 DEF WaitingIsWoken, WillWake, wrapperVars, taskVars
  <2>6. ASSUME NEW k \in Leaves PROVE LeafEndsAfter(th, k)'
    BY <1>1, <2>1, <2>2, <2>3 DEF LeafEndsAfter, BeforeCancel, Bodies, wrapperVars, Frame
  <2> QED BY <2>3, <2>4, <2>5, <2>6 DEF BeforeCancel
<1> QED BY <1>4, <1>5, <1>6 DEF External

LEMMA BeforeStep ==
  ASSUME TypeOK, MachineInv, Control, NEW th, Threads = {th}, BeforeCancel(th),
         Step(th) \/ External(th) \/ ClientStart(th)
  PROVE  BeforeCancel(th)'
BY QuietSteps, StartBefore, WaitSteps, EndSteps, EntryBefore, NothingUnwinds DEF Step

LEMMA BeforeInit ==
  ASSUME Init, NEW th \in Threads
  PROVE  BeforeCancel(th)
<1>1. /\ stack[th] = <<>> /\ \A b \in Bodies : body[b] = "fresh"
      /\ \A t \in Tasks : t \in Bodies /\ state[t] = "Created"
      /\ \A l \in Leaves : l \in Bodies /\ underlying[l] = "none" /\ ~continuation[l]
      /\ \A i \in 1 .. Len(stack[th]) - 1 : FALSE
  <2>1. Len(<<>>) = 0
    OBVIOUS
  <2> QED BY <2>1, TreeAssumption DEF Init, Bodies
<1> QED BY <1>1 DEF BeforeCancel, CallersAreStarters, BusyIsRun, EndIsPublished, WaitingIsWoken,
       AwaitsPending, MachineIsCleared, LeafEndsAfter, Runs, Terminal
-----------------------------------------------------------------------------
(***************************************************************************)
(* During the Cancel: the chain of its frames.                             *)
(***************************************************************************)

\* The running frame and its caller.
LEMMA SinceTop ==
  ASSUME TypeOK, NEW th \in Threads, SinceCancel(th), stack[th] # <<>>,
         NEW n, n = Len(stack[th])
  PROVE  /\ n \in Nat \ {0} /\ Top(th) = stack[th][n] /\ Top(th) \in Frames
         /\ Top(th).task \in Bodies /\ Top(th).pc \in ChainPC
         /\ TopCancels(Top(th)) /\ FrameCancels(Top(th))
         /\ \A i \in 1 .. n : stack[th][i] \in Frames
         /\ \A i \in 1 .. n - 1 : stack[th][i].pc \in {"cancelCheck", "wrapperOnCompleted"}
         /\ n = 1 => Outermost(Top(th))
         /\ n # 1 => /\ n - 1 \in 1 .. n - 1 /\ n - 1 \in 1 .. n /\ Calls(stack[th][n - 1], Top(th))
                     /\ FrameCancels(stack[th][n - 1]) /\ stack[th][n - 1] \in Frames
<1>1. /\ n \in Nat \ {0} /\ Top(th) = stack[th][n] /\ n \in 1 .. n
      /\ \A i \in 1 .. n : stack[th][i] \in Frames
  BY ShapeOf, ElementOfSeq DEF Top, TypeOK, StackOK
<1>2. Top(th).task \in Bodies /\ Top(th).pc \in ChainPC /\ TopCancels(Top(th)) /\ FrameCancels(Top(th))
  BY <1>1, FrameTypes DEF SinceCancel, CancelChain, EveryFrameCancels
<1>3. \A i \in 1 .. n - 1 : Calls(stack[th][i], stack[th][i + 1])
  BY DEF SinceCancel, CancelChain
<1>4. \A i \in 1 .. n - 1 : stack[th][i].pc \in {"cancelCheck", "wrapperOnCompleted"}
  BY <1>3 DEF Calls
<1>5. n = 1 => Outermost(Top(th))
  BY <1>1 DEF SinceCancel, CancelChain
<1>6. n # 1 => /\ n - 1 \in 1 .. n - 1 /\ n - 1 \in 1 .. n /\ (n - 1) + 1 = n
  <2>1. n \in Nat \ {0}
    BY <1>1
  <2> QED BY ONLY <2>1
<1>7. n # 1 => /\ Calls(stack[th][n - 1], Top(th))
               /\ FrameCancels(stack[th][n - 1]) /\ stack[th][n - 1] \in Frames
  BY <1>1, <1>3, <1>6 DEF SinceCancel, EveryFrameCancels
<1> QED BY <1>1, <1>2, <1>4, <1>5, <1>6, <1>7

LEMMA SinceFrame ==
  ASSUME TypeOK, NEW th \in Threads, SinceCancel(th), stack[th] # <<>>
  PROVE  \E n \in Nat \ {0}, f \in Frames :
           /\ n = Len(stack[th]) /\ f = Top(th) /\ f = stack[th][n]
           /\ f.task \in Bodies /\ f.pc \in ChainPC
           /\ TopCancels(f) /\ FrameCancels(f)
           /\ n = 1 => Outermost(f)
           /\ n # 1 => \E a \in Frames : a = stack[th][n - 1] /\ Calls(a, f) /\ FrameCancels(a)
<1>1. PICK n : n = Len(stack[th])
  OBVIOUS
<1> QED BY <1>1, SinceTop

\* What holds of the frames below the running one still holds of them.
CallersKeep(th) ==
  /\ \A i \in 1 .. Len(stack[th]) - 2 : \A a, c \in Frames :
       a = stack[th][i] /\ c = stack[th][i + 1] /\ Calls(a, c) => Calls(a, c)'
  /\ \A a \in Frames : FrameCancels(a) => FrameCancels(a)'
  /\ \A a \in Frames :
       Len(stack[th]) # 1 /\ a = stack[th][1] /\ Outermost(a) => Outermost(a)'

\* The frame c takes the place of the running one, or that one returns to a.
Replaces(th, c) ==
  /\ CallersKeep(th)
  /\ c.pc \in CancelPC => Top(th).pc \in CancelPC /\ Top(th).task = c.task
  /\ Len(stack[th]) = 1 => Outermost(c)'
  /\ \A a \in Frames :
       Len(stack[th]) # 1 /\ a = stack[th][Len(stack[th]) - 1] /\ Calls(a, Top(th)) => Calls(a, c)'
  /\ FrameCancels(c)'

ReturnsWell(th) ==
  /\ CallersKeep(th)
  /\ \A a \in Frames :
       Len(stack[th]) # 1 /\ a = stack[th][Len(stack[th]) - 1] /\ Calls(a, Top(th)) => TopCancels(a)'

\* The frames under which a cancelled task ends.
CancellingPC == {"cancelInner", "cancelCheck"}

LEMMA SinceGoto ==
  ASSUME TypeOK, NEW th \in Threads, SinceCancel(th), stack[th] # <<>>,
         NEW g \in Frames, Goto(th, g), g.pc \in ChainPC \ {"cancel"},
         Replaces(th, g), TopCancels(g)'
  PROVE  /\ CancelChain(th)' /\ EveryFrameCancels(th)' /\ stack'[th] # <<>>
         /\ \A pcs, b : Runs(th, pcs, b)' <=> g.pc \in pcs /\ g.task = b
         /\ \A b : Cancelling(th, b) =>
              Cancelling(th, b)' \/ (Top(th).task = b /\ Top(th).pc \in CancellingPC)
         /\ \A b : g.task = b /\ g.pc \in CancellingPC => Cancelling(th, b)'
         /\ stack'[th][1].pc # "cancel"
<1>0. PICK n, f : n = Len(stack[th]) /\ f = Top(th)
  OBVIOUS
<1>20. /\ CallersKeep(th) /\ FrameCancels(g)' /\ (n = 1 => Outermost(g)')
       /\ g.pc \in CancelPC => f.pc \in CancelPC /\ f.task = g.task
       /\ \A a \in Frames : n # 1 /\ a = stack[th][n - 1] /\ Calls(a, f) => Calls(a, g)'
  BY <1>0 DEF Replaces
<1>1. /\ n \in Nat \ {0} /\ f = stack[th][n] /\ f \in Frames /\ 1 \in 1 .. n /\ n \in 1 .. n
      /\ \A i \in 1 .. n : stack[th][i] \in Frames
      /\ \A i \in 1 .. n - 1 : stack[th][i].pc \in {"cancelCheck", "wrapperOnCompleted"}
      /\ n # 1 => n - 1 \in 1 .. n - 1 /\ Calls(stack[th][n - 1], f)
  <2>1. /\ n \in Nat \ {0} /\ f = stack[th][n] /\ f \in Frames
        /\ \A i \in 1 .. n : stack[th][i] \in Frames
        /\ \A i \in 1 .. n - 1 : stack[th][i].pc \in {"cancelCheck", "wrapperOnCompleted"}
        /\ n # 1 => n - 1 \in 1 .. n - 1 /\ Calls(stack[th][n - 1], f)
    BY <1>0, SinceTop
  <2>2. 1 \in 1 .. n /\ n \in 1 .. n
    BY <2>1
  <2> QED BY <2>1, <2>2
<1>2. /\ Len(stack'[th]) = n /\ stack'[th] # <<>> /\ Top(th)' = g /\ stack'[th][n] = g
      /\ \A i \in 1 .. n - 1 : stack'[th][i] = stack[th][i]
  BY <1>0, GotoShape DEF TypeOK, StackOK
<1>3. \A i \in 1 .. n : stack'[th][i].pc \in ChainPC
  BY <1>0, <1>1, <1>2 DEF SinceCancel, CancelChain
<1>4. ASSUME NEW i \in 1 .. n - 1 PROVE Calls(stack[th][i], stack[th][i + 1])'
  <2>1. CASE i = n - 1
    <3>1. PICK a \in Frames : a = stack[th][i] /\ a = stack'[th][i] /\ Calls(a, f)
      BY <1>1, <1>2, <2>1
    <3>2. Calls(a, g)'
      BY <1>20, <1>1, <2>1, <3>1
    <3>3. stack'[th][i + 1] = g
      BY <1>1, <1>2, <2>1
    <3> QED BY <3>1, <3>2, <3>3
  <2>2. CASE i # n - 1
    <3>1. i \in 1 .. n - 2 /\ i \in 1 .. n /\ i + 1 \in 1 .. n /\ i + 1 \in 1 .. n - 1
      BY <1>1, <2>2
    <3>2. PICK a \in Frames, c \in Frames : a = stack[th][i] /\ c = stack[th][i + 1]
      BY <1>1, <3>1
    <3>3. Calls(a, c)'
      BY <1>0, <1>20, <3>1, <3>2 DEF CallersKeep, SinceCancel, CancelChain
    <3>4. a = stack'[th][i] /\ c = stack'[th][i + 1]
      BY <1>2, <3>1, <3>2
    <3> QED BY <3>3, <3>4
  <2> QED BY <2>1, <2>2
<1>5. Outermost(stack[th][1])'
  <2>1. CASE n = 1
    BY <1>20, <1>2, <2>1
  <2>2. CASE n # 1
    <3>1. PICK a \in Frames : a = stack[th][1] /\ Outermost(a)
      BY <1>0, <1>1 DEF SinceCancel, CancelChain
    <3>2. Outermost(a)' /\ a = stack'[th][1]
      BY <1>0, <1>20, <1>1, <1>2, <2>2, <3>1 DEF CallersKeep
    <3> QED BY <3>2
  <2> QED BY <2>1, <2>2
<1>6. ASSUME NEW i \in 1 .. n, NEW j \in 1 .. n,
             stack'[th][i].pc \in CancelPC, stack'[th][j].pc \in CancelPC,
             stack'[th][i].task = stack'[th][j].task
      PROVE  i = j
  <2>1. \A k \in 1 .. n : k # n => k \in 1 .. n - 1
    BY <1>1
  <2>2. \A k \in 1 .. n : stack'[th][k].pc \in CancelPC =>
          stack[th][k].pc \in CancelPC /\ stack[th][k].task = stack'[th][k].task
    BY <1>20, <1>1, <1>2, <2>1
  <2> QED BY <1>0, <1>6, <2>2 DEF SinceCancel, CancelChain
<1>7. CancelChain(th)'
  BY <1>0, <1>2, <1>3, <1>4, <1>5, <1>6 DEF CancelChain
<1>8. EveryFrameCancels(th)'
  <2>1. ASSUME NEW i \in 1 .. n PROVE FrameCancels(stack[th][i])'
    <3>1. CASE i = n
      BY <1>20, <1>2, <3>1
    <3>2. CASE i # n
      <4>1. PICK a \in Frames : a = stack[th][i] /\ FrameCancels(a)
        BY <1>0, <1>1 DEF SinceCancel, EveryFrameCancels
      <4>2. FrameCancels(a)' /\ a = stack'[th][i]
        BY <1>0, <1>20, <1>1, <1>2, <3>2, <4>1 DEF CallersKeep
      <4> QED BY <4>2
    <3> QED BY <3>1, <3>2
  <2>2. TopCancels(Top(th))'
    BY <1>2
  <2> QED BY <1>0, <1>2, <2>1, <2>2 DEF EveryFrameCancels
<1>9. ASSUME NEW b, Cancelling(th, b), ~(f.task = b /\ f.pc \in CancellingPC) PROVE Cancelling(th, b)'
  <2>1. PICK i \in 1 .. n : stack[th][i].task = b /\ stack[th][i].pc \in CancellingPC
    BY <1>0, <1>9 DEF Cancelling, CancellingPC
  <2>2. i \in 1 .. n - 1
    BY <1>1, <1>9, <2>1
  <2> QED BY <1>0, <1>1, <1>2, <2>1, <2>2 DEF Cancelling, CancellingPC
<1>10. ASSUME NEW b, g.task = b, g.pc \in CancellingPC PROVE Cancelling(th, b)'
  BY <1>0, <1>1, <1>2, <1>10 DEF Cancelling, CancellingPC
<1>11. stack'[th][1].pc # "cancel"
  <2>1. n # 1 => 1 \in 1 .. n - 1
    BY <1>1
  <2> QED BY <1>1, <1>2, <2>1
<1>12. \A pcs, b : Runs(th, pcs, b)' <=> g.pc \in pcs /\ g.task = b
  BY <1>0, <1>2 DEF Runs
<1> QED BY <1>0, <1>2, <1>7, <1>8, <1>9, <1>10, <1>11, <1>12

LEMMA SinceReturn ==
  ASSUME TypeOK, NEW th \in Threads, SinceCancel(th), stack[th] # <<>>,
         Return(th), ReturnsWell(th)
  PROVE  /\ CancelChain(th)' /\ EveryFrameCancels(th)'
         /\ stack'[th] = <<>> <=> Len(stack[th]) = 1
         /\ \A pcs, b : Runs(th, pcs, b)' => "cancelCheck" \in pcs \/ "wrapperOnCompleted" \in pcs
         /\ \A b : Cancelling(th, b) =>
              Cancelling(th, b)' \/ (Top(th).task = b /\ Top(th).pc \in CancellingPC)
         /\ Len(stack[th]) # 1 => stack'[th][1].pc # "cancel"
<1>0. PICK n, f : n = Len(stack[th]) /\ f = Top(th)
  OBVIOUS
<1>20. /\ CallersKeep(th)
       /\ \A a \in Frames : n # 1 /\ a = stack[th][n - 1] /\ Calls(a, f) => TopCancels(a)'
  BY <1>0 DEF ReturnsWell
<1>1. /\ n \in Nat \ {0} /\ f = stack[th][n] /\ f \in Frames
      /\ \A i \in 1 .. n : stack[th][i] \in Frames
      /\ \A i \in 1 .. n - 1 : stack[th][i].pc \in {"cancelCheck", "wrapperOnCompleted"}
      /\ n # 1 => n - 1 \in 1 .. n - 1 /\ Calls(stack[th][n - 1], f)
  BY <1>0, SinceTop
<1>2. /\ Len(stack'[th]) = n - 1
      /\ stack'[th] = <<>> <=> n = 1
      /\ \A i \in 1 .. n - 1 : stack'[th][i] = stack[th][i]
      /\ stack'[th] # <<>> => Top(th)' = stack[th][n - 1]
  BY <1>0, ReturnShape DEF TypeOK, StackOK
<1>3. \A i \in 1 .. n - 1 : i \in 1 .. n /\ (n # 1 => 1 \in 1 .. n - 1)
  BY <1>1
<1>4. \A i \in 1 .. n - 1 : stack'[th][i].pc \in ChainPC
  BY <1>0, <1>2, <1>3 DEF SinceCancel, CancelChain
<1>5. ASSUME NEW i \in 1 .. (n - 1) - 1 PROVE Calls(stack[th][i], stack[th][i + 1])'
  <2>1. i \in 1 .. n - 2 /\ i \in 1 .. n - 1 /\ i \in 1 .. n /\ i + 1 \in 1 .. n /\ i + 1 \in 1 .. n - 1
    BY <1>1
  <2>2. PICK a \in Frames, c \in Frames : a = stack[th][i] /\ c = stack[th][i + 1]
    BY <1>1, <2>1
  <2>3. Calls(a, c)'
    BY <1>0, <1>20, <2>1, <2>2 DEF CallersKeep, SinceCancel, CancelChain
  <2>4. a = stack'[th][i] /\ c = stack'[th][i + 1]
    BY <1>2, <2>1, <2>2
  <2> QED BY <2>3, <2>4
<1>6. n # 1 => Outermost(stack[th][1])'
  <2> SUFFICES ASSUME n # 1 PROVE Outermost(stack[th][1])'
    OBVIOUS
  <2>1. PICK a \in Frames : a = stack[th][1] /\ Outermost(a)
    BY <1>0, <1>1, <1>3 DEF SinceCancel, CancelChain
  <2>2. Outermost(a)' /\ a = stack'[th][1]
    BY <1>0, <1>20, <1>1, <1>2, <1>3, <2>1 DEF CallersKeep
  <2> QED BY <2>2
<1>7. CancelChain(th)'
  <2>1. ASSUME NEW i \in 1 .. n - 1, NEW j \in 1 .. n - 1,
               stack'[th][i].pc \in CancelPC, stack'[th][j].pc \in CancelPC,
               stack'[th][i].task = stack'[th][j].task
        PROVE  i = j
    <3>1. /\ i \in 1 .. n /\ j \in 1 .. n
          /\ stack'[th][i] = stack[th][i] /\ stack'[th][j] = stack[th][j]
      BY <1>2, <1>3
    <3> QED BY <1>0, <2>1, <3>1 DEF SinceCancel, CancelChain
  <2> QED BY <1>0, <1>2, <1>4, <1>5, <1>6, <2>1 DEF CancelChain
<1>8. EveryFrameCancels(th)'
  <2>1. ASSUME NEW i \in 1 .. n - 1 PROVE FrameCancels(stack[th][i])'
    <3>1. PICK a \in Frames : a = stack[th][i] /\ FrameCancels(a)
      BY <1>0, <1>1, <1>3 DEF SinceCancel, EveryFrameCancels
    <3>2. FrameCancels(a)' /\ a = stack'[th][i]
      BY <1>0, <1>20, <1>2, <3>1 DEF CallersKeep
    <3> QED BY <3>2
  <2>2. n # 1 => TopCancels(Top(th))'
    <3> SUFFICES ASSUME n # 1 PROVE TopCancels(Top(th))'
      OBVIOUS
    <3>1. PICK a \in Frames : a = stack[th][n - 1] /\ Calls(a, f)
      BY <1>1, <1>3
    <3>2. TopCancels(a)' /\ Top(th)' = a
      BY <1>20, <1>2, <3>1
    <3> QED BY <3>2
  <2> QED BY <1>0, <1>2, <2>1, <2>2 DEF EveryFrameCancels
<1>9. ASSUME NEW b, Cancelling(th, b), ~(f.task = b /\ f.pc \in CancellingPC) PROVE Cancelling(th, b)'
  <2>1. PICK i \in 1 .. n : stack[th][i].task = b /\ stack[th][i].pc \in CancellingPC
    BY <1>0, <1>9 DEF Cancelling, CancellingPC
  <2>2. i \in 1 .. n - 1
    BY <1>1, <1>9, <2>1
  <2> QED BY <1>0, <1>1, <1>2, <2>1, <2>2 DEF Cancelling, CancellingPC
<1>10. n # 1 => stack'[th][1].pc # "cancel"
  BY <1>1, <1>2, <1>3
<1>11. \A pcs, b : Runs(th, pcs, b)' => "cancelCheck" \in pcs \/ "wrapperOnCompleted" \in pcs
  BY <1>0, <1>1, <1>2 DEF Runs
<1> QED BY <1>0, <1>2, <1>7, <1>8, <1>9, <1>10, <1>11

LEMMA SinceCall ==
  ASSUME TypeOK, NEW th \in Threads, SinceCancel(th), stack[th] # <<>>,
         NEW c \in Frames, NEW g \in Frames, Call(th, c, g),
         c.pc \in {"cancelCheck", "wrapperOnCompleted"}, g.pc \in ChainPC,
         g.pc \in CancelPC =>
           /\ c.task # g.task
           /\ \A i \in 1 .. Len(stack[th]) - 1 :
                stack[th][i].pc \in CancelPC => stack[th][i].task # g.task,
         Replaces(th, c), Calls(c, g)', FrameCancels(g)', TopCancels(g)'
  PROVE  /\ CancelChain(th)' /\ EveryFrameCancels(th)' /\ stack'[th] # <<>>
         /\ \A pcs, b : Runs(th, pcs, b)' <=> g.pc \in pcs /\ g.task = b
         /\ \A b : Cancelling(th, b) =>
              Cancelling(th, b)' \/ (Top(th).task = b /\ Top(th).pc \in CancellingPC)
         /\ \A b : c.task = b /\ c.pc \in CancellingPC => Cancelling(th, b)'
         /\ stack'[th][1].pc # "cancel"
<1>0. PICK n, f : n = Len(stack[th]) /\ f = Top(th)
  OBVIOUS
<1>20. /\ CallersKeep(th) /\ FrameCancels(c)' /\ (n = 1 => Outermost(c)')
       /\ c.pc \in CancelPC => f.pc \in CancelPC /\ f.task = c.task
       /\ \A a \in Frames : n # 1 /\ a = stack[th][n - 1] /\ Calls(a, f) => Calls(a, c)'
       /\ g.pc \in CancelPC =>
            /\ c.task # g.task
            /\ \A i \in 1 .. n - 1 : stack[th][i].pc \in CancelPC => stack[th][i].task # g.task
  BY <1>0 DEF Replaces
<1>1. /\ n \in Nat \ {0} /\ f = stack[th][n] /\ f \in Frames
      /\ \A i \in 1 .. n : stack[th][i] \in Frames
      /\ \A i \in 1 .. n - 1 : stack[th][i].pc \in {"cancelCheck", "wrapperOnCompleted"}
      /\ n # 1 => n - 1 \in 1 .. n - 1 /\ Calls(stack[th][n - 1], f)
  BY <1>0, SinceTop
<1>2. /\ Len(stack'[th]) = n + 1 /\ stack'[th] # <<>> /\ Top(th)' = g
      /\ stack'[th][n + 1] = g /\ stack'[th][n] = c
      /\ \A i \in 1 .. n - 1 : stack'[th][i] = stack[th][i]
  BY <1>0, CallShape DEF TypeOK, StackOK
<1>3. /\ n \in 1 .. n + 1 /\ 1 \in 1 .. n /\ n \in 1 .. n
      /\ \A i \in 1 .. n + 1 : i \in 1 .. n - 1 \/ i = n \/ i = n + 1
      /\ \A i \in 1 .. n - 1 : i \in 1 .. n /\ i \in 1 .. n + 1
  BY <1>1
<1>4. \A i \in 1 .. n + 1 : stack'[th][i].pc \in ChainPC
  BY <1>0, <1>2, <1>3 DEF SinceCancel, CancelChain, ChainPC, CancelPC, WokenPC
<1>5. ASSUME NEW i \in 1 .. (n + 1) - 1 PROVE Calls(stack[th][i], stack[th][i + 1])'
  <2>1. CASE i = n - 1
    <3>1. PICK a \in Frames : a = stack[th][i] /\ a = stack'[th][i] /\ Calls(a, f)
      BY <1>1, <1>2, <2>1
    <3>2. Calls(a, c)'
      BY <1>20, <1>1, <2>1, <3>1
    <3>3. stack'[th][i + 1] = c
      BY <1>1, <1>2, <2>1
    <3> QED BY <3>1, <3>2, <3>3
  <2>2. CASE i = n
    BY <1>20, <1>2, <2>2
  <2>3. CASE i # n - 1 /\ i # n
    <3>1. i \in 1 .. n - 2 /\ i \in 1 .. n - 1 /\ i \in 1 .. n /\ i + 1 \in 1 .. n /\ i + 1 \in 1 .. n - 1
      BY <1>1, <2>3
    <3>2. PICK a \in Frames, d \in Frames : a = stack[th][i] /\ d = stack[th][i + 1]
      BY <1>1, <3>1
    <3>3. Calls(a, d)'
      BY <1>0, <1>20, <3>1, <3>2 DEF CallersKeep, SinceCancel, CancelChain
    <3>4. a = stack'[th][i] /\ d = stack'[th][i + 1]
      BY <1>2, <3>1, <3>2
    <3> QED BY <3>3, <3>4
  <2> QED BY <2>1, <2>2, <2>3
<1>6. Outermost(stack[th][1])'
  <2>1. CASE n = 1
    BY <1>20, <1>2, <2>1
  <2>2. CASE n # 1
    <3>1. PICK a \in Frames : a = stack[th][1] /\ Outermost(a)
      BY <1>0, <1>1, <1>3 DEF SinceCancel, CancelChain
    <3>2. Outermost(a)' /\ a = stack'[th][1]
      BY <1>0, <1>20, <1>1, <1>2, <2>2, <3>1 DEF CallersKeep
    <3> QED BY <3>2
  <2> QED BY <2>1, <2>2
<1>7. ASSUME NEW i \in 1 .. n + 1, NEW j \in 1 .. n + 1,
             stack'[th][i].pc \in CancelPC, stack'[th][j].pc \in CancelPC,
             stack'[th][i].task = stack'[th][j].task
      PROVE  i = j
  <2>1. \A k \in 1 .. n + 1 : stack'[th][k].pc \in CancelPC /\ k # n + 1 =>
          k \in 1 .. n /\ stack[th][k].pc \in CancelPC /\ stack[th][k].task = stack'[th][k].task
    BY <1>20, <1>1, <1>2, <1>3
  <2>2. \A k \in 1 .. n : g.pc \in CancelPC /\ stack'[th][k].pc \in CancelPC => stack'[th][k].task # g.task
    BY <1>20, <1>1, <1>2, <1>3
  <2>3. CASE i # n + 1 /\ j # n + 1
    BY <1>0, <1>7, <2>1, <2>3 DEF SinceCancel, CancelChain
  <2>4. CASE i = n + 1 /\ j # n + 1
    BY <1>2, <1>7, <2>1, <2>2, <2>4
  <2>5. CASE i # n + 1 /\ j = n + 1
    BY <1>2, <1>7, <2>1, <2>2, <2>5
  <2> QED BY <2>3, <2>4, <2>5
<1>8. CancelChain(th)'
  BY <1>0, <1>2, <1>4, <1>5, <1>6, <1>7 DEF CancelChain
<1>9. EveryFrameCancels(th)'
  <2>1. ASSUME NEW i \in 1 .. n + 1 PROVE FrameCancels(stack[th][i])'
    <3>1. CASE i \in {n, n + 1}
      BY <1>20, <1>2, <3>1
    <3>2. CASE i \in 1 .. n - 1
      <4>1. PICK a \in Frames : a = stack[th][i] /\ FrameCancels(a)
        BY <1>0, <1>1, <1>3, <3>2 DEF SinceCancel, EveryFrameCancels
      <4>2. FrameCancels(a)' /\ a = stack'[th][i]
        BY <1>0, <1>20, <1>2, <3>2, <4>1 DEF CallersKeep
      <4> QED BY <4>2
    <3> QED BY <1>3, <3>1, <3>2
  <2>2. TopCancels(Top(th))'
    BY <1>2
  <2> QED BY <1>0, <1>2, <2>1, <2>2 DEF EveryFrameCancels
<1>10. ASSUME NEW b, Cancelling(th, b), ~(f.task = b /\ f.pc \in CancellingPC) PROVE Cancelling(th, b)'
  <2>1. PICK i \in 1 .. n : stack[th][i].task = b /\ stack[th][i].pc \in CancellingPC
    BY <1>0, <1>10 DEF Cancelling, CancellingPC
  <2>2. i \in 1 .. n - 1
    BY <1>1, <1>10, <2>1
  <2> QED BY <1>0, <1>2, <1>3, <2>1, <2>2 DEF Cancelling, CancellingPC
<1>11. ASSUME NEW b, c.task = b, c.pc \in CancellingPC PROVE Cancelling(th, b)'
  BY <1>0, <1>2, <1>3, <1>11 DEF Cancelling, CancellingPC
<1>12. stack'[th][1].pc # "cancel"
  <2>1. n # 1 => 1 \in 1 .. n - 1
    BY <1>1
  <2> QED BY <1>1, <1>2, <2>1
<1>13. \A pcs, b : Runs(th, pcs, b)' <=> g.pc \in pcs /\ g.task = b
  BY <1>0, <1>2 DEF Runs
<1> QED BY <1>0, <1>2, <1>8, <1>9, <1>10, <1>11, <1>12, <1>13

LEMMA SinceEnter ==
  ASSUME TypeOK, NEW th \in Threads, NEW g \in Frames, NEW from, Enter(th, g, from),
         g.pc \in ChainPC, Outermost(g)', FrameCancels(g)', TopCancels(g)'
  PROVE  /\ CancelChain(th)' /\ EveryFrameCancels(th)' /\ stack'[th] # <<>>
         /\ stack'[th][1] = g /\ ~raised'[th]
<1>1. /\ stack'[th] # <<>> /\ Len(stack'[th]) = 1
      /\ Top(th)' = g /\ stack'[th][1] = g
  BY EnterShape DEF TypeOK, StackOK
<1>2. \A i \in 1 .. 1 : i = 1
  OBVIOUS
<1>3. 1 .. 1 - 1 = {}
  OBVIOUS
<1> QED BY <1>1, <1>2, <1>3 DEF CancelChain, EveryFrameCancels, Enter, Idle
-----------------------------------------------------------------------------
(***************************************************************************)
(* The steps of the Cancel.                                                *)
(***************************************************************************)
LEMMA TreeFacts ==
  /\ \A t \in Tasks : /\ t \in Bodies /\ t # Client /\ t # Wrapper
                      /\ Awaiter(t) \in Bodies /\ Awaiter(t) \notin Leaves /\ Awaiter(t) # t
                      /\ t # Root => Awaiter(t) \in Tasks
                      /\ Awaiter(t) = Client <=> t = Root
  /\ Root \in Tasks /\ Client \in Bodies /\ Leaves \subseteq Tasks
  /\ \A b \in Bodies : b \in Tasks \/ b = Client
BY TreeAssumption, NamesAssumption, AwaiterType DEF Awaiter, Bodies

LEMMA SilentCallersKeep ==
  ASSUME NEW th, UNCHANGED <<taskVars, body, cts, continuation>>
  PROVE  /\ CallersKeep(th)
         /\ \A a, c : Calls(a, c)' <=> Calls(a, c)
         /\ \A a : Outermost(a)' <=> Outermost(a)
         /\ \A a : FrameCancels(a)' <=> FrameCancels(a)
         /\ \A a : TopCancels(a)' <=> TopCancels(a)
<1>1. \A a, c : Calls(a, c)' <=> Calls(a, c)
  BY DEF Calls, taskVars
<1>2. \A a : Outermost(a)' <=> Outermost(a)
  BY DEF Outermost, taskVars
<1>3. \A a : FrameCancels(a)' <=> FrameCancels(a)
  BY DEF FrameCancels, taskVars
<1>4. \A a : TopCancels(a)' <=> TopCancels(a)
  BY DEF TopCancels, Waits, Gone, SeesCancel, taskVars
<1> QED BY <1>1, <1>2, <1>3, <1>4 DEF CallersKeep

\* A step that changes no field of a task, body or wrapper.
LEMMA SilentBodies ==
  ASSUME NEW th, SinceCancel(th),
         UNCHANGED <<taskVars, body, underlying, cts, continuation>>,
         \A b \in Bodies : body[b] = "running" => Runs(th, {"getResult", "setException"}, b)',
         \A t \in Tasks : body[t] = "suspended" /\ Cancelling(th, t) => Cancelling(th, t)',
         body[Client] = "suspended" =>
           stack'[th] # <<>> /\ (stack'[th][1].pc = "cancel" => stack[th][1].pc = "cancel")
  PROVE  EveryBodyCancels(th)'
<1>1. \A t \in Tasks : TaskCancels(th, t)'
  BY DEF SinceCancel, EveryBodyCancels, TaskCancels, Waits, Gone, taskVars
<1>2. \A l \in Leaves : LeafCancels(l)'
  BY DEF SinceCancel, EveryBodyCancels, LeafCancels, taskVars
<1>3. ClientCancels(th)'
  BY DEF SinceCancel, EveryBodyCancels, ClientCancels, taskVars
<1> QED BY <1>1, <1>2, <1>3 DEF EveryBodyCancels

\* Nobody's body runs but the one on top.
LEMMA SinceRuns ==
  ASSUME NEW th, SinceCancel(th), stack[th] # <<>>
  PROVE  \A b \in Bodies : body[b] = "running" =>
           Top(th).pc \in {"getResult", "setException"} /\ Top(th).task = b
BY DEF SinceCancel, EveryBodyCancels, Runs

LEMMA DescendingSteps ==
  ASSUME TypeOK, MachineInv, NEW th \in Threads, SinceCancel(th),
         Cancel(th) \/ CancelNeedsMachine(th) \/ CancelChecks(th)
  PROVE  SinceCancel(th)'
<1>1. stack[th] # <<>>
  BY DEF Cancel, CancelNeedsMachine, CancelChecks, At
<1>10. Top(th).pc \in {"cancel", "cancelMachine", "cancelCheck"}
  BY DEF Cancel, CancelNeedsMachine, CancelChecks, At
<1>2. PICK n \in Nat \ {0}, f \in Frames :
         /\ n = Len(stack[th]) /\ f = Top(th) /\ f = stack[th][n]
         /\ TopCancels(f) /\ FrameCancels(f)
         /\ n = 1 => Outermost(f)
         /\ n # 1 => \E a \in Frames : a = stack[th][n - 1] /\ Calls(a, f)
         /\ f.pc \in {"cancel", "cancelMachine", "cancelCheck"}
  BY <1>1, <1>10, SinceFrame
<1>3. PICK t \in Tasks : t = f.task
  BY <1>2, FrameTypes DEF TaskPC
<1>4. /\ UNCHANGED <<taskVars, bodyVars, wrapperVars, ghostVars>>
      /\ \A b \in Bodies : body[b] # "running"
      /\ TaskCancels(th, t) /\ ClientCancels(th) /\ ~raised[th] /\ escaped = {} /\ reentered = {}
  BY <1>1, <1>2, SinceRuns DEF Cancel, CancelNeedsMachine, CancelChecks, SinceCancel, EveryBodyCancels
<1>5. /\ CallersKeep(th)
      /\ \A a, c : Calls(a, c)' <=> Calls(a, c)
      /\ \A a : Outermost(a)' <=> Outermost(a)
      /\ \A a : FrameCancels(a)' <=> FrameCancels(a)
      /\ \A a : TopCancels(a)' <=> TopCancels(a)
  BY <1>4, SilentCallersKeep DEF bodyVars, wrapperVars
<1>6. ASSUME NEW g \in Frames, Goto(th, g), UNCHANGED raised, g.task = t,
             \/ f.pc = "cancel" /\ g.pc = "cancelMachine" /\ state[t] = "Running"
             \/ f.pc = "cancelMachine" /\ g.pc = "cancelSet"
             \/ f.pc = "cancelCheck" /\ g.pc = "cancelNotify"
      PROVE  SinceCancel(th)'
  <2>1. FrameCancels(g)' /\ TopCancels(g)'
    <3>1. FrameCancels(g) /\ TopCancels(g)
      BY <1>2, <1>3, <1>6 DEF FrameCancels, TopCancels
    <3> QED BY <1>5, <3>1
  <2>2. n = 1 => Outermost(g)'
    <3>1. n = 1 => Outermost(g)
      BY <1>2, <1>3, <1>4, <1>6, TreeFacts DEF Outermost, TaskCancels, CancelPC, WokenPC
    <3> QED BY <1>5, <3>1
  <2>3. \A a \in Frames : n # 1 /\ a = stack[th][n - 1] /\ Calls(a, f) => Calls(a, g)'
    <3>1. \A a \in Frames : Calls(a, f) => Calls(a, g)
      BY <1>2, <1>3, <1>6 DEF Calls, CancelPC, WokenPC
    <3> QED BY <1>5, <3>1
  <2>7. /\ g.pc \in ChainPC \ {"cancel"}
        /\ g.pc \in CancelPC => f.pc \in CancelPC /\ f.task = g.task
    BY <1>2, <1>3, <1>6 DEF ChainPC, CancelPC
  <2>8. Replaces(th, g)
    BY <1>2, <1>5, <2>1, <2>2, <2>3, <2>7 DEF Replaces
  <2>4. /\ CancelChain(th)' /\ EveryFrameCancels(th)' /\ stack'[th] # <<>>
        /\ \A b : Cancelling(th, b) =>
              Cancelling(th, b)' \/ (Top(th).task = b /\ Top(th).pc \in CancellingPC)
        /\ stack'[th][1].pc # "cancel"
    BY <1>1, <1>6, <2>1, <2>7, <2>8, SinceGoto
  <2>5. \A b \in Tasks : body[b] = "suspended" /\ Cancelling(th, b) => Cancelling(th, b)'
    BY <1>2, <1>3, <1>6, <2>4 DEF TopCancels, Gone, CancellingPC
  <2>6. EveryBodyCancels(th)'
    BY <1>4, <2>4, <2>5, SilentBodies DEF bodyVars, wrapperVars
  <2> QED BY <1>4, <1>6, <2>4, <2>6 DEF SinceCancel, ghostVars
<1>7. CASE Cancel(th)
  <2>1. f.pc = "cancel"
    BY <1>2, <1>7 DEF Cancel, At
  <2>2. CASE state[t] \in Terminal
    <3>1. Return(th) /\ UNCHANGED raised
      BY <1>2, <1>3, <1>7, <2>2 DEF Cancel
    <3>2. n = 1 /\ t = Root
      BY <1>2, <1>3, <2>1, <2>2 DEF TopCancels, Calls, Terminal, CancelPC, WokenPC
    <3>6. ReturnsWell(th)
      BY <1>2, <1>5, <3>2 DEF ReturnsWell
    <3>3. /\ CancelChain(th)' /\ EveryFrameCancels(th)' /\ (stack'[th] = <<>> <=> Len(stack[th]) = 1)
          /\ \A b : Cancelling(th, b) =>
                Cancelling(th, b)' \/ (Top(th).task = b /\ Top(th).pc \in CancellingPC)
      BY <1>1, <3>1, <3>6, SinceReturn
    <3>4. body[Client] # "suspended"
      BY <1>2, <1>4, <2>1, <2>2, <3>2 DEF ClientCancels, Terminal
    <3>5. EveryBodyCancels(th)'
      BY <1>2, <1>4, <2>1, <3>3, <3>4, SilentBodies DEF CancellingPC, bodyVars, wrapperVars
    <3> QED BY <1>4, <3>1, <3>3, <3>5 DEF SinceCancel, ghostVars
  <2>3. CASE state[t] \notin Terminal
    <3>1. state[t] = "Running"
      BY <1>2, <1>3, <2>1, <2>3 DEF TopCancels
    <3>2. PICK g \in Frames : g = Frame("cancelMachine", t, None) /\ Goto(th, g) /\ UNCHANGED raised
      BY <1>2, <1>3, <1>7, <2>3, NewFrame DEF Cancel, TaskPC
    <3> QED BY <1>6, <2>1, <3>1, <3>2 DEF Frame
  <2> QED BY <2>2, <2>3
<1>8. CASE CancelNeedsMachine(th)
  <2>1. f.pc = "cancelMachine" /\ stateMachine[t]
    BY <1>2, <1>3, <1>8 DEF CancelNeedsMachine, At, TopCancels, MachineInv, MachineKeptWhileRunning, Terminal
  <2>2. PICK g \in Frames : g = Frame("cancelSet", t, None) /\ Goto(th, g) /\ UNCHANGED raised
    BY <1>2, <1>3, <1>8, <2>1, NewFrame DEF CancelNeedsMachine, TaskPC
  <2> QED BY <1>6, <2>1, <2>2 DEF Frame
<1>9. CASE CancelChecks(th)
  <2>1. f.pc = "cancelCheck" /\ ~stateMachine[t]
    BY <1>2, <1>3, <1>9 DEF CancelChecks, At, TopCancels, Gone
  <2>2. PICK g \in Frames : g = Frame("cancelNotify", t, None) /\ Goto(th, g) /\ UNCHANGED raised
    BY <1>2, <1>3, <1>9, <2>1, NewFrame DEF CancelChecks, TaskPC
  <2> QED BY <1>6, <2>1, <2>2 DEF Frame
<1> QED BY <1>7, <1>8, <1>9

\* State = Cancelled: the awaiter's task was cancelled before.
LEMMA CancelSetsSince ==
  ASSUME TypeOK, NEW th \in Threads, SinceCancel(th), CancelSetsState(th)
  PROVE  SinceCancel(th)'
<1>1. stack[th] # <<>> /\ Top(th).pc = "cancelSet" /\ ~raised[th]
  BY DEF CancelSetsState, At
<1>2. PICK n \in Nat \ {0}, f \in Frames :
         /\ n = Len(stack[th]) /\ f = Top(th) /\ f.pc = "cancelSet"
         /\ TopCancels(f) /\ FrameCancels(f)
         /\ n = 1 => Outermost(f)
         /\ n # 1 => \E a \in Frames : a = stack[th][n - 1] /\ Calls(a, f) /\ FrameCancels(a)
  BY <1>1, SinceFrame
<1>3. PICK t \in Tasks : t = f.task
  BY <1>2, FrameTypes DEF TaskPC
<1>4. PICK g \in Frames : g = Frame("cancelInner", t, None) /\ Goto(th, g)
  BY <1>2, <1>3, NewFrame DEF CancelSetsState, TaskPC
<1>5. /\ state'[t] = "Cancelled" /\ \A u \in Tasks : u # t => state'[u] = state[u]
      /\ \A u : state[u] = "Cancelled" => state'[u] = "Cancelled"
      /\ UNCHANGED <<stateMachine, onCompleted, awaitingTask, body, cts, continuation, underlying,
                     raised, escaped, reentered>>
  BY <1>2, <1>3 DEF CancelSetsState, TypeOK, bodyVars, wrapperVars, ghostVars
<1>6. /\ \A b \in Bodies : body[b] # "running"
      /\ \A u \in Tasks : TaskCancels(th, u)
      /\ \A l \in Leaves : LeafCancels(l)
      /\ ClientCancels(th) /\ ~raised[th] /\ escaped = {} /\ reentered = {}
  BY <1>1, SinceRuns DEF SinceCancel, EveryBodyCancels
<1>7. state[t] = "Running" /\ Waits(t) /\ onCompleted[t] /\ body[t] = "suspended"
  BY <1>2, <1>3, <1>6 DEF TopCancels, TaskCancels, Waits
<1>8. t = Root \/ (Awaiter(t) \in Tasks /\ state[Awaiter(t)] = "Cancelled")
  BY <1>2, <1>3, TreeFacts DEF Outermost, Calls, CancelPC, WokenPC, FrameCancels
<1>9. Waits(t)'
  <2>1. awaitingTask[t] = Wrapper \/ (awaitingTask[t] \in Tasks /\ awaitingTask[t] # t)
    BY <1>7, TreeFacts DEF TypeOK, Awaitable
  <2> QED BY <1>5, <1>7, <2>1 DEF Waits
<1>10. Replaces(th, g) /\ TopCancels(g)' /\ g.pc \in ChainPC \ {"cancel"} /\ g.task = t /\ g.pc = "cancelInner"
  <2>1. CallersKeep(th)
    BY <1>5 DEF CallersKeep, Calls, Outermost, FrameCancels
  <2>2. /\ n = 1 => Outermost(g)'
        /\ \A a \in Frames : Calls(a, f) => Calls(a, g)'
    BY <1>2, <1>3, <1>4, <1>5 DEF Outermost, Calls, CancelPC, WokenPC, Frame
  <2>3. FrameCancels(g)' /\ TopCancels(g)'
    BY <1>4, <1>5, <1>7, <1>9 DEF FrameCancels, TopCancels, Frame
  <2>4. g.task = t /\ g.pc = "cancelInner"
    BY <1>4 DEF Frame
  <2> QED BY <1>2, <1>3, <2>1, <2>2, <2>3, <2>4 DEF Replaces, CancelPC, ChainPC
<1>11. /\ CancelChain(th)' /\ EveryFrameCancels(th)' /\ stack'[th] # <<>>
       /\ \A b : Cancelling(th, b) =>
             Cancelling(th, b)' \/ (Top(th).task = b /\ Top(th).pc \in CancellingPC)
       /\ \A b : g.task = b /\ g.pc \in CancellingPC => Cancelling(th, b)'
       /\ stack'[th][1].pc # "cancel"
  BY <1>1, <1>4, <1>10, SinceGoto
<1>12. ASSUME NEW u \in Tasks PROVE TaskCancels(th, u)'
  <2>1. CASE u = t
    BY <1>5, <1>7, <1>8, <1>9, <1>10, <1>11, <2>1 DEF TaskCancels, CancellingPC
  <2>2. CASE u # t
    <3>1. TaskCancels(th, u) /\ state'[u] = state[u]
      BY <1>5, <1>6, <2>2
    <3>2. Cancelling(th, u) => Cancelling(th, u)'
      BY <1>1, <1>11 DEF CancellingPC
    <3>3. state[u] = "Running" => Waits(u)'
      <4> SUFFICES ASSUME state[u] = "Running" PROVE Waits(u)'
        OBVIOUS
      <4>1. Waits(u) /\ awaitingTask[u] \in Awaitable(u)
        BY <3>1, TreeFacts DEF TaskCancels, Waits, TypeOK
      <4>2. awaitingTask[u] # t
        BY <1>8, <4>1, TreeFacts DEF Awaitable
      <4> QED BY <1>5, <4>1, <4>2, TreeFacts DEF Waits, Awaitable
    <3> QED BY <1>5, <3>1, <3>2, <3>3 DEF TaskCancels, Gone
  <2> QED BY <2>1, <2>2
<1>13. \A l \in Leaves : LeafCancels(l)'
  BY <1>5, <1>6 DEF LeafCancels
<1>14. ClientCancels(th)'
  BY <1>5, <1>6, <1>11, TreeFacts DEF ClientCancels
<1> QED BY <1>5, <1>6, <1>11, <1>12, <1>13, <1>14 DEF SinceCancel, EveryBodyCancels

\* The steps of the Cancel that change neither a task nor a body nor a wrapper.
LEMMA InnerAndNotify ==
  ASSUME TypeOK, NEW th \in Threads, SinceCancel(th),
         CancelInner(th) \/ RunCallOnCompleted(th)
  PROVE  SinceCancel(th)'
<1>1. stack[th] # <<>>
  BY DEF CancelInner, RunCallOnCompleted, At
<1>2. PICK n \in Nat \ {0}, f \in Frames :
         /\ n = Len(stack[th]) /\ f = Top(th) /\ f.pc \in {"cancelInner", "cancelNotify"}
         /\ TopCancels(f) /\ FrameCancels(f)
         /\ n = 1 => Outermost(f)
         /\ n # 1 => \E a \in Frames : a = stack[th][n - 1] /\ Calls(a, f) /\ FrameCancels(a)
  <2>1. Top(th).pc \in {"cancelInner", "notify", "cancelNotify"}
    BY DEF CancelInner, RunCallOnCompleted, At
  <2>2. "notify" \notin ChainPC
    BY DEF ChainPC, CancelPC, WokenPC
  <2> QED BY <1>1, <2>1, <2>2, SinceFrame
<1>3. PICK t \in Tasks : t = f.task
  BY <1>2, FrameTypes DEF TaskPC
<1>4. /\ UNCHANGED <<taskVars, bodyVars, wrapperVars, raised, ghostVars>>
      /\ \A b \in Bodies : body[b] # "running"
      /\ TaskCancels(th, t) /\ ClientCancels(th) /\ ~raised[th] /\ escaped = {} /\ reentered = {}
  BY <1>1, <1>2, SinceRuns DEF CancelInner, RunCallOnCompleted, SinceCancel, EveryBodyCancels
<1>5. /\ CallersKeep(th)
      /\ \A a, c : Calls(a, c)' <=> Calls(a, c)
      /\ \A a : Outermost(a)' <=> Outermost(a)
      /\ \A a : FrameCancels(a)' <=> FrameCancels(a)
      /\ \A a : TopCancels(a)' <=> TopCancels(a)
  BY <1>4, SilentCallersKeep DEF bodyVars, wrapperVars
<1>6. CASE CancelInner(th)
  <2>1. f.pc = "cancelInner" /\ Waits(t) /\ body[t] = "suspended" /\ awaitingTask[t] \in Awaitable(t)
    BY <1>2, <1>3, <1>6, TreeFacts DEF CancelInner, At, TopCancels, Waits, TypeOK
  <2>2. PICK c \in Frames : c = Frame("cancelCheck", t, None)
    BY NewFrame DEF TaskPC
  <2>3. Replaces(th, c) /\ c.pc = "cancelCheck" /\ c.task = t
    <3>1. c.pc = "cancelCheck" /\ c.task = t
      BY <2>2 DEF Frame
    <3>2. /\ n = 1 => Outermost(c)
          /\ \A a \in Frames : Calls(a, f) => Calls(a, c)
          /\ FrameCancels(c)
      BY <1>2, <1>3, <2>1, <3>1 DEF Outermost, Calls, FrameCancels, CancelPC, WokenPC
    <3> QED BY <1>2, <1>3, <1>5, <2>1, <3>1, <3>2 DEF Replaces, CancelPC
  <2>4. ASSUME NEW g \in Frames, Call(th, c, g), g.pc \in {"cancel", "wrapperCancel"},
               g.pc = "cancel" => state[g.task] = "Running" /\ g.task # t,
               Calls(c, g), TopCancels(g)
        PROVE  SinceCancel(th)'
    <3>1. \A i \in 1 .. n - 1 : stack[th][i].pc \in CancelPC => state[stack[th][i].task] = "Cancelled"
      <4>1. n = Len(stack[th])
        BY <1>2
      <4>2. /\ \A i \in 1 .. n - 1 : stack[th][i].pc \in {"cancelCheck", "wrapperOnCompleted"}
            /\ \A i \in 1 .. n : FrameCancels(stack[th][i])
        BY <1>1, <4>1, SinceTop DEF SinceCancel, EveryFrameCancels
      <4>3. \A i \in 1 .. n - 1 : i \in 1 .. n
        BY <1>2
      <4> QED BY <4>2, <4>3 DEF CancelPC, FrameCancels
    <3>2. g.pc \in CancelPC =>
            /\ c.task # g.task
            /\ \A i \in 1 .. Len(stack[th]) - 1 :
                 stack[th][i].pc \in CancelPC => stack[th][i].task # g.task
      BY <1>2, <2>3, <2>4, <3>1 DEF CancelPC
    <3>3. FrameCancels(g)' /\ TopCancels(g)' /\ Calls(c, g)' /\ g.pc \in ChainPC
      BY <1>5, <2>4 DEF FrameCancels, ChainPC, CancelPC
    <3>4. /\ CancelChain(th)' /\ EveryFrameCancels(th)' /\ stack'[th] # <<>>
          /\ \A b : Cancelling(th, b) =>
                Cancelling(th, b)' \/ (Top(th).task = b /\ Top(th).pc \in CancellingPC)
          /\ \A b : c.task = b /\ c.pc \in CancellingPC => Cancelling(th, b)'
          /\ stack'[th][1].pc # "cancel"
      BY <1>1, <2>3, <2>4, <3>2, <3>3, SinceCall
    <3>5. \A b \in Tasks : body[b] = "suspended" /\ Cancelling(th, b) => Cancelling(th, b)'
      BY <1>2, <1>3, <2>3, <3>4 DEF CancellingPC
    <3>6. EveryBodyCancels(th)'
      BY <1>4, <3>4, <3>5, SilentBodies DEF bodyVars, wrapperVars
    <3> QED BY <1>4, <3>4, <3>6 DEF SinceCancel, ghostVars
  <2>5. CASE awaitingTask[t] \in Tasks
    <3>1. PICK u \in Tasks : u = awaitingTask[t] /\ Awaiter(u) = t /\ u # t /\ u # Root /\ u # Wrapper
                              /\ state[u] = "Running"
      BY <2>1, <2>5, TreeFacts DEF Awaitable, Waits
    <3>2. PICK g \in Frames : g = Frame("cancel", u, None)
      BY NewFrame DEF TaskPC
    <3>3. Call(th, c, g)
      BY <1>2, <1>3, <1>6, <2>2, <3>1, <3>2, NamesAssumption DEF CancelInner
    <3>4. g.pc = "cancel" /\ g.task = u
      BY <3>2 DEF Frame
    <3>5. Calls(c, g) /\ TopCancels(g)
      BY <2>1, <2>3, <3>1, <3>4 DEF Calls, TopCancels, CancelPC
    <3> QED BY <2>4, <3>1, <3>3, <3>4, <3>5
  <2>6. CASE awaitingTask[t] \notin Tasks
    <3>1. awaitingTask[t] = Wrapper /\ t \in Leaves
      BY <2>1, <2>6 DEF Awaitable
    <3>2. PICK g \in Frames : g = Frame("wrapperCancel", t, None)
      BY <3>1, NewFrame DEF LeafPC
    <3>3. Call(th, c, g)
      BY <1>2, <1>3, <1>6, <2>2, <3>1, <3>2, NamesAssumption DEF CancelInner
    <3>4. g.pc = "wrapperCancel" /\ g.task = t
      BY <3>2 DEF Frame
    <3>5. Calls(c, g) /\ TopCancels(g)
      BY <2>1, <2>3, <3>1, <3>4 DEF Calls, TopCancels
    <3> QED BY <2>4, <3>3, <3>4, <3>5
  <2> QED BY <2>5, <2>6
<1>7. CASE RunCallOnCompleted(th)
  <2>1. f.pc = "cancelNotify" /\ onCompleted[t] /\ state[t] = "Cancelled"
    BY <1>2, <1>3, <1>7 DEF RunCallOnCompleted, At, FrameCancels
  <2>2. PICK g \in Frames : g = Frame("resume", Awaiter(t), None) /\ Goto(th, g)
    BY <1>2, <1>3, <1>7, <2>1, TreeFacts, NewFrame DEF RunCallOnCompleted
  <2>3. g.pc = "resume" /\ g.task = Awaiter(t)
    BY <2>2 DEF Frame
  <2>4. /\ n = 1 => Outermost(g) /\ body[Awaiter(t)] = "suspended" /\ awaitingTask[Awaiter(t)] = t
        /\ n # 1 => body[Awaiter(t)] = "suspended" /\ awaitingTask[Awaiter(t)] = t
        /\ \A a \in Frames : Calls(a, f) => Calls(a, g)
    BY <1>2, <1>3, <2>1, <2>3, TreeFacts DEF Outermost, Calls, CancelPC, WokenPC
  <2>5. Replaces(th, g) /\ TopCancels(g)' /\ g.pc \in ChainPC \ {"cancel"}
    <3>1. FrameCancels(g) /\ TopCancels(g)
      BY <2>1, <2>3, <2>4, TreeFacts DEF FrameCancels, TopCancels, SeesCancel
    <3> QED BY <1>2, <1>5, <2>3, <2>4, <3>1 DEF Replaces, CancelPC, ChainPC, WokenPC
  <2>6. /\ CancelChain(th)' /\ EveryFrameCancels(th)' /\ stack'[th] # <<>>
        /\ \A b : Cancelling(th, b) =>
             Cancelling(th, b)' \/ (Top(th).task = b /\ Top(th).pc \in CancellingPC)
        /\ stack'[th][1].pc # "cancel"
    BY <1>1, <2>2, <2>5, SinceGoto
  <2>7. \A b \in Tasks : body[b] = "suspended" /\ Cancelling(th, b) => Cancelling(th, b)'
    BY <1>2, <2>1, <2>6 DEF CancellingPC
  <2>8. EveryBodyCancels(th)'
    BY <1>4, <2>6, <2>7, SilentBodies DEF bodyVars, wrapperVars
  <2> QED BY <1>4, <2>6, <2>8 DEF SinceCancel, ghostVars
<1> QED BY <1>6, <1>7

\* A woken body or wrapper runs for its caller, the client for nobody.
LEMMA WokenByCaller ==
  ASSUME TypeOK, NEW th \in Threads, SinceCancel(th), stack[th] # <<>>,
         Top(th).pc \in WokenPC \cup {"wrapperCancel"}
  PROVE  \E n \in Nat \ {0}, f \in Frames :
           /\ n = Len(stack[th]) /\ f = Top(th) /\ f.task \in Bodies
           /\ TopCancels(f) /\ FrameCancels(f)
           /\ n = 1 => Outermost(f)
           /\ n = 1 /\ f.pc # "wrapperOnCompleted" => f.task = Client
           /\ n # 1 => /\ f.task \in Tasks
                       /\ \E a \in Frames : /\ a = stack[th][n - 1] /\ a.task = f.task
                                             /\ Calls(a, f) /\ FrameCancels(a)
<1>1. PICK n \in Nat \ {0}, f \in Frames :
         /\ n = Len(stack[th]) /\ f = Top(th) /\ f.task \in Bodies
         /\ TopCancels(f) /\ FrameCancels(f)
         /\ n = 1 => Outermost(f)
         /\ n # 1 => \E a \in Frames : a = stack[th][n - 1] /\ Calls(a, f) /\ FrameCancels(a)
  BY SinceFrame
<1>2. n = 1 /\ f.pc # "wrapperOnCompleted" => f.task = Client
  <2>1. f.pc \notin CancelPC
    BY <1>1 DEF CancelPC, WokenPC
  <2> QED BY <1>1, <2>1 DEF Outermost
<1>3. ASSUME NEW a \in Frames, Calls(a, f) PROVE a.task = f.task /\ f.task \in Tasks
  <2>1. f.pc \notin CancelPC
    BY <1>1 DEF CancelPC, WokenPC
  <2>2. a.pc \in {"cancelCheck", "wrapperOnCompleted"} /\ a.task = f.task
    BY <1>3, <2>1 DEF Calls
  <2> QED BY <1>3, <2>2, FrameTypes, TreeFacts DEF TaskPC, LeafPC
<1> QED BY <1>1, <1>2, <1>3

\* Callers of frames below the running one wait for other bodies than its.
LEMMA CallersWaitElsewhere ==
  ASSUME TypeOK, NEW th \in Threads, SinceCancel(th), stack[th] # <<>>,
         Top(th).pc \in WokenPC, NEW i \in 1 .. Len(stack[th]) - 2,
         NEW a \in Frames, NEW c \in Frames,
         a = stack[th][i], c = stack[th][i + 1], a.pc = "cancelCheck", c.pc \in CancelPC,
         awaitingTask[a.task] = c.task
  PROVE  a.task # Top(th).task
<1>1. PICK n \in Nat \ {0}, f \in Frames :
         /\ n = Len(stack[th]) /\ f = Top(th)
         /\ n # 1 => \E d \in Frames : d = stack[th][n - 1] /\ d.task = f.task /\ Calls(d, f)
  BY WokenByCaller
<1>2. i \in 1 .. n - 2 /\ n # 1 /\ i # n - 1 /\ i \in 1 .. n /\ n - 1 \in 1 .. n
  BY <1>1
<1>3. PICK d \in Frames : d = stack[th][n - 1] /\ d.task = f.task /\ Calls(d, f)
  BY <1>1, <1>2
<1>4. CASE d.pc = "cancelCheck"
  BY <1>1, <1>2, <1>3, <1>4 DEF SinceCancel, CancelChain, CancelPC
<1>5. CASE d.pc # "cancelCheck"
  <2>1. d.pc = "wrapperOnCompleted"
    BY <1>3, <1>5 DEF Calls
  <2>2. f.task \in Leaves
    BY <1>3, <2>1, FrameTypes DEF LeafPC
  <2>3. a.task \in Tasks /\ c.task \in Tasks
    BY FrameTypes DEF TaskPC, CancelPC
  <2>4. awaitingTask[a.task] \in Awaitable(a.task) \cup {None}
    BY <2>3, TreeFacts DEF TypeOK
  <2> QED BY <1>1, <2>2, <2>3, <2>4, NamesAssumption DEF Awaitable
<1> QED BY <1>4, <1>5

\* MoveNext of the body that the Cancel has woken.
LEMMA ResumeSince ==
  ASSUME TypeOK, NEW th \in Threads, SinceCancel(th), Resume(th)
  PROVE  SinceCancel(th)'
<1>1. stack[th] # <<>> /\ Top(th).pc = "resume" /\ Top(th).pc \in WokenPC
  BY DEF Resume, At, WokenPC
<1>2. PICK n \in Nat \ {0}, f \in Frames :
         /\ n = Len(stack[th]) /\ f = Top(th) /\ f.task \in Bodies /\ f.pc = "resume"
         /\ TopCancels(f)
         /\ n = 1 => Outermost(f)
         /\ n # 1 => f.task \in Tasks
  BY <1>1, WokenByCaller
<1>3. PICK b \in Bodies : b = f.task
  BY <1>2
<1>4. /\ body[b] = "suspended" /\ awaitingTask[b] \in Awaitable(b) /\ SeesCancel(b, awaitingTask[b])
      /\ b \notin Tasks => n = 1
  BY <1>2, <1>3 DEF TopCancels, TypeOK
<1>5. PICK g \in Frames : g = Frame("getResult", b, awaitingTask[b]) /\ Goto(th, g)
  <2>1. Frame("getResult", b, awaitingTask[b]) \in Frames
    BY <1>4, NewFrame DEF AwaitPC
  <2> QED BY <1>2, <1>3, <1>4, <2>1 DEF Resume
<1>6. g.pc = "getResult" /\ g.task = b /\ g.arg = awaitingTask[b]
  BY <1>5 DEF Frame
<1>7. /\ body'[b] = "running" /\ \A d \in Bodies : d # b => body'[d] = body[d]
      /\ UNCHANGED <<state, stateMachine, onCompleted, awaitingTask, cts, continuation, underlying,
                     raised, escaped, reentered>>
  BY <1>2, <1>3, <1>4 DEF Resume, TypeOK, taskVars, wrapperVars
<1>8. /\ \A d \in Bodies : body[d] # "running"
      /\ \A u \in Tasks : TaskCancels(th, u)
      /\ \A l \in Leaves : LeafCancels(l)
      /\ ClientCancels(th) /\ ~raised[th] /\ escaped = {} /\ reentered = {}
  BY <1>1, SinceRuns DEF SinceCancel, EveryBodyCancels
<1>9. \A i \in 1 .. Len(stack[th]) - 2 : \A a, c \in Frames :
        a = stack[th][i] /\ c = stack[th][i + 1] /\ Calls(a, c) => Calls(a, c)'
  <2> SUFFICES ASSUME NEW i \in 1 .. Len(stack[th]) - 2, NEW a \in Frames, NEW c \in Frames,
                      a = stack[th][i], c = stack[th][i + 1], Calls(a, c)
               PROVE  Calls(a, c)'
    OBVIOUS
  <2>1. CASE a.pc = "cancelCheck" /\ c.pc \in CancelPC
    <3>1. awaitingTask[a.task] = c.task /\ body[a.task] = "suspended" /\ c.task # Root /\ Awaiter(c.task) = a.task
      BY <2>1 DEF Calls, CancelPC, WokenPC
    <3>2. a.task # b
      BY <1>1, <1>2, <1>3, <2>1, <3>1, CallersWaitElsewhere
    <3>3. a.task \in Bodies
      BY <2>1, FrameTypes
    <3> QED BY <1>7, <2>1, <3>1, <3>2, <3>3 DEF Calls
  <2>2. CASE ~(a.pc = "cancelCheck" /\ c.pc \in CancelPC)
    BY <2>2 DEF Calls
  <2> QED BY <2>1, <2>2
<1>10. Replaces(th, g) /\ TopCancels(g)' /\ g.pc \in ChainPC \ {"cancel"}
  <2>1. CallersKeep(th)
    <3>1. \A a \in Frames :
            Len(stack[th]) # 1 /\ a = stack[th][1] /\ Outermost(a) => Outermost(a)'
      BY <1>2, <1>3, <1>7, TreeFacts DEF Outermost
    <3>2. \A a \in Frames : FrameCancels(a) => FrameCancels(a)'
      BY <1>7 DEF FrameCancels
    <3> QED BY <1>9, <3>1, <3>2 DEF CallersKeep
  <2>2. /\ n = 1 => Outermost(g)'
        /\ \A a \in Frames : Calls(a, f) => Calls(a, g)'
    BY <1>2, <1>3, <1>6 DEF Outermost, Calls, CancelPC, WokenPC
  <2>3. FrameCancels(g)' /\ TopCancels(g)'
    BY <1>4, <1>6, <1>7 DEF FrameCancels, TopCancels, SeesCancel
  <2> QED BY <1>2, <1>6, <2>1, <2>2, <2>3 DEF Replaces, CancelPC, WokenPC, ChainPC
<1>11. /\ CancelChain(th)' /\ EveryFrameCancels(th)' /\ stack'[th] # <<>>
       /\ \A pcs, d : Runs(th, pcs, d)' <=> g.pc \in pcs /\ g.task = d
       /\ \A d : Cancelling(th, d) =>
             Cancelling(th, d)' \/ (Top(th).task = d /\ Top(th).pc \in CancellingPC)
       /\ stack'[th][1].pc # "cancel"
  BY <1>1, <1>5, <1>10, SinceGoto
<1>12. b \in Tasks => state[b] # "Running"
  BY <1>4, <1>8 DEF TaskCancels, Waits, SeesCancel
<1>13. ASSUME NEW u \in Tasks PROVE TaskCancels(th, u)'
  <2>1. TaskCancels(th, u) /\ u \in Bodies /\ Awaiter(u) \in Bodies
    BY <1>8, TreeFacts
  <2>2. Cancelling(th, u) => Cancelling(th, u)'
    BY <1>1, <1>11 DEF CancellingPC
  <2>3. CASE state[u] = "Running"
    <3>1. u # b /\ Waits(u) /\ Waits(u)'
      BY <1>7, <1>12, <2>1, <2>3 DEF TaskCancels, Waits
    <3>2. Awaiter(u) # b
      BY <1>4, <2>1, <2>3, TreeFacts DEF TaskCancels, SeesCancel
    <3> QED BY <1>7, <2>1, <2>3, <3>1, <3>2 DEF TaskCancels, Waits, Terminal
  <2>4. CASE state[u] # "Running"
    <3>1. CASE u = b
      BY <1>4, <1>7, <2>1, <2>4, <3>1 DEF TaskCancels
    <3>2. CASE u # b
      BY <1>7, <2>1, <2>2, <2>4, <3>2 DEF TaskCancels, Gone
    <3> QED BY <3>1, <3>2
  <2> QED BY <2>3, <2>4
<1>14. ASSUME NEW l \in Leaves PROVE LeafCancels(l)'
  <2>1. LeafCancels(l) /\ l \in Bodies
    BY <1>8, TreeFacts
  <2>2. l = b => cts[l] /\ ~continuation[l]
    BY <1>4 DEF SeesCancel, Awaitable
  <2> QED BY <1>7, <2>1, <2>2 DEF LeafCancels
<1>15. ClientCancels(th)'
  BY <1>7, <1>8, <1>11, TreeFacts DEF ClientCancels
<1>16. \A d \in Bodies : body'[d] = "running" => Runs(th, {"getResult", "setException"}, d)'
  BY <1>6, <1>7, <1>8, <1>11
<1> QED BY <1>7, <1>8, <1>11, <1>13, <1>14, <1>15, <1>16 DEF SinceCancel, EveryBodyCancels

\* The body finds the cancellation, in the task or in the wrapper.
LEMMA GetResultSince ==
  ASSUME TypeOK, NEW th \in Threads, SinceCancel(th), GetResult(th)
  PROVE  SinceCancel(th)'
<1>1. stack[th] # <<>> /\ Top(th).pc = "getResult" /\ Top(th).pc \in WokenPC
  BY DEF GetResult, At, WokenPC
<1>2. PICK n \in Nat \ {0}, f \in Frames :
         /\ n = Len(stack[th]) /\ f = Top(th) /\ f.task \in Bodies /\ f.pc = "getResult"
         /\ TopCancels(f)
         /\ n = 1 => Outermost(f)
  BY <1>1, WokenByCaller
<1>3. /\ UNCHANGED <<taskVars, bodyVars, wrapperVars, raised, ghostVars>>
      /\ \A d \in Bodies : body[d] = "running" => d = f.task
      /\ ClientCancels(th) /\ ~raised[th] /\ escaped = {} /\ reentered = {}
  BY <1>1, <1>2, SinceRuns DEF GetResult, SinceCancel, EveryBodyCancels
<1>4. /\ CallersKeep(th)
      /\ \A a, c : Calls(a, c)' <=> Calls(a, c)
      /\ \A a : Outermost(a)' <=> Outermost(a)
      /\ \A a : FrameCancels(a)' <=> FrameCancels(a)
      /\ \A a : TopCancels(a)' <=> TopCancels(a)
  BY <1>3, SilentCallersKeep DEF bodyVars, wrapperVars
<1>5. /\ body[f.task] = "running" /\ f.arg \in Awaitable(f.task) /\ SeesCancel(f.task, f.arg)
      /\ Result(f.task, f.arg) = "RustCancellationException"
  <2>1. body[f.task] = "running" /\ f.arg \in Awaitable(f.task) /\ SeesCancel(f.task, f.arg)
    BY <1>2, FrameTypes DEF TopCancels, AwaitPC
  <2> QED BY <2>1 DEF SeesCancel, Result
<1>6. PICK g \in Frames : g = Frame("setException", f.task, "RustCancellationException") /\ Goto(th, g)
  <2>1. "RustCancellationException" # None => Goto(th, Frame("setException", f.task, "RustCancellationException"))
    BY <1>2, <1>5 DEF GetResult, Catch
  <2> QED BY <1>2, <2>1, NewFrame, NullAssumption DEF Exceptions
<1>7. g.pc = "setException" /\ g.task = f.task /\ g.arg = "RustCancellationException"
  BY <1>6 DEF Frame
<1>8. Replaces(th, g) /\ TopCancels(g)' /\ g.pc \in ChainPC \ {"cancel"}
  <2>1. /\ n = 1 => Outermost(g)
        /\ \A a \in Frames : Calls(a, f) => Calls(a, g)
        /\ FrameCancels(g)
    BY <1>2, <1>7 DEF Outermost, Calls, FrameCancels, CancelPC, WokenPC
  <2>2. TopCancels(g)
    BY <1>5, <1>7 DEF TopCancels, Awaitable
  <2> QED BY <1>2, <1>4, <1>7, <2>1, <2>2 DEF Replaces, CancelPC, WokenPC, ChainPC
<1>9. /\ CancelChain(th)' /\ EveryFrameCancels(th)' /\ stack'[th] # <<>>
      /\ \A pcs, d : Runs(th, pcs, d)' <=> g.pc \in pcs /\ g.task = d
      /\ \A d : Cancelling(th, d) =>
            Cancelling(th, d)' \/ (Top(th).task = d /\ Top(th).pc \in CancellingPC)
      /\ stack'[th][1].pc # "cancel"
  BY <1>1, <1>6, <1>8, SinceGoto
<1>10. /\ \A d \in Bodies : body[d] = "running" => Runs(th, {"getResult", "setException"}, d)'
       /\ \A d \in Tasks : Cancelling(th, d) => Cancelling(th, d)'
  BY <1>1, <1>3, <1>7, <1>9 DEF CancellingPC
<1>11. EveryBodyCancels(th)'
  BY <1>3, <1>9, <1>10, SilentBodies DEF bodyVars, wrapperVars
<1> QED BY <1>3, <1>9, <1>11 DEF SinceCancel, ghostVars

\* The cancelled body ends, and so does the client.
LEMMA EndsSince ==
  ASSUME TypeOK, NEW th \in Threads, SinceCancel(th), ClientEnds(th) \/ SetException(th)
  PROVE  SinceCancel(th)'
<1>1. stack[th] # <<>> /\ Top(th).pc = "setException" /\ Top(th).pc \in WokenPC
  <2>1. stack[th] # <<>> /\ Top(th).pc \in {"setResult", "setException"}
    BY DEF ClientEnds, SetException, At
  <2>2. Top(th).pc \in ChainPC
    BY <2>1, SinceFrame
  <2> QED BY <2>1, <2>2 DEF ChainPC, CancelPC, WokenPC
<1>2. PICK n \in Nat \ {0}, f \in Frames :
         /\ n = Len(stack[th]) /\ f = Top(th) /\ f.task \in Bodies /\ f.pc = "setException"
         /\ TopCancels(f)
         /\ n = 1 => f.task = Client
         /\ n # 1 => /\ f.task \in Tasks
                     /\ \E a \in Frames : /\ a = stack[th][n - 1] /\ a.task = f.task
                                           /\ Calls(a, f) /\ FrameCancels(a)
  BY <1>1, WokenByCaller
<1>3. /\ \A d \in Bodies : body[d] = "running" <=> d = f.task
      /\ \A u \in Tasks : TaskCancels(th, u)
      /\ \A l \in Leaves : LeafCancels(l)
      /\ ClientCancels(th) /\ ~raised[th] /\ escaped = {} /\ reentered = {}
  BY <1>1, <1>2, SinceRuns DEF SinceCancel, EveryBodyCancels, TopCancels
<1>4. ASSUME Return(th), ReturnsWell(th), stack'[th] = <<>> => body[Client] = "running",
             /\ body'[f.task] = "ended" /\ \A d \in Bodies : d # f.task => body'[d] = body[d]
             /\ \A u \in Tasks : stateMachine'[u] = IF u = f.task THEN FALSE ELSE stateMachine[u]
             /\ UNCHANGED <<state, onCompleted, awaitingTask, cts, continuation, underlying,
                            raised, escaped, reentered>>
      PROVE  SinceCancel(th)'
  <2>1. /\ CancelChain(th)' /\ EveryFrameCancels(th)' /\ (stack'[th] = <<>> <=> Len(stack[th]) = 1)
        /\ \A d : Cancelling(th, d) =>
              Cancelling(th, d)' \/ (Top(th).task = d /\ Top(th).pc \in CancellingPC)
        /\ Len(stack[th]) # 1 => stack'[th][1].pc # "cancel"
    BY <1>1, <1>4, SinceReturn
  <2>2. ASSUME NEW u \in Tasks PROVE TaskCancels(th, u)'
    <3>1. TaskCancels(th, u) /\ u \in Bodies /\ Awaiter(u) \in Bodies
      BY <1>3, TreeFacts
    <3>2. Cancelling(th, u) => Cancelling(th, u)'
      BY <1>1, <2>1 DEF CancellingPC
    <3>3. CASE u = f.task
      <4>1. state[u] = "Cancelled"
        BY <1>3, <3>1, <3>3 DEF TaskCancels, Waits
      <4> QED BY <1>4, <3>1, <3>3, <4>1 DEF TaskCancels, Gone, Terminal
    <3>4. CASE u # f.task
      <4>1. state[u] = "Running" => Waits(u)' /\ Awaiter(u) # f.task
        BY <1>3, <1>4, <3>1, <3>4 DEF TaskCancels, Waits
      <4> QED BY <1>4, <3>1, <3>2, <3>4, <4>1 DEF TaskCancels, Gone
    <3> QED BY <3>3, <3>4
  <2>3. ASSUME NEW l \in Leaves PROVE LeafCancels(l)'
    <3>1. LeafCancels(l) /\ l \in Bodies
      BY <1>3, TreeFacts
    <3>2. l = f.task => cts[l] /\ ~continuation[l]
      BY <1>2 DEF TopCancels, SeesCancel
    <3> QED BY <1>4, <3>1, <3>2 DEF LeafCancels
  <2>4. ClientCancels(th)'
    BY <1>2, <1>3, <1>4, <2>1, TreeFacts DEF ClientCancels
  <2>5. \A d \in Bodies : body'[d] # "running"
    BY <1>2, <1>3, <1>4
  <2> QED BY <1>3, <1>4, <2>1, <2>2, <2>3, <2>4, <2>5 DEF SinceCancel, EveryBodyCancels
<1>5. CASE ClientEnds(th)
  <2>1. /\ f.task = Client /\ Return(th) /\ body'[Client] = "ended"
        /\ \A d \in Bodies : d # Client => body'[d] = body[d]
        /\ UNCHANGED <<taskVars, cts, continuation, underlying, raised, escaped, reentered>>
    BY <1>2, <1>5, TreeFacts DEF ClientEnds, TypeOK, wrapperVars, ghostVars
  <2>2. n = 1
    BY <1>2, <2>1, NamesAssumption
  <2>3. 1 .. n - 2 = {}
    BY <2>2
  <2>4. ReturnsWell(th)
    <3>1. \A a \in Frames : FrameCancels(a) => FrameCancels(a)'
      BY <2>1 DEF FrameCancels, taskVars
    <3> QED BY <1>2, <2>2, <2>3, <3>1 DEF ReturnsWell, CallersKeep
  <2>5. /\ body[Client] = "running"
        /\ \A u \in Tasks : stateMachine'[u] = IF u = f.task THEN FALSE ELSE stateMachine[u]
    BY <1>2, <1>3, <2>1, TreeFacts DEF taskVars
  <2> QED BY <1>4, <2>1, <2>4, <2>5 DEF taskVars
<1>6. CASE SetException(th)
  <2>1. PICK t \in Tasks : t = f.task /\ t \in Bodies /\ t # Client /\ body[t] = "running" /\ state[t] = "Cancelled"
    <3>1. f.task \in Tasks /\ body[f.task] = "running"
      BY <1>2, <1>3, <1>6 DEF SetException
    <3> QED BY <1>3, <3>1, TreeFacts DEF TaskCancels, Waits
  <2>2. /\ Return(th) /\ body'[t] = "ended" /\ \A d \in Bodies : d # t => body'[d] = body[d]
        /\ \A u \in Tasks : stateMachine'[u] = IF u = t THEN FALSE ELSE stateMachine[u]
        /\ UNCHANGED <<state, onCompleted, awaitingTask, cts, continuation, underlying,
                       raised, escaped, reentered>>
    BY <1>2, <1>6, <2>1 DEF SetException, TopCancels, TypeOK, wrapperVars, ghostVars
  <2>3. n # 1
    BY <1>2, <2>1
  <2>4. CallersKeep(th)
    <3>1. \A a \in Frames : a.task \in Bodies
      BY FrameTypes
    <3>2. \A d \in Bodies : body[d] = "suspended" => body'[d] = "suspended"
      BY <2>1, <2>2
    <3>3. body'[Client] = body[Client]
      BY <2>1, <2>2, TreeFacts
    <3>4. \A a, c \in Frames : Calls(a, c) => Calls(a, c)'
      BY <2>2, <3>1, <3>2 DEF Calls
    <3>5. \A a \in Frames : (FrameCancels(a) => FrameCancels(a)') /\ (Outermost(a) => Outermost(a)')
      BY <2>2, <3>3 DEF FrameCancels, Outermost
    <3>6. \A i \in 1 .. Len(stack[th]) - 2 : \A a, c \in Frames :
            a = stack[th][i] /\ c = stack[th][i + 1] /\ Calls(a, c) => Calls(a, c)'
      BY <3>4
    <3> QED BY <3>5, <3>6 DEF CallersKeep
  <2>5. ReturnsWell(th)
    <3>1. \A a \in Frames : Calls(a, f) => TopCancels(a)'
      BY <1>2, <2>1, <2>2 DEF Calls, CancelPC, WokenPC, TopCancels, Gone
    <3> QED BY <1>2, <2>4, <3>1 DEF ReturnsWell
  <2>6. stack'[th] # <<>>
    BY <1>1, <1>2, <2>2, <2>3, ReturnShape DEF TypeOK, StackOK
  <2> QED BY <1>4, <2>1, <2>2, <2>5, <2>6
<1> QED BY <1>5, <1>6

\* The token is cancelled, and the .NET Task may complete under it.
LEMMA WrapperCancelSince ==
  ASSUME TypeOK, NEW th \in Threads, SinceCancel(th), WrapperCancel(th)
  PROVE  SinceCancel(th)'
<1>1. stack[th] # <<>> /\ Top(th).pc = "wrapperCancel"
  BY DEF WrapperCancel, At
<1>2. PICK n \in Nat \ {0}, f \in Frames :
         /\ n = Len(stack[th]) /\ f = Top(th) /\ f.pc = "wrapperCancel"
         /\ TopCancels(f)
         /\ n = 1 => f.task = Client
         /\ n # 1 => \E a \in Frames : /\ a = stack[th][n - 1] /\ a.task = f.task
                                        /\ Calls(a, f) /\ FrameCancels(a)
  BY <1>1, WokenByCaller
<1>3. PICK l \in Leaves : l = f.task /\ l \in Tasks /\ l # Client
  BY <1>2, FrameTypes, TreeFacts DEF LeafPC
<1>4. n # 1 /\ state[l] = "Cancelled" /\ body[l] = "suspended" /\ continuation[l]
  <2>1. n # 1
    BY <1>2, <1>3
  <2> QED BY <1>2, <1>3, <2>1 DEF TopCancels, Waits, Calls, CancelPC, WokenPC, FrameCancels
<1>5. /\ cts'[l] /\ \A k \in Leaves : k # l => cts'[k] = cts[k]
      /\ UNCHANGED <<taskVars, body, continuation, raised, escaped, reentered>>
      /\ \A k \in Leaves : underlying'[k] = "pending" => underlying[k] = "pending"
  BY <1>2, <1>3 DEF WrapperCancel, TypeOK, bodyVars, ghostVars
<1>6. PICK g \in Frames : /\ g = Frame("wrapperOnCompleted", l, None)
                          /\ Goto(th, g) \/ Call(th, g, g)
  BY <1>2, <1>3, NewFrame DEF WrapperCancel, LeafPC
<1>7. g.pc = "wrapperOnCompleted" /\ g.task = l
  BY <1>6 DEF Frame
<1>8. /\ \A d \in Bodies : body[d] # "running"
      /\ \A u \in Tasks : TaskCancels(th, u)
      /\ \A k \in Leaves : LeafCancels(k)
      /\ ClientCancels(th) /\ ~raised[th] /\ escaped = {} /\ reentered = {}
  BY <1>1, SinceRuns DEF SinceCancel, EveryBodyCancels
<1>9. /\ Replaces(th, g) /\ TopCancels(g)' /\ FrameCancels(g)' /\ Calls(g, g)'
      /\ g.pc \in ChainPC \ {"cancel"} /\ g.pc \notin CancelPC
  <2>1. \A k \in Leaves : cts[k] => cts'[k]
    BY <1>5
  <2>2. \A a \in Frames : FrameCancels(a) => FrameCancels(a)'
    <3>1. \A a \in Frames : a.pc \in {"wrapperOnCompleted", "wrapperTake"} => a.task \in Leaves
      BY FrameTypes DEF LeafPC
    <3> QED BY <1>5, <2>1, <3>1 DEF FrameCancels, taskVars
  <2>3. /\ \A a, c : Calls(a, c)' <=> Calls(a, c)
        /\ \A a : Outermost(a)' <=> Outermost(a)
    BY <1>5 DEF Calls, Outermost, taskVars
  <2>4. CallersKeep(th)
    BY <2>2, <2>3 DEF CallersKeep
  <2>5. FrameCancels(g)' /\ TopCancels(g)'
    BY <1>4, <1>5, <1>7 DEF FrameCancels, TopCancels
  <2>6. Calls(g, g) /\ \A a \in Frames : Calls(a, f) => Calls(a, g)
    BY <1>2, <1>3, <1>7 DEF Calls, CancelPC, WokenPC
  <2>7. g.pc \in ChainPC \ {"cancel"} /\ g.pc \notin CancelPC
    BY <1>7 DEF CancelPC, WokenPC, ChainPC
  <2> QED BY <1>2, <1>4, <2>3, <2>4, <2>5, <2>6, <2>7 DEF Replaces
<1>10. /\ CancelChain(th)' /\ EveryFrameCancels(th)' /\ stack'[th] # <<>>
       /\ \A d : Cancelling(th, d) =>
             Cancelling(th, d)' \/ (Top(th).task = d /\ Top(th).pc \in CancellingPC)
       /\ stack'[th][1].pc # "cancel"
  <2>1. CASE Goto(th, g)
    BY <1>1, <1>9, <2>1, SinceGoto
  <2>2. CASE Call(th, g, g)
    BY <1>1, <1>7, <1>9, <2>2, SinceCall
  <2> QED BY <1>6, <2>1, <2>2
<1>11. ASSUME NEW u \in Tasks PROVE TaskCancels(th, u)'
  <2>1. TaskCancels(th, u) /\ u \in Bodies
    BY <1>8, TreeFacts
  <2>2. Cancelling(th, u) => Cancelling(th, u)'
    BY <1>1, <1>10 DEF CancellingPC
  <2>3. state[u] = "Running" => Waits(u)'
    <3> SUFFICES ASSUME state[u] = "Running" PROVE Waits(u)'
      OBVIOUS
    <3>1. u # l /\ Waits(u) /\ awaitingTask[u] \in Awaitable(u) \cup {None}
      BY <1>4, <2>1 DEF TaskCancels, TypeOK
    <3>2. awaitingTask[u] = Wrapper => u \in Leaves
      BY <3>1, NamesAssumption DEF Awaitable
    <3> QED BY <1>5, <3>1, <3>2 DEF Waits, taskVars
  <2> QED BY <1>5, <2>1, <2>2, <2>3 DEF TaskCancels, Gone, taskVars
<1>12. \A k \in Leaves : LeafCancels(k)'
  BY <1>5, <1>8 DEF LeafCancels, taskVars
<1>13. ClientCancels(th)'
  BY <1>5, <1>8, <1>10 DEF ClientCancels, taskVars
<1> QED BY <1>5, <1>8, <1>10, <1>11, <1>12, <1>13 DEF SinceCancel, EveryBodyCancels

\* The wrapper finds its continuation, or that it is gone and its body with it.
LEMMA WrapperOnCompletedSince ==
  ASSUME TypeOK, NEW th \in Threads, SinceCancel(th), WrapperOnCompleted(th)
  PROVE  SinceCancel(th)'
<1>1. stack[th] # <<>> /\ Top(th).pc = "wrapperOnCompleted" /\ Top(th).pc \in WokenPC
  BY DEF WrapperOnCompleted, At, WokenPC
<1>2. PICK n \in Nat \ {0}, f \in Frames :
         /\ n = Len(stack[th]) /\ f = Top(th) /\ f.pc = "wrapperOnCompleted"
         /\ TopCancels(f) /\ FrameCancels(f)
         /\ n = 1 => Outermost(f)
         /\ n # 1 => \E a \in Frames : /\ a = stack[th][n - 1] /\ a.task = f.task
                                        /\ Calls(a, f) /\ FrameCancels(a)
  BY <1>1, WokenByCaller
<1>3. PICK l \in Leaves : l = f.task /\ l \in Tasks /\ l \in Bodies /\ l # Client
  BY <1>2, FrameTypes, TreeFacts DEF LeafPC
<1>4. /\ UNCHANGED <<taskVars, bodyVars, wrapperVars, raised, ghostVars>>
      /\ \A d \in Bodies : body[d] # "running"
      /\ TaskCancels(th, l) /\ ClientCancels(th) /\ ~raised[th] /\ escaped = {} /\ reentered = {}
  BY <1>1, <1>3, SinceRuns DEF WrapperOnCompleted, SinceCancel, EveryBodyCancels
<1>5. /\ CallersKeep(th)
      /\ \A a, c : Calls(a, c)' <=> Calls(a, c)
      /\ \A a : Outermost(a)' <=> Outermost(a)
      /\ \A a : FrameCancels(a)' <=> FrameCancels(a)
      /\ \A a : TopCancels(a)' <=> TopCancels(a)
  BY <1>4, SilentCallersKeep DEF bodyVars, wrapperVars
<1>6. CASE continuation[l]
  <2>1. PICK g \in Frames : g = Frame("wrapperTake", l, None) /\ Goto(th, g)
    BY <1>2, <1>3, <1>6, NewFrame DEF WrapperOnCompleted, LeafPC
  <2>2. g.pc = "wrapperTake" /\ g.task = l
    BY <2>1 DEF Frame
  <2>3. Replaces(th, g) /\ TopCancels(g)' /\ g.pc \in ChainPC \ {"cancel"}
    <3>1. n # 1
      BY <1>2, <1>3, <1>6 DEF Outermost, CancelPC, WokenPC
    <3>2. FrameCancels(g) /\ TopCancels(g) /\ \A a \in Frames : Calls(a, f) => Calls(a, g)
      BY <1>2, <1>3, <1>6, <2>2 DEF FrameCancels, TopCancels, Calls, CancelPC, WokenPC
    <3> QED BY <1>2, <1>5, <2>2, <3>1, <3>2 DEF Replaces, CancelPC, WokenPC, ChainPC
  <2>4. /\ CancelChain(th)' /\ EveryFrameCancels(th)' /\ stack'[th] # <<>>
        /\ \A d : Cancelling(th, d) =>
             Cancelling(th, d)' \/ (Top(th).task = d /\ Top(th).pc \in CancellingPC)
        /\ stack'[th][1].pc # "cancel"
    BY <1>1, <2>1, <2>3, SinceGoto
  <2>5. \A d \in Tasks : Cancelling(th, d) => Cancelling(th, d)'
    BY <1>1, <2>4 DEF CancellingPC
  <2>6. EveryBodyCancels(th)'
    BY <1>4, <2>4, <2>5, SilentBodies DEF bodyVars, wrapperVars
  <2> QED BY <1>4, <2>4, <2>6 DEF SinceCancel, ghostVars
<1>7. CASE ~continuation[l]
  <2>1. Return(th) /\ body[l] # "suspended"
    BY <1>2, <1>3, <1>7 DEF WrapperOnCompleted, TopCancels
  <2>2. \A a \in Frames : Calls(a, f) /\ FrameCancels(a) => TopCancels(a)
    <3>1. \A a \in Frames : Calls(a, f) => a.pc \in {"cancelCheck", "wrapperOnCompleted"} /\ a.task = l
      BY <1>2, <1>3 DEF Calls, CancelPC, WokenPC
    <3>2. state[l] = "Cancelled" => Gone(l)
      BY <1>3, <1>4, <2>1 DEF TaskCancels, TypeOK
    <3> QED BY <2>1, <3>1, <3>2 DEF FrameCancels, TopCancels
  <2>3. ReturnsWell(th)
    BY <1>2, <1>5, <2>2 DEF ReturnsWell
  <2>4. /\ CancelChain(th)' /\ EveryFrameCancels(th)' /\ (stack'[th] = <<>> <=> Len(stack[th]) = 1)
        /\ \A d : Cancelling(th, d) =>
              Cancelling(th, d)' \/ (Top(th).task = d /\ Top(th).pc \in CancellingPC)
        /\ Len(stack[th]) # 1 => stack'[th][1].pc # "cancel"
    BY <1>1, <2>1, <2>3, SinceReturn
  <2>5. n = 1 => body[Client] # "suspended"
    BY <1>2, <1>3 DEF Outermost, CancelPC, WokenPC
  <2>6. \A d \in Tasks : Cancelling(th, d) => Cancelling(th, d)'
    BY <1>1, <2>4 DEF CancellingPC
  <2>7. EveryBodyCancels(th)'
    BY <1>2, <1>4, <2>4, <2>5, <2>6, SilentBodies DEF bodyVars, wrapperVars
  <2> QED BY <1>4, <2>4, <2>7 DEF SinceCancel, ghostVars
<1> QED BY <1>6, <1>7

\* The wrapper gives its continuation away and calls it.
LEMMA WrapperTakesSince ==
  ASSUME TypeOK, NEW th \in Threads, SinceCancel(th), WrapperTakes(th)
  PROVE  SinceCancel(th)'
<1>1. stack[th] # <<>> /\ Top(th).pc = "wrapperTake" /\ Top(th).pc \in WokenPC
  BY DEF WrapperTakes, At, WokenPC
<1>2. PICK n \in Nat \ {0}, f \in Frames :
         /\ n = Len(stack[th]) /\ f = Top(th) /\ f.pc = "wrapperTake"
         /\ TopCancels(f) /\ FrameCancels(f)
         /\ n = 1 => f.task = Client
  BY <1>1, WokenByCaller
<1>3. PICK l \in Leaves : l = f.task /\ l \in Tasks /\ l \in Bodies /\ l # Client
  BY <1>2, FrameTypes, TreeFacts DEF LeafPC
<1>4. /\ \A d \in Bodies : body[d] # "running"
      /\ \A u \in Tasks : TaskCancels(th, u)
      /\ \A k \in Leaves : LeafCancels(k)
      /\ ClientCancels(th) /\ ~raised[th] /\ escaped = {} /\ reentered = {}
  BY <1>1, SinceRuns DEF SinceCancel, EveryBodyCancels
<1>5. /\ n # 1 /\ cts[l] /\ body[l] = "suspended" /\ awaitingTask[l] = Wrapper
  BY <1>2, <1>3, <1>4 DEF TopCancels, FrameCancels, LeafCancels
<1>6. /\ ~continuation'[l] /\ \A k \in Leaves : k # l => continuation'[k] = continuation[k]
      /\ UNCHANGED <<taskVars, body, cts, underlying, raised, escaped, reentered>>
  BY <1>2, <1>3 DEF WrapperTakes, TypeOK, bodyVars, ghostVars
<1>7. PICK g \in Frames : g = Frame("resume", l, None) /\ Goto(th, g)
  BY <1>2, <1>3, NewFrame DEF WrapperTakes
<1>8. g.pc = "resume" /\ g.task = l
  BY <1>7 DEF Frame
<1>9. Replaces(th, g) /\ TopCancels(g)' /\ g.pc \in ChainPC \ {"cancel"}
  <2>1. \A k \in Leaves : continuation'[k] => continuation[k]
    BY <1>6
  <2>2. \A a \in Frames : /\ FrameCancels(a) => FrameCancels(a)'
                          /\ Outermost(a) => Outermost(a)'
    <3>1. \A a \in Frames : a.pc = "wrapperOnCompleted" => a.task \in Leaves
      BY FrameTypes DEF LeafPC
    <3> QED BY <1>6, <2>1, <3>1 DEF FrameCancels, Outermost, taskVars
  <2>3. \A a, c : Calls(a, c)' <=> Calls(a, c)
    BY <1>6 DEF Calls, taskVars
  <2>4. CallersKeep(th)
    <3>1. \A i \in 1 .. Len(stack[th]) - 2 : \A a, c \in Frames :
            a = stack[th][i] /\ c = stack[th][i + 1] /\ Calls(a, c) => Calls(a, c)'
      BY <2>3
    <3> QED BY <2>2, <3>1 DEF CallersKeep
  <2>5. FrameCancels(g)' /\ TopCancels(g)'
    BY <1>5, <1>6, <1>8 DEF FrameCancels, TopCancels, SeesCancel, taskVars
  <2>6. \A a \in Frames : Calls(a, f) => Calls(a, g)
    BY <1>2, <1>3, <1>8 DEF Calls, CancelPC, WokenPC
  <2> QED BY <1>2, <1>5, <1>8, <2>3, <2>4, <2>5, <2>6 DEF Replaces, CancelPC, WokenPC, ChainPC
<1>10. /\ CancelChain(th)' /\ EveryFrameCancels(th)' /\ stack'[th] # <<>>
       /\ \A d : Cancelling(th, d) =>
             Cancelling(th, d)' \/ (Top(th).task = d /\ Top(th).pc \in CancellingPC)
       /\ stack'[th][1].pc # "cancel"
  BY <1>1, <1>7, <1>9, SinceGoto
<1>11. ASSUME NEW u \in Tasks PROVE TaskCancels(th, u)'
  <2>1. TaskCancels(th, u) /\ u \in Bodies
    BY <1>4, TreeFacts
  <2>2. Cancelling(th, u) => Cancelling(th, u)'
    BY <1>1, <1>10 DEF CancellingPC
  <2>3. state[u] = "Running" => Waits(u)'
    <3> SUFFICES ASSUME state[u] = "Running" PROVE Waits(u)'
      OBVIOUS
    <3>1. u # l /\ Waits(u) /\ awaitingTask[u] \in Awaitable(u) \cup {None}
      BY <1>5, <2>1 DEF TaskCancels, Waits, TypeOK
    <3>2. awaitingTask[u] = Wrapper => u \in Leaves
      BY <3>1, NamesAssumption DEF Awaitable
    <3> QED BY <1>6, <3>1, <3>2 DEF Waits, taskVars
  <2> QED BY <1>6, <2>1, <2>2, <2>3 DEF TaskCancels, Gone, taskVars
<1>12. \A k \in Leaves : LeafCancels(k)'
  BY <1>4, <1>6 DEF LeafCancels, taskVars
<1>13. ClientCancels(th)'
  BY <1>4, <1>6, <1>10 DEF ClientCancels, taskVars
<1> QED BY <1>4, <1>6, <1>10, <1>11, <1>12, <1>13 DEF SinceCancel, EveryBodyCancels
-----------------------------------------------------------------------------
(***************************************************************************)
(* Between two calls into the runtime, and the step into the Cancel.       *)
(***************************************************************************)

\* When nothing runs, the Cancel has ended every body that waited.
LEMMA NobodyWaits ==
  ASSUME TypeOK, NEW th \in Threads, SinceCancel(th), stack[th] = <<>>
  PROVE  \A b \in Bodies : body[b] \notin {"running", "suspended"}
<1>1. /\ \A b \in Bodies : body[b] # "running"
      /\ \A t \in Tasks : TaskCancels(th, t)
      /\ body[Client] # "suspended"
      /\ \A t : ~Cancelling(th, t)
  BY EmptySeq DEF SinceCancel, EveryBodyCancels, ClientCancels, Runs, Cancelling
<1>2. PICK S \in SUBSET Tasks : S = {t \in Tasks : state[t] = "Running"}
  OBVIOUS
<1>3. Root \notin S
  BY <1>1, <1>2, TreeFacts DEF TaskCancels
<1>4. \A t \in S : Parent[t] \in S
  <2> SUFFICES ASSUME NEW t \in S PROVE Parent[t] \in S
    OBVIOUS
  <2>1. Parent[t] = Awaiter(t) /\ Awaiter(t) \in Tasks
    BY <1>2, <1>3, TreeFacts DEF Awaiter
  <2>2. body[Awaiter(t)] = "suspended"
    BY <1>1, <1>2 DEF TaskCancels
  <2> QED BY <1>1, <1>2, <2>1, <2>2 DEF TaskCancels
<1>5. S = {}
  BY <1>3, <1>4, RootedAssumption
<1>6. ASSUME NEW t \in Tasks PROVE body[t] # "suspended"
  BY <1>1, <1>2, <1>5 DEF TaskCancels
<1> QED BY <1>1, <1>6 DEF Bodies

\* A .NET Task that completes late finds no continuation.
LEMMA LateCallback ==
  ASSUME TypeOK, NEW th \in Threads, SinceCancel(th), External(th)
  PROVE  SinceCancel(th)'
<1>1. stack[th] = <<>>
  BY DEF External, UnderlyingCompletes, RunQueuedCallback, Enter, Idle
<1>2. /\ \A b \in Bodies : body[b] \notin {"running", "suspended"}
      /\ \A t \in Tasks : TaskCancels(th, t)
      /\ \A l \in Leaves : LeafCancels(l)
      /\ ClientCancels(th) /\ ~raised[th] /\ escaped = {} /\ reentered = {}
      /\ \A l \in Leaves : l \in Bodies
      /\ \A t \in Tasks : t \in Bodies /\ Awaiter(t) \in Bodies
  BY <1>1, NobodyWaits, TreeFacts DEF SinceCancel, EveryBodyCancels
<1>3. PICK l \in Leaves : UnderlyingCompletes(th, l) \/ RunQueuedCallback(th, l)
  BY DEF External
<1>4. ~continuation[l]
  BY <1>2 DEF LeafCancels
<1>5. /\ UNCHANGED <<taskVars, body, cts, continuation, escaped, reentered>>
      /\ \A k \in Leaves : underlying'[k] = "pending" => underlying[k] = "pending"
  BY <1>3 DEF UnderlyingCompletes, RunQueuedCallback, TypeOK, bodyVars, ghostVars
<1>6. ASSUME CancelChain(th)', EveryFrameCancels(th)', ~raised'[th]
      PROVE  SinceCancel(th)'
  <2>1. \A t \in Tasks : TaskCancels(th, t)'
    BY <1>2, <1>5 DEF TaskCancels, Waits, Gone, taskVars
  <2>2. \A k \in Leaves : LeafCancels(k)'
    BY <1>2, <1>5 DEF LeafCancels, taskVars
  <2>3. ClientCancels(th)' /\ \A b \in Bodies : body'[b] # "running"
    BY <1>2, <1>5, TreeFacts DEF ClientCancels, taskVars
  <2> QED BY <1>2, <1>5, <1>6, <2>1, <2>2, <2>3 DEF SinceCancel, EveryBodyCancels
<1>7. CASE UNCHANGED <<stack, raised>>
  BY <1>1, <1>2, <1>6, <1>7, EmptySeq DEF CancelChain, EveryFrameCancels, SinceCancel
<1>8. CASE Enter(th, Frame("wrapperOnCompleted", l, None), "pool")
  <2>1. PICK g \in Frames : /\ g = Frame("wrapperOnCompleted", l, None) /\ Enter(th, g, "pool")
                            /\ g.pc = "wrapperOnCompleted" /\ g.task = l
    BY <1>8, NewFrame DEF LeafPC, Frame
  <2>2. g.pc \in ChainPC /\ Outermost(g)' /\ FrameCancels(g)' /\ TopCancels(g)'
    BY <1>2, <1>4, <1>5, <2>1, TreeFacts
       DEF Outermost, FrameCancels, TopCancels, ChainPC, WokenPC, CancelPC
  <2> QED BY <1>6, <2>1, <2>2, SinceEnter
<1> QED BY <1>3, <1>7, <1>8 DEF UnderlyingCompletes, RunQueuedCallback

\* Since the Cancel every step keeps what the Cancel has reached.
LEMMA SinceStep ==
  ASSUME TypeOK, MachineInv, NEW th \in Threads, SinceCancel(th), Step(th)
  PROVE  SinceCancel(th)'
<1>1. /\ ~raised[th]
      /\ stack[th] # <<>> => Top(th).pc \in ChainPC
  BY SinceFrame DEF SinceCancel
<1>2. \/ Cancel(th) \/ CancelNeedsMachine(th) \/ CancelChecks(th)
      \/ CancelSetsState(th) \/ CancelInner(th) \/ RunCallOnCompleted(th)
      \/ Resume(th) \/ GetResult(th) \/ ClientEnds(th) \/ SetException(th)
      \/ WrapperCancel(th) \/ WrapperOnCompleted(th) \/ WrapperTakes(th)
  BY <1>1 DEF Step, BodyAwaits, BodyReturns, BodyThrows, LeafCallsAction, LeafChecks,
     WrapperCreated, GetAwaiter, StartTask, RunTask, IsCompleted, AwaitOnCompleted, Register,
     SetResult, Publish, ClearStateMachine, UnwindToBody, UnwindThrough, UnwindOut, Unwinding,
     At, ChainPC, CancelPC, WokenPC
<1> QED BY <1>2, DescendingSteps, CancelSetsSince, InnerAndNotify, ResumeSince, GetResultSince,
       EndsSince, WrapperCancelSince, WrapperOnCompletedSince, WrapperTakesSince

\* The Cancel finds every body that has begun waiting for what it awaits.
LEMMA CancelBegins ==
  ASSUME TypeOK, MachineInv, Control, NEW th, Threads = {th}, BeforeCancel(th),
         CancelCreated = FALSE, ClientCancel(th, Root)
  PROVE  SinceCancel(th)'
<1>1. /\ stack[th] = <<>> /\ ~raised[th] /\ state[Root] # "Created"
      /\ Enter(th, Frame("cancel", Root, None), "cancel")
      /\ UNCHANGED <<taskVars, bodyVars, wrapperVars, escaped, reentered>>
  BY DEF ClientCancel, Enter, Idle
<1>2. /\ \A i \in 1 .. Len(stack[th]) : FALSE
      /\ \A pcs, b : ~Runs(th, pcs, b)
      /\ \A b : FreeOfControl(b)
  BY <1>1, EmptySeq DEF Runs, FreeOfControl
<1>3. \A b \in Bodies : body[b] # "running" /\ (body[b] = "suspended" => WillWake(th, b))
  BY <1>2 DEF BeforeCancel, BusyIsRun, WaitingIsWoken
<1>4. \A b \in Bodies : BodyFits(b)
  BY DEF Control, EveryBodyFits
<1>5. /\ \A l \in Leaves : LeafEndsAfter(th, l) /\ ~cts[l]
      /\ escaped = {} /\ reentered = {}
  BY DEF BeforeCancel, Control, Undisturbed
<1>6. ASSUME NEW t \in Tasks PROVE TaskCancels(th, t)'
  <2>6. /\ t \in Bodies /\ Awaiter(t) \in Bodies /\ StateFits(t) /\ WaitingIsRegistered(t)
        /\ RunningAreAwaited(Awaiter(t)) /\ WaitingIsRegistered(Awaiter(t))
    BY <1>4, TreeFacts DEF BodyFits
  <2>7. /\ body[t] \in {"fresh", "suspended", "ended"} /\ body[Awaiter(t)] # "running"
        /\ body[t] = "suspended" => awaitingTask[t] \in Awaitable(t)
        /\ state[t] \in TaskState
    BY <1>3, <2>6 DEF TypeOK
  <2>2. body[t] = "ended" => state[t] \in Terminal /\ ~stateMachine[t]
    BY <1>2, <2>6, <2>7 DEF BeforeCancel, EndIsPublished, MachineIsCleared, StateFits, TaskState, Terminal
  <2>3. body[t] = "suspended" => Waits(t)
    BY <1>2, <1>3, <1>5, <2>6, <2>7, TreeFacts DEF WillWake, Waits, WaitingIsRegistered, Awaitable
  <2>4. state[t] = "Running" =>
          body[t] = "suspended" /\ body[Awaiter(t)] = "suspended" /\ awaitingTask[Awaiter(t)] = t /\ onCompleted[t]
    BY <1>2, <2>2, <2>6, <2>7 DEF StateFits, RunningAreAwaited, WaitingIsRegistered, Terminal
  <2>5. /\ body[t] = "fresh" <=> state[t] = "Created"
        /\ body[t] = "ended" => Gone(t) /\ state[t] \in Terminal
        /\ body[t] \in {"running", "suspended"} => state[t] = "Running"
        /\ state[t] = "Running" =>
              /\ Waits(t) /\ onCompleted[t]
              /\ body[Awaiter(t)] = "suspended" /\ awaitingTask[Awaiter(t)] = t
        /\ state[t] # "Cancelled"
    BY <2>2, <2>3, <2>4, <2>6, <2>7 DEF StateFits, Gone
  <2> QED BY <1>1, <2>5 DEF TaskCancels, Waits, Gone, taskVars, bodyVars, wrapperVars
<1>7. ASSUME NEW l \in Leaves PROVE LeafCancels(l)'
  <2>3. l \in Bodies
    BY TreeFacts
  <2>1. /\ LeafEndsAfter(th, l) /\ body[l] \in {"fresh", "suspended", "ended"}
        /\ body[l] = "suspended" => awaitingTask[l] \in Awaitable(l)
    BY <1>3, <1>5, <2>3 DEF TypeOK
  <2>2. LeafCancels(l)
    BY <2>1 DEF LeafEndsAfter, LeafCancels, Awaitable
  <2> QED BY <1>1, <2>2 DEF LeafCancels, taskVars, bodyVars, wrapperVars
<1>8. /\ body[Client] # "fresh" /\ (body[Client] = "suspended" => state[Root] = "Running")
      /\ state[Root] \notin {"Created", "Running"} => state[Root] \in Terminal
  <2>1. /\ Client \in Bodies /\ Root \in Tasks /\ Root \in Bodies /\ Awaiter(Root) = Client
        /\ ClientStartsRoot(Client) /\ StateFits(Root) /\ state[Root] \in TaskState
    BY <1>4, TreeFacts DEF BodyFits, TypeOK
  <2>2. body[Client] # "fresh"
    BY <1>1, <2>1 DEF ClientStartsRoot, MachineInv, TodoIsFresh, StateFits
  <2>3. body[Client] = "suspended" => awaitingTask[Client] = Root
    <3>1. Client \notin Leaves /\ \A t \in Tasks : Awaiter(t) = Client => t = Root
      BY TreeFacts, NamesAssumption, TreeAssumption
    <3>2. awaitingTask[Client] \in Awaitable(Client) \cup {None} /\ (body[Client] = "suspended" => awaitingTask[Client] # None)
      BY <2>1 DEF TypeOK
    <3> QED BY <3>1, <3>2 DEF Awaitable
  <2>4. body[Client] = "suspended" => state[Root] = "Running"
    BY <1>2, <1>3, <2>1, <2>3, TreeFacts DEF WillWake
  <2> QED BY <2>1, <2>2, <2>4 DEF TaskState
<1>9. PICK g \in Frames : /\ g = Frame("cancel", Root, None) /\ Enter(th, g, "cancel")
                          /\ g.pc = "cancel" /\ g.task = Root
  BY <1>1, NewFrame, TreeFacts DEF TaskPC, Frame
<1>10. /\ g.pc \in ChainPC /\ Outermost(g)' /\ FrameCancels(g)' /\ TopCancels(g)'
  BY <1>1, <1>8, <1>9 DEF Outermost, FrameCancels, TopCancels, ChainPC, CancelPC, taskVars
<1>11. /\ CancelChain(th)' /\ EveryFrameCancels(th)' /\ stack'[th] # <<>> /\ ~raised'[th]
  BY <1>9, <1>10, SinceEnter
<1>12. ClientCancels(th)' /\ \A b \in Bodies : body'[b] # "running"
  BY <1>1, <1>3, <1>8, <1>11 DEF ClientCancels, taskVars, bodyVars
<1> QED BY <1>1, <1>5, <1>6, <1>7, <1>11, <1>12 DEF SinceCancel, EveryBodyCancels

LEMMA SingleUnchanged == SingleInv /\ UNCHANGED vars => SingleInv'
<1> SUFFICES ASSUME SingleInv, UNCHANGED vars, NEW th \in Threads
             PROVE  IF cancelCalls' = {} THEN BeforeCancel(th)' ELSE SinceCancel(th)'
  BY DEF SingleInv
<1> USE DEF vars, taskVars, bodyVars, wrapperVars, ghostVars
<1>1. \A pcs, b : Runs(th, pcs, b)' <=> Runs(th, pcs, b)
  BY DEF Runs, Top
<1>2. BeforeCancel(th) => BeforeCancel(th)'
  <2>1. /\ CallersAreStarters(th) => CallersAreStarters(th)'
        /\ BusyIsRun(th) => BusyIsRun(th)'
        /\ AwaitsPending(th) => AwaitsPending(th)'
    BY DEF CallersAreStarters, BusyIsRun, AwaitsPending, Top
  <2>2. /\ EndIsPublished(th) => EndIsPublished(th)'
        /\ WaitingIsWoken(th) => WaitingIsWoken(th)'
        /\ MachineIsCleared(th) => MachineIsCleared(th)'
        /\ \A l \in Leaves : LeafEndsAfter(th, l) => LeafEndsAfter(th, l)'
    BY <1>1 DEF EndIsPublished, WaitingIsWoken, WillWake, MachineIsCleared, LeafEndsAfter
  <2> QED BY <2>1, <2>2 DEF BeforeCancel
<1>3. SinceCancel(th) => SinceCancel(th)'
  <2>1. CancelChain(th) => CancelChain(th)'
    BY DEF CancelChain, Calls, Outermost
  <2>2. EveryFrameCancels(th) => EveryFrameCancels(th)'
    BY DEF EveryFrameCancels, Top, TopCancels, FrameCancels, Waits, Gone, SeesCancel
  <2>3. EveryBodyCancels(th) => EveryBodyCancels(th)'
    <3>1. \A b : Cancelling(th, b)' <=> Cancelling(th, b)
      BY DEF Cancelling
    <3>2. \A t : TaskCancels(th, t) => TaskCancels(th, t)'
      BY <3>1 DEF TaskCancels, Waits, Gone
    <3>3. (\A l : LeafCancels(l) => LeafCancels(l)') /\ (ClientCancels(th) => ClientCancels(th)')
      BY DEF LeafCancels, ClientCancels
    <3> QED BY <1>1, <3>2, <3>3 DEF EveryBodyCancels
  <2> QED BY <2>1, <2>2, <2>3 DEF SinceCancel
<1> QED BY <1>2, <1>3 DEF SingleInv

LEMMA SingleStep ==
  ASSUME OneThread, RuntimeInv, SingleInv, [Next]_vars
  PROVE  SingleInv'
<1>1. PICK th : Threads = {th} /\ th \in Threads
  BY DEF OneThread
<1>2. CASE UNCHANGED vars
  BY <1>2, SingleUnchanged
<1>3. CASE Step(th) \/ External(th) \/ ClientStart(th)
  <2>1. UNCHANGED cancelCalls
    BY <1>3 DEF Step, BodyAwaits, BodyReturns, BodyThrows, LeafCallsAction, LeafChecks,
       WrapperCreated, GetAwaiter, StartTask, RunTask, IsCompleted, AwaitOnCompleted,
       Register, Resume, GetResult, ClientEnds, SetResult, SetException, Publish,
       ClearStateMachine, RunCallOnCompleted, Cancel, CancelNeedsMachine,
       CancelSetsState, CancelInner, CancelChecks, WrapperCancel, WrapperOnCompleted,
       WrapperTakes, UnwindToBody, UnwindThrough, UnwindOut, External, UnderlyingCompletes,
       RunQueuedCallback, ClientStart, ghostVars
  <2>2. CASE cancelCalls = {}
    <3>1. BeforeCancel(th)'
      BY <1>1, <1>3, <2>2, BeforeStep DEF SingleInv, RuntimeInv, ControlInv
    <3> QED BY <1>1, <2>1, <2>2, <3>1 DEF SingleInv
  <2>3. CASE cancelCalls # {}
    <3>1. SinceCancel(th)
      BY <1>1, <2>3 DEF SingleInv
    <3>2. ~ClientStart(th)
      BY <3>1 DEF SinceCancel, EveryBodyCancels, ClientCancels, ClientStart
    <3>3. SinceCancel(th)'
      BY <1>1, <1>3, <3>1, <3>2, SinceStep, LateCallback DEF RuntimeInv
    <3> QED BY <1>1, <2>1, <2>3, <3>3 DEF SingleInv
  <2> QED BY <2>2, <2>3
<1>4. ASSUME NEW t \in Cancellable, ClientCancel(th, t) PROVE SingleInv'
  <2>1. t = Root /\ cancelCalls = {} /\ cancelCalls' # {}
    BY <1>4 DEF OneThread, ClientCancel, RuntimeInv, TypeOK
  <2>2. SinceCancel(th)'
    BY <1>1, <1>4, <2>1, CancelBegins DEF OneThread, SingleInv, RuntimeInv, ControlInv
  <2> QED BY <1>1, <2>1, <2>2 DEF SingleInv
<1> QED BY <1>1, <1>2, <1>3, <1>4 DEF Next

\* On one thread a body that waits is going to be resumed until Root is
\* cancelled; from then on every body ends in the cancellation.
THEOREM CancelEndsEveryBody ==
  ASSUME OneThread
  PROVE  Spec => []SingleInv
<1>1. Init => SingleInv
  BY BeforeInit DEF Init, SingleInv
<1>2. RuntimeInv /\ SingleInv /\ [Next]_vars => SingleInv'
  BY SingleStep
<1> QED BY <1>1, <1>2, RuntimeIsSafe, PTL DEF Spec

LEMMA SingleIsSafe ==
  ASSUME OneThread
  PROVE  Spec => [](RuntimeInv /\ SingleInv)
BY RuntimeIsSafe, CancelEndsEveryBody, PTL

\* The thread of the process, before and since the Cancel.
LEMMA TheThread ==
  ASSUME OneThread, RuntimeInv, SingleInv
  PROVE  \E th \in Threads :
           /\ Threads = {th} /\ TypeOK /\ MachineInv
           /\ cancelCalls = {} => BeforeCancel(th) /\ Control
           /\ cancelCalls # {} => SinceCancel(th) /\ Root \in cancelCalls
BY DEF OneThread, RuntimeInv, SingleInv, ControlInv, TypeOK
-----------------------------------------------------------------------------
(***************************************************************************)
(* What the tests of the runtime expect of one thread.                     *)
(***************************************************************************)

\* RunSuccessfully: when the thread is idle, every suspended body waits for
\* something that has not happened and that is going to resume it.
THEOREM NoLostWakeupOnOneThread ==
  ASSUME OneThread
  PROVE  Spec => []NoLostWakeup
<1>1. ASSUME RuntimeInv, SingleInv PROVE NoLostWakeup
  <2> SUFFICES ASSUME Quiet, NEW b \in Bodies, body[b] = "suspended"
               PROVE  IF awaitingTask[b] = Wrapper
                        THEN /\ continuation[b] /\ ~cts[b]
                             /\ \/ underlying[b] = "pending" /\ callback[b] = "registered"
                                \/ callback[b] = "queued"
                        ELSE state[awaitingTask[b]] = "Running" /\ onCompleted[awaitingTask[b]]
    BY DEF NoLostWakeup
  <2>1. PICK th \in Threads :
          /\ Threads = {th} /\ TypeOK
          /\ cancelCalls = {} => BeforeCancel(th) /\ Control
          /\ cancelCalls # {} => SinceCancel(th)
    BY <1>1, TheThread
  <2>2. stack[th] = <<>>
    BY DEF Quiet, Idle
  <2>3. BeforeCancel(th) /\ Control
    BY <2>1, <2>2, NobodyWaits
  <2>4. FreeOfControl(b) /\ \A pcs, d : ~Runs(th, pcs, d)
    BY <2>1, <2>2, EmptySeq DEF FreeOfControl, Runs
  <2>5. WillWake(th, b) /\ WaitingIsRegistered(b)
    BY <2>3, <2>4 DEF BeforeCancel, WaitingIsWoken, Control, EveryBodyFits, BodyFits
  <2>6. awaitingTask[b] \in Awaitable(b)
    BY <2>1 DEF TypeOK
  <2>7. CASE awaitingTask[b] = Wrapper
    <3>1. b \in Leaves
      BY <2>6, <2>7, NamesAssumption DEF Awaitable
    <3> QED BY <2>3, <2>4, <2>5, <2>7, <3>1 DEF WillWake, WaitingIsRegistered, Control, Undisturbed
  <2>8. CASE awaitingTask[b] # Wrapper
    BY <2>4, <2>5, <2>6, <2>8 DEF WillWake, WaitingIsRegistered, Awaitable
  <2> QED BY <2>7, <2>8
<1> QED BY <1>1, SingleIsSafe, PTL

\* Cancel: once a Cancel of Root has run, every task that was started has ended
\* with its state machine dropped, and every pending .NET Task has its token
\* cancelled.
THEOREM CancelReachesLeavesOnOneThread ==
  ASSUME OneThread
  PROVE  Spec => []CancelReachesLeaves
<1>1. ASSUME RuntimeInv, SingleInv PROVE CancelReachesLeaves
  <2> SUFFICES ASSUME Quiet, state[Root] = "Cancelled"
               PROVE  /\ \A t \in Tasks : state[t] # "Created" => state[t] \in Terminal /\ ~stateMachine[t]
                      /\ \A l \in Leaves : underlying[l] = "pending" => cts[l]
    BY DEF CancelReachesLeaves
  <2>1. PICK th \in Threads :
          /\ TypeOK /\ stack[th] = <<>>
          /\ cancelCalls = {} => Control
          /\ cancelCalls # {} => SinceCancel(th)
    BY <1>1, TheThread DEF Quiet, Idle
  <2>2. SinceCancel(th)
    BY <2>1, TreeFacts DEF Control, EveryBodyFits, BodyFits, StateFits
  <2>3. \A b \in Bodies : body[b] \in {"fresh", "ended"}
    BY <2>1, <2>2, NobodyWaits DEF TypeOK
  <2>4. ASSUME NEW t \in Tasks, state[t] # "Created" PROVE state[t] \in Terminal /\ ~stateMachine[t]
    BY <2>2, <2>3, <2>4, TreeFacts DEF SinceCancel, EveryBodyCancels, TaskCancels, Gone
  <2>5. ASSUME NEW l \in Leaves, underlying[l] = "pending" PROVE cts[l]
    BY <2>2, <2>3, <2>5, TreeFacts DEF SinceCancel, EveryBodyCancels, LeafCancels
  <2> QED BY <2>4, <2>5
<1> QED BY <1>1, SingleIsSafe, PTL

\* A task is cancelled because its awaiter's was, or Root was by its client.
THEOREM CancelFlowsDownOnOneThread ==
  ASSUME OneThread
  PROVE  Spec => []CancelFlowsDown
<1>1. ASSUME RuntimeInv, SingleInv PROVE CancelFlowsDown
  <2> SUFFICES ASSUME NEW t \in Tasks, state[t] = "Cancelled"
               PROVE  t \in cancelCalls \/ (t # Root /\ state[Awaiter(t)] = "Cancelled")
    BY DEF CancelFlowsDown
  <2>1. PICK th \in Threads :
          /\ cancelCalls = {} => Control
          /\ cancelCalls # {} => SinceCancel(th) /\ Root \in cancelCalls
    BY <1>1, TheThread
  <2>2. SinceCancel(th) /\ Root \in cancelCalls
    BY <2>1, TreeFacts DEF Control, EveryBodyFits, BodyFits, StateFits
  <2> QED BY <2>2 DEF SinceCancel, EveryBodyCancels, TaskCancels
<1> QED BY <1>1, SingleIsSafe, PTL

\* The checks of Task.cs against impossible states do not fail in a Cancel
\* either: none of its tasks is left with its state machine.
THEOREM NoEscapeOnOneThread ==
  ASSUME OneThread
  PROVE  Spec => []NoEscape
<1>1. ASSUME RuntimeInv, SingleInv PROVE NoEscape
  BY <1>1, TheThread DEF Control, Undisturbed, SinceCancel, NoEscape
<1> QED BY <1>1, SingleIsSafe, PTL

\* A body that the Cancel resumed through its wrapper is not resumed again,
\* by the .NET Task that its token completed or by one that completes later.
THEOREM NoReentryOnOneThread ==
  ASSUME OneThread
  PROVE  Spec => []NoReentry
<1>1. ASSUME RuntimeInv, SingleInv PROVE NoReentry
  BY <1>1, TheThread DEF Control, Undisturbed, SinceCancel, NoReentry
<1> QED BY <1>1, SingleIsSafe, PTL

\* A task that runs is awaited by one that runs or that a Cancel has ended.
THEOREM AwaitedEndsFirstOnOneThread ==
  ASSUME OneThread
  PROVE  Spec => []AwaitedEndsFirst
<1>1. RuntimeInv /\ SingleInv /\ ~(cancelCalls = {}) => AwaitedEndsFirst
  <2> SUFFICES ASSUME RuntimeInv, SingleInv, cancelCalls # {}, NEW t \in Tasks \ {Root}, state[t] = "Running"
               PROVE  state[Awaiter(t)] \in {"Running", "Cancelled"}
    BY DEF AwaitedEndsFirst
  <2>1. PICK th \in Threads : SinceCancel(th)
    BY TheThread
  <2>2. body[Awaiter(t)] = "suspended" /\ Awaiter(t) \in Tasks
    BY <2>1, TreeFacts DEF SinceCancel, EveryBodyCancels, TaskCancels
  <2> QED BY <2>1, <2>2 DEF SinceCancel, EveryBodyCancels, TaskCancels
<1> QED BY <1>1, SingleIsSafe, AwaitedEndsFirstUntilCancel, PTL
-----------------------------------------------------------------------------
(***************************************************************************)
(* What a step of the Cancel does to the State of a task and to the client.*)
(***************************************************************************)
LEMMA CancelledState ==
  ASSUME TypeOK, NEW th \in Threads, SinceCancel(th), Step(th)
  PROVE  /\ \A t \in Tasks : state'[t] = state[t] \/ (state[t] = "Running" /\ state'[t] = "Cancelled")
         /\ \/ body'[Client] = body[Client]
            \/ body[Client] = "suspended" /\ body'[Client] = "running"
            \/ /\ body[Client] = "running" /\ body'[Client] = "ended"
               /\ state[Root] \in Terminal /\ UNCHANGED state
<1>1. /\ ~raised[th]
      /\ stack[th] # <<>> => Top(th).pc \in ChainPC /\ TopCancels(Top(th)) /\ Top(th).task \in Bodies
  BY SinceFrame DEF SinceCancel
<1>2. /\ Client \in Bodies /\ Client \notin Tasks /\ Root \in Tasks /\ Awaiter(Root) = Client
  BY TreeFacts
<1>3. \/ Cancel(th) \/ CancelNeedsMachine(th) \/ CancelChecks(th)
      \/ CancelSetsState(th) \/ CancelInner(th) \/ RunCallOnCompleted(th)
      \/ Resume(th) \/ GetResult(th) \/ ClientEnds(th) \/ SetException(th)
      \/ WrapperCancel(th) \/ WrapperOnCompleted(th) \/ WrapperTakes(th)
  BY <1>1 DEF Step, BodyAwaits, BodyReturns, BodyThrows, LeafCallsAction, LeafChecks,
     WrapperCreated, GetAwaiter, StartTask, RunTask, IsCompleted, AwaitOnCompleted, Register,
     SetResult, Publish, ClearStateMachine, UnwindToBody, UnwindThrough, UnwindOut, Unwinding,
     At, ChainPC, CancelPC, WokenPC
<1>4. CASE CancelSetsState(th)
  <2>1. Top(th).pc = "cancelSet" /\ state[Top(th).task] = "Running"
    BY <1>1, <1>4 DEF CancelSetsState, At, TopCancels
  <2> QED BY <1>4, <2>1 DEF CancelSetsState, TypeOK, bodyVars
<1>5. CASE Resume(th)
  <2>1. PICK b \in Bodies : b = Top(th).task /\ body[b] = "suspended"
    BY <1>1, <1>5 DEF Resume, At, TopCancels
  <2>2. body' = [body EXCEPT ![b] = "running"] /\ UNCHANGED state
    BY <1>5, <2>1 DEF Resume, taskVars
  <2> QED BY <1>2, <2>1, <2>2 DEF TypeOK
<1>6. CASE SetException(th)
  BY <1>2, <1>6 DEF SetException, TypeOK, taskVars
<1>7. CASE ClientEnds(th)
  <2>1. Top(th).pc \in {"setResult", "setException"} /\ stack[th] # <<>> /\ Top(th).task = Client
    BY <1>7 DEF ClientEnds, At
  <2>2. body[Client] = "running"
    BY <1>1, <2>1 DEF TopCancels, ChainPC, CancelPC, WokenPC
  <2>3. state[Root] \in Terminal
    BY <1>2, <2>2 DEF SinceCancel, EveryBodyCancels, ClientCancels, TaskCancels, TypeOK, TaskState
  <2> QED BY <1>2, <1>7, <2>2, <2>3 DEF ClientEnds, TypeOK, taskVars
<1>8. CASE /\ ~CancelSetsState(th) /\ ~Resume(th) /\ ~SetException(th) /\ ~ClientEnds(th)
  <2>1. UNCHANGED <<state, body>>
    BY <1>3, <1>8 DEF Cancel, CancelNeedsMachine, CancelChecks, CancelInner, RunCallOnCompleted,
       GetResult, WrapperCancel, WrapperOnCompleted, WrapperTakes, taskVars, bodyVars
  <2> QED BY <2>1
<1> QED BY <1>4, <1>5, <1>6, <1>7, <1>8

\* A task that has ended stays as it ended, whatever the Cancel finds.
THEOREM TerminalIsFinalOnOneThread ==
  ASSUME OneThread
  PROVE  Spec => TerminalIsFinal
<1>1. RuntimeInv /\ SingleInv /\ [Next]_vars =>
        [\A t \in Tasks : state[t] \in Terminal => state'[t] = state[t]]_vars
  <2> SUFFICES ASSUME RuntimeInv, SingleInv, [Next]_vars, NEW t \in Tasks, state[t] \in Terminal
               PROVE  state'[t] = state[t]
    OBVIOUS
  <2>1. PICK th \in Threads :
          Threads = {th} /\ TypeOK /\ (cancelCalls # {} => SinceCancel(th))
    BY TheThread
  <2>2. CASE cancelCalls = {}
    BY <2>2, FinalStep
  <2>3. CASE cancelCalls # {} /\ Step(th)
    BY <2>1, <2>3, CancelledState DEF Terminal
  <2>4. CASE ~Step(th)
    BY <2>1, <2>4, EntryState DEF Next, vars, taskVars
  <2> QED BY <2>2, <2>3, <2>4
<1> QED BY <1>1, SingleIsSafe, PTL DEF Spec, TerminalIsFinal

\* Root and its client keep what the abstract future promises, also where the
\* client cancels Root.
THEOREM FutureIsKeptOnOneThread ==
  ASSUME OneThread
  PROVE  Spec => NeverMisleads
<1>1. RuntimeInv /\ SingleInv /\ [Next]_vars => [AbstractFuture!Next]_(AbstractFuture!vars)
  <2> SUFFICES ASSUME RuntimeInv, SingleInv, [Next]_vars
               PROVE  [AbstractFuture!Next]_(AbstractFuture!vars)
    OBVIOUS
  <2>1. PICK th \in Threads :
          Threads = {th} /\ TypeOK /\ (cancelCalls # {} => SinceCancel(th))
    BY TheThread
  <2>2. CASE cancelCalls = {}
    BY <2>2, FutureStep
  <2>3. CASE cancelCalls # {} /\ Step(th)
    BY <2>1, <2>3, CancelledState, TreeFacts
       DEF AbstractFuture!Next, AbstractFuture!vars, AbstractFuture!Settle, AbstractFuture!Wake,
       AbstractFuture!Settled, Terminal
  <2>4. CASE cancelCalls # {} /\ ~Step(th)
    <3>1. ~ClientStart(th)
      BY <2>1, <2>4 DEF SinceCancel, EveryBodyCancels, ClientCancels, ClientStart
    <3>2. UNCHANGED <<state, body>>
      BY <2>1, <2>4, <3>1 DEF Next, External, UnderlyingCompletes, RunQueuedCallback, ClientCancel,
         vars, taskVars, bodyVars
    <3> QED BY <3>2 DEF AbstractFuture!vars
  <2> QED BY <2>2, <2>3, <2>4
<1> QED BY <1>1, FutureInit, SingleIsSafe, PTL
        DEF Spec, NeverMisleads, AbstractFuture!Safety
=============================================================================
