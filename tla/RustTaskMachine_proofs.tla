----------------------- MODULE RustTaskMachine_proofs -----------------------
(***************************************************************************)
(* The state machine of a RustTask is there as long as the task has not    *)
(* ended, for any set of threads, any tree of tasks and any use of Cancel. *)
(* The invariant is not inductive by itself: nothing in it keeps a task    *)
(* whose machine is gone from being started again.  MachineInv adds that a *)
(* task is started by one frame only, before its body has run, and that    *)
(* everything which ends a task belongs to a body that has run.            *)
(***************************************************************************)
EXTENDS RustTask_proofs

\* What the parts of MachineInv say of frame i of thread th.
FrameFits(th, i) ==
  LET f == stack[th][i] IN
  /\ f.pc \in StartPC => body[f.arg] = "fresh" /\ f.arg \notin todo[Awaiter(f.arg)]
  /\ f.pc \in RunPC => body[f.task] # "fresh"
  /\ f.pc = "clear" => state[f.task] \in Terminal

FramesFit == \A th \in Threads : \A i \in 1 .. Len(stack[th]) : FrameFits(th, i)

LEMMA FramesFitParts ==
  FramesFit <=> StartingIsFresh /\ RunningIsNotFresh /\ ClearIsTerminal
BY DEF FramesFit, FrameFits, StartingIsFresh, RunningIsNotFresh, ClearIsTerminal

\* A frame the step of thread th pushed: it fits, and if it starts a task then
\* the running frame was starting that task, or its body had it still to await.
New(th, t2, i) ==
  LET f == stack'[t2][i] IN
  /\ t2 = th /\ FrameFits(t2, i)'
  /\ f.pc \in StartPC =>
       /\ i = Len(stack[th])
       /\ \/ Top(th).pc \in StartPC /\ Top(th).arg = f.arg
          \/ f.arg \in todo[Awaiter(f.arg)]

Pushed(th) ==
  \A t2 \in Threads : \A i \in 1 .. Len(stack'[t2]) : Kept(th, t2, i) \/ New(th, t2, i)

\* The data on which the frames rest moves one way: bodies that have run stay
\* so, unawaited tasks only get fewer, ended tasks stay ended.
Monotone ==
  /\ \A b \in Bodies : body[b] # "fresh" => body'[b] # "fresh"
  /\ \A u \in Tasks : u \in todo'[Awaiter(u)] => u \in todo[Awaiter(u)]
  /\ \A t \in Tasks : body[t] # "fresh" /\ state[t] \in Terminal => state'[t] \in Terminal

\* No step starts a task that another frame is starting.
LEMMA StartedOnceStep ==
  ASSUME TypeOK, TypeOK', MachineInv, NEW th \in Threads, Pushed(th)
  PROVE  StartedOnce'
<1>0. StackOK /\ StackOK'
  BY DEF TypeOK, StackOK
<1> SUFFICES ASSUME NEW t1 \in Threads, NEW t2 \in Threads,
                    NEW i \in 1 .. Len(stack'[t1]), NEW j \in 1 .. Len(stack'[t2]),
                    stack'[t1][i].pc \in StartPC, stack'[t2][j].pc \in StartPC,
                    stack'[t1][i].arg = stack'[t2][j].arg
             PROVE  t1 = t2 /\ i = j
  BY DEF StartedOnce
<1>1. \A a \in Threads : \A k \in 1 .. Len(stack[a]) :
        stack[a][k].pc \in StartPC => stack[a][k].arg \notin todo[Awaiter(stack[a][k].arg)]
  BY DEF MachineInv, StartingIsFresh
<1>2. \A a1, a2 \in Threads : \A k1 \in 1 .. Len(stack[a1]), k2 \in 1 .. Len(stack[a2]) :
        /\ stack[a1][k1].pc \in StartPC /\ stack[a2][k2].pc \in StartPC
        /\ stack[a1][k1].arg = stack[a2][k2].arg
        => a1 = a2 /\ k1 = k2
  BY DEF MachineInv, StartedOnce
<1>3. CASE Kept(th, t1, i) /\ Kept(th, t2, j)
  BY <1>3, <1>2 DEF Kept
<1>4. CASE New(th, t1, i) /\ New(th, t2, j)
  BY <1>4 DEF New
<1>5. ASSUME NEW a \in Threads, NEW c \in Threads,
             NEW k \in 1 .. Len(stack'[a]), NEW l \in 1 .. Len(stack'[c]),
             stack'[a][k].pc \in StartPC, stack'[c][l].pc \in StartPC,
             stack'[a][k].arg = stack'[c][l].arg,
             Kept(th, a, k), New(th, c, l)
      PROVE  FALSE
  <2>1. /\ k \in 1 .. Len(stack[a]) /\ stack'[a][k] = stack[a][k]
        /\ a = th => k < Len(stack[th])
    BY <1>5 DEF Kept
  <2>2. /\ c = th /\ l = Len(stack[th])
        /\ \/ Top(th).pc \in StartPC /\ Top(th).arg = stack[a][k].arg
           \/ stack[a][k].arg \in todo[Awaiter(stack[a][k].arg)]
    BY <1>5, <2>1 DEF New
  <2>3. stack[a][k].arg \notin todo[Awaiter(stack[a][k].arg)]
    BY <1>1, <1>5, <2>1
  <2>4. /\ stack[th][Len(stack[th])].pc \in StartPC
        /\ stack[th][Len(stack[th])].arg = stack[a][k].arg
    BY <2>2, <2>3 DEF Top
  <2>5. Len(stack[th]) \in 1 .. Len(stack[th])
    <3>1. l \in 1 .. Len(stack'[c]) /\ Len(stack[th]) \in Nat
      BY <1>0 DEF StackOK
    <3> QED BY <2>2, <3>1, <1>0 DEF StackOK
  <2>6. a = th /\ k = Len(stack[th])
    BY <1>2, <1>5, <2>1, <2>4, <2>5
  <2> QED BY <2>1, <2>6, <1>0 DEF StackOK
<1> QED BY <1>3, <1>4, <1>5 DEF Pushed

\* A step that runs no fresh task leaves every frame fitting.
LEMMA FramesFitStep ==
  ASSUME TypeOK, TypeOK', MachineInv, NEW th \in Threads, Pushed(th), Monotone,
         \A t \in Tasks : body[t] = "fresh" => body'[t] = "fresh"
  PROVE  FramesFit'
<1> SUFFICES ASSUME NEW t2 \in Threads, NEW i \in 1 .. Len(stack'[t2]),
                    Kept(th, t2, i)
             PROVE  FrameFits(t2, i)'
  BY DEF FramesFit, Pushed, New
<1>1. FrameFits(t2, i)
  BY FramesFitParts DEF MachineInv, FramesFit, Kept
<1>2. stack'[t2][i] = stack[t2][i] /\ stack[t2][i] \in Frames
  BY ElementOfSeq DEF Kept, TypeOK
<1>3. /\ stack[t2][i].task \in Bodies
      /\ stack[t2][i].pc \in StartPC => stack[t2][i].arg \in Tasks
      /\ stack[t2][i].pc = "clear" =>
           stack[t2][i].task \in Tasks /\ stack[t2][i].pc \in RunPC
  BY <1>2, FrameTypes DEF TaskPC, RunPC
<1> QED BY <1>1, <1>2, <1>3 DEF FrameFits, Monotone
-----------------------------------------------------------------------------
(***************************************************************************)
(* The steps of a running thread.                                          *)
(***************************************************************************)

\* What MachineInv says of the running frame.
LEMMA RunningFrame ==
  ASSUME TypeOK, MachineInv, NEW th \in Threads, stack[th] # <<>>
  PROVE  FrameFits(th, Len(stack[th])) /\ Top(th) \in Frames
<1>1. Len(stack[th]) \in Nat \ {0} /\ Top(th) \in Frames
  BY TopFrame DEF TypeOK, StackOK
<1>2. FramesFit
  BY FramesFitParts DEF MachineInv
<1> QED BY <1>1, <1>2 DEF FramesFit

\* A body that has run goes on, stops or ends: nothing the invariant is about
\* changes.
LEMMA BodyGoesOn ==
  ASSUME TypeOK, MachineInv, NEW b \in Bodies, body[b] # "fresh",
         UNCHANGED <<taskVars, todo, continuation>>,
         NEW v \in {"running", "ended"}, body' = [body EXCEPT ![b] = v]
  PROVE  /\ Monotone
         /\ \A t \in Tasks : body[t] = "fresh" => body'[t] = "fresh"
         /\ TodoIsFresh' /\ ContinuationIsNotFresh' /\ FreshHasMachine'
         /\ MachineKeptWhileRunning'
<1>1. /\ \A c \in Bodies : body[c] # "fresh" <=> body'[c] # "fresh"
      /\ \A t \in Tasks : t \in Bodies /\ Awaiter(t) \in Bodies
      /\ \A l \in Leaves : l \in Bodies
  BY AwaiterType, TreeAssumption DEF TypeOK, Bodies
<1>2. /\ TodoIsFresh /\ ContinuationIsNotFresh /\ FreshHasMachine
      /\ MachineKeptWhileRunning
  BY DEF MachineInv
<1> QED BY <1>1, <1>2 DEF Monotone, TodoIsFresh, ContinuationIsNotFresh,
                          FreshHasMachine, MachineKeptWhileRunning, taskVars

\* The fields that MachineInv is about, and what a step does to them.
LEMMA StepData ==
  ASSUME TypeOK, MachineInv, NEW th \in Threads, Step(th)
  PROVE  /\ Monotone
         /\ RunTask(th) \/ \A t \in Tasks : body[t] = "fresh" => body'[t] = "fresh"
         /\ TodoIsFresh' /\ ContinuationIsNotFresh' /\ FreshHasMachine'
         /\ MachineKeptWhileRunning'
<1> DEFINE f == Top(th)
           Goal == /\ Monotone
                   /\ \A t \in Tasks : body[t] = "fresh" => body'[t] = "fresh"
                   /\ TodoIsFresh' /\ ContinuationIsNotFresh' /\ FreshHasMachine'
                   /\ MachineKeptWhileRunning'
<1>1. stack[th] # <<>> =>
        /\ f \in Frames
        /\ f.pc \in StartPC => body[f.arg] = "fresh" /\ f.arg \notin todo[Awaiter(f.arg)]
        /\ f.pc \in RunPC => body[f.task] # "fresh"
        /\ f.pc = "clear" => state[f.task] \in Terminal
  BY RunningFrame DEF FrameFits, Top
<1>2. /\ TodoIsFresh /\ ContinuationIsNotFresh /\ FreshHasMachine
      /\ MachineKeptWhileRunning
  BY DEF MachineInv
<1>3. \A t \in Tasks : t \in Bodies /\ Awaiter(t) \in Bodies
  BY AwaiterType DEF Bodies
<1> USE <1>1, <1>2, <1>3, FrameTypes
    DEF At, Monotone, TypeOK, TodoIsFresh, ContinuationIsNotFresh,
        FreshHasMachine, MachineKeptWhileRunning, RunPC, StartPC, AwaitPC,
        TaskPC, LeafPC, taskVars, bodyVars, wrapperVars, ghostVars
<1>4. ASSUME UNCHANGED <<taskVars, body, continuation>>,
             \A u \in Tasks : u \in todo'[Awaiter(u)] => u \in todo[Awaiter(u)]
      PROVE  Goal
  BY <1>4
<1>5. ASSUME BodyAwaits(th) PROVE Goal
  BY <1>4, <1>5 DEF BodyAwaits
<1>6. ASSUME BodyReturns(th) PROVE Goal
  BY <1>4, <1>6 DEF BodyReturns
<1>7. ASSUME BodyThrows(th) PROVE Goal
  BY <1>4, <1>7 DEF BodyThrows
<1>8. ASSUME LeafCallsAction(th) PROVE Goal
  BY <1>4, <1>8 DEF LeafCallsAction
<1>9. ASSUME LeafChecks(th) PROVE Goal
  BY <1>4, <1>9 DEF LeafChecks
<1>10. ASSUME WrapperCreated(th) PROVE Goal
  BY <1>4, <1>10 DEF WrapperCreated
<1>11. ASSUME GetAwaiter(th) PROVE Goal
  BY <1>4, <1>11 DEF GetAwaiter
<1>12. ASSUME StartTask(th) PROVE Goal
  BY <1>4, <1>12 DEF StartTask
<1>13. ASSUME RunTask(th) PROVE Monotone /\ TodoIsFresh' /\ ContinuationIsNotFresh' /\ FreshHasMachine'
             /\ MachineKeptWhileRunning'
  BY <1>13 DEF RunTask, Terminal
<1>14. ASSUME IsCompleted(th) PROVE Goal
  BY <1>4, <1>14 DEF IsCompleted
<1>15. ASSUME AwaitOnCompleted(th) PROVE Goal
  BY <1>15 DEF AwaitOnCompleted
<1>16. ASSUME Register(th) PROVE Goal
  <2>1. f.task \in Bodies /\ f.arg \in Awaitable(f.task) /\ body[f.task] # "fresh"
    BY <1>16 DEF Register
  <2>2. /\ f.arg # Wrapper => f.arg \in Tasks /\ Awaiter(f.arg) = f.task
        /\ f.arg = Wrapper => f.task \in Leaves
    BY <2>1, AwaitableTypes
  <2>3. UNCHANGED <<state, stateMachine, body, todo>>
    BY <1>16 DEF Register
  <2>4. CASE f.arg = Wrapper
    <3>1. UNCHANGED onCompleted /\ continuation' = [continuation EXCEPT ![f.task] = TRUE]
      BY <1>16, <2>4 DEF Register
    <3> QED BY <2>1, <2>3, <3>1
  <2>5. CASE f.arg # Wrapper
    <3>1. UNCHANGED continuation /\ onCompleted' = [onCompleted EXCEPT ![f.arg] = TRUE]
      BY <1>16, <2>5 DEF Register
    <3> QED BY <2>1, <2>2, <2>3, <2>5, <3>1
  <2> QED BY <2>4, <2>5
<1>17. ASSUME Resume(th) PROVE Goal
  <2>1. f.task \in Bodies /\ body[f.task] # "fresh"
    BY <1>17 DEF Resume
  <2>2. UNCHANGED <<taskVars, todo, continuation>>
    BY <1>17 DEF Resume
  <2>3. CASE body[f.task] = "suspended"
    <3>1. body' = [body EXCEPT ![f.task] = "running"]
      BY <1>17, <2>3 DEF Resume
    <3> HIDE DEF f
    <3> QED BY <2>1, <2>2, <3>1, BodyGoesOn
  <2>4. CASE body[f.task] # "suspended"
    <3>1. UNCHANGED body
      BY <1>17, <2>4 DEF Resume
    <3> QED BY <1>4, <2>2, <3>1
  <2> QED BY <2>3, <2>4
<1>18. ASSUME GetResult(th) PROVE Goal
  BY <1>4, <1>18 DEF GetResult
<1>19. ASSUME ClientEnds(th) PROVE Goal
  <2>1. Client \in Bodies /\ body[Client] # "fresh"
    BY <1>19 DEF ClientEnds
  <2>2. /\ UNCHANGED <<taskVars, todo, continuation>>
        /\ body' = [body EXCEPT ![Client] = "ended"]
    BY <1>19 DEF ClientEnds
  <2> QED BY <2>1, <2>2, BodyGoesOn
<1>20. ASSUME SetResult(th) PROVE Goal
  BY <1>20 DEF SetResult
<1>21. ASSUME SetException(th) PROVE Goal
  <2>1. f.task \in Tasks /\ f.task \in Bodies /\ body[f.task] # "fresh"
    BY <1>21 DEF SetException
  <2>2. /\ UNCHANGED <<state, onCompleted, awaitingTask, todo, continuation>>
        /\ body' = [body EXCEPT ![f.task] = "ended"]
    BY <1>21 DEF SetException
  <2>3. CASE UNCHANGED stateMachine
    <3> HIDE DEF f
    <3> QED BY <2>1, <2>2, <2>3, BodyGoesOn
  <2>4. CASE stateMachine' # stateMachine
    <3>1. /\ stateMachine' = [stateMachine EXCEPT ![f.task] = FALSE]
          /\ state[f.task] = "Cancelled"
      BY <1>21, <2>4 DEF SetException
    <3> HIDE DEF f
    <3> QED BY <2>1, <2>2, <3>1 DEF Terminal
  <2> QED BY <2>3, <2>4
<1>22. ASSUME Publish(th) PROVE Goal
  BY <1>22 DEF Publish, Terminal
<1>23. ASSUME ClearStateMachine(th) PROVE Goal
  BY <1>23 DEF ClearStateMachine
<1>24. ASSUME RunCallOnCompleted(th) PROVE Goal
  BY <1>4, <1>24 DEF RunCallOnCompleted
<1>25. ASSUME Cancel(th) PROVE Goal
  BY <1>4, <1>25 DEF Cancel, Raise
<1>26. ASSUME CancelSetsState(th) PROVE Goal
  BY <1>26 DEF CancelSetsState, Terminal
<1>27. ASSUME CancelInner(th) PROVE Goal
  BY <1>4, <1>27 DEF CancelInner
<1>28. ASSUME CancelChecks(th) PROVE Goal
  BY <1>4, <1>28 DEF CancelChecks
<1>29. ASSUME WrapperCancel(th) PROVE Goal
  BY <1>4, <1>29 DEF WrapperCancel
<1>30. ASSUME WrapperOnCompleted(th) PROVE Goal
  BY <1>4, <1>30 DEF WrapperOnCompleted
<1>31. ASSUME WrapperTakes(th) PROVE Goal
  BY <1>31 DEF WrapperTakes
<1>32. ASSUME UnwindToBody(th) PROVE Goal
  BY <1>4, <1>32 DEF UnwindToBody
<1>33. ASSUME UnwindThrough(th) PROVE Goal
  BY <1>4, <1>33 DEF UnwindThrough
<1>34. ASSUME UnwindOut(th) PROVE Goal
  BY <1>4, <1>34 DEF UnwindOut
<1>40. ASSUME CancelNeedsMachine(th) PROVE Goal
  BY <1>4, <1>40 DEF CancelNeedsMachine
<1> QED BY <1>5, <1>6, <1>7, <1>8, <1>9, <1>10, <1>11, <1>12, <1>13,
           <1>14, <1>15, <1>16, <1>17, <1>18, <1>19, <1>20, <1>21, <1>22,
           <1>23, <1>24, <1>25, <1>26, <1>27, <1>28, <1>29, <1>30, <1>31,
           <1>32, <1>33, <1>34, <1>40 DEF Step
-----------------------------------------------------------------------------
\* The next frame of the running method is pushed when it fits.
LEMMA PushedGoto ==
  ASSUME StackOK, NEW th \in Threads, stack[th] # <<>>, NEW g \in Frames,
         Goto(th, g),
         g.pc \in StartPC =>
           /\ body'[g.arg] = "fresh" /\ g.arg \notin todo'[Awaiter(g.arg)]
           /\ \/ Top(th).pc \in StartPC /\ Top(th).arg = g.arg
              \/ g.arg \in todo[Awaiter(g.arg)],
         g.pc \in RunPC => body'[g.task] # "fresh",
         g.pc = "clear" => state'[g.task] \in Terminal
  PROVE  Pushed(th)
<1>1. \A t2 \in Threads : \A i \in 1 .. Len(stack'[t2]) :
        \/ Kept(th, t2, i)
        \/ t2 = th /\ i = Len(stack[th]) /\ stack'[t2][i] = g
  BY GotoStack
<1> QED BY <1>1 DEF Pushed, New, FrameFits

LEMMA PushedCall ==
  ASSUME StackOK, NEW th \in Threads, stack[th] # <<>>,
         NEW f \in Frames, NEW g \in Frames, Call(th, f, g),
         f.pc \notin StartPC \cup {"clear"}, g.pc \notin StartPC \cup {"clear"},
         f.pc \in RunPC => body'[f.task] # "fresh",
         g.pc \in RunPC => body'[g.task] # "fresh"
  PROVE  Pushed(th)
<1>1. \A t2 \in Threads : \A i \in 1 .. Len(stack'[t2]) :
        \/ Kept(th, t2, i)
        \/ t2 = th /\ stack'[t2][i] \in {f, g}
  BY CallStack
<1> QED BY <1>1 DEF Pushed, New, FrameFits

LEMMA PushedReturn ==
  ASSUME StackOK, NEW th \in Threads, stack[th] # <<>>, Return(th)
  PROVE  Pushed(th)
BY ReturnStack DEF Pushed

LEMMA PushedEnter ==
  ASSUME StackOK, NEW th \in Threads, NEW f \in Frames, NEW from,
         Enter(th, f, from), f.pc \notin StartPC \cup {"clear"},
         f.pc \in RunPC => body'[f.task] # "fresh"
  PROVE  Pushed(th)
<1>1. \A t2 \in Threads : \A i \in 1 .. Len(stack'[t2]) :
        \/ Kept(th, t2, i)
        \/ t2 = th /\ stack'[t2][i] = f
  BY EnterStack
<1> QED BY <1>1 DEF Pushed, New, FrameFits

\* The steps of a running thread push frames that fit.
LEMMA StepPushes ==
  ASSUME TypeOK, MachineInv, NEW th \in Threads, Step(th)
  PROVE  Pushed(th)
<1> DEFINE f == Top(th)
<1>1. StackOK /\ Monotone
  BY StepData DEF TypeOK, StackOK
<1>2. stack[th] # <<>> =>
        /\ f \in Frames
        /\ f.pc \in StartPC => body[f.arg] = "fresh" /\ f.arg \notin todo[Awaiter(f.arg)]
        /\ f.pc \in RunPC => body[f.task] # "fresh"
  BY RunningFrame DEF FrameFits, Top
<1>3. \A b \in Bodies : body[b] # "fresh" => body'[b] # "fresh"
  BY <1>1 DEF Monotone
<1>4. ContinuationIsNotFresh
  BY DEF MachineInv
<1> USE <1>1, <1>2, <1>3, <1>4, FrameTypes, NewFrame, AwaitableTypes, AwaiterType,
        PushedGoto, PushedCall, PushedReturn
    DEF At, Catch, Raise, Frame, Exceptions, RunPC, StartPC, AwaitPC, TaskPC,
        LeafPC
<1>5. ASSUME BodyAwaits(th) PROVE Pushed(th)
  <2>1. f.task \in Bodies \ Leaves /\ todo[f.task] \subseteq Awaitable(f.task)
    BY <1>5 DEF BodyAwaits, TypeOK
  <2>2. PICK u \in todo[f.task] :
          /\ Goto(th, Frame("getAwaiter", f.task, u))
          /\ todo' = [todo EXCEPT ![f.task] = @ \ {u}]
    BY <1>5 DEF BodyAwaits
  <2>3. /\ u \in Tasks /\ Awaiter(u) = f.task
        /\ Frame("getAwaiter", f.task, u) \in Frames
    BY <2>1, <2>2
  <2>4. u \in todo[Awaiter(u)] /\ u \notin todo'[Awaiter(u)] /\ body' = body
    BY <1>5, <2>1, <2>2, <2>3 DEF BodyAwaits, TypeOK
  <2>5. body'[u] = "fresh"
    BY <2>3, <2>4 DEF MachineInv, TodoIsFresh
  <2> QED BY <1>5, <2>1, <2>2, <2>3, <2>4, <2>5 DEF BodyAwaits
<1>6. ASSUME BodyReturns(th) PROVE Pushed(th)
  BY <1>6 DEF BodyReturns
<1>7. ASSUME BodyThrows(th) PROVE Pushed(th)
  BY <1>7 DEF BodyThrows
<1>8. ASSUME LeafCallsAction(th) PROVE Pushed(th)
  BY <1>8 DEF LeafCallsAction
<1>9. ASSUME LeafChecks(th) PROVE Pushed(th)
  BY <1>9 DEF LeafChecks
<1>10. ASSUME WrapperCreated(th) PROVE Pushed(th)
  <2>1. f.task \in Leaves /\ f.task \in Bodies
    BY <1>10 DEF WrapperCreated
  <2>2. Frame("isCompleted", f.task, Wrapper) \in Frames
    BY <2>1 DEF Awaitable
  <2> QED BY <1>10, <2>1, <2>2 DEF WrapperCreated
<1>11. ASSUME GetAwaiter(th) PROVE Pushed(th)
  <2>1. /\ f.pc \in StartPC /\ stack[th] # <<>> /\ f.task \in Bodies
        /\ f.arg \in Awaitable(f.task) /\ f.arg \in Tasks
        /\ UNCHANGED <<body, todo>>
    BY <1>11 DEF GetAwaiter, bodyVars
  <2>2. /\ Frame("startTask", f.task, f.arg) \in Frames
        /\ Frame("isCompleted", f.task, f.arg) \in Frames
    BY <2>1
  <2>3. \/ Goto(th, Frame("startTask", f.task, f.arg))
        \/ Goto(th, Frame("isCompleted", f.task, f.arg))
    BY <1>11 DEF GetAwaiter
  <2> HIDE DEF f
  <2>4. CASE Goto(th, Frame("startTask", f.task, f.arg))
    BY <2>1, <2>2, <2>4 DEF f
  <2>5. CASE Goto(th, Frame("isCompleted", f.task, f.arg))
    BY <2>1, <2>2, <2>5
  <2> QED BY <2>3, <2>4, <2>5
<1>12. ASSUME StartTask(th) PROVE Pushed(th)
  <2>1. /\ f.pc \in StartPC /\ stack[th] # <<>> /\ f.task \in Bodies
        /\ f.arg \in Awaitable(f.task) /\ f.arg \in Tasks
        /\ UNCHANGED <<body, todo>>
    BY <1>12 DEF StartTask, bodyVars
  <2>2. /\ Frame("runTask", f.task, f.arg) \in Frames
        /\ Frame("setException", f.task, "Error") \in Frames
    BY <2>1
  <2>3. \/ Goto(th, Frame("runTask", f.task, f.arg))
        \/ Goto(th, Frame("setException", f.task, "Error"))
    BY <1>12 DEF StartTask
  <2> HIDE DEF f
  <2>4. CASE Goto(th, Frame("runTask", f.task, f.arg))
    BY <2>1, <2>2, <2>4 DEF f
  <2>5. CASE Goto(th, Frame("setException", f.task, "Error"))
    BY <2>1, <2>2, <2>5
  <2> QED BY <2>3, <2>4, <2>5
<1>13. ASSUME IsCompleted(th) PROVE Pushed(th)
  BY <1>13 DEF IsCompleted
<1>14. ASSUME AwaitOnCompleted(th) PROVE Pushed(th)
  BY <1>14 DEF AwaitOnCompleted
<1>15. ASSUME Register(th) PROVE Pushed(th)
  BY <1>15 DEF Register
<1>16. ASSUME Resume(th) PROVE Pushed(th)
  <2>1. CASE body[f.task] = "suspended"
    <3>1. f.task \in Bodies /\ awaitingTask[f.task] \in Awaitable(f.task)
      BY <1>16, <2>1 DEF Resume, TypeOK
    <3>2. Frame("getResult", f.task, awaitingTask[f.task]) \in Frames
      BY <3>1
    <3> QED BY <1>16, <2>1, <3>1, <3>2 DEF Resume
  <2>2. CASE body[f.task] # "suspended"
    BY <1>16, <2>2 DEF Resume
  <2> QED BY <2>1, <2>2
<1>17. ASSUME GetResult(th) PROVE Pushed(th)
  <2>1. Result(f.task, f.arg) # None => Result(f.task, f.arg) \in Exceptions
    BY DEF Result
  <2>2. f.task \in Bodies /\ body[f.task] # "fresh" /\ stack[th] # <<>>
    BY <1>17 DEF GetResult
  <2>3. CASE Result(f.task, f.arg) = None
    <3>1. Goto(th, Frame("body", f.task, None))
      BY <1>17, <2>3 DEF GetResult
    <3> QED BY <2>2, <3>1
  <2>4. CASE Result(f.task, f.arg) # None
    <3>1. Goto(th, Frame("setException", f.task, Result(f.task, f.arg)))
      BY <1>17, <2>4 DEF GetResult
    <3>2. Frame("setException", f.task, Result(f.task, f.arg)) \in Frames
      BY <2>1, <2>2, <2>4
    <3> QED BY <2>2, <3>1, <3>2
  <2> QED BY <2>3, <2>4
<1>18. ASSUME ClientEnds(th) PROVE Pushed(th)
  BY <1>18 DEF ClientEnds
<1>19. ASSUME SetResult(th) PROVE Pushed(th)
  BY <1>19 DEF SetResult
<1>20. ASSUME SetException(th) PROVE Pushed(th)
  BY <1>20 DEF SetException
<1>21. ASSUME Publish(th) PROVE Pushed(th)
  <2>1. /\ f.task \in Tasks /\ f.task \in Bodies /\ stack[th] # <<>>
        /\ f.arg \in Terminal /\ body[f.task] # "fresh"
    BY <1>21 DEF Publish, Terminal, Bodies
  <2>2. state'[f.task] \in Terminal /\ Goto(th, Frame("clear", f.task, None))
    <3>1. state' = [state EXCEPT ![f.task] = f.arg] /\ Goto(th, Frame("clear", f.task, None))
      BY <1>21 DEF Publish
    <3>2. state \in [Tasks -> TaskState]
      BY DEF TypeOK
    <3> HIDE DEF f
    <3> QED BY <2>1, <3>1, <3>2
  <2>3. Frame("clear", f.task, None) \in Frames
    BY <2>1
  <2> HIDE DEF f
  <2> QED BY <2>1, <2>2, <2>3
<1>22. ASSUME ClearStateMachine(th) PROVE Pushed(th)
  BY <1>22 DEF ClearStateMachine
<1>23. ASSUME RunCallOnCompleted(th) PROVE Pushed(th)
  BY <1>23 DEF RunCallOnCompleted, ContinuationIsNotFresh
<1>24. ASSUME Cancel(th) PROVE Pushed(th)
  BY <1>24 DEF Cancel
<1>25. ASSUME CancelSetsState(th) PROVE Pushed(th)
  BY <1>25 DEF CancelSetsState
<1>26. ASSUME CancelInner(th) PROVE Pushed(th)
  <2>1. /\ f.task \in Tasks /\ stack[th] # <<>>
        /\ awaitingTask[f.task] \in Awaitable(f.task) \cup {None}
    BY <1>26 DEF CancelInner, TypeOK, Bodies
  <2>2. /\ Frame("cancelCheck", f.task, None) \in Frames
        /\ awaitingTask[f.task] \in Tasks =>
             Frame("cancel", awaitingTask[f.task], None) \in Frames
        /\ awaitingTask[f.task] = Wrapper =>
             Frame("wrapperCancel", f.task, None) \in Frames
    <3>1. /\ f.task \in Bodies /\ Wrapper # None
          /\ Wrapper \in Awaitable(f.task) => f.task \in Leaves
      BY <2>1, NamesAssumption DEF Bodies
    <3> HIDE DEF f
    <3> QED BY <2>1, <3>1
  <2>3. CASE awaitingTask[f.task] = None
    <3>1. Goto(th, Frame("cancelCheck", f.task, None))
      BY <1>26, <2>3, NamesAssumption DEF CancelInner
    <3> QED BY <2>1, <2>2, <3>1
  <2>4. CASE awaitingTask[f.task] \in Tasks
    <3> DEFINE c == Frame("cancelCheck", f.task, None)
               g == Frame("cancel", awaitingTask[f.task], None)
    <3>1. Call(th, c, g)
      BY <1>26, <2>4, NamesAssumption DEF CancelInner
    <3>2. /\ c \in Frames /\ c.pc = "cancelCheck"
          /\ g \in Frames /\ g.pc = "cancel"
      BY <2>2, <2>4
    <3> HIDE DEF c, g
    <3> QED BY <2>1, <3>1, <3>2
  <2>5. CASE awaitingTask[f.task] = Wrapper
    <3> DEFINE c == Frame("cancelCheck", f.task, None)
               g == Frame("wrapperCancel", f.task, None)
    <3>1. Call(th, c, g)
      BY <1>26, <2>5, NamesAssumption DEF CancelInner
    <3>2. /\ c \in Frames /\ c.pc = "cancelCheck"
          /\ g \in Frames /\ g.pc = "wrapperCancel"
      BY <2>2, <2>5
    <3> HIDE DEF c, g
    <3> QED BY <2>1, <3>1, <3>2
  <2> QED BY <2>1, <2>3, <2>4, <2>5, AwaitableTypes DEF Bodies
<1>27. ASSUME CancelChecks(th) PROVE Pushed(th)
  BY <1>27 DEF CancelChecks
<1>28. ASSUME WrapperCancel(th) PROVE Pushed(th)
  <2>1. f.task \in Leaves /\ stack[th] # <<>>
    BY <1>28 DEF WrapperCancel
  <2> DEFINE c == Frame("wrapperOnCompleted", f.task, None)
  <2>2. c \in Frames /\ c.pc = "wrapperOnCompleted"
    BY <2>1
  <2>3. Goto(th, c) \/ Call(th, c, c)
    BY <1>28 DEF WrapperCancel
  <2> HIDE DEF c
  <2> QED BY <2>1, <2>2, <2>3
<1>29. ASSUME WrapperOnCompleted(th) PROVE Pushed(th)
  BY <1>29 DEF WrapperOnCompleted, ContinuationIsNotFresh
<1>30. ASSUME WrapperTakes(th) PROVE Pushed(th)
  BY <1>30 DEF WrapperTakes
<1>31. ASSUME UnwindToBody(th) PROVE Pushed(th)
  BY <1>31 DEF UnwindToBody, Unwinding
<1>32. ASSUME UnwindThrough(th) PROVE Pushed(th)
  BY <1>32 DEF UnwindThrough, Unwinding
<1>33. ASSUME UnwindOut(th) PROVE Pushed(th)
  BY <1>1, <1>33, SameStack DEF UnwindOut, Pushed
<1>34. ASSUME RunTask(th) PROVE Pushed(th)
  <2>1. /\ f.task \in Bodies /\ body[f.task] # "fresh" /\ stack[th] # <<>>
        /\ f.arg \in Tasks /\ f.arg \in Bodies /\ f.arg \in Awaitable(f.task)
    BY <1>34 DEF RunTask, Bodies
  <2>2. body'[f.arg] # "fresh"
    <3>1. body' = [body EXCEPT ![f.arg] = "running"]
      BY <1>34 DEF RunTask
    <3>2. body \in [Bodies -> {"fresh", "running", "suspended", "ended"}]
      BY DEF TypeOK
    <3> HIDE DEF f
    <3> QED BY <2>1, <3>1, <3>2
  <2>3. /\ Frame("isCompleted", f.task, f.arg) \in Frames
        /\ Frame("body", f.arg, None) \in Frames
    BY <2>1
  <2>4. Call(th, Frame("isCompleted", f.task, f.arg), Frame("body", f.arg, None))
    BY <1>34 DEF RunTask
  <2> HIDE DEF f
  <2> QED BY <2>1, <2>2, <2>3, <2>4
<1>40. ASSUME CancelNeedsMachine(th) PROVE Pushed(th)
  BY <1>40 DEF CancelNeedsMachine
<1> QED BY <1>5, <1>6, <1>7, <1>8, <1>9, <1>10, <1>11, <1>12, <1>13,
           <1>14, <1>15, <1>16, <1>17, <1>18, <1>19, <1>20, <1>21, <1>22,
           <1>23, <1>24, <1>25, <1>26, <1>27, <1>28, <1>29, <1>30, <1>31,
           <1>32, <1>33, <1>34, <1>40 DEF Step
-----------------------------------------------------------------------------
\* The first MoveNext of a task: no other frame was starting it.
LEMMA RunTaskFits ==
  ASSUME TypeOK, TypeOK', MachineInv, NEW th \in Threads, RunTask(th)
  PROVE  FramesFit'
<1> DEFINE f == Top(th)
           top == Len(stack[th])
<1>1. Pushed(th) /\ Monotone /\ StackOK
  BY StepPushes, StepData DEF Step, TypeOK, StackOK
<1>2. /\ stack[th] # <<>> /\ top \in 1 .. Len(stack[th]) /\ f = stack[th][top]
      /\ f \in Frames /\ f.pc \in StartPC
  BY <1>1, TopFrame DEF RunTask, At, Top, StartPC
<1>3. body' = [body EXCEPT ![f.arg] = "running"]
  BY DEF RunTask
<1> SUFFICES ASSUME NEW t2 \in Threads, NEW i \in 1 .. Len(stack'[t2]),
                    Kept(th, t2, i)
             PROVE  FrameFits(t2, i)'
  BY <1>1 DEF FramesFit, Pushed, New
<1>4. /\ stack'[t2][i] = stack[t2][i] /\ stack[t2][i] \in Frames
      /\ i \in 1 .. Len(stack[t2]) /\ (t2 = th => i < top)
  BY ElementOfSeq DEF Kept, TypeOK
<1>5. FrameFits(t2, i)
  BY <1>4, FramesFitParts DEF MachineInv, FramesFit
<1>6. stack[t2][i].pc \in StartPC => stack[t2][i].arg # f.arg
  <2>1. ASSUME stack[t2][i].pc \in StartPC, stack[t2][i].arg = f.arg
        PROVE  t2 = th /\ i = top
    <3> HIDE DEF top, f
    <3> QED BY <1>2, <1>4, <2>1 DEF MachineInv, StartedOnce
  <2>2. top \in Nat
    BY <1>1 DEF StackOK
  <2> QED BY <1>4, <2>1, <2>2
<1>7. /\ stack[t2][i].task \in Bodies
      /\ stack[t2][i].pc \in StartPC => stack[t2][i].arg \in Tasks
      /\ stack[t2][i].pc = "clear" =>
           stack[t2][i].task \in Tasks /\ stack[t2][i].pc \in RunPC
  BY <1>4, FrameTypes DEF TaskPC, RunPC
<1>8. /\ body \in [Bodies -> {"fresh", "running", "suspended", "ended"}]
      /\ \A t \in Tasks : t \in Bodies
  BY DEF TypeOK, Bodies
<1> HIDE DEF f, top
<1>9. stack[t2][i].pc \in StartPC => body'[stack[t2][i].arg] = body[stack[t2][i].arg]
  BY <1>3, <1>6, <1>7, <1>8
<1> QED BY <1>1, <1>4, <1>5, <1>7, <1>9 DEF FrameFits, Monotone

\* The calls into the runtime.
LEMMA EntryData ==
  ASSUME TypeOK, MachineInv, NEW th \in Threads,
         \/ External(th)
         \/ ClientStart(th)
         \/ \E t \in Cancellable : ClientCancel(th, t)
  PROVE  /\ Monotone /\ Pushed(th)
         /\ \A t \in Tasks : body[t] = "fresh" => body'[t] = "fresh"
         /\ TodoIsFresh' /\ ContinuationIsNotFresh' /\ FreshHasMachine'
         /\ MachineKeptWhileRunning'
<1> DEFINE Goal == /\ Monotone /\ Pushed(th)
                   /\ \A t \in Tasks : body[t] = "fresh" => body'[t] = "fresh"
                   /\ TodoIsFresh' /\ ContinuationIsNotFresh' /\ FreshHasMachine'
                   /\ MachineKeptWhileRunning'
<1>1. /\ StackOK
      /\ TodoIsFresh /\ ContinuationIsNotFresh /\ FreshHasMachine
      /\ MachineKeptWhileRunning
  BY DEF TypeOK, StackOK, MachineInv
<1>2. /\ \A t \in Tasks : t \in Bodies /\ Awaiter(t) \in Bodies
      /\ \A l \in Leaves : l \in Tasks
      /\ \A t \in Cancellable : t \in Tasks
      /\ Client \in Bodies /\ Client \notin Tasks
  BY AwaiterType, TreeAssumption, NamesAssumption DEF Bodies
<1>3. ASSUME UNCHANGED <<taskVars, bodyVars, continuation>>, Pushed(th) PROVE Goal
  BY <1>1, <1>3 DEF Monotone, TodoIsFresh, ContinuationIsNotFresh,
                    FreshHasMachine, MachineKeptWhileRunning, taskVars, bodyVars
<1>4. ASSUME NEW l \in Leaves, RunQueuedCallback(th, l) PROVE Goal
  <2>1. /\ Frame("wrapperOnCompleted", l, None) \in Frames
        /\ Frame("wrapperOnCompleted", l, None).pc = "wrapperOnCompleted"
    BY NewFrame DEF LeafPC, Frame
  <2>2. Pushed(th)
    BY <1>1, <1>4, <2>1, PushedEnter DEF RunQueuedCallback, RunPC, StartPC, AwaitPC
  <2> QED BY <1>3, <1>4, <2>2 DEF RunQueuedCallback
<1>5. ASSUME NEW l \in Leaves, UnderlyingCompletes(th, l) PROVE Goal
  <2>1. /\ Frame("wrapperOnCompleted", l, None) \in Frames
        /\ Frame("wrapperOnCompleted", l, None).pc = "wrapperOnCompleted"
    BY NewFrame DEF LeafPC, Frame
  <2>2. CASE callback[l] = "registered"
    <3>1. Enter(th, Frame("wrapperOnCompleted", l, None), "pool")
      BY <1>5, <2>2 DEF UnderlyingCompletes
    <3>2. Pushed(th)
      BY <1>1, <2>1, <3>1, PushedEnter DEF RunPC, StartPC, AwaitPC
    <3> QED BY <1>3, <1>5, <3>2 DEF UnderlyingCompletes
  <2>3. CASE callback[l] # "registered"
    <3>1. stack[th] = <<>> /\ UNCHANGED stack
      BY <1>5, <2>3 DEF UnderlyingCompletes, Idle
    <3>2. Pushed(th)
      BY <1>1, <3>1, SameStack DEF Pushed
    <3> QED BY <1>3, <1>5, <3>2 DEF UnderlyingCompletes
  <2> QED BY <2>2, <2>3
<1>6. ASSUME NEW t \in Cancellable, ClientCancel(th, t) PROVE Goal
  <2>1. /\ Frame("cancel", t, None) \in Frames
        /\ Frame("cancel", t, None).pc = "cancel"
    BY <1>2, NewFrame DEF TaskPC, Frame
  <2>2. Pushed(th)
    BY <1>1, <1>6, <2>1, PushedEnter DEF ClientCancel, RunPC, StartPC, AwaitPC
  <2> QED BY <1>3, <1>6, <2>2 DEF ClientCancel, wrapperVars
<1>7. ASSUME ClientStart(th) PROVE Goal
  <2>1. /\ Frame("body", Client, None) \in Frames
        /\ Frame("body", Client, None).pc = "body"
        /\ Frame("body", Client, None).task = Client
    BY <1>2, NewFrame DEF Frame
  <2>2. /\ body \in [Bodies -> {"fresh", "running", "suspended", "ended"}]
        /\ body' = [body EXCEPT ![Client] = "running"]
        /\ UNCHANGED <<taskVars, todo, continuation>>
    BY <1>7 DEF ClientStart, TypeOK, wrapperVars
  <2>3. Pushed(th)
    BY <1>1, <1>2, <1>7, <2>1, <2>2, PushedEnter DEF ClientStart, StartPC
  <2>4. /\ \A b \in Bodies : body[b] # "fresh" => body'[b] # "fresh"
        /\ \A t \in Tasks : body'[t] = body[t]
    BY <1>2, <2>2
  <2> QED BY <1>1, <1>2, <2>2, <2>3, <2>4
          DEF Monotone, TodoIsFresh, ContinuationIsNotFresh, FreshHasMachine,
              MachineKeptWhileRunning, taskVars
<1> QED BY <1>4, <1>5, <1>6, <1>7 DEF External

LEMMA MachineInit == Init => MachineInv
<1> SUFFICES ASSUME Init PROVE MachineInv
  OBVIOUS
<1>1. \A th \in Threads : 1 .. Len(stack[th]) = {}
  BY EmptySeq DEF Init
<1>2. \A t \in Tasks : t \in Bodies
  BY DEF Bodies
<1> QED BY <1>1, <1>2
        DEF Init, MachineInv, StartedOnce, StartingIsFresh, TodoIsFresh,
            RunningIsNotFresh, ContinuationIsNotFresh, FreshHasMachine,
            ClearIsTerminal, MachineKeptWhileRunning

LEMMA MachineStep == TypeOK /\ MachineInv /\ [Next]_vars => MachineInv'
<1> SUFFICES ASSUME TypeOK, MachineInv, [Next]_vars PROVE MachineInv'
  OBVIOUS
<1>1. TypeOK'
  BY TypeStep
<1>2. CASE UNCHANGED vars
  BY <1>2 DEF vars, taskVars, bodyVars, wrapperVars, MachineInv, StartedOnce,
              StartingIsFresh, TodoIsFresh, RunningIsNotFresh,
              ContinuationIsNotFresh, FreshHasMachine, ClearIsTerminal,
              MachineKeptWhileRunning
<1>3. ASSUME NEW th \in Threads, Pushed(th), FramesFit',
             TodoIsFresh', ContinuationIsNotFresh', FreshHasMachine',
             MachineKeptWhileRunning'
      PROVE  MachineInv'
  BY <1>1, <1>3, StartedOnceStep
     DEF MachineInv, FramesFit, FrameFits, StartingIsFresh, RunningIsNotFresh,
         ClearIsTerminal
<1>4. ASSUME NEW th \in Threads, Step(th) PROVE MachineInv'
  <2>1. CASE RunTask(th)
    BY <1>1, <1>3, <1>4, <2>1, StepData, StepPushes, RunTaskFits
  <2>2. CASE ~RunTask(th)
    BY <1>1, <1>3, <1>4, <2>2, StepData, StepPushes, FramesFitStep
  <2> QED BY <2>1, <2>2
<1>5. ASSUME NEW th \in Threads,
             \/ External(th)
             \/ ClientStart(th)
             \/ \E t \in Cancellable : ClientCancel(th, t)
      PROVE  MachineInv'
  BY <1>1, <1>3, <1>5, EntryData, FramesFitStep
<1> QED BY <1>2, <1>4, <1>5 DEF Next

\* A task has its state machine until its state says how it ended, in whatever
\* order threads start, resume and cancel tasks: "Task is not initialized" is
\* thrown by Cancel only on a task that ended after Cancel looked at State.
THEOREM MachineKept == Spec => []MachineKeptWhileRunning
<1>1. TypeOK /\ MachineInv => MachineKeptWhileRunning
  BY DEF MachineInv
<1> QED BY <1>1, TypeInit, TypeStep, MachineInit, MachineStep, PTL DEF Spec

\* A task is started by one frame only, and before its body has run: a body
\* never runs on two threads because two methods started its task.
THEOREM TaskStartedOnce == Spec => [](StartedOnce /\ StartingIsFresh)
<1>1. TypeOK /\ MachineInv => StartedOnce /\ StartingIsFresh
  BY DEF MachineInv
<1> QED BY <1>1, TypeInit, TypeStep, MachineInit, MachineStep, PTL DEF Spec
=============================================================================
