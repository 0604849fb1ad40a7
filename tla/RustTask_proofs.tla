-------------------------- MODULE RustTask_proofs ---------------------------
(***************************************************************************)
(* Proofs about RustTask, for any set of threads, any tree of tasks and    *)
(* any use of Cancel.                                                      *)
(***************************************************************************)
EXTENDS RustTask, SequenceTheorems, TLAPS

(***************************************************************************)
(* Call stacks.  What a stack holds after the running method went on,      *)
(* called another one or returned.                                         *)
(***************************************************************************)

\* The frames below the running one.
LEMMA BelowSeq ==
  ASSUME NEW S, NEW s \in Seq(S), s # <<>>
  PROVE  /\ Len(s) \in Nat \ {0}
         /\ s[Len(s)] \in S
         /\ SubSeq(s, 1, Len(s) - 1) \in Seq(S)
         /\ Len(SubSeq(s, 1, Len(s) - 1)) = Len(s) - 1
         /\ \A i \in 1 .. Len(s) - 1 : SubSeq(s, 1, Len(s) - 1)[i] = s[i]
<1>1. Len(s) \in Nat \ {0}
  BY EmptySeq
<1>2. s[Len(s)] \in S
  BY <1>1, ElementOfSeq
<1>3. QED
  BY <1>1, <1>2, SubSeqProperties

StackOK == stack \in [Threads -> Seq(Frames)]

\* Frame i of thread t2 was there before and did not run (th is the thread
\* that took the step).
Kept(th, t2, i) ==
  /\ i \in 1 .. Len(stack[t2])
  /\ t2 = th => i < Len(stack[th])
  /\ stack'[t2][i] = stack[t2][i]

\* The running frame is one of the thread's frames.
LEMMA TopFrame ==
  ASSUME StackOK, NEW th \in Threads, stack[th] # <<>>
  PROVE  Len(stack[th]) \in Nat \ {0} /\ Top(th) \in Frames
BY BelowSeq DEF StackOK, Top

\* Going on at f replaces the running frame.
LEMMA GotoStack ==
  ASSUME StackOK, NEW th \in Threads, stack[th] # <<>>, NEW f \in Frames,
         Goto(th, f)
  PROVE  /\ StackOK'
         /\ stack'[th] # <<>>
         /\ \A t2 \in Threads : \A i \in 1 .. Len(stack'[t2]) :
              \/ Kept(th, t2, i)
              \/ t2 = th /\ i = Len(stack[th]) /\ stack'[t2][i] = f
<1> DEFINE s == stack[th]
           b == SubSeq(s, 1, Len(s) - 1)
<1>1. s \in Seq(Frames) /\ s # <<>>
  BY DEF StackOK
<1>2. /\ Len(s) \in Nat \ {0}
      /\ b \in Seq(Frames) /\ Len(b) = Len(s) - 1
      /\ \A i \in 1 .. Len(s) - 1 : b[i] = s[i]
  <2> HIDE DEF s
  <2> QED BY <1>1, BelowSeq
<1>3. /\ Append(b, f) \in Seq(Frames) /\ Append(b, f) # <<>>
      /\ Len(Append(b, f)) = Len(b) + 1
      /\ \A i \in 1 .. Len(b) : Append(b, f)[i] = b[i]
      /\ Append(b, f)[Len(b) + 1] = f
  <2> HIDE DEF b
  <2> QED BY <1>2, AppendProperties
<1>4. stack' = [stack EXCEPT ![th] = Append(b, f)]
  BY DEF Goto, Below
<1> HIDE DEF b
<1>5. StackOK'
  BY <1>3, <1>4 DEF StackOK
<1>6. stack'[th] = Append(b, f) /\ \A t2 \in Threads : t2 # th => stack'[t2] = stack[t2]
  BY <1>4 DEF StackOK
<1>7. ASSUME NEW t2 \in Threads, NEW i \in 1 .. Len(stack'[t2])
      PROVE  \/ Kept(th, t2, i)
             \/ t2 = th /\ i = Len(stack[th]) /\ stack'[t2][i] = f
  <2>1. CASE t2 # th
    BY <2>1, <1>6, <1>7 DEF Kept
  <2>2. CASE t2 = th
    BY <2>2, <1>2, <1>3, <1>6, <1>7 DEF Kept
  <2> QED BY <2>1, <2>2
<1> QED BY <1>3, <1>5, <1>6, <1>7

\* Calling g leaves f below it.
LEMMA CallStack ==
  ASSUME StackOK, NEW th \in Threads, stack[th] # <<>>,
         NEW f \in Frames, NEW g \in Frames, Call(th, f, g)
  PROVE  /\ StackOK'
         /\ stack'[th] # <<>>
         /\ \A t2 \in Threads : \A i \in 1 .. Len(stack'[t2]) :
              \/ Kept(th, t2, i)
              \/ t2 = th /\ i = Len(stack[th]) /\ stack'[t2][i] = f
              \/ t2 = th /\ i = Len(stack[th]) + 1 /\ stack'[t2][i] = g
<1> DEFINE s == stack[th]
           b == SubSeq(s, 1, Len(s) - 1)
           c == Append(b, f)
<1>1. s \in Seq(Frames) /\ s # <<>>
  BY DEF StackOK
<1>2. /\ Len(s) \in Nat \ {0}
      /\ b \in Seq(Frames) /\ Len(b) = Len(s) - 1
      /\ \A i \in 1 .. Len(s) - 1 : b[i] = s[i]
  <2> HIDE DEF s
  <2> QED BY <1>1, BelowSeq
<1>3. /\ c \in Seq(Frames)
      /\ Len(c) = Len(b) + 1
      /\ \A i \in 1 .. Len(b) : c[i] = b[i]
      /\ c[Len(b) + 1] = f
  <2> HIDE DEF b
  <2> QED BY <1>2, AppendProperties
<1>4. /\ Append(c, g) \in Seq(Frames) /\ Append(c, g) # <<>>
      /\ Len(Append(c, g)) = Len(c) + 1
      /\ \A i \in 1 .. Len(c) : Append(c, g)[i] = c[i]
      /\ Append(c, g)[Len(c) + 1] = g
  <2> HIDE DEF c
  <2> QED BY <1>3, AppendProperties
<1>5. stack' = [stack EXCEPT ![th] = Append(c, g)]
  BY DEF Call, Below
<1> HIDE DEF b, c
<1>6. StackOK'
  BY <1>4, <1>5 DEF StackOK
<1>7. stack'[th] = Append(c, g) /\ \A t2 \in Threads : t2 # th => stack'[t2] = stack[t2]
  BY <1>5 DEF StackOK
<1>8. ASSUME NEW t2 \in Threads, NEW i \in 1 .. Len(stack'[t2])
      PROVE  \/ Kept(th, t2, i)
             \/ t2 = th /\ i = Len(stack[th]) /\ stack'[t2][i] = f
             \/ t2 = th /\ i = Len(stack[th]) + 1 /\ stack'[t2][i] = g
  <2>1. CASE t2 # th
    BY <2>1, <1>7, <1>8 DEF Kept
  <2>2. CASE t2 = th
    <3>1. stack'[t2] = Append(c, g)
      BY <2>2, <1>7
    <3>2. CASE i = Len(c) + 1
      BY <3>1, <3>2, <2>2, <1>2, <1>3, <1>4
    <3>3. CASE i \in 1 .. Len(b)
      <4>1. i \in 1 .. Len(c) /\ i \in 1 .. Len(s) - 1 /\ i < Len(s) /\ i \in 1 .. Len(s)
        BY <3>3, <1>2, <1>3
      <4>2. Append(c, g)[i] = c[i] /\ c[i] = b[i] /\ b[i] = s[i]
        BY <4>1, <3>3, <1>2, <1>3, <1>4
      <4> QED BY <4>1, <4>2, <3>1, <2>2 DEF Kept
    <3>4. CASE i = Len(b) + 1
      BY <3>1, <3>4, <2>2, <1>2, <1>3, <1>4
    <3> QED BY <3>1, <3>2, <3>3, <3>4, <1>2, <1>3, <1>4
  <2> QED BY <2>1, <2>2
<1> QED BY <1>4, <1>6, <1>7, <1>8

\* Returning drops the running frame.
LEMMA ReturnStack ==
  ASSUME StackOK, NEW th \in Threads, stack[th] # <<>>, Return(th)
  PROVE  /\ StackOK'
         /\ \A t2 \in Threads : \A i \in 1 .. Len(stack'[t2]) : Kept(th, t2, i)
<1> DEFINE s == stack[th]
           b == SubSeq(s, 1, Len(s) - 1)
<1>1. s \in Seq(Frames) /\ s # <<>>
  BY DEF StackOK
<1>2. /\ Len(s) \in Nat \ {0}
      /\ b \in Seq(Frames) /\ Len(b) = Len(s) - 1
      /\ \A i \in 1 .. Len(s) - 1 : b[i] = s[i]
  <2> HIDE DEF s
  <2> QED BY <1>1, BelowSeq
<1>3. stack' = [stack EXCEPT ![th] = b]
  BY DEF Return, Below
<1> HIDE DEF b
<1>4. StackOK'
  BY <1>2, <1>3 DEF StackOK
<1>5. stack'[th] = b /\ \A t2 \in Threads : t2 # th => stack'[t2] = stack[t2]
  BY <1>3 DEF StackOK
<1> QED BY <1>2, <1>4, <1>5 DEF Kept

\* Entering the runtime on an idle thread makes f its only frame.
LEMMA EnterStack ==
  ASSUME StackOK, NEW th \in Threads, NEW f \in Frames, NEW from,
         Enter(th, f, from)
  PROVE  /\ StackOK'
         /\ \A t2 \in Threads : \A i \in 1 .. Len(stack'[t2]) :
              \/ Kept(th, t2, i)
              \/ t2 = th /\ i = 1 /\ stack'[t2][i] = f
<1>1. stack' = [stack EXCEPT ![th] = <<f>>]
  BY DEF Enter
<1>2. <<f>> \in Seq(Frames) /\ Len(<<f>>) = 1 /\ <<f>>[1] = f
  OBVIOUS
<1>3. StackOK'
  BY <1>1, <1>2 DEF StackOK
<1>4. stack'[th] = <<f>> /\ \A t2 \in Threads : t2 # th => stack'[t2] = stack[t2]
  BY <1>1 DEF StackOK
<1> QED BY <1>2, <1>3, <1>4 DEF Kept

\* A step that leaves the stacks alone.
LEMMA SameStack ==
  ASSUME StackOK, NEW th \in Threads, UNCHANGED stack, stack[th] = <<>>
  PROVE  /\ StackOK'
         /\ \A t2 \in Threads : \A i \in 1 .. Len(stack'[t2]) : Kept(th, t2, i)
BY DEF StackOK, Kept
-----------------------------------------------------------------------------
(***************************************************************************)
(* Frames.  Which frames are well formed, and what a frame's program       *)
(* counter says of its task and argument.                                  *)
(***************************************************************************)

\* The bodies are the tasks and the client; what a body awaits is a task, or
\* a leaf's wrapper.
LEMMA AwaitableTypes ==
  ASSUME NEW b \in Bodies
  PROVE  /\ Awaitable(b) \subseteq Tasks \cup {Wrapper}
         /\ None \notin Awaitable(b)
         /\ b \notin Leaves => Awaitable(b) \subseteq Tasks
         /\ Wrapper \in Awaitable(b) => b \in Leaves
         /\ \A u \in Awaitable(b) : u \in Tasks => Awaiter(u) = b
BY TreeAssumption, NamesAssumption DEF Awaitable, Bodies

LEMMA AwaiterType ==
  ASSUME NEW t \in Tasks
  PROVE  Awaiter(t) \in Bodies /\ Awaiter(t) \notin Leaves /\ t \in Awaitable(Awaiter(t))
BY TreeAssumption, NamesAssumption DEF Awaiter, Awaitable, Bodies

\* Building frames.
LEMMA NewFrame ==
  /\ \A b \in Bodies : /\ \A pc \in {"body", "resume", "setResult"} :
                            Frame(pc, b, None) \in Frames
                       /\ \A e \in Exceptions :
                            Frame("setException", b, e) \in Frames
  /\ \A b \in Bodies : \A u \in Awaitable(b) :
       /\ \A pc \in AwaitPC : Frame(pc, b, u) \in Frames
       /\ u \in Tasks => \A pc \in StartPC : Frame(pc, b, u) \in Frames
  /\ \A t \in Tasks : /\ \A pc \in TaskPC : Frame(pc, t, None) \in Frames
                      /\ \A o \in {"CompletedSuccessfully", "Failed"} :
                           Frame("publish", t, o) \in Frames
  /\ \A l \in Leaves : \A pc \in LeafPC : Frame(pc, l, None) \in Frames
<1> USE DEF Frame, Frames
<1>1. \A b \in Bodies : /\ \A pc \in {"body", "resume", "setResult"} :
                            Frame(pc, b, None) \in Frames
                        /\ \A e \in Exceptions :
                            Frame("setException", b, e) \in Frames
  OBVIOUS
<1>2. \A b \in Bodies : \A u \in Awaitable(b) :
       /\ \A pc \in AwaitPC : Frame(pc, b, u) \in Frames
       /\ u \in Tasks => \A pc \in StartPC : Frame(pc, b, u) \in Frames
  BY AwaitableTypes
<1>3. \A t \in Tasks : /\ \A pc \in TaskPC : Frame(pc, t, None) \in Frames
                       /\ \A o \in {"CompletedSuccessfully", "Failed"} :
                            Frame("publish", t, o) \in Frames
  OBVIOUS
<1>4. \A l \in Leaves : \A pc \in LeafPC : Frame(pc, l, None) \in Frames
  OBVIOUS
<1> QED BY <1>1, <1>2, <1>3, <1>4

\* Reading frames.
LEMMA FrameTypes ==
  ASSUME NEW f \in Frames
  PROVE  /\ f.task \in Bodies
         /\ f.pc \in StartPC \cup AwaitPC => f.arg \in Awaitable(f.task)
         /\ f.pc \in StartPC => f.arg \in Tasks
         /\ f.pc \in TaskPC \cup {"publish"} => f.task \in Tasks
         /\ f.pc = "publish" => f.arg \in {"CompletedSuccessfully", "Failed"}
         /\ f.pc = "setException" => f.arg \in Exceptions
         /\ f.pc \in LeafPC => f.task \in Leaves /\ f.task \in Tasks
BY TreeAssumption
   DEF Frames, StartPC, AwaitPC, TaskPC, LeafPC, Bodies
-----------------------------------------------------------------------------
(***************************************************************************)
(* Type correctness.                                                       *)
(***************************************************************************)
LEMMA TypeInit == Init => TypeOK
<1> SUFFICES ASSUME Init PROVE TypeOK
  OBVIOUS
<1>1. /\ todo \in [Bodies -> SUBSET (Tasks \cup {Wrapper})]
      /\ \A b \in Bodies : todo[b] \subseteq Awaitable(b)
  BY AwaitableTypes DEF Init
<1>2. stack \in [Threads -> Seq(Frames)]
  BY EmptySeq DEF Init
<1> QED BY <1>1, <1>2 DEF Init, TypeOK, TaskState, Terminal

\* The steps of a running thread keep the stacks well formed.
LEMMA StackStep ==
  ASSUME TypeOK, NEW th \in Threads, Step(th)
  PROVE  StackOK'
<1> DEFINE f == Top(th)
<1>0. StackOK /\ reentered \subseteq Bodies
  BY DEF TypeOK, StackOK
<1>1. stack[th] # <<>> => f \in Frames
  BY <1>0, TopFrame
<1> USE <1>0, <1>1, NewFrame, FrameTypes, AwaitableTypes, AwaiterType, GotoStack,
        ReturnStack, CallStack
    DEF StartPC, AwaitPC, TaskPC, LeafPC, At, Catch, Raise, Exceptions
<1>2. ASSUME BodyAwaits(th) PROVE StackOK'
  <2>1. f.task \in Bodies \ Leaves /\ todo[f.task] \subseteq Awaitable(f.task)
    BY <1>2 DEF BodyAwaits, TypeOK
  <2>2. PICK u \in todo[f.task] : Goto(th, Frame("getAwaiter", f.task, u))
    BY <1>2 DEF BodyAwaits
  <2>3. Frame("getAwaiter", f.task, u) \in Frames
    BY <2>1, <2>2
  <2> QED BY <1>2, <2>2, <2>3 DEF BodyAwaits
<1>3. ASSUME BodyReturns(th) PROVE StackOK'
  BY <1>3 DEF BodyReturns
<1>4. ASSUME BodyThrows(th) PROVE StackOK'
  BY <1>4 DEF BodyThrows
<1>5. ASSUME LeafCallsAction(th) PROVE StackOK'
  BY <1>5 DEF LeafCallsAction
<1>6. ASSUME LeafChecks(th) PROVE StackOK'
  BY <1>6 DEF LeafChecks
<1>7. ASSUME WrapperCreated(th) PROVE StackOK'
  <2>1. f.task \in Leaves /\ f.task \in Bodies
    BY <1>7 DEF WrapperCreated
  <2>2. Frame("isCompleted", f.task, Wrapper) \in Frames
    BY <2>1 DEF Awaitable
  <2> QED BY <1>7, <2>2 DEF WrapperCreated
<1>8. ASSUME GetAwaiter(th) PROVE StackOK'
  BY <1>8 DEF GetAwaiter
<1>9. ASSUME StartTask(th) PROVE StackOK'
  BY <1>9 DEF StartTask
<1>10. ASSUME RunTask(th) PROVE StackOK'
  <2>1. /\ Frame("isCompleted", f.task, f.arg) \in Frames
        /\ Frame("body", f.arg, None) \in Frames
    BY <1>10 DEF RunTask, Bodies
  <2> QED BY <1>10, <2>1 DEF RunTask
<1>11. ASSUME IsCompleted(th) PROVE StackOK'
  BY <1>11 DEF IsCompleted
<1>12. ASSUME AwaitOnCompleted(th) PROVE StackOK'
  BY <1>12 DEF AwaitOnCompleted
<1>13. ASSUME Register(th) PROVE StackOK'
  BY <1>13 DEF Register
<1>14. ASSUME Resume(th) PROVE StackOK'
  <2>1. CASE body[f.task] = "suspended"
    <3>1. f.task \in Bodies /\ awaitingTask[f.task] \in Awaitable(f.task)
      BY <1>14, <2>1 DEF Resume, TypeOK
    <3>2. Frame("getResult", f.task, awaitingTask[f.task]) \in Frames
      BY <3>1
    <3> QED BY <1>14, <2>1, <3>2 DEF Resume
  <2>2. CASE body[f.task] # "suspended"
    BY <1>14, <2>2 DEF Resume
  <2> QED BY <2>1, <2>2
<1>15. ASSUME GetResult(th) PROVE StackOK'
  <2>1. Result(f.task, f.arg) # None => Result(f.task, f.arg) \in Exceptions
    BY DEF Result
  <2>2. /\ Frame("body", f.task, None) \in Frames
        /\ Result(f.task, f.arg) # None =>
             Frame("setException", f.task, Result(f.task, f.arg)) \in Frames
    BY <1>15, <2>1 DEF GetResult
  <2> QED BY <1>15, <2>2 DEF GetResult
<1>16. ASSUME ClientEnds(th) PROVE StackOK'
  BY <1>16 DEF ClientEnds
<1>17. ASSUME SetResult(th) PROVE StackOK'
  BY <1>17 DEF SetResult
<1>18. ASSUME SetException(th) PROVE StackOK'
  BY <1>18 DEF SetException
<1>19. ASSUME Publish(th) PROVE StackOK'
  BY <1>19 DEF Publish
<1>20. ASSUME ClearStateMachine(th) PROVE StackOK'
  BY <1>20 DEF ClearStateMachine
<1>21. ASSUME RunCallOnCompleted(th) PROVE StackOK'
  BY <1>21 DEF RunCallOnCompleted
<1>22. ASSUME Cancel(th) PROVE StackOK'
  BY <1>22 DEF Cancel
<1>23. ASSUME CancelSetsState(th) PROVE StackOK'
  BY <1>23 DEF CancelSetsState
<1>24. ASSUME CancelInner(th) PROVE StackOK'
  <2>1. f.task \in Tasks /\ awaitingTask[f.task] \in Awaitable(f.task) \cup {None}
    BY <1>24 DEF CancelInner, TypeOK, Bodies
  <2>2. /\ Frame("cancelCheck", f.task, None) \in Frames
        /\ awaitingTask[f.task] \in Tasks =>
             Frame("cancel", awaitingTask[f.task], None) \in Frames
        /\ awaitingTask[f.task] = Wrapper =>
             Frame("wrapperCancel", f.task, None) \in Frames
    BY <2>1, NamesAssumption DEF Bodies
  <2> QED BY <1>24, <2>2 DEF CancelInner
<1>25. ASSUME CancelChecks(th) PROVE StackOK'
  BY <1>25 DEF CancelChecks
<1>26. ASSUME WrapperCancel(th) PROVE StackOK'
  BY <1>26 DEF WrapperCancel
<1>27. ASSUME WrapperOnCompleted(th) PROVE StackOK'
  BY <1>27 DEF WrapperOnCompleted
<1>28. ASSUME WrapperTakes(th) PROVE StackOK'
  BY <1>28 DEF WrapperTakes
<1>29. ASSUME UnwindToBody(th) PROVE StackOK'
  BY <1>29 DEF UnwindToBody, Unwinding
<1>30. ASSUME UnwindThrough(th) PROVE StackOK'
  BY <1>30 DEF UnwindThrough, Unwinding
<1>31. ASSUME UnwindOut(th) PROVE StackOK'
  BY <1>31 DEF UnwindOut, StackOK
<1>32. ASSUME CancelNeedsMachine(th) PROVE StackOK'
  BY <1>32 DEF CancelNeedsMachine
<1> QED BY <1>2, <1>3, <1>4, <1>5, <1>6, <1>7, <1>8, <1>9, <1>10, <1>11, <1>12, <1>13, <1>14, <1>15, <1>16, <1>17, <1>18, <1>19, <1>20, <1>21, <1>22, <1>23, <1>24, <1>25, <1>26, <1>27, <1>28, <1>29, <1>30, <1>31, <1>32 DEF Step

\* The steps of a running thread preserve the types of everything else.
LEMMA StepTypes ==
  ASSUME TypeOK, NEW th \in Threads, Step(th)
  PROVE  TypeOK'
<1> DEFINE f == Top(th)
<1>0. StackOK /\ StackOK'
  BY StackStep DEF TypeOK, StackOK
<1>1. stack[th] # <<>> => f \in Frames
  BY <1>0, TopFrame
<1> USE <1>0, <1>1, FrameTypes DEF StartPC, AwaitPC, TaskPC, LeafPC, At, Raise,
        StackOK, TypeOK, taskVars, bodyVars, wrapperVars, ghostVars
<1>2. ASSUME BodyAwaits(th) PROVE TypeOK'
  BY <1>2 DEF BodyAwaits
<1>3. ASSUME BodyReturns(th) PROVE TypeOK'
  BY <1>3 DEF BodyReturns
<1>4. ASSUME BodyThrows(th) PROVE TypeOK'
  BY <1>4 DEF BodyThrows
<1>5. ASSUME LeafCallsAction(th) PROVE TypeOK'
  <2>1. underlying' \in [Leaves -> {"none", "pending", "done", "faulted"}]
    <3>1. \/ UNCHANGED underlying
          \/ \E o \in {"pending", "done", "faulted"} :
               underlying' = [underlying EXCEPT ![f.task] = o]
      BY <1>5 DEF LeafCallsAction
    <3> HIDE DEF f
    <3> QED BY <3>1
  <2>2. /\ todo' \in [Bodies -> SUBSET (Tasks \cup {Wrapper})]
        /\ \A b \in Bodies : todo'[b] \subseteq Awaitable(b)
    BY <1>5 DEF LeafCallsAction
  <2> QED BY <1>5, <2>1, <2>2 DEF LeafCallsAction
<1>6. ASSUME LeafChecks(th) PROVE TypeOK'
  BY <1>6 DEF LeafChecks
<1>7. ASSUME WrapperCreated(th) PROVE TypeOK'
  BY <1>7 DEF WrapperCreated
<1>8. ASSUME GetAwaiter(th) PROVE TypeOK'
  BY <1>8 DEF GetAwaiter
<1>9. ASSUME StartTask(th) PROVE TypeOK'
  BY <1>9 DEF StartTask
<1>10. ASSUME RunTask(th) PROVE TypeOK'
  BY <1>10 DEF RunTask, TaskState, Terminal
<1>11. ASSUME IsCompleted(th) PROVE TypeOK'
  BY <1>11 DEF IsCompleted
<1>12. ASSUME AwaitOnCompleted(th) PROVE TypeOK'
  <2>1. f.task \in Bodies /\ f.arg \in Awaitable(f.task)
        /\ f.arg \in Tasks \cup {Wrapper} /\ f.arg # None
    BY <1>12, AwaitableTypes DEF AwaitOnCompleted
  <2> QED BY <1>12, <2>1 DEF AwaitOnCompleted
<1>13. ASSUME Register(th) PROVE TypeOK'
  BY <1>13 DEF Register
<1>14. ASSUME Resume(th) PROVE TypeOK'
  <2>1. /\ body' \in [Bodies -> {"fresh", "running", "suspended", "ended"}]
        /\ \A b \in Bodies : body'[b] = "suspended" => body[b] = "suspended"
    <3>1. UNCHANGED body \/ body' = [body EXCEPT ![f.task] = "running"]
      BY <1>14 DEF Resume
    <3>2. body \in [Bodies -> {"fresh", "running", "suspended", "ended"}]
      OBVIOUS
    <3> HIDE DEF f, TypeOK
    <3> QED BY <3>1, <3>2
  <2>2. reentered' \subseteq Bodies
    BY <1>14 DEF Resume
  <2> QED BY <1>14, <2>1, <2>2 DEF Resume
<1>15. ASSUME GetResult(th) PROVE TypeOK'
  BY <1>15 DEF GetResult
<1>16. ASSUME ClientEnds(th) PROVE TypeOK'
  BY <1>16 DEF ClientEnds
<1>17. ASSUME SetResult(th) PROVE TypeOK'
  <2>1. /\ body' \in [Bodies -> {"fresh", "running", "suspended", "ended"}]
        /\ \A b \in Bodies : body'[b] = "suspended" => body[b] = "suspended"
    <3>1. body' = [body EXCEPT ![f.task] = "ended"]
      BY <1>17 DEF SetResult
    <3>2. body \in [Bodies -> {"fresh", "running", "suspended", "ended"}]
      OBVIOUS
    <3> HIDE DEF f, TypeOK
    <3> QED BY <3>1, <3>2
  <2>2. raised' \in [Threads -> BOOLEAN]
    BY <1>17 DEF SetResult
  <2>3. UNCHANGED <<taskVars, todo, wrapperVars, entry, ghostVars>>
    BY <1>17 DEF SetResult
  <2> QED BY <2>1, <2>2, <2>3
<1>18. ASSUME SetException(th) PROVE TypeOK'
  <2>1. stateMachine' \in [Tasks -> BOOLEAN] /\ raised' \in [Threads -> BOOLEAN]
    <3>1. /\ \/ UNCHANGED stateMachine
             \/ stateMachine' = [stateMachine EXCEPT ![f.task] = FALSE]
          /\ UNCHANGED raised \/ raised' = [raised EXCEPT ![th] = TRUE]
      BY <1>18 DEF SetException
    <3> HIDE DEF f
    <3> QED BY <3>1
  <2>2. /\ body' \in [Bodies -> {"fresh", "running", "suspended", "ended"}]
        /\ \A b \in Bodies : body'[b] = "suspended" => body[b] = "suspended"
    <3>1. body' = [body EXCEPT ![f.task] = "ended"]
      BY <1>18 DEF SetException
    <3>2. body \in [Bodies -> {"fresh", "running", "suspended", "ended"}]
      OBVIOUS
    <3> HIDE DEF f, TypeOK
    <3> QED BY <3>1, <3>2
  <2>3. UNCHANGED <<state, onCompleted, awaitingTask, todo, wrapperVars, entry,
                    ghostVars>>
    BY <1>18 DEF SetException
  <2> QED BY <2>1, <2>2, <2>3
<1>19. ASSUME Publish(th) PROVE TypeOK'
  BY <1>19 DEF Publish, TaskState, Terminal
<1>20. ASSUME ClearStateMachine(th) PROVE TypeOK'
  BY <1>20 DEF ClearStateMachine
<1>21. ASSUME RunCallOnCompleted(th) PROVE TypeOK'
  BY <1>21 DEF RunCallOnCompleted
<1>22. ASSUME Cancel(th) PROVE TypeOK'
  BY <1>22 DEF Cancel
<1>23. ASSUME CancelSetsState(th) PROVE TypeOK'
  BY <1>23 DEF CancelSetsState, TaskState, Terminal
<1>24. ASSUME CancelInner(th) PROVE TypeOK'
  BY <1>24 DEF CancelInner
<1>25. ASSUME CancelChecks(th) PROVE TypeOK'
  BY <1>25 DEF CancelChecks
<1>26. ASSUME WrapperCancel(th) PROVE TypeOK'
  <2>1. underlying' \in [Leaves -> {"none", "pending", "done", "faulted"}]
    BY <1>26 DEF WrapperCancel
  <2>2. callback' \in [Leaves -> {"none", "registered", "queued", "fired"}]
    BY <1>26 DEF WrapperCancel
  <2>3. cts' \in [Leaves -> BOOLEAN]
    BY <1>26 DEF WrapperCancel
  <2> QED BY <1>26, <2>1, <2>2, <2>3 DEF WrapperCancel
<1>27. ASSUME WrapperOnCompleted(th) PROVE TypeOK'
  BY <1>27 DEF WrapperOnCompleted
<1>28. ASSUME WrapperTakes(th) PROVE TypeOK'
  BY <1>28 DEF WrapperTakes
<1>29. ASSUME UnwindToBody(th) PROVE TypeOK'
  BY <1>29 DEF UnwindToBody
<1>30. ASSUME UnwindThrough(th) PROVE TypeOK'
  BY <1>30 DEF UnwindThrough
<1>31. ASSUME UnwindOut(th) PROVE TypeOK'
  BY <1>31 DEF UnwindOut
<1>32. ASSUME CancelNeedsMachine(th) PROVE TypeOK'
  BY <1>32 DEF CancelNeedsMachine
<1> QED BY <1>2, <1>3, <1>4, <1>5, <1>6, <1>7, <1>8, <1>9, <1>10, <1>11, <1>12, <1>13, <1>14, <1>15, <1>16, <1>17, <1>18, <1>19, <1>20, <1>21, <1>22, <1>23, <1>24, <1>25, <1>26, <1>27, <1>28, <1>29, <1>30, <1>31, <1>32 DEF Step

\* So do the calls into the runtime.
LEMMA EntryTypes ==
  ASSUME TypeOK, NEW th \in Threads,
         \/ External(th)
         \/ ClientStart(th)
         \/ \E t \in Cancellable : ClientCancel(th, t)
  PROVE  TypeOK'
<1>0. StackOK
  BY DEF TypeOK, StackOK
<1> USE <1>0, NewFrame, EnterStack DEF TaskPC, LeafPC, Enter, StackOK, TypeOK,
        taskVars, bodyVars, wrapperVars, ghostVars
<1>1. ASSUME NEW l \in Leaves, UnderlyingCompletes(th, l) PROVE TypeOK'
  <2>1. underlying' \in [Leaves -> {"none", "pending", "done", "faulted"}]
    BY <1>1 DEF UnderlyingCompletes
  <2>2. callback' \in [Leaves -> {"none", "registered", "queued", "fired"}]
    BY <1>1 DEF UnderlyingCompletes
  <2>3. Frame("wrapperOnCompleted", l, None) \in Frames
    OBVIOUS
  <2>4. stack' \in [Threads -> Seq(Frames)]
    BY <1>1, <2>3 DEF UnderlyingCompletes, Idle
  <2>5. raised' \in [Threads -> BOOLEAN] /\ entry' \in [Threads -> {"none", "client", "cancel", "pool"}]
    BY <1>1 DEF UnderlyingCompletes
  <2>6. UNCHANGED <<taskVars, bodyVars, cts, continuation, ghostVars>>
    BY <1>1 DEF UnderlyingCompletes
  <2> QED BY <2>1, <2>2, <2>4, <2>5, <2>6
<1>2. ASSUME NEW l \in Leaves, RunQueuedCallback(th, l) PROVE TypeOK'
  BY <1>2 DEF RunQueuedCallback
<1>3. ASSUME ClientStart(th) PROVE TypeOK'
  BY <1>3 DEF ClientStart, Bodies
<1>4. ASSUME NEW t \in Cancellable, ClientCancel(th, t) PROVE TypeOK'
  BY <1>4, TreeAssumption DEF ClientCancel
<1> QED BY <1>1, <1>2, <1>3, <1>4 DEF External

LEMMA TypeStep == TypeOK /\ [Next]_vars => TypeOK'
<1> SUFFICES ASSUME TypeOK, [Next]_vars PROVE TypeOK'
  OBVIOUS
<1>1. CASE UNCHANGED vars
  BY <1>1 DEF vars, taskVars, bodyVars, wrapperVars, ghostVars, TypeOK
<1>2. CASE Next
  BY <1>2, StepTypes, EntryTypes DEF Next
<1> QED BY <1>1, <1>2

\* Every field, state machine, wrapper and call stack of the runtime keeps its
\* type, whatever threads run, whatever the bodies await and whoever cancels.
THEOREM TypeCorrect == Spec => []TypeOK
BY TypeInit, TypeStep, PTL DEF Spec
=============================================================================
