----------------------- MODULE RustTaskControl_proofs -----------------------
(***************************************************************************)
(* Until somebody calls Cancel, every body is controlled from one place:   *)
(* for any set of threads and any tree of tasks, ControlInv holds, and     *)
(* with it no body is entered twice, no check of the runtime fails, no     *)
(* task outlives its awaiter, and a task that ended stays as it ended.     *)
(***************************************************************************)
EXTENDS RustTaskControl, RustTaskMachine_proofs

(***************************************************************************)
(* Call stacks.  The frames below the running one stay where they are.     *)
(***************************************************************************)
FramesBelowStay(th) ==
  \A t2 \in Threads : \A i \in 1 .. Len(stack[t2]) :
    (t2 = th => i < Len(stack[th])) =>
      i \in 1 .. Len(stack'[t2]) /\ stack'[t2][i] = stack[t2][i]

LEMMA BelowStaysIf ==
  ASSUME StackOK, NEW th \in Threads, NEW e \in Seq(Frames),
         stack' = [stack EXCEPT ![th] = e], Len(e) >= Len(stack[th]) - 1,
         \A i \in 1 .. Len(stack[th]) - 1 : e[i] = stack[th][i]
  PROVE  FramesBelowStay(th)
<1>1. /\ stack'[th] = e /\ Len(e) \in Nat /\ Len(stack[th]) \in Nat
      /\ \A t2 \in Threads : t2 # th => stack'[t2] = stack[t2]
  BY DEF StackOK
<1> QED BY <1>1 DEF FramesBelowStay

LEMMA BelowStays ==
  ASSUME StackOK, NEW th \in Threads, stack[th] # <<>>
  PROVE  /\ Return(th) => FramesBelowStay(th)
         /\ \A f \in Frames : Goto(th, f) => FramesBelowStay(th)
         /\ \A f, g \in Frames : Call(th, f, g) => FramesBelowStay(th)
<1> DEFINE s == stack[th]
           b == SubSeq(s, 1, Len(s) - 1)
<1>1. s \in Seq(Frames) /\ s # <<>>
  BY DEF StackOK
<1>2. /\ Len(s) \in Nat \ {0}
      /\ b \in Seq(Frames) /\ Len(b) = Len(s) - 1
      /\ \A i \in 1 .. Len(s) - 1 : b[i] = s[i]
  <2> HIDE DEF s
  <2> QED BY <1>1, BelowSeq
<1>3. Below(th) = b
  BY DEF Below
<1> HIDE DEF b, s
<1>4. ASSUME Return(th) PROVE FramesBelowStay(th)
  <2>1. stack' = [stack EXCEPT ![th] = b]
    BY <1>3, <1>4 DEF Return
  <2>2. Len(b) >= Len(stack[th]) - 1 /\ \A i \in 1 .. Len(stack[th]) - 1 : b[i] = stack[th][i]
    BY <1>2 DEF s
  <2> QED BY <1>2, <2>1, <2>2, BelowStaysIf
<1>5. ASSUME NEW f \in Frames, Goto(th, f) PROVE FramesBelowStay(th)
  <2>1. /\ Append(b, f) \in Seq(Frames) /\ Len(Append(b, f)) = Len(b) + 1
        /\ \A i \in 1 .. Len(b) : Append(b, f)[i] = b[i]
    BY <1>2, AppendProperties
  <2>2. stack' = [stack EXCEPT ![th] = Append(b, f)]
    BY <1>3, <1>5 DEF Goto
  <2>3. /\ Len(Append(b, f)) >= Len(stack[th]) - 1
        /\ \A i \in 1 .. Len(stack[th]) - 1 : Append(b, f)[i] = stack[th][i]
    BY <1>2, <2>1 DEF s
  <2> QED BY <2>1, <2>2, <2>3, BelowStaysIf
<1>6. ASSUME NEW f \in Frames, NEW g \in Frames, Call(th, f, g)
      PROVE  FramesBelowStay(th)
  <2> DEFINE c == Append(b, f)
  <2>1. /\ c \in Seq(Frames) /\ Len(c) = Len(b) + 1
        /\ \A i \in 1 .. Len(b) : c[i] = b[i]
    BY <1>2, AppendProperties
  <2>2. stack' = [stack EXCEPT ![th] = Append(c, g)]
    BY <1>3, <1>6 DEF Call
  <2> HIDE DEF c
  <2>3. /\ Append(c, g) \in Seq(Frames) /\ Len(Append(c, g)) = Len(c) + 1
        /\ \A i \in 1 .. Len(c) : Append(c, g)[i] = c[i]
    BY <2>1, AppendProperties
  <2>4. /\ Len(Append(c, g)) >= Len(stack[th]) - 1
        /\ \A i \in 1 .. Len(stack[th]) - 1 : Append(c, g)[i] = stack[th][i]
    BY <1>2, <2>1, <2>3 DEF s
  <2> QED BY <2>2, <2>3, <2>4, BelowStaysIf
<1> QED BY <1>4, <1>5, <1>6

\* Going on at f puts f in the place of the running frame.
LEMMA GotoTop ==
  ASSUME StackOK, NEW th \in Threads, stack[th] # <<>>, NEW f \in Frames,
         Goto(th, f)
  PROVE  /\ Len(stack[th]) \in 1 .. Len(stack'[th])
         /\ stack'[th][Len(stack[th])] = f
<1> DEFINE s == stack[th]
           b == SubSeq(s, 1, Len(s) - 1)
<1>1. s \in Seq(Frames) /\ s # <<>>
  BY DEF StackOK
<1>2. Len(s) \in Nat \ {0} /\ b \in Seq(Frames) /\ Len(b) = Len(s) - 1
  <2> HIDE DEF s
  <2> QED BY <1>1, BelowSeq
<1>3. Len(Append(b, f)) = Len(b) + 1 /\ Append(b, f)[Len(b) + 1] = f
  <2> HIDE DEF b
  <2> QED BY <1>2, AppendProperties
<1>4. stack'[th] = Append(b, f)
  BY DEF Goto, Below, StackOK
<1> HIDE DEF b
<1> QED BY <1>2, <1>3, <1>4
-----------------------------------------------------------------------------
(***************************************************************************)
(* One controlling frame per body.                                         *)
(***************************************************************************)
LEMMA TopIsSole ==
  ASSUME StackOK, SoleControl, NEW th \in Threads, stack[th] # <<>>,
         NEW t2 \in Threads, NEW i, Kept(th, t2, i)
  PROVE  ~Rivals(stack[t2][i], Top(th))
<1>1. Len(stack[th]) \in Nat \ {0}
  BY TopFrame
<1>2. Len(stack[th]) \in 1 .. Len(stack[th]) /\ Top(th) = stack[th][Len(stack[th])]
  BY <1>1 DEF Top
<1>3. i \in 1 .. Len(stack[t2]) /\ (t2 = th => i # Len(stack[th]))
  BY <1>1 DEF Kept
<1> QED BY <1>2, <1>3 DEF SoleControl

\* A step that leaves at most one new frame, g, which has no rival.
OneNewFrame(th, n, g) ==
  /\ \A t2 \in Threads : \A i \in 1 .. Len(stack'[t2]) :
       Kept(th, t2, i) \/ (t2 = th /\ i = n /\ stack'[t2][i] = g)
  /\ \A t2 \in Threads : \A i \in 1 .. Len(stack[t2]) :
       (t2 = th => i < Len(stack[th])) => ~Rivals(stack[t2][i], g)

LEMMA SoleStep ==
  ASSUME StackOK, StackOK', SoleControl, NEW th \in Threads, NEW n, NEW g,
         OneNewFrame(th, n, g)
  PROVE  SoleControl'
<1> SUFFICES ASSUME NEW t1 \in Threads, NEW t2 \in Threads,
                    NEW i \in 1 .. Len(stack'[t1]), NEW j \in 1 .. Len(stack'[t2]),
                    Rivals(stack'[t1][i], stack'[t2][j])
             PROVE  t1 = t2 /\ i = j
  BY DEF SoleControl, Rivals
<1>1. \A a \in Threads : \A k \in 1 .. Len(stack'[a]) :
        \/ Kept(th, a, k) /\ ~Rivals(stack'[a][k], g)
        \/ a = th /\ k = n /\ stack'[a][k] = g
  BY DEF OneNewFrame, Kept
<1>2. CASE Kept(th, t1, i) /\ Kept(th, t2, j)
  BY <1>2 DEF Kept, SoleControl
<1>3. CASE ~Kept(th, t1, i) /\ ~Kept(th, t2, j)
  BY <1>1, <1>3
<1>4. CASE Kept(th, t1, i) /\ ~Kept(th, t2, j)
  BY <1>1, <1>4
<1>5. CASE ~Kept(th, t1, i) /\ Kept(th, t2, j)
  BY <1>1, <1>5 DEF Rivals
<1> QED BY <1>2, <1>3, <1>4, <1>5

\* The running frame controls its body; nothing else does.
LEMMA TopControls ==
  ASSUME StackOK, NEW th \in Threads, stack[th] # <<>>, Top(th).pc \in ControlPC
  PROVE  ~FreeOfControl(Top(th).task)
<1>1. Len(stack[th]) \in 1 .. Len(stack[th])
  BY TopFrame
<1> QED BY <1>1 DEF FreeOfControl, Top

\* A controlling frame that goes on for its body leaves control where it was.
LEMMA GotoControl ==
  ASSUME StackOK, SoleControl, NEW th \in Threads, stack[th] # <<>>,
         Top(th).pc \in ControlPC, NEW g \in Frames, Goto(th, g),
         g.task = Top(th).task, g.pc \in ControlPC
  PROVE  /\ SoleControl'
         /\ \A c \in Bodies : FreeOfControl(c)' <=> FreeOfControl(c)
<1> DEFINE n == Len(stack[th])
<1>1. /\ StackOK'
      /\ \A t2 \in Threads : \A i \in 1 .. Len(stack'[t2]) :
           Kept(th, t2, i) \/ (t2 = th /\ i = n /\ stack'[t2][i] = g)
  BY GotoStack
<1>2. n \in 1 .. n /\ n \in 1 .. Len(stack'[th]) /\ stack'[th][n] = g /\ Top(th) = stack[th][n]
  BY GotoTop, TopFrame DEF Top
<1>3. FramesBelowStay(th)
  BY BelowStays
<1> HIDE DEF n
<1>4. \A t2 \in Threads : \A i \in 1 .. Len(stack[t2]) :
        (t2 = th => i < Len(stack[th])) => Kept(th, t2, i) /\ ~Rivals(stack[t2][i], g)
  BY <1>3, TopIsSole DEF FramesBelowStay, Kept, Rivals
<1>5. SoleControl'
  BY <1>1, <1>4, SoleStep DEF OneNewFrame
<1>6. ASSUME NEW c \in Bodies, FreeOfControl(c) PROVE FreeOfControl(c)'
  BY <1>1, <1>2, <1>6 DEF FreeOfControl, Kept, n
<1>7. ASSUME NEW c \in Bodies, FreeOfControl(c)' PROVE FreeOfControl(c)
  <2> SUFFICES ASSUME NEW t2 \in Threads, NEW i \in 1 .. Len(stack[t2]),
                      stack[t2][i].pc \in ControlPC
               PROVE  stack[t2][i].task # c
    BY DEF FreeOfControl
  <2>1. CASE t2 = th /\ i = n
    <3>1. g.task # c
      BY <1>2, <1>7 DEF FreeOfControl
    <3> QED BY <2>1, <3>1, <1>2
  <2>2. CASE ~(t2 = th /\ i = n)
    <3>1. t2 = th => i < Len(stack[th])
      BY <2>2, <1>2 DEF n
    <3>2. i \in 1 .. Len(stack'[t2]) /\ stack'[t2][i] = stack[t2][i]
      BY <3>1, <1>3 DEF FramesBelowStay
    <3> QED BY <3>2, <1>7 DEF FreeOfControl
  <2> QED BY <2>1, <2>2
<1> QED BY <1>5, <1>6, <1>7

\* A controlling frame that returns leaves its body free.
LEMMA ReturnControl ==
  ASSUME StackOK, SoleControl, NEW th \in Threads, stack[th] # <<>>,
         NEW b, b = Top(th).task, Top(th).pc \in ControlPC, Return(th)
  PROVE  /\ SoleControl'
         /\ FreeOfControl(b)'
         /\ \A c \in Bodies : c # b =>
              (FreeOfControl(c)' <=> FreeOfControl(c))
<1> DEFINE n == Len(stack[th])
<1>1. /\ StackOK'
      /\ \A t2 \in Threads : \A i \in 1 .. Len(stack'[t2]) : Kept(th, t2, i)
  BY ReturnStack
<1>2. n \in Nat /\ n \in 1 .. n /\ Top(th) = stack[th][n]
  BY TopFrame DEF Top
<1>3. FramesBelowStay(th)
  BY BelowStays
<1>4. \A t2 \in Threads : \A i \in 1 .. Len(stack[t2]) :
        (t2 = th => i < Len(stack[th])) => Kept(th, t2, i) /\ ~Rivals(stack[t2][i], Top(th))
  BY <1>3, TopIsSole DEF FramesBelowStay, Kept
<1>5. SoleControl'
  <2>1. OneNewFrame(th, n, Top(th))
    BY <1>1, <1>4 DEF OneNewFrame
  <2> QED BY <1>1, <2>1, SoleStep
<1>6. FreeOfControl(b)'
  <2> SUFFICES ASSUME NEW t2 \in Threads, NEW i \in 1 .. Len(stack'[t2]),
                      stack'[t2][i].pc \in ControlPC
               PROVE  stack'[t2][i].task # b
    BY DEF FreeOfControl
  <2>1. Kept(th, t2, i)
    BY <1>1
  <2>2. stack'[t2][i] = stack[t2][i] /\ ~Rivals(stack[t2][i], Top(th))
    BY <2>1, <1>4 DEF Kept
  <2> QED BY <2>2 DEF Rivals
<1>7. ASSUME NEW c \in Bodies, FreeOfControl(c) PROVE FreeOfControl(c)'
  BY <1>1, <1>7 DEF FreeOfControl, Kept
<1>8. ASSUME NEW c \in Bodies, c # b, FreeOfControl(c)' PROVE FreeOfControl(c)
  <2> SUFFICES ASSUME NEW t2 \in Threads, NEW i \in 1 .. Len(stack[t2]),
                      stack[t2][i].pc \in ControlPC
               PROVE  stack[t2][i].task # c
    BY DEF FreeOfControl
  <2>1. CASE t2 = th /\ i = n
    BY <1>2, <1>8, <2>1
  <2>2. CASE ~(t2 = th /\ i = n)
    <3>1. t2 = th => i < Len(stack[th])
      BY <2>2, <1>2
    <3>2. i \in 1 .. Len(stack'[t2]) /\ stack'[t2][i] = stack[t2][i]
      BY <3>1, <1>3 DEF FramesBelowStay
    <3> QED BY <3>2, <1>8 DEF FreeOfControl
  <2> QED BY <2>1, <2>2
<1> QED BY <1>5, <1>6, <1>7, <1>8
-----------------------------------------------------------------------------
(***************************************************************************)
(* A step of the body b changes what belongs to b, and never takes back    *)
(* what others rest on.                                                    *)
(***************************************************************************)
OnlyChanges(b) ==
  /\ \A c \in Bodies : c # b => /\ body'[c] = body[c] /\ todo'[c] = todo[c]
                               /\ awaitingTask'[c] = awaitingTask[c]
  /\ \A t \in Tasks : t # b => state'[t] = state[t]
  /\ \A t \in Tasks : Awaiter(t) # b => onCompleted'[t] = onCompleted[t]
  /\ \A l \in Leaves : l # b => /\ callback'[l] = callback[l]
                               /\ continuation'[l] = continuation[l]

FreesNoOther(b) ==
  \A c \in Bodies : c # b => (FreeOfControl(c)' <=> FreeOfControl(c))

KeepsPromises(b) ==
  /\ body[b] # "fresh" /\ body'[b] # "fresh"
  /\ body[b] = "ended" => body'[b] = "ended"
  /\ b \in Tasks => /\ state'[b] = "Running" => state[b] = "Running"
                    /\ state[b] # "Created" => state'[b] # "Created"
  /\ todo'[b] \subseteq todo[b]
  /\ \A t \in Tasks : Awaiter(t) = b /\ onCompleted'[t] =>
       onCompleted[t] \/ Parked(b, t)'
  /\ b \in Leaves =>
       /\ callback[b] = "fired" => callback'[b] = "fired"
       /\ continuation'[b] => \/ continuation[b] /\ callback'[b] = callback[b]
                             \/ Parked(b, Wrapper)'

\* A parked body stays parked when another body takes a step.
LEMMA ParkedStays ==
  ASSUME NEW b, OnlyChanges(b), FreesNoOther(b), NEW c \in Bodies, NEW u, c # b, Parked(c, u)
  PROVE  Parked(c, u)'
BY DEF Parked, OnlyChanges, FreesNoOther

\* The frames of other bodies, and of wrappers, fit as before.
LEMMA OtherFrameFits ==
  ASSUME TypeOK, NEW b \in Bodies, ~FreeOfControl(b),
         OnlyChanges(b), FreesNoOther(b), KeepsPromises(b),
         NEW g \in Frames, Fits(g), g.task # b \/ g.pc \notin ControlPC
  PROVE  /\ ControlFits(g)' /\ AwaitedFits(g)' /\ ClientFits(g)' /\ WakeFits(g)'
<1>1. /\ g.task \in Bodies
      /\ \A t \in Tasks : t \in Bodies /\ Awaiter(t) \in Bodies /\ Awaiter(t) # t
      /\ \A l \in Leaves : l \in Tasks
      /\ Root \in Tasks /\ Client \notin Tasks /\ Client \in Bodies
  BY FrameTypes, AwaiterType, TreeAssumption, NamesAssumption DEF Awaiter, Bodies
<1>2. /\ g.pc \in StartPC \cup AwaitingPC /\ g.arg \in Tasks => Awaiter(g.arg) = g.task
      /\ g.pc \in {"publish", "clear", "notify"} => g.task \in Tasks
      /\ g.pc \in {"leafCheck", "wrap", "wrapperTake", "wrapperOnCompleted"} => g.task \in Leaves
      /\ g.pc \notin ControlPC => g.pc = "wrapperOnCompleted"
  BY FrameTypes, AwaitableTypes
     DEF StartPC, AwaitPC, AwaitingPC, TaskPC, LeafPC, Fits, ControlFits
<1>3. ControlFits(g)'
  <2> USE DEF ControlPC, RunningPC, WaitingPC, EndingPC, StartPC, AwaitingPC
  <2>1. CASE g.pc \notin ControlPC
    BY <1>2, <2>1 DEF ControlFits
  <2>2. CASE g.pc \in ControlPC
    <3>1. /\ g.task # b /\ ControlFits(g)
          /\ body'[g.task] = body[g.task] /\ todo'[g.task] = todo[g.task]
          /\ awaitingTask'[g.task] = awaitingTask[g.task]
          /\ g.task \in Tasks => state'[g.task] = state[g.task]
          /\ g.task \in Leaves => callback'[g.task] = callback[g.task]
      BY <1>1, <2>2 DEF Fits, OnlyChanges
    <3>2. ASSUME g.pc \in StartPC \cup AwaitingPC, g.arg \in Tasks
          PROVE  /\ onCompleted'[g.arg] = onCompleted[g.arg]
                 /\ body[g.arg] # "fresh" => body'[g.arg] # "fresh"
      BY <1>1, <1>2, <3>1, <3>2 DEF OnlyChanges, KeepsPromises
    <3> QED BY <1>2, <3>1, <3>2 DEF ControlFits
  <2> QED BY <2>1, <2>2
<1>4. AwaitedFits(g)'
  BY <1>1, <1>2 DEF Fits, AwaitedFits, OnlyChanges, KeepsPromises
<1>5. ClientFits(g)'
  <2>1. state[Root] # "Created" => state'[Root] # "Created"
    BY <1>1 DEF OnlyChanges, KeepsPromises
  <2>2. g.task = Client => g.task # b
    BY <1>1, <1>2
  <2>3. g.task = Client => todo'[Client] = todo[Client]
    BY <1>1, <2>2 DEF OnlyChanges
  <2> QED BY <2>1, <2>3 DEF Fits, ClientFits
<1>6. WakeFits(g)'
  <2>1. ASSUME g.pc \in ControlPC, g.task \in Tasks, onCompleted'[g.task]
        PROVE  Parked(Awaiter(g.task), g.task)'
    <3>1. CASE Awaiter(g.task) = b
      <4>1. onCompleted[g.task] => Parked(b, g.task)
        BY <2>1, <3>1 DEF Fits, WakeFits
      <4>2. ~Parked(b, g.task)
        BY DEF Parked
      <4> QED BY <2>1, <3>1, <4>1, <4>2 DEF KeepsPromises
    <3>2. CASE Awaiter(g.task) # b
      <4>1. Parked(Awaiter(g.task), g.task)
        BY <2>1, <3>2 DEF Fits, WakeFits, OnlyChanges
      <4> QED BY <1>1, <2>1, <3>2, <4>1, ParkedStays
    <3> QED BY <3>1, <3>2
  <2>2. ASSUME g.pc = "wrapperOnCompleted" PROVE callback'[g.task] = "fired"
    BY <1>1, <1>2, <2>2 DEF Fits, WakeFits, OnlyChanges, KeepsPromises
  <2>3. ASSUME g.pc = "wrapperOnCompleted", continuation'[g.task]
        PROVE  Parked(g.task, Wrapper)'
    <3>1. continuation[g.task] => Parked(g.task, Wrapper)
      BY <2>3 DEF Fits, WakeFits
    <3>2. CASE g.task = b
      BY <1>2, <2>3, <3>1, <3>2 DEF KeepsPromises, Parked
    <3>3. CASE g.task # b
      <4>1. continuation[g.task]
        BY <1>1, <1>2, <2>3, <3>3 DEF OnlyChanges
      <4> QED BY <1>1, <3>1, <3>3, <4>1, ParkedStays
    <3> QED BY <3>2, <3>3
  <2> QED BY <2>1, <2>2, <2>3 DEF WakeFits
<1> QED BY <1>3, <1>4, <1>5, <1>6

\* So does what holds of other bodies.
LEMMA OtherBodyFits ==
  ASSUME TypeOK, NEW b \in Bodies, ~FreeOfControl(b),
         OnlyChanges(b), FreesNoOther(b), KeepsPromises(b),
         NEW c \in Bodies, c # b, BodyFits(c)
  PROVE  BodyFits(c)'
<1>1. /\ \A t \in Tasks : t \in Bodies /\ Awaiter(t) \in Bodies /\ Awaiter(t) # t
      /\ \A l \in Leaves : l \in Tasks
      /\ Root \in Tasks /\ Client \notin Tasks
  BY AwaiterType, TreeAssumption, NamesAssumption DEF Awaiter, Bodies
<1>2. /\ body'[c] = body[c] /\ todo'[c] = todo[c] /\ awaitingTask'[c] = awaitingTask[c]
      /\ c \in Tasks => state'[c] = state[c]
      /\ c \in Leaves => callback'[c] = callback[c] /\ continuation'[c] = continuation[c]
      /\ \A t \in Tasks : Awaiter(t) = c => onCompleted'[t] = onCompleted[t]
  BY DEF OnlyChanges
<1>3. /\ \A t \in Tasks : state'[t] = "Running" => state[t] = "Running"
      /\ state[Root] # "Created" => state'[Root] # "Created"
  BY <1>1 DEF OnlyChanges, KeepsPromises
<1>4. FreeOfControl(c)' <=> FreeOfControl(c)
  BY DEF FreesNoOther
<1>5. StateFits(c)' /\ RunningAreAwaited(c)' /\ UnawaitedIsUnregistered(c)'
      /\ ClientStartsRoot(c)'
  BY <1>2, <1>3 DEF BodyFits, StateFits, RunningAreAwaited,
     UnawaitedIsUnregistered, ClientStartsRoot
<1>6. ContinuationFits(c)'
  <2>1. ASSUME c \in Tasks, onCompleted'[c], body'[c] # "ended"
        PROVE  Parked(Awaiter(c), c)'
    <3>1. CASE Awaiter(c) = b
      <4>1. onCompleted[c] => Parked(b, c)
        BY <1>2, <2>1, <3>1 DEF BodyFits, ContinuationFits
      <4>2. ~Parked(b, c)
        BY DEF Parked
      <4> QED BY <2>1, <3>1, <4>1, <4>2 DEF KeepsPromises
    <3>2. CASE Awaiter(c) # b
      <4>1. Parked(Awaiter(c), c)
        BY <1>2, <2>1, <3>2 DEF BodyFits, ContinuationFits, OnlyChanges
      <4> QED BY <1>1, <2>1, <3>2, <4>1, ParkedStays
    <3> QED BY <3>1, <3>2
  <2>2. ASSUME c \in Leaves, continuation'[c], callback'[c] # "fired"
        PROVE  Parked(c, Wrapper)'
    <3>1. Parked(c, Wrapper)
      BY <1>2, <2>2 DEF BodyFits, ContinuationFits
    <3> QED BY <3>1, ParkedStays
  <2> QED BY <2>1, <2>2 DEF ContinuationFits
<1>7. WaitingIsRegistered(c)'
  <2>1. awaitingTask[c] \in Tasks => Awaiter(awaitingTask[c]) = c
    BY AwaitableTypes, NamesAssumption DEF TypeOK
  <2>2. awaitingTask[c] = Wrapper => c \in Leaves
    BY AwaitableTypes, NamesAssumption DEF TypeOK
  <2> QED BY <1>2, <1>4, <2>1, <2>2 DEF BodyFits, WaitingIsRegistered
<1> QED BY <1>5, <1>6, <1>7 DEF BodyFits

\* The body itself: what the step did not establish, the running frame knew.
LEMMA OwnContinuationFits ==
  ASSUME NEW b \in Bodies, ~FreeOfControl(b),
         OnlyChanges(b), FreesNoOther(b), KeepsPromises(b), BodyFits(b)
  PROVE  ContinuationFits(b)'
<1>1. /\ \A t \in Tasks : t \in Bodies /\ Awaiter(t) \in Bodies /\ Awaiter(t) # t
  BY AwaiterType, TreeAssumption, NamesAssumption DEF Awaiter, Bodies
<1>2. ASSUME b \in Tasks, onCompleted'[b], body'[b] # "ended"
      PROVE  Parked(Awaiter(b), b)'
  <2>1. Parked(Awaiter(b), b)
    BY <1>1, <1>2 DEF OnlyChanges, KeepsPromises, BodyFits, ContinuationFits
  <2> QED BY <1>1, <1>2, <2>1, ParkedStays
<1>3. ASSUME b \in Leaves, continuation'[b], callback'[b] # "fired"
      PROVE  Parked(b, Wrapper)'
  <2>1. continuation[b] /\ callback[b] # "fired" => Parked(b, Wrapper)
    BY <1>3 DEF BodyFits, ContinuationFits
  <2>2. ~Parked(b, Wrapper)
    BY DEF Parked
  <2> QED BY <1>3, <2>1, <2>2 DEF KeepsPromises
<1> QED BY <1>2, <1>3 DEF ContinuationFits
-----------------------------------------------------------------------------
(***************************************************************************)
(* A step of the running frame for its own body b.                         *)
(***************************************************************************)

\* What a step has to establish for its body, and for the frame g in which it
\* goes on; everything else follows.
OwnBodyFits(b) ==
  /\ StateFits(b) /\ RunningAreAwaited(b) /\ UnawaitedIsUnregistered(b)
  /\ ClientStartsRoot(b)

OwnFrameFits(g) == ControlFits(g) /\ AwaitedFits(g) /\ ClientFits(g)

\* What the invariant says of the running frame and its body.
LEMMA TopFits ==
  ASSUME TypeOK, Control, NEW th \in Threads, stack[th] # <<>>
  PROVE  /\ Top(th) \in Frames /\ Top(th).task \in Bodies
         /\ Fits(Top(th)) /\ BodyFits(Top(th).task)
<1>1. Len(stack[th]) \in 1 .. Len(stack[th]) /\ Top(th) \in Frames
  BY TopFrame DEF TypeOK, StackOK
<1>2. Top(th).task \in Bodies
  BY <1>1, FrameTypes
<1> QED BY <1>1, <1>2 DEF Control, EveryFrameFits, EveryBodyFits, Top

LEMMA KeptFits ==
  ASSUME TypeOK, Control, NEW th \in Threads, NEW b \in Bodies, ~FreeOfControl(b),
         OnlyChanges(b), FreesNoOther(b), KeepsPromises(b),
         NEW t2 \in Threads, NEW i, Kept(th, t2, i),
         stack[t2][i].task # b \/ stack[t2][i].pc \notin ControlPC
  PROVE  Fits(stack[t2][i])'
<1>1. /\ i \in 1 .. Len(stack[t2]) /\ stack'[t2][i] = stack[t2][i]
      /\ stack[t2][i] \in Frames /\ Fits(stack[t2][i])
  BY ElementOfSeq DEF Kept, TypeOK, Control, EveryFrameFits
<1> DEFINE g == stack[t2][i]
<1>2. PICK h \in Frames : h = g
  BY <1>1
<1>3. ControlFits(h)' /\ AwaitedFits(h)' /\ ClientFits(h)' /\ WakeFits(h)'
  <2>1. Fits(h) /\ (h.task # b \/ h.pc \notin ControlPC)
    BY <1>1, <1>2
  <2> HIDE DEF g
  <2> QED BY <2>1, OtherFrameFits
<1> QED BY <1>1, <1>2, <1>3 DEF Fits

\* It goes on in another frame.
LEMMA OwnGoto ==
  ASSUME TypeOK, Control, NEW th \in Threads, stack[th] # <<>>,
         Top(th).pc \in ControlPC, NEW b, b = Top(th).task,
         NEW g \in Frames, Goto(th, g), g.task = b, g.pc \in ControlPC,
         OnlyChanges(b), KeepsPromises(b),
         OwnFrameFits(g)', OwnBodyFits(b)', Undisturbed'
  PROVE  Control'
<1>1. /\ b \in Bodies /\ Fits(Top(th)) /\ BodyFits(b)
      /\ StackOK /\ SoleControl
  BY TopFits DEF Control, TypeOK, StackOK
<1>2. /\ SoleControl' /\ FreesNoOther(b) /\ ~FreeOfControl(b) /\ ~FreeOfControl(b)'
  <2>1. SoleControl' /\ \A c \in Bodies : FreeOfControl(c)' <=> FreeOfControl(c)
    BY <1>1, GotoControl
  <2>2. ~FreeOfControl(b)
    BY <1>1, TopControls
  <2> QED BY <1>1, <2>1, <2>2 DEF FreesNoOther
<1>3. WakeFits(g)'
  <2> SUFFICES ASSUME b \in Tasks, onCompleted'[b] PROVE Parked(Awaiter(b), b)'
    BY DEF WakeFits, ControlPC, RunningPC, WaitingPC, EndingPC, StartPC
  <2>1. Awaiter(b) \in Bodies /\ Awaiter(b) # b
    BY AwaiterType, TreeAssumption, NamesAssumption DEF Awaiter
  <2>2. Parked(Awaiter(b), b)
    BY <1>1, <2>1 DEF OnlyChanges, Fits, WakeFits
  <2> QED BY <1>2, <2>1, <2>2, ParkedStays
<1>4. EveryFrameFits'
  <2> SUFFICES ASSUME NEW t2 \in Threads, NEW i \in 1 .. Len(stack'[t2])
               PROVE  Fits(stack[t2][i])'
    BY DEF EveryFrameFits
  <2>1. \/ Kept(th, t2, i)
        \/ stack'[t2][i] = g
    BY <1>1, GotoStack
  <2>2. CASE Kept(th, t2, i)
    <3>1. ~Rivals(stack[t2][i], Top(th))
      BY <1>1, <2>2, TopIsSole
    <3> QED BY <1>1, <1>2, <2>2, <3>1, KeptFits DEF Rivals, Kept
  <2>3. CASE stack'[t2][i] = g
    BY <1>3, <2>3 DEF Fits, OwnFrameFits
  <2> QED BY <2>1, <2>2, <2>3
<1>5. EveryBodyFits'
  <2> SUFFICES ASSUME NEW c \in Bodies PROVE BodyFits(c)'
    BY DEF EveryBodyFits
  <2>1. CASE c # b
    BY <1>1, <1>2, <2>1, OtherBodyFits DEF Control, EveryBodyFits
  <2>2. CASE c = b
    <3>1. ContinuationFits(b)'
      BY <1>1, <1>2, OwnContinuationFits
    <3>2. WaitingIsRegistered(b)'
      BY <1>2 DEF WaitingIsRegistered
    <3> QED BY <2>2, <3>1, <3>2 DEF BodyFits, OwnBodyFits
  <2> QED BY <2>1, <2>2
<1> QED BY <1>2, <1>4, <1>5 DEF Control

\* It returns.
LEMMA OwnReturn ==
  ASSUME TypeOK, Control, NEW th \in Threads, stack[th] # <<>>,
         Top(th).pc \in ControlPC, NEW b, b = Top(th).task, Return(th),
         OnlyChanges(b), KeepsPromises(b),
         OwnBodyFits(b)', WaitingIsRegistered(b)', Undisturbed'
  PROVE  Control'
<1>1. /\ b \in Bodies /\ BodyFits(b) /\ StackOK /\ SoleControl
  BY TopFits DEF Control, TypeOK, StackOK
<1>2. /\ SoleControl' /\ FreesNoOther(b) /\ ~FreeOfControl(b)
  <2>1. SoleControl' /\ \A c \in Bodies : c # b => (FreeOfControl(c)' <=> FreeOfControl(c))
    BY <1>1, ReturnControl
  <2>2. ~FreeOfControl(b)
    BY <1>1, TopControls
  <2> QED BY <2>1, <2>2 DEF FreesNoOther
<1>3. EveryFrameFits'
  <2> SUFFICES ASSUME NEW t2 \in Threads, NEW i \in 1 .. Len(stack'[t2])
               PROVE  Fits(stack[t2][i])'
    BY DEF EveryFrameFits
  <2>1. Kept(th, t2, i)
    BY <1>1, ReturnStack
  <2>2. ~Rivals(stack[t2][i], Top(th))
    BY <1>1, <2>1, TopIsSole
  <2> QED BY <1>1, <1>2, <2>1, <2>2, KeptFits DEF Rivals, Kept
<1>4. EveryBodyFits'
  <2> SUFFICES ASSUME NEW c \in Bodies PROVE BodyFits(c)'
    BY DEF EveryBodyFits
  <2>1. CASE c # b
    BY <1>1, <1>2, <2>1, OtherBodyFits DEF Control, EveryBodyFits
  <2>2. CASE c = b
    <3>1. ContinuationFits(b)'
      BY <1>1, <1>2, OwnContinuationFits
    <3> QED BY <2>2, <3>1 DEF BodyFits, OwnBodyFits
  <2> QED BY <2>1, <2>2
<1> QED BY <1>2, <1>3, <1>4 DEF Control

\* A step that only moves the running frame, and may take away from what its
\* body has still to await.
LEMMA SilentGoto ==
  ASSUME TypeOK, Control, NEW th \in Threads, stack[th] # <<>>,
         Top(th).pc \in ControlPC, NEW b, b = Top(th).task,
         NEW g \in Frames, Goto(th, g), g.task = b, g.pc \in ControlPC,
         UNCHANGED <<state, onCompleted, awaitingTask, body, callback,
                     continuation, cts, raised, escaped, reentered>>,
         \A c \in Bodies : /\ todo'[c] \subseteq todo[c]
                           /\ c # b => todo'[c] = todo[c],
         OwnFrameFits(g)'
  PROVE  Control'
<1>1. /\ b \in Bodies /\ Fits(Top(th)) /\ BodyFits(b)
  BY TopFits
<1>2. body[b] # "fresh"
  BY <1>1 DEF Fits, ControlFits, ControlPC, RunningPC, WaitingPC, EndingPC
<1>3. OnlyChanges(b) /\ KeepsPromises(b)
  BY <1>1, <1>2 DEF OnlyChanges, KeepsPromises
<1>4. OwnBodyFits(b)'
  BY <1>1, <1>2 DEF BodyFits, OwnBodyFits, StateFits, RunningAreAwaited,
     UnawaitedIsUnregistered, ClientStartsRoot
<1>5. Undisturbed'
  BY DEF Control, Undisturbed
<1> QED BY <1>3, <1>4, <1>5, OwnGoto

LEMMA SilentSteps ==
  ASSUME TypeOK, MachineInv, Control, NEW th \in Threads,
         \/ BodyAwaits(th) \/ BodyReturns(th) \/ BodyThrows(th)
         \/ LeafCallsAction(th) \/ LeafChecks(th)
         \/ GetAwaiter(th) \/ StartTask(th) \/ IsCompleted(th) \/ GetResult(th)
  PROVE  Control'
<1> DEFINE f == Top(th)
           b == f.task
<1>1. stack[th] # <<>>
  BY DEF BodyAwaits, BodyReturns, BodyThrows, LeafCallsAction, LeafChecks,
     GetAwaiter, StartTask, IsCompleted, GetResult, At
<1>2. f \in Frames /\ b \in Bodies /\ Fits(f) /\ BodyFits(b)
  BY <1>1, TopFits
<1>3. /\ f.pc \in StartPC \cup AwaitPC => f.arg \in Awaitable(b)
      /\ f.pc \in StartPC => f.arg \in Tasks /\ body[f.arg] = "fresh" /\ f.arg \notin todo[b]
      /\ f.pc = "leafCheck" => b \in Leaves
  BY <1>1, <1>2, FrameTypes, RunningFrame, AwaitableTypes DEF FrameFits, Top, LeafPC
<1>4. \A u \in Awaitable(b) : u \in Tasks => Awaiter(u) = b /\ u \in Bodies
  BY <1>2, AwaitableTypes DEF Bodies
<1>5. /\ Root \in Tasks /\ Client \notin Tasks /\ Wrapper \notin Tasks
      /\ \A l \in Leaves : l \in Tasks
      /\ \A t \in Tasks : t \in Bodies
      /\ Awaiter(Root) = Client
  BY TreeAssumption, NamesAssumption DEF Bodies, Awaiter
<1>6. ASSUME NEW g \in Frames, Goto(th, g), g.task = b,
             f.pc \in ControlPC, g.pc \in ControlPC,
             UNCHANGED <<taskVars, bodyVars, wrapperVars, raised, ghostVars>>,
             OwnFrameFits(g)
      PROVE  Control'
  <2>1. OwnFrameFits(g)'
    BY <1>6 DEF OwnFrameFits, ControlFits, AwaitedFits, ClientFits, taskVars, bodyVars, wrapperVars
  <2> QED BY <1>1, <1>6, <2>1, SilentGoto DEF taskVars, bodyVars, wrapperVars, ghostVars
<1> USE DEF ControlPC, RunningPC, WaitingPC, EndingPC, StartPC, AwaitPC, AwaitingPC
<1>7. ASSUME GetAwaiter(th) PROVE Control'
  <2>1. /\ f.pc = "getAwaiter" /\ f.arg \in Tasks /\ body[f.arg] = "fresh"
        /\ f.arg \in Awaitable(b) /\ Awaiter(f.arg) = b
    BY <1>3, <1>4, <1>7 DEF GetAwaiter, At
  <2>2. state[f.arg] = "Created"
    BY <2>1, <1>5 DEF Control, EveryBodyFits, BodyFits, StateFits
  <2> DEFINE g == Frame("startTask", b, f.arg)
  <2>3. /\ g \in Frames /\ g.pc = "startTask" /\ g.task = b /\ g.arg = f.arg
    BY <1>2, <2>1, NewFrame DEF Frame
  <2>4. Goto(th, g) /\ UNCHANGED <<taskVars, bodyVars, wrapperVars, raised, ghostVars>>
    BY <1>7, <2>2 DEF GetAwaiter
  <2>5. OwnFrameFits(g)
    <3> HIDE DEF g
    <3> QED BY <1>2, <2>1, <2>3 DEF OwnFrameFits, Fits, ControlFits, AwaitedFits, ClientFits
  <2> HIDE DEF g
  <2> QED BY <1>6, <2>1, <2>3, <2>4, <2>5
<1>8. ASSUME StartTask(th) PROVE Control'
  <2>1. /\ f.pc = "startTask" /\ f.arg \in Tasks /\ body[f.arg] = "fresh"
        /\ f.arg \in Awaitable(b) /\ Awaiter(f.arg) = b
    BY <1>3, <1>4, <1>8 DEF StartTask, At
  <2>2. state[f.arg] = "Created" /\ stateMachine[f.arg]
    BY <2>1, <1>5 DEF Control, EveryBodyFits, BodyFits, StateFits, MachineInv, FreshHasMachine
  <2> DEFINE g == Frame("runTask", b, f.arg)
  <2>3. /\ g \in Frames /\ g.pc = "runTask" /\ g.task = b /\ g.arg = f.arg
    BY <1>2, <2>1, NewFrame DEF Frame
  <2>4. Goto(th, g) /\ UNCHANGED <<taskVars, bodyVars, wrapperVars, raised, ghostVars>>
    BY <1>8, <2>2 DEF StartTask
  <2>5. OwnFrameFits(g)
    <3> HIDE DEF g
    <3> QED BY <1>2, <2>1, <2>3 DEF OwnFrameFits, Fits, ControlFits, AwaitedFits, ClientFits
  <2> HIDE DEF g
  <2> QED BY <1>6, <2>1, <2>3, <2>4, <2>5
<1>9. ASSUME IsCompleted(th) PROVE Control'
  <2>1. f.pc = "isCompleted" /\ f.arg \in Awaitable(b)
    BY <1>3, <1>9 DEF IsCompleted, At
  <2> DEFINE g == Frame(IF Completed(b, f.arg) THEN "getResult" ELSE "awaitOnCompleted", b, f.arg)
  <2>2. /\ g \in Frames /\ g.task = b /\ g.arg = f.arg
        /\ g.pc = IF Completed(b, f.arg) THEN "getResult" ELSE "awaitOnCompleted"
    BY <1>2, <2>1, NewFrame DEF Frame
  <2>3. Goto(th, g) /\ UNCHANGED <<taskVars, bodyVars, wrapperVars, raised, ghostVars>>
    BY <1>9 DEF IsCompleted
  <2>4. f.arg \in Tasks => (Completed(b, f.arg) <=> state[f.arg] \in Terminal)
    BY <1>5 DEF Completed
  <2>5. OwnFrameFits(g)
    <3> HIDE DEF g
    <3> QED BY <1>2, <2>1, <2>2, <2>4 DEF OwnFrameFits, Fits, ControlFits, AwaitedFits, ClientFits, Terminal
  <2> HIDE DEF g
  <2> QED BY <1>6, <2>1, <2>2, <2>3, <2>5
<1>10. ASSUME GetResult(th) PROVE Control'
  <2>1. f.pc = "getResult" /\ f.arg \in Awaitable(b)
    BY <1>3, <1>10 DEF GetResult, At
  <2>2. Result(b, f.arg) \in {None, "Error"}
    <3>1. CASE f.arg = Wrapper
      BY <1>2, <1>4, <2>1, <3>1, AwaitableTypes DEF Result, Control, Undisturbed
    <3>2. CASE f.arg # Wrapper
      <4>1. f.arg \in Tasks
        BY <1>2, <2>1, <3>2, AwaitableTypes
      <4>2. state[f.arg] # "Cancelled"
        BY <4>1, <1>5 DEF Control, EveryBodyFits, BodyFits, StateFits
      <4> QED BY <3>2, <4>2 DEF Result
    <3> QED BY <3>1, <3>2
  <2>3. PICK g \in {Frame("body", b, None), Frame("setException", b, "Error")} :
          Goto(th, g) /\ UNCHANGED <<taskVars, bodyVars, wrapperVars, raised, ghostVars>>
    BY <1>10, <2>2 DEF GetResult, Catch
  <2>4. /\ g \in Frames /\ g.task = b /\ g.pc \in {"body", "setException"}
        /\ g.pc = "setException" => g.arg = "Error"
    <3>1. Frame("setException", b, "Error") \in Frames /\ Frame("body", b, None) \in Frames
      BY <1>2, NewFrame DEF Exceptions
    <3> QED BY <2>3, <3>1 DEF Frame
  <2>5. OwnFrameFits(g)
    BY <1>2, <2>1, <2>4 DEF OwnFrameFits, Fits, ControlFits, AwaitedFits, ClientFits
  <2> QED BY <1>6, <2>1, <2>3, <2>4, <2>5
<1>11. ASSUME LeafChecks(th) PROVE Control'
  <2>1. f.pc = "leafCheck" /\ b \in Leaves
    BY <1>3, <1>11 DEF LeafChecks, At
  <2>2. PICK g \in {Frame("setResult", b, None), Frame("setException", b, "Error"), Frame("wrap", b, None)} :
          Goto(th, g) /\ UNCHANGED <<taskVars, bodyVars, wrapperVars, raised, ghostVars>>
    BY <1>11 DEF LeafChecks, Catch
  <2>3. /\ g \in Frames /\ g.task = b /\ g.pc \in {"setResult", "setException", "wrap"}
        /\ g.pc = "setException" => g.arg = "Error"
    <3>1. /\ Frame("setException", b, "Error") \in Frames /\ Frame("setResult", b, None) \in Frames
          /\ Frame("wrap", b, None) \in Frames
      BY <1>2, <2>1, NewFrame DEF Exceptions, LeafPC
    <3> QED BY <2>2, <3>1 DEF Frame
  <2>4. OwnFrameFits(g)
    BY <1>2, <1>5, <2>1, <2>3 DEF OwnFrameFits, Fits, BodyFits, StateFits, ControlFits, AwaitedFits, ClientFits
  <2> QED BY <1>6, <2>1, <2>2, <2>3, <2>4
<1>12. ASSUME BodyThrows(th) PROVE Control'
  <2>1. f.pc = "body" /\ b \in Tasks
    BY <1>12 DEF BodyThrows, At
  <2>2. PICK e \in {"ReturnException", "Error"} :
          Goto(th, Frame("setException", b, e)) /\ UNCHANGED <<taskVars, bodyVars, wrapperVars, raised, ghostVars>>
    BY <1>12 DEF BodyThrows, Catch
  <2> DEFINE g == Frame("setException", b, e)
  <2>3. /\ g \in Frames /\ g.task = b /\ g.pc = "setException" /\ g.arg = e
    BY <1>2, <2>1, NewFrame DEF Frame, Exceptions
  <2>4. OwnFrameFits(g)
    <3> HIDE DEF g
    <3> QED BY <1>2, <1>5, <2>1, <2>3 DEF OwnFrameFits, Fits, ControlFits, AwaitedFits, ClientFits
  <2> HIDE DEF g
  <2> QED BY <1>6, <2>1, <2>2, <2>3, <2>4 DEF g
<1>13. ASSUME BodyReturns(th) PROVE Control'
  <2>1. f.pc = "body" /\ (b = Client => todo[b] = {})
    BY <1>13 DEF BodyReturns, At
  <2> DEFINE g == Frame("setResult", b, None)
  <2>2. Goto(th, g) /\ UNCHANGED <<taskVars, bodyVars, wrapperVars, raised, ghostVars>>
    BY <1>13 DEF BodyReturns
  <2>3. /\ g \in Frames /\ g.task = b /\ g.pc = "setResult"
    BY <1>2, NewFrame DEF Frame
  <2>4. OwnFrameFits(g)
    <3> HIDE DEF g
    <3> QED BY <1>2, <1>5, <2>1, <2>3 DEF OwnFrameFits, Fits, BodyFits, StateFits, ControlFits, AwaitedFits, ClientFits
  <2> HIDE DEF g
  <2> QED BY <1>6, <2>1, <2>2, <2>3, <2>4
<1>14. ASSUME BodyAwaits(th) PROVE Control'
  <2>1. f.pc = "body" /\ b \notin Leaves /\ todo[b] \subseteq Awaitable(b)
    BY <1>2, <1>14 DEF BodyAwaits, At, TypeOK
  <2>2. PICK u \in todo[b] : /\ todo' = [todo EXCEPT ![b] = @ \ {u}]
                             /\ Goto(th, Frame("getAwaiter", b, u))
    BY <1>14 DEF BodyAwaits
  <2>3. UNCHANGED <<taskVars, body, wrapperVars, raised, ghostVars>>
    BY <1>14 DEF BodyAwaits
  <2>4. u \in Tasks /\ Awaiter(u) = b
    BY <1>2, <2>1, <2>2, AwaitableTypes
  <2>5. PICK g \in Frames : /\ g = Frame("getAwaiter", b, u)
                            /\ g.task = b /\ g.pc = "getAwaiter" /\ g.arg = u
    <3>1. Frame("getAwaiter", b, u) \in Frames
      BY <1>2, <2>1, <2>2, <2>4, NewFrame
    <3> QED BY <3>1 DEF Frame
  <2>6. \A c \in Bodies : todo'[c] \subseteq todo[c] /\ (c # b => todo'[c] = todo[c])
    BY <2>2 DEF TypeOK
  <2>7. OwnFrameFits(g)'
    <3>1. ~onCompleted[u]
      BY <1>2, <2>2, <2>4 DEF BodyFits, UnawaitedIsUnregistered
    <3> QED BY <1>2, <2>1, <2>3, <2>5, <3>1 DEF OwnFrameFits, Fits, ControlFits, AwaitedFits, ClientFits, taskVars
  <2> QED BY <1>1, <2>1, <2>2, <2>3, <2>5, <2>6, <2>7, SilentGoto DEF taskVars, wrapperVars, ghostVars
<1>15. ASSUME LeafCallsAction(th) PROVE Control'
  <2>1. f.pc = "body" /\ b \in Leaves /\ todo[b] = {Wrapper}
    BY <1>15 DEF LeafCallsAction, At
  <2>2. todo' = [todo EXCEPT ![b] = {}]
    BY <1>15 DEF LeafCallsAction
  <2>3. UNCHANGED <<taskVars, body, callback, cts, continuation, raised, ghostVars>>
    BY <1>15 DEF LeafCallsAction
  <2>4. PICK g \in {Frame("setException", b, "Error"), Frame("leafCheck", b, None)} : Goto(th, g)
    BY <1>15 DEF LeafCallsAction, Catch
  <2>5. /\ g \in Frames /\ g.task = b /\ g.pc \in {"setException", "leafCheck"}
        /\ g.pc = "setException" => g.arg = "Error"
    <3>1. Frame("setException", b, "Error") \in Frames /\ Frame("leafCheck", b, None) \in Frames
      BY <1>2, <2>1, NewFrame DEF Exceptions, LeafPC
    <3> QED BY <2>4, <3>1 DEF Frame
  <2>6. \A c \in Bodies : todo'[c] \subseteq todo[c] /\ (c # b => todo'[c] = todo[c])
    BY <2>2 DEF TypeOK
  <2>7. todo'[b] = {} /\ callback[b] = "none"
    BY <1>2, <2>1, <2>2 DEF BodyFits, UnawaitedIsUnregistered, TypeOK
  <2>8. OwnFrameFits(g)'
    BY <1>2, <1>5, <2>1, <2>3, <2>5, <2>7 DEF OwnFrameFits, Fits, ControlFits, AwaitedFits, ClientFits, taskVars
  <2> QED BY <1>1, <2>1, <2>3, <2>4, <2>5, <2>6, <2>8, SilentGoto DEF taskVars, ghostVars
<1> QED BY <1>7, <1>8, <1>9, <1>10, <1>11, <1>12, <1>13, <1>14, <1>15

LEMMA OwnSteps ==
  ASSUME TypeOK, MachineInv, Control, NEW th \in Threads,
         \/ WrapperCreated(th) \/ AwaitOnCompleted(th) \/ Register(th)
         \/ Resume(th) \/ ClientEnds(th)
         \/ SetResult(th) \/ SetException(th) \/ Publish(th)
         \/ ClearStateMachine(th)
         \/ RunCallOnCompleted(th) /\ ~onCompleted[Top(th).task]
  PROVE  Control'
<1> DEFINE f == Top(th)
<1>1. stack[th] # <<>>
  BY DEF WrapperCreated, AwaitOnCompleted, Register, Resume, ClientEnds, SetResult,
     SetException, Publish, ClearStateMachine, RunCallOnCompleted, At
<1>2. PICK b \in Bodies : b = f.task /\ BodyFits(b)
  BY <1>1, TopFits
<1>3. /\ f \in Frames /\ f.task = b /\ Fits(f)
      /\ f.pc \in StartPC \cup AwaitPC => f.arg \in Awaitable(b)
      /\ f.pc \in TaskPC \cup {"publish"} => b \in Tasks
      /\ f.pc = "publish" => f.arg \in {"CompletedSuccessfully", "Failed"}
      /\ f.pc = "setException" => f.arg \in Exceptions
      /\ f.pc \in LeafPC => b \in Leaves
  BY <1>1, <1>2, TopFits, FrameTypes
<1>4. f.pc \in ControlPC => ~FreeOfControl(b)
  BY <1>1, <1>2, TopControls DEF TypeOK, StackOK
<1>5. /\ Root \in Tasks /\ Client \notin Tasks /\ Wrapper \notin Tasks
      /\ \A l \in Leaves : l \in Tasks
      /\ \A t \in Tasks : t \in Bodies /\ Awaiter(t) \in Bodies \ Leaves /\ Awaiter(t) # t
      /\ Awaiter(Root) = Client
  BY TreeAssumption, NamesAssumption, AwaiterType DEF Bodies, Awaiter
<1>6. ~\E l \in Leaves : cts[l]
  BY DEF Control, Undisturbed
<1> HIDE DEF f
<1> USE DEF ControlPC, RunningPC, WaitingPC, EndingPC, StartPC, AwaitPC, AwaitingPC
<1>7. f = Top(th)
  BY DEF f
<1>8. ASSUME UNCHANGED <<cts, raised, escaped, reentered>> PROVE Undisturbed'
  BY <1>8 DEF Control, Undisturbed
<1>9. ASSUME WrapperCreated(th) PROVE Control'
  <2>1. f.pc = "wrap" /\ b \in Leaves /\ b \in Tasks
    BY <1>3, <1>5, <1>7, <1>9 DEF WrapperCreated, At, LeafPC
  <2>2. PICK v \in {"registered", "queued"} : callback' = [callback EXCEPT ![b] = v]
    BY <1>2, <1>7, <1>9 DEF WrapperCreated
  <2>3. UNCHANGED <<taskVars, bodyVars, continuation, cts, raised, ghostVars>>
    BY <1>9 DEF WrapperCreated
  <2>4. PICK g \in Frames : Goto(th, g) /\ g = Frame("isCompleted", b, Wrapper)
    <3>1. Frame("isCompleted", b, Wrapper) \in Frames
      BY <2>1, NewFrame DEF Awaitable
    <3> QED BY <1>2, <1>7, <1>9, <3>1 DEF WrapperCreated
  <2>5. g.task = b /\ g.pc = "isCompleted" /\ g.arg = Wrapper
    BY <2>4 DEF Frame
  <2>6. body[b] = "running" /\ callback[b] = "none" /\ todo[b] = {}
    BY <1>3, <2>1 DEF Fits, ControlFits
  <2>7. ~continuation[b]
    BY <1>2, <1>4, <2>1, <2>6 DEF BodyFits, ContinuationFits, Parked
  <2>8. OnlyChanges(b) /\ KeepsPromises(b)
    BY <2>1, <2>2, <2>3, <2>6, <2>7 DEF OnlyChanges, KeepsPromises, TypeOK, taskVars, bodyVars
  <2>9. OwnFrameFits(g)'
    BY <1>3, <1>5, <2>1, <2>3, <2>5, <2>6 DEF OwnFrameFits, Fits, ControlFits, AwaitedFits,
       ClientFits, taskVars, bodyVars
  <2>10. OwnBodyFits(b)'
    BY <1>2, <1>5, <2>3, <2>6 DEF BodyFits, OwnBodyFits, StateFits, RunningAreAwaited,
       UnawaitedIsUnregistered, ClientStartsRoot, taskVars, bodyVars
  <2>11. Undisturbed'
    BY <1>8, <2>3 DEF ghostVars
  <2> QED BY <1>1, <1>2, <1>7, <2>1, <2>4, <2>5, <2>8, <2>9, <2>10, <2>11, OwnGoto
<1>10. ASSUME AwaitOnCompleted(th) PROVE Control'
  <2>1. f.pc = "awaitOnCompleted" /\ f.arg \in Awaitable(b)
    BY <1>3, <1>7, <1>10 DEF AwaitOnCompleted, At
  <2> DEFINE u == f.arg
  <2>2. PICK g \in Frames : Goto(th, g) /\ g = Frame("register", b, u)
    BY <1>2, <1>7, <1>10, <2>1, NewFrame DEF AwaitOnCompleted
  <2>3. g.task = b /\ g.pc = "register" /\ g.arg = u
    BY <2>2 DEF Frame
  <2>4. /\ awaitingTask' = [awaitingTask EXCEPT ![b] = u]
        /\ body' = [body EXCEPT ![b] = "suspended"]
        /\ UNCHANGED <<state, stateMachine, onCompleted, todo, wrapperVars, raised, ghostVars>>
    BY <1>2, <1>7, <1>10 DEF AwaitOnCompleted
  <2> HIDE DEF u
  <2>5. /\ body' \in [Bodies -> {"fresh", "running", "suspended", "ended"}]
        /\ body'[b] = "suspended" /\ awaitingTask'[b] = u /\ body[b] = "running"
        /\ \A c \in Bodies : c # b => body'[c] = body[c] /\ awaitingTask'[c] = awaitingTask[c]
    BY <1>3, <2>1, <2>4 DEF TypeOK, Fits, ControlFits
  <2>6. u \in Tasks => u # b /\ u \in Bodies /\ Awaiter(u) = b
    BY <1>5, <2>1, AwaitableTypes DEF u
  <2>7. OnlyChanges(b) /\ KeepsPromises(b)
    <3>1. \A t \in Tasks : onCompleted'[t] => onCompleted[t]
      BY <2>4
    <3> QED BY <2>4, <2>5, <3>1 DEF OnlyChanges, KeepsPromises, wrapperVars
  <2>8. OwnFrameFits(g)'
    <3>1. ControlFits(f) /\ AwaitedFits(f) /\ ClientFits(f) /\ f.arg = u
      BY <1>3 DEF Fits, u
    <3>2. ControlFits(g)'
      BY <1>3, <2>1, <2>3, <2>4, <2>5, <2>6, <3>1 DEF ControlFits
    <3>3. AwaitedFits(g)' /\ ClientFits(g)'
      BY <1>3, <2>1, <2>3, <2>4, <3>1 DEF AwaitedFits, ClientFits
    <3> QED BY <3>2, <3>3 DEF OwnFrameFits
  <2>9. OwnBodyFits(b)'
    <3>1. AwaitedFits(f) /\ ClientFits(f) /\ f.arg = u
      BY <1>3 DEF Fits, u
    <3>2. StateFits(b)' /\ UnawaitedIsUnregistered(b)'
      BY <1>2, <2>4, <2>5 DEF BodyFits, StateFits, UnawaitedIsUnregistered, wrapperVars
    <3>3. RunningAreAwaited(b)' /\ ClientStartsRoot(b)'
      BY <1>3, <2>1, <2>4, <2>5, <3>1 DEF RunningAreAwaited, ClientStartsRoot, AwaitedFits, ClientFits
    <3> QED BY <3>2, <3>3 DEF OwnBodyFits
  <2>10. Undisturbed'
    BY <1>8, <2>4 DEF ghostVars, wrapperVars
  <2> QED BY <1>1, <1>2, <1>7, <2>1, <2>2, <2>3, <2>7, <2>8, <2>9, <2>10, OwnGoto
<1>11. ASSUME Register(th) PROVE Control'
  <2>1. f.pc = "register" /\ f.arg \in Awaitable(b)
    BY <1>3, <1>7, <1>11 DEF Register, At
  <2> PICK u \in Awaitable(b) : u = f.arg
    BY <2>1
  <2>2. /\ u \in Tasks \cup {Wrapper}
        /\ u \in Tasks => u # b /\ u \in Bodies /\ Awaiter(u) = b
        /\ u = Wrapper => b \in Leaves
    BY <1>5, <2>1, AwaitableTypes
  <2>3. /\ body[b] = "suspended" /\ awaitingTask[b] = u
        /\ u \in Tasks => ~onCompleted[u] /\ body[u] # "fresh"
    BY <1>3, <2>1 DEF Fits, ControlFits
  <2>4. UNCHANGED <<state, stateMachine, awaitingTask, body, todo, callback, cts, raised, ghostVars>>
    BY <1>11 DEF Register, bodyVars
  <2>5. /\ Return(th)
        /\ u = Wrapper => continuation' = [continuation EXCEPT ![b] = TRUE] /\ UNCHANGED onCompleted
        /\ u # Wrapper => onCompleted' = [onCompleted EXCEPT ![u] = TRUE] /\ UNCHANGED continuation
    BY <1>2, <1>7, <1>11, <2>2, <2>3 DEF Register
  <2>6. Parked(b, u)'
    <3>1. FreeOfControl(b)'
      BY <1>1, <1>2, <1>7, <2>1, <2>5, ReturnControl DEF TypeOK, StackOK, Control
    <3> QED BY <2>3, <2>4, <3>1 DEF Parked
  <2>7. /\ \A t \in Tasks : t # u => onCompleted'[t] = onCompleted[t]
        /\ u \in Tasks => onCompleted'[u]
        /\ \A l \in Leaves : l # b => continuation'[l] = continuation[l]
        /\ u # Wrapper => UNCHANGED continuation
        /\ u = Wrapper => continuation'[b]
    BY <1>5, <2>2, <2>5 DEF TypeOK
  <2>8. OnlyChanges(b) /\ KeepsPromises(b)
    <3>1. OnlyChanges(b)
      BY <2>2, <2>4, <2>7 DEF OnlyChanges
    <3>2. KeepsPromises(b)
      BY <2>2, <2>3, <2>4, <2>6, <2>7 DEF KeepsPromises
    <3> QED BY <3>1, <3>2
  <2>9. OwnBodyFits(b)' /\ WaitingIsRegistered(b)'
    <3>1. u \in Tasks => u \notin todo[b]
      BY <2>2, <2>3 DEF MachineInv, TodoIsFresh
    <3>2. UnawaitedIsUnregistered(b)'
      BY <1>2, <2>4, <2>7, <3>1 DEF BodyFits, UnawaitedIsUnregistered
    <3>3. StateFits(b)' /\ RunningAreAwaited(b)' /\ ClientStartsRoot(b)'
      BY <1>2, <2>4 DEF BodyFits, StateFits, RunningAreAwaited, ClientStartsRoot
    <3>4. WaitingIsRegistered(b)'
      BY <1>5, <2>3, <2>4, <2>7 DEF WaitingIsRegistered
    <3> QED BY <3>2, <3>3, <3>4 DEF OwnBodyFits
  <2>10. Undisturbed'
    BY <1>8, <2>4 DEF ghostVars
  <2> QED BY <1>1, <1>2, <1>7, <2>1, <2>5, <2>8, <2>9, <2>10, OwnReturn
<1>12. ASSUME Resume(th) PROVE Control'
  <2>1. f.pc = "resume" /\ body[b] = "suspended"
    BY <1>3, <1>7, <1>12 DEF Resume, At, Fits, ControlFits
  <2> DEFINE u == awaitingTask[b]
  <2>2. u \in Awaitable(b)
    BY <2>1 DEF TypeOK
  <2>3. PICK g \in Frames : Goto(th, g) /\ g = Frame("getResult", b, u)
    BY <1>2, <1>7, <1>12, <2>1, <2>2, NewFrame DEF Resume
  <2>4. g.task = b /\ g.pc = "getResult"
    BY <2>3 DEF Frame
  <2>5. /\ body' = [body EXCEPT ![b] = "running"]
        /\ UNCHANGED <<taskVars, todo, wrapperVars, raised, reentered, escaped>>
    BY <1>2, <1>7, <1>12, <2>1 DEF Resume
  <2>6. body'[b] = "running" /\ \A c \in Bodies : c # b => body'[c] = body[c]
    BY <2>5 DEF TypeOK
  <2>7. OnlyChanges(b) /\ KeepsPromises(b)
    BY <2>1, <2>5, <2>6 DEF OnlyChanges, KeepsPromises, taskVars, wrapperVars
  <2>8. OwnFrameFits(g)'
    BY <1>3, <2>1, <2>4, <2>5, <2>6 DEF OwnFrameFits, Fits, ControlFits, AwaitedFits, ClientFits, taskVars
  <2>9. OwnBodyFits(b)'
    BY <1>2, <2>1, <2>5, <2>6 DEF BodyFits, OwnBodyFits, StateFits, RunningAreAwaited,
       UnawaitedIsUnregistered, ClientStartsRoot, taskVars, wrapperVars
  <2>10. Undisturbed'
    BY <1>8, <2>5 DEF wrapperVars
  <2> QED BY <1>1, <1>2, <1>7, <2>1, <2>3, <2>4, <2>7, <2>8, <2>9, <2>10, OwnGoto
<1>13. ASSUME ClientEnds(th) PROVE Control'
  <2>1. f.pc \in {"setResult", "setException"} /\ b = Client
    BY <1>2, <1>7, <1>13 DEF ClientEnds, At
  <2>2. /\ body' = [body EXCEPT ![b] = "ended"] /\ Return(th)
        /\ UNCHANGED <<taskVars, todo, wrapperVars, raised, ghostVars>>
    BY <1>13, <2>1 DEF ClientEnds
  <2>3. body'[b] = "ended" /\ \A c \in Bodies : c # b => body'[c] = body[c]
    BY <2>2 DEF TypeOK
  <2>4. body[b] # "fresh"
    BY <1>3, <2>1 DEF Fits, ControlFits
  <2>5. OnlyChanges(b) /\ KeepsPromises(b)
    BY <1>5, <2>1, <2>2, <2>3, <2>4 DEF OnlyChanges, KeepsPromises, taskVars, wrapperVars
  <2>6. OwnBodyFits(b)' /\ WaitingIsRegistered(b)'
    BY <1>2, <1>3, <1>5, <2>1, <2>2, <2>3 DEF Fits, AwaitedFits, ClientFits, BodyFits, OwnBodyFits,
       StateFits, RunningAreAwaited, UnawaitedIsUnregistered, ClientStartsRoot,
       WaitingIsRegistered, taskVars, wrapperVars
  <2>7. Undisturbed'
    BY <1>8, <2>2 DEF wrapperVars, ghostVars
  <2> QED BY <1>1, <1>2, <1>7, <2>1, <2>2, <2>5, <2>6, <2>7, OwnReturn
\* The body has returned or thrown: the frame that publishes how.
<1>14. ASSUME NEW g \in Frames, Goto(th, g), g.task = b, b \in Tasks,
              f.pc \in {"setResult", "setException"}, g.pc \in {"setResult", "publish"},
              state[b] = "Running", body' = [body EXCEPT ![b] = "ended"],
              UNCHANGED <<taskVars, todo, wrapperVars, raised, ghostVars>>
       PROVE  Control'
  <2>1. body'[b] = "ended" /\ \A c \in Bodies : c # b => body'[c] = body[c]
    BY <1>14 DEF TypeOK
  <2>2. body[b] # "fresh"
    BY <1>3, <1>14 DEF Fits, ControlFits
  <2>3. OnlyChanges(b) /\ KeepsPromises(b)
    BY <1>14, <2>1, <2>2 DEF OnlyChanges, KeepsPromises, taskVars, wrapperVars
  <2>4. OwnFrameFits(g)'
    BY <1>3, <1>5, <1>14, <2>1 DEF OwnFrameFits, Fits, ControlFits, AwaitedFits, ClientFits, taskVars
  <2>5. OwnBodyFits(b)'
    BY <1>2, <1>3, <1>5, <1>14, <2>1 DEF Fits, AwaitedFits, BodyFits, OwnBodyFits, StateFits,
       RunningAreAwaited, UnawaitedIsUnregistered, ClientStartsRoot, taskVars, wrapperVars
  <2>6. Undisturbed'
    BY <1>8, <1>14 DEF wrapperVars, ghostVars
  <2> QED BY <1>1, <1>2, <1>7, <1>14, <2>3, <2>4, <2>5, <2>6, OwnGoto
<1>15. ASSUME SetResult(th) PROVE Control'
  <2>1. f.pc = "setResult" /\ b \in Tasks /\ state[b] = "Running"
    BY <1>2, <1>3, <1>7, <1>15 DEF SetResult, At, Fits, ControlFits
  <2>2. PICK g \in Frames : Goto(th, g) /\ g = Frame("publish", b, "CompletedSuccessfully")
    BY <1>2, <1>7, <1>15, <2>1, NewFrame DEF SetResult
  <2>3. g.task = b /\ g.pc = "publish"
    BY <2>2 DEF Frame
  <2>4. /\ body' = [body EXCEPT ![b] = "ended"]
        /\ UNCHANGED <<taskVars, todo, wrapperVars, raised, ghostVars>>
    BY <1>2, <1>7, <1>15, <2>1 DEF SetResult
  <2> QED BY <1>14, <2>1, <2>2, <2>3, <2>4
<1>16. ASSUME SetException(th) PROVE Control'
  <2>1. f.pc = "setException" /\ b \in Tasks /\ f.arg \in {"ReturnException", "Error"}
    BY <1>2, <1>3, <1>7, <1>16 DEF SetException, At, Fits, ControlFits, Exceptions
  <2>2. state[b] = "Running"
    BY <1>2, <1>3, <2>1 DEF Fits, ControlFits, BodyFits, StateFits
  <2>3. /\ body' = [body EXCEPT ![b] = "ended"]
        /\ UNCHANGED <<taskVars, todo, wrapperVars, raised, ghostVars>>
    BY <1>2, <1>7, <1>16, <2>1, <2>2 DEF SetException, taskVars
  <2>4. PICK g \in {Frame("setResult", b, None), Frame("publish", b, "Failed")} : Goto(th, g)
    BY <1>2, <1>7, <1>16, <2>1, <2>2 DEF SetException
  <2>5. g \in Frames /\ g.task = b /\ g.pc \in {"setResult", "publish"}
    <3>1. Frame("setResult", b, None) \in Frames /\ Frame("publish", b, "Failed") \in Frames
      BY <2>1, NewFrame
    <3> QED BY <2>4, <3>1 DEF Frame
  <2> QED BY <1>14, <2>1, <2>2, <2>3, <2>4, <2>5
<1>17. ASSUME Publish(th) PROVE Control'
  <2>1. /\ f.pc = "publish" /\ b \in Tasks /\ body[b] = "ended"
        /\ f.arg \in {"CompletedSuccessfully", "Failed"}
    BY <1>3, <1>7, <1>17 DEF Publish, At, Fits, ControlFits
  <2>2. PICK v \in {"CompletedSuccessfully", "Failed"} : state' = [state EXCEPT ![b] = v]
    BY <1>2, <1>7, <1>17, <2>1 DEF Publish
  <2>3. PICK g \in Frames : Goto(th, g) /\ g = Frame("clear", b, None)
    BY <1>2, <1>7, <1>17, <2>1, NewFrame DEF Publish, TaskPC
  <2>4. g.task = b /\ g.pc = "clear"
    BY <2>3 DEF Frame
  <2>5. UNCHANGED <<onCompleted, awaitingTask, bodyVars, wrapperVars, raised, ghostVars>>
    BY <1>17 DEF Publish
  <2>6. /\ state'[b] \in {"CompletedSuccessfully", "Failed"}
        /\ \A t \in Tasks : t # b => state'[t] = state[t]
    BY <2>1, <2>2 DEF TypeOK
  <2>7. OnlyChanges(b) /\ KeepsPromises(b)
    BY <2>1, <2>5, <2>6 DEF OnlyChanges, KeepsPromises, bodyVars, wrapperVars
  <2>8. OwnFrameFits(g)'
    <3>1. b # Client
      BY <1>5, <2>1
    <3> QED BY <1>3, <1>5, <2>1, <2>4, <2>5, <2>6, <3>1
        DEF OwnFrameFits, Fits, ControlFits, AwaitedFits, ClientFits, Terminal, bodyVars
  <2>9. OwnBodyFits(b)'
    BY <1>2, <1>3, <1>5, <2>1, <2>5, <2>6 DEF Fits, AwaitedFits, BodyFits, OwnBodyFits, StateFits,
       RunningAreAwaited, UnawaitedIsUnregistered, ClientStartsRoot, bodyVars, wrapperVars
  <2>10. Undisturbed'
    BY <1>8, <2>5 DEF wrapperVars, ghostVars
  <2> QED BY <1>1, <1>2, <1>7, <2>1, <2>3, <2>4, <2>7, <2>8, <2>9, <2>10, OwnGoto
<1>18. ASSUME ClearStateMachine(th) PROVE Control'
  <2>1. f.pc = "clear" /\ b \in Tasks
    BY <1>3, <1>7, <1>18 DEF ClearStateMachine, At, TaskPC
  <2>2. PICK g \in Frames : Goto(th, g) /\ g = Frame("notify", b, None)
    BY <1>2, <1>7, <1>18, <2>1, NewFrame DEF ClearStateMachine, TaskPC
  <2>3. g.task = b /\ g.pc = "notify"
    BY <2>2 DEF Frame
  <2>4. UNCHANGED <<state, onCompleted, awaitingTask, bodyVars, wrapperVars, raised, ghostVars>>
    BY <1>18 DEF ClearStateMachine
  <2>5. OwnFrameFits(g)'
    BY <1>3, <1>5, <2>1, <2>3, <2>4 DEF OwnFrameFits, Fits, ControlFits, AwaitedFits, ClientFits, bodyVars
  <2> QED BY <1>1, <1>2, <1>7, <2>1, <2>2, <2>3, <2>4, <2>5, SilentGoto DEF bodyVars, wrapperVars, ghostVars
<1>19. ASSUME RunCallOnCompleted(th), ~onCompleted[Top(th).task] PROVE Control'
  <2>1. f.pc = "notify" /\ b \in Tasks /\ body[b] = "ended"
    BY <1>3, <1>7, <1>19 DEF RunCallOnCompleted, At, Fits, ControlFits, TaskPC
  <2>2. Return(th) /\ UNCHANGED <<taskVars, bodyVars, wrapperVars, raised, ghostVars>>
    BY <1>19 DEF RunCallOnCompleted
  <2>3. OnlyChanges(b) /\ KeepsPromises(b)
    BY <2>1, <2>2 DEF OnlyChanges, KeepsPromises, taskVars, bodyVars, wrapperVars
  <2>4. OwnBodyFits(b)' /\ WaitingIsRegistered(b)'
    BY <1>2, <2>1, <2>2 DEF BodyFits, OwnBodyFits, StateFits, RunningAreAwaited,
       UnawaitedIsUnregistered, ClientStartsRoot, WaitingIsRegistered, taskVars, bodyVars, wrapperVars
  <2>5. Undisturbed'
    BY <1>8, <2>2 DEF wrapperVars, ghostVars
  <2> QED BY <1>1, <1>2, <1>7, <2>1, <2>2, <2>3, <2>4, <2>5, OwnReturn
<1> QED BY <1>9, <1>10, <1>11, <1>12, <1>13, <1>15, <1>16, <1>17, <1>18, <1>19

LEMMA WrapperTakesStep ==
  ASSUME TypeOK, Control, NEW th \in Threads, WrapperTakes(th)
  PROVE  Control'
<1>1. stack[th] # <<>> /\ Top(th).pc = "wrapperTake"
  BY DEF WrapperTakes, At
<1>2. PICK b \in Leaves : b = Top(th).task /\ Fits(Top(th)) /\ BodyFits(b) /\ b \in Bodies
  BY <1>1, TopFits, FrameTypes DEF LeafPC
<1>3. /\ b \in Tasks /\ b # Client
      /\ \A t \in Tasks : t \in Bodies /\ Awaiter(t) \in Bodies \ Leaves /\ Awaiter(t) # t
  BY TreeAssumption, NamesAssumption, AwaiterType DEF Bodies, Awaiter
<1>4. PICK g \in Frames : Goto(th, g) /\ g = Frame("resume", b, None)
  BY <1>2, NewFrame DEF WrapperTakes
<1>5. g.task = b /\ g.pc = "resume"
  BY <1>4 DEF Frame
<1>6. /\ continuation' = [continuation EXCEPT ![b] = FALSE]
      /\ UNCHANGED <<taskVars, bodyVars, callback, cts, raised, ghostVars>>
  BY <1>2 DEF WrapperTakes
<1>7. \A l \in Leaves : continuation'[l] = (continuation[l] /\ l # b)
  BY <1>6 DEF TypeOK
<1> USE DEF ControlPC, RunningPC, WaitingPC, EndingPC, StartPC, AwaitPC, AwaitingPC
<1>8. OnlyChanges(b) /\ KeepsPromises(b)
  <2>1. body[b] = "suspended"
    BY <1>1, <1>2 DEF Fits, ControlFits
  <2> QED BY <1>6, <1>7, <2>1 DEF OnlyChanges, KeepsPromises, taskVars, bodyVars
<1>9. OwnFrameFits(g)'
  BY <1>1, <1>2, <1>3, <1>5, <1>6 DEF OwnFrameFits, Fits, ControlFits, AwaitedFits, ClientFits, taskVars, bodyVars
<1>10. OwnBodyFits(b)'
  BY <1>2, <1>3, <1>6 DEF BodyFits, OwnBodyFits, StateFits, RunningAreAwaited,
     UnawaitedIsUnregistered, ClientStartsRoot, taskVars, bodyVars
<1>11. Undisturbed'
  BY <1>6 DEF Control, Undisturbed, ghostVars
<1> QED BY <1>1, <1>2, <1>4, <1>5, <1>8, <1>9, <1>10, <1>11, OwnGoto
-----------------------------------------------------------------------------
(***************************************************************************)
(* A continuation is called: control of a parked body passes to the        *)
(* running frame.                                                          *)
(***************************************************************************)
LEMMA HandOn ==
  ASSUME TypeOK, Control, NEW th \in Threads, stack[th] # <<>>,
         NEW a \in Bodies, NEW u, Parked(a, u),
         NEW g \in Frames, Goto(th, g), g.task = a, g.pc \in {"resume", "wrapperTake"},
         NEW c, c = Top(th).task,
         \/ Top(th).pc = "notify" /\ c = u
         \/ Top(th).pc = "wrapperOnCompleted" /\ c = a /\ u = Wrapper,
         \A t \in Tasks : Awaiter(t) = a /\ t = u => state[t] # "Running",
         UNCHANGED <<taskVars, bodyVars, wrapperVars, raised, ghostVars>>
  PROVE  Control'
<1> DEFINE n == Len(stack[th])
<1> USE DEF ControlPC, RunningPC, WaitingPC, EndingPC, StartPC, AwaitPC, AwaitingPC
<1>1. /\ StackOK /\ StackOK'
      /\ \A t2 \in Threads : \A i \in 1 .. Len(stack'[t2]) :
           Kept(th, t2, i) \/ (t2 = th /\ i = n /\ stack'[t2][i] = g)
  BY GotoStack DEF TypeOK, StackOK
<1>2. n \in 1 .. Len(stack[th]) /\ n \in 1 .. Len(stack'[th]) /\ stack'[th][n] = g /\ Top(th) = stack[th][n]
  BY <1>1, GotoTop, TopFrame DEF Top
<1>3. FramesBelowStay(th)
  BY <1>1, BelowStays
<1>4. c \in Bodies /\ Fits(Top(th)) /\ BodyFits(c) /\ BodyFits(a)
  BY TopFits DEF Control, EveryBodyFits
<1> HIDE DEF n
<1>5. \A t2 \in Threads : \A i \in 1 .. Len(stack[t2]) :
        stack[t2][i].pc \in ControlPC => stack[t2][i].task # a
  BY DEF Parked, FreeOfControl
<1>6. \A t2 \in Threads : \A i \in 1 .. Len(stack[t2]) :
        (t2 = th => i < Len(stack[th])) => Kept(th, t2, i) /\ ~Rivals(stack[t2][i], Top(th))
  BY <1>1, <1>3, TopIsSole DEF FramesBelowStay, Kept, Control
<1>7. SoleControl'
  <2>1. \A t2 \in Threads : \A i \in 1 .. Len(stack[t2]) :
          (t2 = th => i < Len(stack[th])) => ~Rivals(stack[t2][i], g)
    BY <1>5, <1>6 DEF Rivals
  <2>2. OneNewFrame(th, n, g)
    BY <1>1, <2>1 DEF OneNewFrame
  <2> QED BY <1>1, <2>2, SoleStep DEF Control
<1>8. ~FreeOfControl(a)'
  BY <1>2 DEF FreeOfControl
<1>9. ASSUME NEW d \in Bodies, d # a, FreeOfControl(d) PROVE FreeOfControl(d)'
  BY <1>1, <1>9 DEF FreeOfControl, Kept
<1>10. ASSUME NEW d \in Bodies, d # a, d # c \/ Top(th).pc \notin ControlPC, FreeOfControl(d)'
       PROVE  FreeOfControl(d)
  <2> SUFFICES ASSUME NEW t2 \in Threads, NEW i \in 1 .. Len(stack[t2]),
                      stack[t2][i].pc \in ControlPC
               PROVE  stack[t2][i].task # d
    BY DEF FreeOfControl
  <2>1. CASE t2 = th /\ i = n
    BY <1>2, <1>10, <2>1
  <2>2. CASE ~(t2 = th /\ i = n)
    <3>1. t2 = th => i < Len(stack[th])
      BY <2>2, <1>2 DEF n
    <3>2. i \in 1 .. Len(stack'[t2]) /\ stack'[t2][i] = stack[t2][i]
      BY <3>1, <1>3 DEF FramesBelowStay
    <3> QED BY <3>2, <1>10 DEF FreeOfControl
  <2> QED BY <2>1, <2>2
<1>11. ASSUME NEW d \in Bodies, NEW v, d # a, Parked(d, v) PROVE Parked(d, v)'
  BY <1>9, <1>11 DEF Parked, taskVars, bodyVars
<1>12. \A v : Parked(a, v) => v = u
  BY DEF Parked
<1>13. /\ \A t \in Tasks : t \in Bodies /\ Awaiter(t) \in Bodies /\ Awaiter(t) # t
       /\ \A l \in Leaves : l \in Tasks /\ l \in Bodies
       /\ Wrapper \notin Tasks /\ Client \notin Tasks
       /\ a \in Tasks => \A t \in Tasks : Awaiter(t) = a => a \notin Leaves
  BY TreeAssumption, NamesAssumption, AwaiterType DEF Bodies, Awaiter
<1>14. EveryFrameFits'
  <2> SUFFICES ASSUME NEW t2 \in Threads, NEW i \in 1 .. Len(stack'[t2])
               PROVE  Fits(stack[t2][i])'
    BY DEF EveryFrameFits
  <2>1. PICK h \in Frames : h = stack'[t2][i]
    BY <1>1, ElementOfSeq DEF StackOK
  <2>2. CASE Kept(th, t2, i)
    <3>1. /\ Fits(h) /\ ~Rivals(h, Top(th))
          /\ h.pc \in ControlPC => h.task # a
      BY <1>1, <1>5, <2>1, <2>2, TopIsSole DEF Kept, Control, EveryFrameFits
    <3>2. ControlFits(h)' /\ AwaitedFits(h)' /\ ClientFits(h)'
      BY <3>1 DEF Fits, ControlFits, AwaitedFits, ClientFits, taskVars, bodyVars, wrapperVars
    <3>3. WakeFits(h)'
      <4>1. ASSUME h.pc \in ControlPC, h.task \in Tasks, onCompleted'[h.task]
            PROVE  Parked(Awaiter(h.task), h.task)'
        <5>1. Parked(Awaiter(h.task), h.task)
          BY <3>1, <4>1 DEF Fits, WakeFits, taskVars
        <5>2. Awaiter(h.task) # a
          <6>1. h.task # u
            BY <1>13, <3>1, <4>1 DEF Rivals
          <6> QED BY <1>12, <5>1, <6>1
        <5> QED BY <1>11, <1>13, <4>1, <5>1, <5>2
      <4>2. ASSUME h.pc = "wrapperOnCompleted"
            PROVE  callback'[h.task] = "fired" /\ (continuation'[h.task] => Parked(h.task, Wrapper)')
        <5>1. h.task \in Leaves /\ callback[h.task] = "fired" /\ (continuation[h.task] => Parked(h.task, Wrapper))
          BY <3>1, <4>2, FrameTypes DEF Fits, WakeFits, LeafPC
        <5>2. continuation[h.task] => h.task # a
          <6>1. CASE Top(th).pc = "wrapperOnCompleted"
            BY <3>1, <4>2, <6>1 DEF Rivals
          <6>2. CASE Top(th).pc = "notify"
            <7>1. u # Wrapper
              BY <1>1, <6>2, <1>13, TopFrame, FrameTypes DEF TaskPC
            <7> QED BY <1>12, <5>1, <7>1
          <6> QED BY <6>1, <6>2
        <5> QED BY <1>11, <1>13, <5>1, <5>2 DEF wrapperVars
      <4> QED BY <4>1, <4>2 DEF WakeFits
    <3> QED BY <2>1, <3>2, <3>3 DEF Fits
  <2>3. CASE h = g
    <3>1. ControlFits(h)'
      BY <2>3 DEF ControlFits, Parked, bodyVars
    <3>2. AwaitedFits(h)'
      BY <1>4, <2>3 DEF AwaitedFits, BodyFits, RunningAreAwaited, Parked, taskVars
    <3>3. ClientFits(h)'
      BY <1>4, <2>3 DEF ClientFits, BodyFits, ClientStartsRoot, Parked, taskVars
    <3>4. WakeFits(h)'
      <4> SUFFICES ASSUME a \in Tasks, onCompleted'[a] PROVE Parked(Awaiter(a), a)'
        BY <2>3 DEF WakeFits
      <4>1. Parked(Awaiter(a), a)
        BY <1>4 DEF BodyFits, ContinuationFits, Parked, taskVars
      <4> QED BY <1>11, <1>13, <4>1
    <3> QED BY <2>1, <3>1, <3>2, <3>3, <3>4 DEF Fits
  <2> QED BY <1>1, <2>1, <2>2, <2>3
<1>15. EveryBodyFits'
  <2> SUFFICES ASSUME NEW d \in Bodies PROVE BodyFits(d)'
    BY DEF EveryBodyFits
  <2>1. BodyFits(d)
    BY DEF Control, EveryBodyFits
  <2>2. StateFits(d)' /\ RunningAreAwaited(d)' /\ UnawaitedIsUnregistered(d)' /\ ClientStartsRoot(d)'
    BY <2>1 DEF BodyFits, StateFits, RunningAreAwaited, UnawaitedIsUnregistered,
       ClientStartsRoot, taskVars, bodyVars, wrapperVars
  <2>3. ContinuationFits(d)'
    <3>1. ASSUME d \in Tasks, onCompleted'[d], body'[d] # "ended" PROVE Parked(Awaiter(d), d)'
      <4>1. Parked(Awaiter(d), d)
        BY <2>1, <3>1 DEF BodyFits, ContinuationFits, taskVars, bodyVars
      <4>2. Awaiter(d) # a
        <5>1. d # u
          <6>1. CASE Top(th).pc = "notify"
            BY <1>4, <3>1, <6>1 DEF Fits, ControlFits, bodyVars
          <6>2. CASE u = Wrapper
            BY <1>13, <3>1, <6>2
          <6> QED BY <6>1, <6>2
        <5> QED BY <1>12, <4>1, <5>1
      <4> QED BY <1>11, <1>13, <3>1, <4>1, <4>2
    <3>2. ASSUME d \in Leaves, continuation'[d], callback'[d] # "fired" PROVE Parked(d, Wrapper)'
      <4>1. Parked(d, Wrapper)
        BY <2>1, <3>2 DEF BodyFits, ContinuationFits, wrapperVars
      <4>2. d # a
        <5>1. CASE Top(th).pc = "notify"
          <6>1. u # Wrapper
            BY <1>1, <5>1, <1>13, TopFrame, FrameTypes DEF TaskPC
          <6> QED BY <1>12, <4>1, <6>1
        <5>2. CASE Top(th).pc = "wrapperOnCompleted" /\ c = a
          BY <1>4, <3>2, <5>2 DEF Fits, WakeFits, wrapperVars
        <5> QED BY <5>1, <5>2
      <4> QED BY <1>11, <4>1, <4>2
    <3> QED BY <3>1, <3>2 DEF ContinuationFits
  <2>4. WaitingIsRegistered(d)'
    <3> SUFFICES ASSUME body'[d] = "suspended", FreeOfControl(d)'
                 PROVE  /\ awaitingTask'[d] \in Tasks => onCompleted'[awaitingTask'[d]]
                        /\ awaitingTask'[d] = Wrapper => continuation'[d]
      BY DEF WaitingIsRegistered
    <3>1. d # a
      BY <1>8
    <3>2. d # c \/ Top(th).pc \notin ControlPC
      BY <1>4 DEF Fits, ControlFits, bodyVars
    <3>3. FreeOfControl(d)
      BY <1>10, <3>1, <3>2
    <3> QED BY <2>1, <3>3 DEF BodyFits, WaitingIsRegistered, taskVars, bodyVars, wrapperVars
  <2> QED BY <2>2, <2>3, <2>4 DEF BodyFits
<1>16. Undisturbed'
  BY DEF Control, Undisturbed, wrapperVars, ghostVars
<1> QED BY <1>7, <1>14, <1>15, <1>16 DEF Control

\* A frame that controls nothing returns.
LEMMA IdleReturn ==
  ASSUME TypeOK, Control, NEW th \in Threads, stack[th] # <<>>,
         Top(th).pc \notin ControlPC, Return(th),
         UNCHANGED <<taskVars, bodyVars, wrapperVars, raised, ghostVars>>
  PROVE  Control'
<1>1. /\ StackOK'
      /\ \A t2 \in Threads : \A i \in 1 .. Len(stack'[t2]) : Kept(th, t2, i)
  BY ReturnStack DEF TypeOK, StackOK
<1>2. FramesBelowStay(th)
  BY BelowStays DEF TypeOK, StackOK
<1>3. Len(stack[th]) \in Nat \ {0} /\ Top(th) = stack[th][Len(stack[th])]
  BY TopFrame DEF TypeOK, StackOK, Top
<1>4. SoleControl'
  BY <1>1 DEF Control, SoleControl, Kept
<1>5. ASSUME NEW d \in Bodies PROVE FreeOfControl(d)' <=> FreeOfControl(d)
  <2>1. ASSUME FreeOfControl(d) PROVE FreeOfControl(d)'
    BY <1>1, <2>1 DEF FreeOfControl, Kept
  <2>2. ASSUME FreeOfControl(d)', NEW t2 \in Threads, NEW i \in 1 .. Len(stack[t2]),
               stack[t2][i].pc \in ControlPC
        PROVE  stack[t2][i].task # d
    <3>1. t2 = th => i < Len(stack[th])
      BY <1>3, <2>2
    <3> QED BY <1>2, <2>2, <3>1 DEF FramesBelowStay, FreeOfControl
  <2> QED BY <2>1, <2>2 DEF FreeOfControl
<1>6. ASSUME NEW d \in Bodies, NEW v PROVE Parked(d, v)' <=> Parked(d, v)
  BY <1>5 DEF Parked, taskVars, bodyVars
<1>7. /\ \A t \in Tasks : Awaiter(t) \in Bodies
      /\ \A l \in Leaves : l \in Bodies
  BY TreeAssumption, AwaiterType DEF Bodies
<1>8. EveryFrameFits'
  <2> SUFFICES ASSUME NEW t2 \in Threads, NEW i \in 1 .. Len(stack'[t2])
               PROVE  Fits(stack[t2][i])'
    BY DEF EveryFrameFits
  <2>1. PICK h \in Frames : h = stack'[t2][i] /\ Fits(h)
    BY <1>1, ElementOfSeq DEF StackOK, Kept, Control, EveryFrameFits
  <2>2. ControlFits(h)' /\ AwaitedFits(h)' /\ ClientFits(h)'
    BY <2>1 DEF Fits, ControlFits, AwaitedFits, ClientFits, taskVars, bodyVars, wrapperVars
  <2>3. WakeFits(h)'
    <3>1. h.pc = "wrapperOnCompleted" => h.task \in Leaves
      BY <2>1, FrameTypes DEF LeafPC
    <3> QED BY <1>6, <1>7, <2>1, <3>1 DEF Fits, WakeFits, taskVars, wrapperVars
  <2> QED BY <2>1, <2>2, <2>3 DEF Fits
<1>9. EveryBodyFits'
  <2> SUFFICES ASSUME NEW d \in Bodies PROVE BodyFits(d)'
    BY DEF EveryBodyFits
  <2>1. BodyFits(d)
    BY DEF Control, EveryBodyFits
  <2>2. StateFits(d)' /\ RunningAreAwaited(d)' /\ UnawaitedIsUnregistered(d)' /\ ClientStartsRoot(d)'
    BY <2>1 DEF BodyFits, StateFits, RunningAreAwaited, UnawaitedIsUnregistered,
       ClientStartsRoot, taskVars, bodyVars, wrapperVars
  <2>3. ContinuationFits(d)'
    BY <1>6, <1>7, <2>1 DEF BodyFits, ContinuationFits, taskVars, bodyVars, wrapperVars
  <2>4. WaitingIsRegistered(d)'
    BY <1>5, <2>1 DEF BodyFits, WaitingIsRegistered, taskVars, bodyVars, wrapperVars
  <2> QED BY <2>2, <2>3, <2>4 DEF BodyFits
<1>10. Undisturbed'
  BY DEF Control, Undisturbed, wrapperVars, ghostVars
<1> QED BY <1>4, <1>8, <1>9, <1>10 DEF Control

LEMMA WakeSteps ==
  ASSUME TypeOK, Control, NEW th \in Threads,
         \/ RunCallOnCompleted(th) /\ onCompleted[Top(th).task]
         \/ WrapperOnCompleted(th)
  PROVE  Control'
<1>1. stack[th] # <<>>
  BY DEF RunCallOnCompleted, WrapperOnCompleted, At
<1>2. PICK c \in Bodies : c = Top(th).task /\ Top(th) \in Frames /\ Fits(Top(th))
  BY <1>1, TopFits
<1>3. \A t \in Tasks : Awaiter(t) \in Bodies /\ Awaiter(t) \notin Leaves
  BY AwaiterType
<1>4. CASE RunCallOnCompleted(th) /\ onCompleted[Top(th).task]
  <2>1. Top(th).pc = "notify" /\ c \in Tasks /\ onCompleted[c]
    BY <1>2, <1>4, FrameTypes DEF RunCallOnCompleted, At, Fits, ControlFits, ControlPC,
       RunningPC, WaitingPC, EndingPC, StartPC, TaskPC
  <2>2. Parked(Awaiter(c), c) /\ state[c] \in Terminal
    BY <1>2, <2>1 DEF Fits, WakeFits, ControlFits, ControlPC, EndingPC
  <2>3. PICK a \in Bodies : a = Awaiter(c)
    BY <1>3, <2>1
  <2>4. PICK g \in Frames : Goto(th, g) /\ g = Frame("resume", a, None)
    BY <1>2, <1>4, <2>1, <2>3, NewFrame DEF RunCallOnCompleted
  <2>5. g.task = a /\ g.pc = "resume"
    BY <2>4 DEF Frame
  <2>6. UNCHANGED <<taskVars, bodyVars, wrapperVars, raised, ghostVars>>
    BY <1>4 DEF RunCallOnCompleted
  <2>7. \A t \in Tasks : Awaiter(t) = a /\ t = c => state[t] # "Running"
    BY <2>2 DEF Terminal
  <2> QED BY <1>1, <1>2, <2>1, <2>2, <2>3, <2>4, <2>5, <2>6, <2>7, HandOn
<1>5. CASE WrapperOnCompleted(th)
  <2>1. Top(th).pc = "wrapperOnCompleted" /\ c \in Leaves
    BY <1>2, <1>5, FrameTypes DEF WrapperOnCompleted, At, LeafPC
  <2>2. UNCHANGED <<taskVars, bodyVars, wrapperVars, raised, ghostVars>>
    BY <1>5 DEF WrapperOnCompleted
  <2>3. CASE continuation[c]
    <3>1. Parked(c, Wrapper)
      BY <1>2, <2>1, <2>3 DEF Fits, WakeFits
    <3>2. PICK g \in Frames : Goto(th, g) /\ g = Frame("wrapperTake", c, None)
      BY <1>2, <1>5, <2>1, <2>3, NewFrame DEF WrapperOnCompleted, LeafPC
    <3>3. g.task = c /\ g.pc = "wrapperTake"
      BY <3>2 DEF Frame
    <3>4. \A t \in Tasks : Awaiter(t) = c /\ t = Wrapper => state[t] # "Running"
      BY <1>3, <2>1
    <3> QED BY <1>1, <1>2, <2>1, <2>2, <3>1, <3>2, <3>3, <3>4, HandOn
  <2>4. CASE ~continuation[c]
    <3>1. Return(th)
      BY <1>2, <1>5, <2>4 DEF WrapperOnCompleted
    <3>2. Top(th).pc \notin ControlPC
      BY <2>1 DEF ControlPC, RunningPC, WaitingPC, EndingPC, StartPC
    <3> QED BY <1>1, <2>2, <3>1, <3>2, IdleReturn
  <2> QED BY <2>3, <2>4
<1> QED BY <1>4, <1>5
-----------------------------------------------------------------------------
(***************************************************************************)
(* Calls into the runtime, and the start of a task: one more frame.        *)
(***************************************************************************)
LEMMA EnterTop ==
  ASSUME StackOK, NEW th \in Threads, NEW f \in Frames, NEW from, Enter(th, f, from)
  PROVE  /\ 1 \in 1 .. Len(stack'[th]) /\ stack'[th][1] = f
         /\ \A t2 \in Threads : \A i \in 1 .. Len(stack[t2]) :
              i \in 1 .. Len(stack'[t2]) /\ stack'[t2][i] = stack[t2][i]
<1>1. stack' = [stack EXCEPT ![th] = <<f>>] /\ stack[th] = <<>>
  BY DEF Enter, Idle
<1>2. stack'[th] = <<f>> /\ \A t2 \in Threads : t2 # th => stack'[t2] = stack[t2]
  BY <1>1 DEF StackOK
<1>3. Len(<<f>>) = 1 /\ <<f>>[1] = f
  OBVIOUS
<1>4. 1 .. Len(stack[th]) = {}
  BY <1>1, EmptySeq
<1> QED BY <1>2, <1>3, <1>4

\* The continuation a wrapper registered runs, on a thread of its own.
LEMMA CallbackRuns ==
  ASSUME TypeOK, Control, NEW th \in Threads, NEW l \in Leaves,
         NEW from, Enter(th, Frame("wrapperOnCompleted", l, None), from),
         callback[l] \in {"registered", "queued"},
         callback' = [callback EXCEPT ![l] = "fired"],
         UNCHANGED <<taskVars, bodyVars, cts, continuation, ghostVars>>
  PROVE  Control'
<1> USE DEF ControlPC, RunningPC, WaitingPC, EndingPC, StartPC, AwaitPC, AwaitingPC
<1>1. PICK g \in Frames : /\ g = Frame("wrapperOnCompleted", l, None)
                          /\ g.pc = "wrapperOnCompleted" /\ g.task = l
  <2>1. Frame("wrapperOnCompleted", l, None) \in Frames
    BY NewFrame DEF LeafPC
  <2> QED BY <2>1 DEF Frame
<1>2. StackOK /\ Enter(th, g, from)
  BY <1>1 DEF TypeOK, StackOK
<1>3. /\ StackOK'
      /\ \A t2 \in Threads : \A i \in 1 .. Len(stack'[t2]) :
           Kept(th, t2, i) \/ (t2 = th /\ i = 1 /\ stack'[t2][i] = g)
  BY <1>2, EnterStack
<1>4. /\ \A t2 \in Threads : \A i \in 1 .. Len(stack[t2]) :
           i \in 1 .. Len(stack'[t2]) /\ stack'[t2][i] = stack[t2][i]
      /\ UNCHANGED raised
  BY <1>2, EnterTop DEF Enter
<1>5. \A t2 \in Threads : \A i \in 1 .. Len(stack[t2]) : ~Rivals(stack[t2][i], g)
  <2> SUFFICES ASSUME NEW t2 \in Threads, NEW i \in 1 .. Len(stack[t2]), Rivals(stack[t2][i], g)
               PROVE  FALSE
    OBVIOUS
  <2>1. Fits(stack[t2][i]) /\ stack[t2][i].task = l /\ stack[t2][i].pc \notin ControlPC
    BY <1>1 DEF Control, EveryFrameFits, Rivals
  <2> QED BY <2>1 DEF Fits, ControlFits, WakeFits
<1>6. SoleControl'
  <2>1. OneNewFrame(th, 1, g)
    BY <1>3, <1>5 DEF OneNewFrame
  <2> QED BY <1>2, <1>3, <2>1, SoleStep DEF Control
<1>7. ASSUME NEW d \in Bodies PROVE FreeOfControl(d)' <=> FreeOfControl(d)
  <2>1. ASSUME FreeOfControl(d) PROVE FreeOfControl(d)'
    BY <1>1, <1>3, <2>1 DEF FreeOfControl, Kept
  <2>2. ASSUME FreeOfControl(d)' PROVE FreeOfControl(d)
    BY <1>4, <2>2 DEF FreeOfControl
  <2> QED BY <2>1, <2>2
<1>8. ASSUME NEW d \in Bodies, NEW v PROVE Parked(d, v)' <=> Parked(d, v)
  BY <1>7 DEF Parked, taskVars, bodyVars
<1>9. /\ \A t \in Tasks : Awaiter(t) \in Bodies
      /\ \A t \in Leaves : t \in Bodies
      /\ BodyFits(l)
  BY TreeAssumption, AwaiterType DEF Bodies, Control, EveryBodyFits
<1>10. callback'[l] = "fired" /\ \A k \in Leaves : k # l => callback'[k] = callback[k]
  BY DEF TypeOK
<1>11. EveryFrameFits'
  <2> SUFFICES ASSUME NEW t2 \in Threads, NEW i \in 1 .. Len(stack'[t2])
               PROVE  Fits(stack[t2][i])'
    BY DEF EveryFrameFits
  <2>1. PICK h \in Frames : h = stack'[t2][i] /\ (Kept(th, t2, i) \/ h = g)
    BY <1>3, ElementOfSeq DEF StackOK
  <2>2. CASE Kept(th, t2, i)
    <3>1. Fits(h)
      BY <2>1, <2>2 DEF Kept, Control, EveryFrameFits
    <3>2. h.pc \in {"leafCheck", "wrap", "wrapperOnCompleted"} => h.task \in Leaves
      BY FrameTypes DEF LeafPC
    <3>3. ControlFits(h)'
      <4>1. h.pc \in {"leafCheck", "wrap"} => h.task # l
        BY <3>1 DEF Fits, ControlFits
      <4> QED BY <1>10, <3>1, <3>2, <4>1 DEF Fits, ControlFits, taskVars, bodyVars
    <3>4. AwaitedFits(h)' /\ ClientFits(h)'
      BY <3>1 DEF Fits, AwaitedFits, ClientFits, taskVars, bodyVars
    <3>5. WakeFits(h)'
      BY <1>8, <1>9, <1>10, <3>1, <3>2 DEF Fits, WakeFits, taskVars
    <3> QED BY <2>1, <3>3, <3>4, <3>5 DEF Fits
  <2>3. CASE h = g
    <3>1. continuation[l] => Parked(l, Wrapper)
      BY <1>9 DEF BodyFits, ContinuationFits
    <3>2. WakeFits(h)'
      BY <1>1, <1>8, <1>9, <1>10, <2>3, <3>1 DEF WakeFits
    <3>3. ControlFits(h)' /\ AwaitedFits(h)' /\ ClientFits(h)'
      BY <1>1, <2>3, TreeAssumption, NamesAssumption DEF ControlFits, AwaitedFits, ClientFits
    <3> QED BY <2>1, <3>2, <3>3 DEF Fits
  <2> QED BY <2>1, <2>2, <2>3
<1>12. EveryBodyFits'
  <2> SUFFICES ASSUME NEW d \in Bodies PROVE BodyFits(d)'
    BY DEF EveryBodyFits
  <2>1. BodyFits(d)
    BY DEF Control, EveryBodyFits
  <2>2. StateFits(d)' /\ RunningAreAwaited(d)' /\ ClientStartsRoot(d)'
    BY <2>1 DEF BodyFits, StateFits, RunningAreAwaited, ClientStartsRoot, taskVars, bodyVars
  <2>3. UnawaitedIsUnregistered(d)'
    BY <1>10, <2>1 DEF BodyFits, UnawaitedIsUnregistered, taskVars, bodyVars
  <2>4. ContinuationFits(d)'
    BY <1>8, <1>9, <1>10, <2>1 DEF BodyFits, ContinuationFits, taskVars, bodyVars
  <2>5. WaitingIsRegistered(d)'
    BY <1>7, <2>1 DEF BodyFits, WaitingIsRegistered, taskVars, bodyVars
  <2> QED BY <2>2, <2>3, <2>4, <2>5 DEF BodyFits
<1>13. Undisturbed'
  BY <1>4 DEF Control, Undisturbed, ghostVars
<1> QED BY <1>6, <1>11, <1>12, <1>13 DEF Control

\* The client starts: its body has not run yet.
LEMMA ClientStarts ==
  ASSUME TypeOK, Control, NEW th \in Threads, ClientStart(th)
  PROVE  Control'
<1> USE DEF ControlPC, RunningPC, WaitingPC, EndingPC, StartPC, AwaitPC, AwaitingPC
<1>1. /\ Client \in Bodies /\ Client \notin Tasks /\ Root \in Tasks /\ Awaiter(Root) = Client
      /\ \A t \in Tasks : t \in Bodies /\ Awaiter(t) \in Bodies
      /\ \A l \in Leaves : l \in Tasks /\ l \in Bodies
  BY TreeAssumption, NamesAssumption, AwaiterType DEF Bodies, Awaiter
<1>2. PICK g \in Frames : /\ g = Frame("body", Client, None)
                          /\ g.pc = "body" /\ g.task = Client
  <2>1. Frame("body", Client, None) \in Frames
    BY <1>1, NewFrame
  <2> QED BY <2>1 DEF Frame
<1>3. /\ StackOK /\ Enter(th, g, "client")
      /\ body[Client] = "fresh" /\ body' = [body EXCEPT ![Client] = "running"]
      /\ UNCHANGED <<taskVars, todo, wrapperVars, raised, ghostVars>>
  BY <1>2 DEF TypeOK, StackOK, ClientStart, Enter
<1>4. /\ StackOK'
      /\ \A t2 \in Threads : \A i \in 1 .. Len(stack'[t2]) :
           Kept(th, t2, i) \/ (t2 = th /\ i = 1 /\ stack'[t2][i] = g)
  BY <1>3, EnterStack
<1>5. /\ \A t2 \in Threads : \A i \in 1 .. Len(stack[t2]) :
           i \in 1 .. Len(stack'[t2]) /\ stack'[t2][i] = stack[t2][i]
  BY <1>3, EnterTop
<1>6. BodyFits(Client)
  BY <1>1 DEF Control, EveryBodyFits
<1>7. \A t2 \in Threads : \A i \in 1 .. Len(stack[t2]) :
        stack[t2][i].pc \in ControlPC => stack[t2][i].task # Client
  <2> SUFFICES ASSUME NEW t2 \in Threads, NEW i \in 1 .. Len(stack[t2]),
                      stack[t2][i].pc \in ControlPC, stack[t2][i].task = Client
               PROVE  FALSE
    OBVIOUS
  <2>1. ControlFits(stack[t2][i])
    BY DEF Control, EveryFrameFits, Fits
  <2> QED BY <1>3, <2>1 DEF ControlFits
<1>8. SoleControl'
  <2>1. \A t2 \in Threads : \A i \in 1 .. Len(stack[t2]) : ~Rivals(stack[t2][i], g)
    BY <1>2, <1>7 DEF Rivals
  <2>2. OneNewFrame(th, 1, g)
    BY <1>4, <2>1 DEF OneNewFrame
  <2> QED BY <1>3, <1>4, <2>2, SoleStep DEF Control
<1>9. ASSUME NEW d \in Bodies, d # Client PROVE FreeOfControl(d)' <=> FreeOfControl(d)
  <2>1. ASSUME FreeOfControl(d) PROVE FreeOfControl(d)'
    BY <1>2, <1>4, <1>9, <2>1 DEF FreeOfControl, Kept
  <2>2. ASSUME FreeOfControl(d)' PROVE FreeOfControl(d)
    BY <1>5, <2>2 DEF FreeOfControl
  <2> QED BY <2>1, <2>2
<1>10. body'[Client] = "running" /\ \A d \in Bodies : d # Client => body'[d] = body[d]
  BY <1>1, <1>3 DEF TypeOK
<1>11. ASSUME NEW d \in Bodies, NEW v, Parked(d, v) PROVE Parked(d, v)'
  BY <1>3, <1>9, <1>10, <1>11 DEF Parked, taskVars
<1>12. EveryFrameFits'
  <2> SUFFICES ASSUME NEW t2 \in Threads, NEW i \in 1 .. Len(stack'[t2])
               PROVE  Fits(stack[t2][i])'
    BY DEF EveryFrameFits
  <2>1. PICK h \in Frames : h = stack'[t2][i] /\ (Kept(th, t2, i) \/ h = g)
    BY <1>4, ElementOfSeq DEF StackOK
  <2>2. CASE Kept(th, t2, i)
    <3>1. Fits(h) /\ (h.pc \in ControlPC => h.task # Client) /\ h.task \in Bodies
      BY <1>7, <2>1, <2>2, FrameTypes DEF Kept, Control, EveryFrameFits
    <3>2. ControlFits(h)'
      <4>1. h.pc \in AwaitingPC /\ h.arg \in Tasks => body'[h.arg] = body[h.arg]
        BY <1>1, <1>10
      <4> QED BY <1>3, <1>10, <3>1, <4>1 DEF Fits, ControlFits, taskVars, wrapperVars
    <3>3. AwaitedFits(h)' /\ ClientFits(h)'
      BY <1>3, <3>1 DEF Fits, AwaitedFits, ClientFits, taskVars
    <3>4. WakeFits(h)'
      <4>1. h.pc = "wrapperOnCompleted" => h.task \in Leaves
        BY FrameTypes DEF LeafPC
      <4> QED BY <1>1, <1>3, <1>11, <3>1, <4>1 DEF Fits, WakeFits, taskVars, wrapperVars
    <3> QED BY <2>1, <3>2, <3>3, <3>4 DEF Fits
  <2>3. CASE h = g
    <3>1. ControlFits(h)' /\ ClientFits(h)' /\ WakeFits(h)'
      BY <1>1, <1>2, <1>3, <1>6, <1>10, <2>3 DEF ControlFits, ClientFits, WakeFits, BodyFits, ClientStartsRoot
    <3>2. AwaitedFits(h)'
      BY <1>2, <1>3, <1>6, <2>3 DEF AwaitedFits, BodyFits, RunningAreAwaited, taskVars
    <3> QED BY <2>1, <3>1, <3>2 DEF Fits
  <2> QED BY <2>1, <2>2, <2>3
<1>13. EveryBodyFits'
  <2> SUFFICES ASSUME NEW d \in Bodies PROVE BodyFits(d)'
    BY DEF EveryBodyFits
  <2>1. BodyFits(d)
    BY DEF Control, EveryBodyFits
  <2>2. StateFits(d)' /\ RunningAreAwaited(d)' /\ ClientStartsRoot(d)'
    BY <1>1, <1>3, <1>10, <2>1 DEF BodyFits, StateFits, RunningAreAwaited, ClientStartsRoot, taskVars
  <2>3. UnawaitedIsUnregistered(d)'
    BY <1>3, <2>1 DEF BodyFits, UnawaitedIsUnregistered, taskVars, wrapperVars
  <2>4. ContinuationFits(d)'
    BY <1>1, <1>3, <1>10, <1>11, <2>1 DEF BodyFits, ContinuationFits, taskVars, wrapperVars
  <2>5. WaitingIsRegistered(d)'
    BY <1>3, <1>9, <1>10, <2>1 DEF BodyFits, WaitingIsRegistered, taskVars, wrapperVars
  <2> QED BY <2>2, <2>3, <2>4, <2>5 DEF BodyFits
<1>14. Undisturbed'
  BY <1>3 DEF Control, Undisturbed, wrapperVars, ghostVars
<1> QED BY <1>8, <1>12, <1>13, <1>14 DEF Control

\* Calling g leaves f below it.
LEMMA CallTop ==
  ASSUME StackOK, NEW th \in Threads, stack[th] # <<>>,
         NEW f \in Frames, NEW g \in Frames, Call(th, f, g)
  PROVE  /\ Len(stack[th]) \in 1 .. Len(stack'[th])
         /\ Len(stack[th]) + 1 \in 1 .. Len(stack'[th])
         /\ stack'[th][Len(stack[th])] = f
         /\ stack'[th][Len(stack[th]) + 1] = g
<1> DEFINE s == stack[th]
           b == SubSeq(s, 1, Len(s) - 1)
           c == Append(b, f)
<1>1. s \in Seq(Frames) /\ s # <<>>
  BY DEF StackOK
<1>2. Len(s) \in Nat \ {0} /\ b \in Seq(Frames) /\ Len(b) = Len(s) - 1
  <2> HIDE DEF s
  <2> QED BY <1>1, BelowSeq
<1>3. c \in Seq(Frames) /\ Len(c) = Len(b) + 1 /\ c[Len(b) + 1] = f
  <2> HIDE DEF b
  <2> QED BY <1>2, AppendProperties
<1>4. stack'[th] = Append(c, g)
  BY DEF Call, Below, StackOK
<1> HIDE DEF b, c
<1>5. /\ Len(Append(c, g)) = Len(c) + 1 /\ Append(c, g)[Len(c) + 1] = g
      /\ \A i \in 1 .. Len(c) : Append(c, g)[i] = c[i]
  BY <1>3, AppendProperties
<1>6. Len(c) = Len(s) /\ Len(c) \in 1 .. Len(c) /\ c[Len(s)] = f
  BY <1>2, <1>3
<1> QED BY <1>2, <1>4, <1>5, <1>6

\* A body that is free gets a frame of its own above the running one.
LEMMA CallControl ==
  ASSUME StackOK, SoleControl, NEW th \in Threads, stack[th] # <<>>,
         Top(th).pc \in ControlPC, NEW b, b = Top(th).task,
         NEW f \in Frames, NEW g \in Frames, Call(th, f, g),
         f.task = b, f.pc \in ControlPC,
         NEW u, g.task = u, g.pc \in ControlPC, u # b, FreeOfControl(u)
  PROVE  /\ SoleControl'
         /\ \A c \in Bodies : c # u => (FreeOfControl(c)' <=> FreeOfControl(c))
<1> DEFINE n == Len(stack[th])
<1>1. /\ StackOK'
      /\ \A t2 \in Threads : \A i \in 1 .. Len(stack'[t2]) :
           \/ Kept(th, t2, i)
           \/ t2 = th /\ i = n /\ stack'[t2][i] = f
           \/ t2 = th /\ i = n + 1 /\ stack'[t2][i] = g
  BY CallStack
<1>2. /\ n \in 1 .. n /\ n \in 1 .. Len(stack'[th]) /\ stack'[th][n] = f
      /\ Top(th) = stack[th][n]
  BY CallTop, TopFrame DEF Top
<1>3. FramesBelowStay(th)
  BY BelowStays
<1> HIDE DEF n
<1>4. \A t2 \in Threads : \A i \in 1 .. Len(stack[t2]) :
        (t2 = th => i < Len(stack[th])) => Kept(th, t2, i)
  BY <1>3 DEF FramesBelowStay, Kept
<1>5. ASSUME NEW t2 \in Threads, NEW i, Kept(th, t2, i)
      PROVE  ~Rivals(stack'[t2][i], f) /\ ~Rivals(stack'[t2][i], g)
  <2>1. ~Rivals(stack[t2][i], Top(th)) /\ i \in 1 .. Len(stack[t2]) /\ stack'[t2][i] = stack[t2][i]
    BY <1>5, TopIsSole DEF Kept
  <2> QED BY <2>1 DEF Rivals, FreeOfControl
<1>6. SoleControl'
  <2> SUFFICES ASSUME NEW t1 \in Threads, NEW t2 \in Threads,
                      NEW i \in 1 .. Len(stack'[t1]), NEW j \in 1 .. Len(stack'[t2]),
                      Rivals(stack'[t1][i], stack'[t2][j])
               PROVE  t1 = t2 /\ i = j
    BY DEF SoleControl, Rivals
  <2>1. CASE Kept(th, t1, i) /\ Kept(th, t2, j)
    BY <2>1 DEF Kept, SoleControl
  <2>2. CASE Kept(th, t1, i) /\ ~Kept(th, t2, j)
    BY <1>1, <1>5, <2>2
  <2>3. CASE ~Kept(th, t1, i) /\ Kept(th, t2, j)
    <3>1. Rivals(stack'[t2][j], stack'[t1][i])
      BY DEF Rivals
    <3> QED BY <1>1, <1>5, <2>3, <3>1
  <2>4. CASE ~Kept(th, t1, i) /\ ~Kept(th, t2, j)
    <3>1. ~Rivals(f, g) /\ ~Rivals(g, f)
      BY DEF Rivals
    <3> QED BY <1>1, <2>4, <3>1
  <2> QED BY <2>1, <2>2, <2>3, <2>4
<1>7. ASSUME NEW c \in Bodies, c # u, FreeOfControl(c) PROVE FreeOfControl(c)'
  <2>1. c # b
    BY <1>7, TopControls
  <2> QED BY <1>1, <1>7, <2>1 DEF FreeOfControl, Kept
<1>8. ASSUME NEW c \in Bodies, c # u, FreeOfControl(c)' PROVE FreeOfControl(c)
  <2> SUFFICES ASSUME NEW t2 \in Threads, NEW i \in 1 .. Len(stack[t2]),
                      stack[t2][i].pc \in ControlPC
               PROVE  stack[t2][i].task # c
    BY DEF FreeOfControl
  <2>1. CASE t2 = th /\ i = n
    <3>1. f.task # c
      BY <1>2, <1>8 DEF FreeOfControl
    <3> QED BY <2>1, <3>1, <1>2
  <2>2. CASE ~(t2 = th /\ i = n)
    <3>1. t2 = th => i < Len(stack[th])
      BY <2>2, <1>2 DEF n
    <3>2. i \in 1 .. Len(stack'[t2]) /\ stack'[t2][i] = stack[t2][i]
      BY <3>1, <1>3 DEF FramesBelowStay
    <3> QED BY <3>2, <1>8 DEF FreeOfControl
  <2> QED BY <2>1, <2>2
<1> QED BY <1>6, <1>7, <1>8

\* State = Running and the first MoveNext of a task.
LEMMA RunTaskStep ==
  ASSUME TypeOK, MachineInv, Control, NEW th \in Threads, RunTask(th)
  PROVE  Control'
<1> USE DEF ControlPC, RunningPC, WaitingPC, EndingPC, StartPC, AwaitPC, AwaitingPC
<1>1. stack[th] # <<>> /\ Top(th).pc = "runTask"
  BY DEF RunTask, At
<1>2. PICK b \in Bodies, u \in Tasks :
         /\ b = Top(th).task /\ u = Top(th).arg /\ u \in Awaitable(b)
         /\ Fits(Top(th)) /\ BodyFits(b) /\ body[u] = "fresh" /\ u \notin todo[Awaiter(u)]
  BY <1>1, TopFits, FrameTypes, RunningFrame DEF FrameFits, Top
<1>3. Awaiter(u) = b /\ b # u /\ u \in Bodies /\ u # Client
  BY <1>2, AwaitableTypes, TreeAssumption, NamesAssumption DEF Awaiter, Bodies
<1>4. PICK f \in Frames, g \in Frames :
         /\ Call(th, f, g)
         /\ f = Frame("isCompleted", b, u) /\ g = Frame("body", u, None)
  BY <1>2, <1>3, NewFrame DEF RunTask
<1>5. /\ f.pc = "isCompleted" /\ f.task = b /\ f.arg = u
      /\ g.pc = "body" /\ g.task = u
  BY <1>4 DEF Frame
<1>6. /\ state' = [state EXCEPT ![u] = "Running"]
      /\ body' = [body EXCEPT ![u] = "running"]
      /\ UNCHANGED <<stateMachine, onCompleted, awaitingTask, todo, wrapperVars, raised, ghostVars>>
  BY <1>2 DEF RunTask
<1>7. /\ state'[u] = "Running" /\ \A t \in Tasks : t # u => state'[t] = state[t]
      /\ body'[u] = "running" /\ \A c \in Bodies : c # u => body'[c] = body[c]
  BY <1>3, <1>6 DEF TypeOK
<1>8. /\ \A t \in Tasks : t \in Bodies /\ Awaiter(t) \in Bodies /\ Awaiter(t) # t
      /\ \A l \in Leaves : l \in Tasks /\ l \in Bodies
      /\ Root \in Tasks /\ Client \notin Tasks
      /\ Awaiter(u) = Client => u = Root
  BY TreeAssumption, NamesAssumption, AwaiterType DEF Bodies, Awaiter
<1>9. /\ StackOK /\ StackOK'
      /\ \A t2 \in Threads : \A i \in 1 .. Len(stack'[t2]) :
           Kept(th, t2, i) \/ stack'[t2][i] = f \/ stack'[t2][i] = g
  BY <1>1, <1>4, CallStack DEF TypeOK, StackOK
<1>10. FreeOfControl(u)
  <2> SUFFICES ASSUME NEW t2 \in Threads, NEW i \in 1 .. Len(stack[t2]),
                      stack[t2][i].pc \in ControlPC, stack[t2][i].task = u
               PROVE  FALSE
    BY DEF FreeOfControl
  <2>1. ControlFits(stack[t2][i])
    BY DEF Control, EveryFrameFits, Fits
  <2> QED BY <1>2, <2>1 DEF ControlFits
<1>11. SoleControl' /\ \A c \in Bodies : c # u => (FreeOfControl(c)' <=> FreeOfControl(c))
  BY <1>1, <1>2, <1>3, <1>4, <1>5, <1>9, <1>10, CallControl DEF Control
<1>12. ~FreeOfControl(b)
  BY <1>1, <1>2, <1>9, TopControls
<1>13. ASSUME NEW d \in Bodies, NEW v, Parked(d, v) PROVE Parked(d, v)'
  BY <1>2, <1>6, <1>7, <1>11, <1>13 DEF Parked
<1>14. BodyFits(u)
  BY <1>3 DEF Control, EveryBodyFits
<1>15. EveryFrameFits'
  <2> SUFFICES ASSUME NEW t2 \in Threads, NEW i \in 1 .. Len(stack'[t2])
               PROVE  Fits(stack[t2][i])'
    BY DEF EveryFrameFits
  <2>1. PICK h \in Frames : h = stack'[t2][i] /\ (Kept(th, t2, i) \/ h = f \/ h = g)
    BY <1>9, ElementOfSeq DEF StackOK
  <2>2. CASE Kept(th, t2, i)
    <3>1. /\ Fits(h) /\ h.task \in Bodies
          /\ h.pc \in ControlPC => h.task # b /\ h.task # u
      <4>1. /\ i \in 1 .. Len(stack[t2]) /\ h = stack[t2][i]
            /\ ~Rivals(h, Top(th))
        BY <1>1, <1>9, <2>1, <2>2, TopIsSole DEF Kept, Control
      <4>2. h.pc \in ControlPC => h.task # u
        BY <1>10, <4>1 DEF FreeOfControl
      <4> QED BY <1>1, <1>2, <4>1, <4>2, FrameTypes DEF Control, EveryFrameFits, Rivals
    <3>2. /\ h.pc \in {"publish", "clear", "notify"} => h.task \in Tasks
          /\ h.pc \in {"leafCheck", "wrap", "wrapperTake", "wrapperOnCompleted"} => h.task \in Leaves
      BY FrameTypes DEF TaskPC, LeafPC
    <3>3. ControlFits(h)'
      <4>1. h.pc \in AwaitingPC /\ h.arg \in Tasks /\ body[h.arg] # "fresh" => body'[h.arg] # "fresh"
        BY <1>7, <1>8
      <4>2. h.pc \in ControlPC => body'[h.task] = body[h.task] /\ (h.task \in Tasks => state'[h.task] = state[h.task])
        BY <1>7, <3>1
      <4> QED BY <1>6, <3>1, <3>2, <4>1, <4>2 DEF Fits, ControlFits, wrapperVars
    <3>4. AwaitedFits(h)' /\ ClientFits(h)'
      BY <1>3, <1>6, <1>7, <1>8, <3>1 DEF Fits, AwaitedFits, ClientFits
    <3>5. WakeFits(h)'
      BY <1>6, <1>8, <1>13, <3>1, <3>2 DEF Fits, WakeFits, wrapperVars
    <3> QED BY <2>1, <3>3, <3>4, <3>5 DEF Fits
  <2>3. CASE h = f
    <3>1. ControlFits(h)'
      BY <1>1, <1>2, <1>3, <1>5, <1>6, <1>7, <2>3 DEF Fits, ControlFits
    <3>2. AwaitedFits(h)' /\ ClientFits(h)'
      BY <1>1, <1>2, <1>3, <1>5, <1>7, <1>8, <2>3 DEF Fits, AwaitedFits, ClientFits
    <3>3. WakeFits(h)'
      BY <1>1, <1>2, <1>5, <1>6, <1>8, <1>13, <2>3 DEF Fits, WakeFits
    <3> QED BY <2>1, <3>1, <3>2, <3>3 DEF Fits
  <2>4. CASE h = g
    <3>1. ControlFits(h)' /\ ClientFits(h)'
      BY <1>3, <1>5, <1>7, <2>4 DEF ControlFits, ClientFits
    <3>2. AwaitedFits(h)'
      BY <1>2, <1>5, <1>7, <1>8, <1>14, <2>4 DEF AwaitedFits, BodyFits, RunningAreAwaited
    <3>3. WakeFits(h)'
      BY <1>1, <1>2, <1>5, <1>6, <2>4 DEF Fits, ControlFits, WakeFits
    <3> QED BY <2>1, <3>1, <3>2, <3>3 DEF Fits
  <2> QED BY <2>1, <2>2, <2>3, <2>4
<1>16. EveryBodyFits'
  <2> SUFFICES ASSUME NEW d \in Bodies PROVE BodyFits(d)'
    BY DEF EveryBodyFits
  <2>1. BodyFits(d)
    BY DEF Control, EveryBodyFits
  <2>2. body[b] = "running"
    BY <1>1, <1>2 DEF Fits, ControlFits
  <2>3. StateFits(d)'
    BY <1>6, <1>7, <1>8, <2>1 DEF BodyFits, StateFits
  <2>4. RunningAreAwaited(d)'
    BY <1>2, <1>3, <1>6, <1>7, <1>8, <2>1, <2>2 DEF BodyFits, RunningAreAwaited
  <2>5. UnawaitedIsUnregistered(d)' /\ ClientStartsRoot(d)'
    BY <1>3, <1>6, <1>7, <1>8, <2>1 DEF BodyFits, UnawaitedIsUnregistered, ClientStartsRoot, wrapperVars
  <2>6. ContinuationFits(d)'
    <3>1. ~onCompleted[u]
      BY <1>1, <1>2 DEF Fits, ControlFits
    <3>2. ASSUME d \in Tasks, onCompleted'[d], body'[d] # "ended" PROVE Parked(Awaiter(d), d)'
      BY <1>6, <1>7, <1>8, <1>13, <2>1, <3>1, <3>2 DEF BodyFits, ContinuationFits
    <3>3. ASSUME d \in Leaves, continuation'[d], callback'[d] # "fired" PROVE Parked(d, Wrapper)'
      BY <1>6, <1>13, <2>1, <3>3 DEF BodyFits, ContinuationFits, wrapperVars
    <3> QED BY <3>2, <3>3 DEF ContinuationFits
  <2>7. WaitingIsRegistered(d)'
    BY <1>6, <1>7, <1>11, <2>1 DEF BodyFits, WaitingIsRegistered, wrapperVars
  <2> QED BY <2>3, <2>4, <2>5, <2>6, <2>7 DEF BodyFits
<1>17. Undisturbed'
  BY <1>6 DEF Control, Undisturbed, wrapperVars, ghostVars
<1> QED BY <1>11, <1>15, <1>16, <1>17 DEF Control
-----------------------------------------------------------------------------
(***************************************************************************)
(* The invariant.                                                          *)
(***************************************************************************)

\* Nobody is cancelling and nothing unwinds.
LEMMA NothingUnwinds ==
  ASSUME TypeOK, Control, NEW th \in Threads
  PROVE  /\ ~Cancel(th) /\ ~CancelNeedsMachine(th) /\ ~CancelSetsState(th)
         /\ ~CancelInner(th) /\ ~CancelChecks(th) /\ ~WrapperCancel(th)
         /\ ~UnwindToBody(th) /\ ~UnwindThrough(th) /\ ~UnwindOut(th)
         /\ RunCallOnCompleted(th) => At(th, "notify")
<1>1. stack[th] # <<>> => Top(th).pc \in ControlPC \cup {"wrapperOnCompleted"}
  BY TopFits DEF Fits, ControlFits
<1>2. ~raised[th]
  BY DEF Control, Undisturbed
<1> QED BY <1>1, <1>2 DEF Cancel, CancelNeedsMachine, CancelSetsState, CancelInner,
       CancelChecks, WrapperCancel, UnwindToBody, UnwindThrough, UnwindOut, Unwinding,
       RunCallOnCompleted, At, ControlPC, RunningPC, WaitingPC, EndingPC, StartPC

LEMMA ControlUnchanged ==
  ASSUME Control,
         UNCHANGED <<state, onCompleted, awaitingTask, body, todo, callback, cts,
                     continuation, stack, raised, escaped, reentered>>
  PROVE  Control'
<1>1. \A c : FreeOfControl(c)' <=> FreeOfControl(c)
  BY DEF FreeOfControl
<1>2. \A c, v : Parked(c, v)' <=> Parked(c, v)
  BY <1>1 DEF Parked
<1>3. SoleControl' /\ Undisturbed'
  BY DEF Control, SoleControl, Undisturbed
<1>4. ASSUME NEW f, Fits(f) PROVE Fits(f)'
  BY <1>2, <1>4 DEF Fits, ControlFits, AwaitedFits, ClientFits, WakeFits
<1>5. EveryFrameFits'
  <2> SUFFICES ASSUME NEW th \in Threads, NEW i \in 1 .. Len(stack[th])
               PROVE  Fits(stack[th][i])'
    BY DEF EveryFrameFits
  <2>1. PICK f : f = stack[th][i] /\ Fits(f)
    BY DEF Control, EveryFrameFits
  <2> QED BY <1>4, <2>1
<1>6. EveryBodyFits'
  BY <1>1, <1>2 DEF Control, EveryBodyFits, BodyFits, StateFits, RunningAreAwaited,
     ContinuationFits, WaitingIsRegistered, UnawaitedIsUnregistered, ClientStartsRoot
<1> QED BY <1>3, <1>5, <1>6 DEF Control

LEMMA EntrySteps ==
  ASSUME TypeOK, Control, NEW th \in Threads, External(th) \/ ClientStart(th)
  PROVE  Control'
<1>1. ASSUME NEW l \in Leaves, UnderlyingCompletes(th, l) PROVE Control'
  <2>1. CASE callback[l] = "registered"
    BY <1>1, <2>1, CallbackRuns DEF UnderlyingCompletes
  <2>2. CASE callback[l] # "registered"
    BY <1>1, <2>2, ControlUnchanged DEF UnderlyingCompletes, taskVars, bodyVars, ghostVars
  <2> QED BY <2>1, <2>2
<1>2. ASSUME NEW l \in Leaves, RunQueuedCallback(th, l) PROVE Control'
  BY <1>2, CallbackRuns DEF RunQueuedCallback
<1> QED BY <1>1, <1>2, ClientStarts DEF External

LEMMA ControlInit == Init => ControlInv
<1> SUFFICES ASSUME Init PROVE Control
  BY DEF ControlInv
<1>1. \A th \in Threads : 1 .. Len(stack[th]) = {}
  BY EmptySeq DEF Init
<1>2. /\ \A t \in Tasks : t \in Bodies
      /\ \A l \in Leaves : l \in Tasks
      /\ Root \in Awaitable(Client) /\ Client \in Bodies
  BY TreeAssumption, NamesAssumption DEF Bodies, Awaitable, Awaiter
<1>3. SoleControl /\ EveryFrameFits
  BY <1>1 DEF SoleControl, EveryFrameFits
<1>4. EveryBodyFits
  BY <1>2 DEF Init, EveryBodyFits, BodyFits, StateFits, RunningAreAwaited,
     ContinuationFits, WaitingIsRegistered, UnawaitedIsUnregistered, ClientStartsRoot
<1>5. Undisturbed
  BY DEF Init, Undisturbed
<1> QED BY <1>3, <1>4, <1>5 DEF Control

LEMMA ControlStep == TypeOK /\ MachineInv /\ ControlInv /\ [Next]_vars => ControlInv'
<1> SUFFICES ASSUME TypeOK, MachineInv, ControlInv, [Next]_vars, cancelCalls' = {}
             PROVE  Control'
  BY DEF ControlInv
<1>1. CASE UNCHANGED vars
  <2>1. UNCHANGED <<state, onCompleted, awaitingTask, body, todo, callback, cts,
                    continuation, stack, raised, escaped, reentered, cancelCalls>>
    BY <1>1 DEF vars, taskVars, bodyVars, wrapperVars, ghostVars
  <2> QED BY <2>1, ControlUnchanged DEF ControlInv
<1>2. ASSUME NEW th \in Threads, Step(th) PROVE Control'
  <2>1. UNCHANGED cancelCalls
    BY <1>2 DEF Step, BodyAwaits, BodyReturns, BodyThrows, LeafCallsAction, LeafChecks,
       WrapperCreated, GetAwaiter, StartTask, RunTask, IsCompleted, AwaitOnCompleted,
       Register, Resume, GetResult, ClientEnds, SetResult, SetException, Publish,
       ClearStateMachine, RunCallOnCompleted, Cancel, CancelNeedsMachine,
       CancelSetsState, CancelInner, CancelChecks, WrapperCancel, WrapperOnCompleted,
       WrapperTakes, UnwindToBody, UnwindThrough, UnwindOut, ghostVars
  <2>2. Control
    BY <2>1 DEF ControlInv
  <2>3. \/ BodyAwaits(th) \/ BodyReturns(th) \/ BodyThrows(th)
        \/ LeafCallsAction(th) \/ LeafChecks(th)
        \/ GetAwaiter(th) \/ StartTask(th) \/ IsCompleted(th) \/ GetResult(th)
        => Control'
    BY <2>2, SilentSteps
  <2>4. \/ WrapperCreated(th) \/ AwaitOnCompleted(th) \/ Register(th)
        \/ Resume(th) \/ ClientEnds(th)
        \/ SetResult(th) \/ SetException(th) \/ Publish(th)
        \/ ClearStateMachine(th)
        \/ RunCallOnCompleted(th) /\ ~onCompleted[Top(th).task]
        => Control'
    BY <2>2, OwnSteps
  <2>5. \/ RunCallOnCompleted(th) /\ onCompleted[Top(th).task]
        \/ WrapperOnCompleted(th)
        => Control'
    BY <2>2, WakeSteps
  <2>6. RunTask(th) \/ WrapperTakes(th) => Control'
    BY <2>2, RunTaskStep, WrapperTakesStep
  <2> QED BY <1>2, <2>2, <2>3, <2>4, <2>5, <2>6, NothingUnwinds DEF Step
<1>3. ASSUME NEW th \in Threads, External(th) \/ ClientStart(th) PROVE Control'
  <2>1. UNCHANGED cancelCalls
    BY <1>3 DEF External, UnderlyingCompletes, RunQueuedCallback, ClientStart, ghostVars
  <2> QED BY <1>3, <2>1, EntrySteps DEF ControlInv
<1>4. ASSUME NEW th \in Threads, NEW t \in Cancellable, ClientCancel(th, t) PROVE FALSE
  BY <1>4 DEF ClientCancel
<1> QED BY <1>1, <1>2, <1>3, <1>4 DEF Next

\* Until Cancel is called, control of every body is in one place: of its
\* callers, its own frames and the continuation it registered, one.
THEOREM ControlIsHandedOn == Spec => []ControlInv
BY TypeInit, TypeStep, MachineInit, MachineStep, ControlInit, ControlStep, PTL DEF Spec
=============================================================================
