--------------------------- MODULE CrateWalk_proofs ---------------------------
(***************************************************************************)
(* WalkInv is an invariant of the walk over any crate.  The proof has      *)
(* three parts: how a step moves the jobs on the stack (Moves) and         *)
(* lengthens the declarations (Grows); that any step which takes one job,  *)
(* adds jobs for what is found through its item (Children) and declares    *)
(* this item at most (Declared) keeps Walk (WalkStep); and that each       *)
(* action of the walk is such a step (WalkNext).  Shape adds to Walk that  *)
(* the stack and the declarations are sequences.  The same steps keep the  *)
(* order of constants and statics (Ordered).                               *)
(***************************************************************************)
EXTENDS CrateWalk, CrateEmission_proofs, TLAPS

--------------------------------------------------------------------------------
(* What is what: jobs, the stack, the declarations. *)

Dos == ItemJobs \cup PartJobs \cup {"slot", "blank", "wrap", "wrappers", "operators"}
Places == {"normal", "free", "default", "statics"}
AllJobs == [do : Dos, i : Nat, place : Places, impls : Seq(Nat), impl : Nat, n : Nat]
Frames(X) == [class : Seq(X), todo : Seq(AllJobs), blank : BOOLEAN]

Shape ==
  /\ crate \in Crates
  /\ stack # <<>> /\ \E X : stack \in Seq(Frames(X))
  /\ \E D : decls \in Seq(D)

LEMMA CrateFacts ==
  ASSUME crate \in Crates
  PROVE  /\ Len(crate) \in Nat /\ Items(crate) = 1 .. Len(crate) /\ IsList(crate)
         /\ \A i \in Items(crate) :
              /\ crate[i].in \in Nat /\ crate[i].in < i
              /\ crate[i].to \in Nat /\ (crate[i].to # 0 => IsAdt(crate, crate[i].to) /\ crate[i].to \in Items(crate))
              /\ crate[i].of \in Nat /\ (crate[i].of # 0 => crate[crate[i].of].k = "trait" /\ crate[i].of \in Items(crate))
              /\ IsList(crate[i].fields) /\ IsList(crate[i].variants)
              /\ \A n \in DOMAIN crate[i].variants : IsList(crate[i].variants[n].fields)
BY CratesAssumption DEF IsList, Items

LEMMA BodyFacts == ASSUME crate \in Crates PROVE \A i \in Items(crate) : DefersItsOwn(crate, i)
BY CratesAssumption

LEMMA DeferredKinds ==
  ASSUME crate \in Crates, NEW owner, NEW i \in Deferred(crate, owner)
  PROVE  owner \in Items(crate) /\ crate[i].k \in ItemInBody /\ BodyOwner(crate, i) = owner
<1>1. PICK none : none = <<>> /\ DOMAIN none = {}
  OBVIOUS
<1>2. PICK n : n \in DOMAIN DeferredList(crate, owner) /\ DeferredList(crate, owner)[n] = i
  BY DeferredAreItems, CrateFacts, BodyFacts DEF Has
<1>3. owner \in Items(crate)
  BY <1>1, <1>2 DEF DeferredList
<1>4. DeferredList(crate, owner) = crate[owner].deferred
  BY <1>3 DEF DeferredList
<1> QED BY <1>2, <1>3, <1>4, BodyFacts DEF DefersItsOwn

\* Where the job at n of the class at k stood before, if n + d is its place in the top class.
Was(k, n, d) == IF k = Len(stack) THEN n + d ELSE n

\* h is the next job.
IsNext(h) ==
  /\ Len(stack) \in DOMAIN stack /\ 1 \in DOMAIN stack[Len(stack)].todo
  /\ stack[Len(stack)].todo[1] = h /\ h \in AllJobs

\* The jobs of the next state are more, in the class cls, and all but the next
\* of this state.
Moves(more, cls) ==
     \E K \in Nat, d \in Int :
       \A k \in DOMAIN stack' : \A n \in DOMAIN stack'[k].todo :
         /\ k \in Nat /\ n \in Nat
         /\ \/ /\ k = K /\ n \in DOMAIN more
               /\ stack'[k].todo[n] = more[n] /\ stack'[k].class = cls
            \/ /\ k \in DOMAIN stack /\ Was(k, n, d) \in DOMAIN stack[k].todo
               /\ k = Len(stack) => Was(k, n, d) # 1
               /\ stack'[k].todo[n] = stack[k].todo[Was(k, n, d)]
               /\ stack'[k].class = stack[k].class

\* No job is lost but the next one.
Keeps(more) ==
  /\ \A m \in DOMAIN more :
       \E k \in DOMAIN stack' : \E n \in DOMAIN stack'[k].todo : stack'[k].todo[n] = more[m]
  /\ \A k \in DOMAIN stack : \A n \in DOMAIN stack[k].todo :
       (k = Len(stack) => n # 1) =>
         \E k2 \in DOMAIN stack' : \E n2 \in DOMAIN stack'[k2].todo :
           stack'[k2].todo[n2] = stack[k].todo[n]

LEMMA StackFacts ==
  ASSUME NEW X, stack \in Seq(Frames(X)), stack # <<>>, Top.todo # <<>>
  PROVE  /\ Len(stack) \in Nat /\ Len(stack) # 0 /\ DOMAIN stack = 1 .. Len(stack)
         /\ \A k \in DOMAIN stack :
              /\ stack[k] \in Frames(X) /\ stack[k].todo \in Seq(AllJobs)
              /\ Len(stack[k].todo) \in Nat /\ DOMAIN stack[k].todo = 1 .. Len(stack[k].todo)
         /\ Len(Top.todo) >= 1 /\ Top.todo[1] = ThisJob /\ ThisJob \in AllJobs /\ Here \in Seq(X)
         /\ Tail(Top.todo) \in Seq(AllJobs) /\ Len(Tail(Top.todo)) = Len(Top.todo) - 1
         /\ \A n \in 1 .. Len(Tail(Top.todo)) : Tail(Top.todo)[n] = Top.todo[n + 1]
<1>1. /\ Len(stack) \in Nat /\ Len(stack) # 0 /\ DOMAIN stack = 1 .. Len(stack)
      /\ \A k \in DOMAIN stack : stack[k] \in Frames(X)
  <2> HIDE DEF Frames
  <2> QED OBVIOUS
<1>2. \A k \in DOMAIN stack :
        /\ stack[k].todo \in Seq(AllJobs) /\ stack[k].class \in Seq(X)
  BY <1>1 DEF Frames
<1>3. PICK t \in Seq(AllJobs) : t = Top.todo /\ t # <<>>
  BY <1>1, <1>2 DEF Top
<1>4. /\ Len(t) >= 1 /\ t[1] = Head(t) /\ t[1] \in AllJobs
      /\ Tail(t) \in Seq(AllJobs) /\ Len(Tail(t)) = Len(t) - 1
      /\ \A n \in 1 .. Len(Tail(t)) : Tail(t)[n] = t[n + 1]
  <2> HIDE DEF AllJobs
  <2> QED BY <1>3
<1>5. \A s \in Seq(AllJobs) : Len(s) \in Nat /\ DOMAIN s = 1 .. Len(s)
  OBVIOUS
<1> QED BY <1>1, <1>2, <1>3, <1>4, <1>5 DEF Top, ThisJob, Here

LEMMA ConcatFacts ==
  ASSUME NEW A, NEW s \in Seq(A), NEW t \in Seq(A), NEW u, u = s \o t
  PROVE  /\ u \in Seq(A) /\ Len(s) \in Nat /\ Len(t) \in Nat
         /\ DOMAIN s = 1 .. Len(s) /\ DOMAIN t = 1 .. Len(t)
         /\ DOMAIN u = 1 .. Len(s) + Len(t)
         /\ \A n \in DOMAIN s : u[n] = s[n]
         /\ \A n \in DOMAIN u : n \notin DOMAIN s => n - Len(s) \in DOMAIN t /\ u[n] = t[n - Len(s)]
OBVIOUS

LEMMA FrameTodo ==
  ASSUME NEW X, NEW f \in Frames(X), NEW todo \in Seq(AllJobs)
  PROVE  /\ [f EXCEPT !.todo = todo] \in Frames(X)
         /\ [f EXCEPT !.todo = todo].todo = todo /\ [f EXCEPT !.todo = todo].class = f.class
BY DEF Frames

LEMMA ContinueSpawns ==
  ASSUME Shape, Top.todo # <<>>, NEW more \in Seq(AllJobs), Continue(more)
  PROVE  /\ IsNext(ThisJob) /\ Moves(more, Here) /\ Keeps(more)
         /\ stack' # <<>> /\ \E X : stack' \in Seq(Frames(X))
<1>1. PICK X : stack \in Seq(Frames(X))
  BY DEF Shape
<1>2. stack # <<>>
  BY DEF Shape
<1>3. PICK L \in Nat : L = Len(stack) /\ L # 0 /\ DOMAIN stack = 1 .. L
  BY <1>1, <1>2, StackFacts
<1>4. /\ \A k \in DOMAIN stack :
           /\ stack[k] \in Frames(X) /\ stack[k].todo \in Seq(AllJobs)
           /\ Len(stack[k].todo) \in Nat /\ DOMAIN stack[k].todo = 1 .. Len(stack[k].todo)
  BY <1>1, <1>2, StackFacts
<1>5. PICK t \in Seq(AllJobs) :
        /\ t = stack[L].todo /\ Len(t) \in Nat /\ Len(t) >= 1 /\ DOMAIN t = 1 .. Len(t)
        /\ t[1] = ThisJob /\ ThisJob \in AllJobs
        /\ Tail(t) \in Seq(AllJobs) /\ Len(Tail(t)) = Len(t) - 1
        /\ \A n \in 1 .. Len(Tail(t)) : Tail(t)[n] = t[n + 1]
  BY <1>1, <1>2, <1>3, <1>4, StackFacts DEF Top
<1>6. PICK rest \in Seq(AllJobs) : rest = Tail(t)
  BY <1>5
<1>7. PICK todo : todo = more \o rest
  OBVIOUS
<1>8. /\ todo \in Seq(AllJobs) /\ Len(more) \in Nat /\ DOMAIN more = 1 .. Len(more)
      /\ DOMAIN todo = 1 .. Len(more) + Len(rest)
      /\ Len(rest) \in Nat /\ DOMAIN rest = 1 .. Len(rest)
      /\ \A n \in DOMAIN more : todo[n] = more[n]
      /\ \A n \in DOMAIN todo : n \notin DOMAIN more =>
           n - Len(more) \in DOMAIN rest /\ todo[n] = rest[n - Len(more)]
  BY <1>5, <1>6, <1>7, ConcatFacts
<1>9. stack' = [stack EXCEPT ![L] = [stack[L] EXCEPT !.todo = todo]]
  BY <1>3, <1>5, <1>6, <1>7 DEF Continue
<1>10. /\ [stack[L] EXCEPT !.todo = todo] \in Frames(X)
       /\ [stack[L] EXCEPT !.todo = todo].todo = todo
       /\ [stack[L] EXCEPT !.todo = todo].class = stack[L].class
  BY <1>3, <1>4, <1>8, FrameTodo
<1>11. /\ stack' \in Seq(Frames(X)) /\ DOMAIN stack' = 1 .. L /\ stack' # <<>>
       /\ \A k \in 1 .. L : k # L => stack'[k] = stack[k]
       /\ stack'[L] = [stack[L] EXCEPT !.todo = todo]
  <2> HIDE DEF Frames
  <2> QED BY <1>1, <1>3, <1>9, <1>10
<1>12. stack'[L].todo = todo /\ stack'[L].class = stack[L].class
  BY <1>10, <1>11
<1>13. ASSUME NEW k \in DOMAIN stack', NEW n \in DOMAIN stack'[k].todo
       PROVE  /\ k \in Nat /\ n \in Nat
              /\ \/ /\ k = L /\ n \in DOMAIN more
                    /\ stack'[k].todo[n] = more[n] /\ stack'[k].class = Here
                 \/ /\ k \in DOMAIN stack /\ Was(k, n, 1 - Len(more)) \in DOMAIN stack[k].todo
                    /\ k = Len(stack) => Was(k, n, 1 - Len(more)) # 1
                    /\ stack'[k].todo[n] = stack[k].todo[Was(k, n, 1 - Len(more))]
                    /\ stack'[k].class = stack[k].class
  <2>1. CASE k # L
    BY <2>1, <1>3, <1>4, <1>11, <1>13 DEF Was
  <2>2. CASE k = L /\ n \in DOMAIN more
    BY <2>2, <1>3, <1>8, <1>12 DEF Here, Top
  <2>3. CASE k = L /\ n \notin DOMAIN more
    <3>0. n \in DOMAIN todo
      BY <2>3, <1>12
    <3>1. /\ n \in Nat /\ DOMAIN rest = 1 .. Len(rest) /\ Len(rest) \in Nat
          /\ n - Len(more) \in DOMAIN rest /\ todo[n] = rest[n - Len(more)]
      BY <2>3, <3>0, <1>8
    <3>2. /\ Len(rest) = Len(t) - 1 /\ rest[n - Len(more)] = t[(n - Len(more)) + 1]
      BY <3>1, <1>5, <1>6
    <3>3. Was(k, n, 1 - Len(more)) = (n - Len(more)) + 1
      BY <2>3, <3>1, <1>3, <1>8 DEF Was
    <3>4. (n - Len(more)) + 1 \in 2 .. Len(t)
      BY <3>1, <3>2, <1>5, <1>8
    <3>5. /\ (n - Len(more)) + 1 \in DOMAIN t /\ (n - Len(more)) + 1 # 1
          /\ todo[n] = t[(n - Len(more)) + 1]
      BY <3>1, <3>2, <3>4, <1>5
    <3>6. k \in Nat /\ k \in DOMAIN stack /\ stack[k].todo = t /\ stack'[k].todo = todo
          /\ stack'[k].class = stack[k].class
      BY <2>3, <1>3, <1>5, <1>12
    <3> QED BY <3>1, <3>3, <3>5, <3>6
  <2> QED BY <2>1, <2>2, <2>3
<1>14. IsNext(ThisJob) /\ Moves(more, Here)
  <2>1. L \in Nat /\ 1 - Len(more) \in Int
    BY <1>8
  <2>2. L \in DOMAIN stack /\ 1 \in DOMAIN stack[L].todo /\ stack[L].todo[1] = ThisJob /\ ThisJob \in AllJobs
    BY <1>3, <1>5
  <2> QED BY <1>3, <1>13, <2>1, <2>2 DEF IsNext, Moves
<1>15. Keeps(more)
  <2>1. ASSUME NEW m \in DOMAIN more
        PROVE  \E k \in DOMAIN stack' : \E n \in DOMAIN stack'[k].todo : stack'[k].todo[n] = more[m]
    <3>1. m \in DOMAIN todo /\ todo[m] = more[m] /\ L \in DOMAIN stack'
      BY <1>3, <1>8, <1>11
    <3> QED BY <3>1, <1>12
  <2>2. ASSUME NEW k \in DOMAIN stack, NEW n \in DOMAIN stack[k].todo, k = Len(stack) => n # 1
        PROVE  \E k2 \in DOMAIN stack' : \E n2 \in DOMAIN stack'[k2].todo :
                 stack'[k2].todo[n2] = stack[k].todo[n]
    <3>1. CASE k # L
      BY <3>1, <1>3, <1>11
    <3>2. CASE k = L
      <4>1. n \in DOMAIN t /\ n # 1
        BY <3>2, <2>2, <1>3, <1>5
      <4>2. n - 1 \in DOMAIN rest /\ t[n] = rest[n - 1]
        <5>1. n - 1 \in 1 .. Len(rest) /\ (n - 1) + 1 = n
          BY <4>1, <1>5, <1>6
        <5> QED BY <5>1, <1>5, <1>6
      <4>3. PICK m : m = Len(more) + (n - 1)
        OBVIOUS
      <4>4. m \in DOMAIN todo /\ m \notin DOMAIN more /\ m - Len(more) = n - 1
        BY <4>2, <4>3, <1>8
      <4>5. todo[m] = t[n]
        BY <4>2, <4>4, <1>8
      <4>6. L \in DOMAIN stack'
        BY <1>3, <1>11
      <4> QED BY <3>2, <4>4, <4>5, <4>6, <1>5, <1>12
    <3> QED BY <3>1, <3>2
  <2> QED BY <2>1, <2>2 DEF Keeps
<1> QED BY <1>11, <1>14, <1>15

LEMMA EnterSpawns ==
  ASSUME Shape, Top.todo # <<>>, NEW more \in Seq(AllJobs), NEW name, NEW blank \in BOOLEAN,
         Enter(name, more, blank)
  PROVE  /\ IsNext(ThisJob) /\ Moves(more, Append(Here, name)) /\ Keeps(more)
         /\ stack' # <<>> /\ \E X : stack' \in Seq(Frames(X))
<1>1. PICK X : stack \in Seq(Frames(X))
  BY DEF Shape
<1>2. stack # <<>>
  BY DEF Shape
<1>3. PICK L \in Nat : L = Len(stack) /\ L # 0 /\ DOMAIN stack = 1 .. L
  BY <1>1, <1>2, StackFacts
<1>4. /\ \A k \in DOMAIN stack :
           /\ stack[k] \in Frames(X) /\ stack[k].todo \in Seq(AllJobs)
           /\ Len(stack[k].todo) \in Nat /\ DOMAIN stack[k].todo = 1 .. Len(stack[k].todo)
      /\ Here \in Seq(X)
  BY <1>1, <1>2, StackFacts
<1>5. PICK t \in Seq(AllJobs) :
        /\ t = stack[L].todo /\ Len(t) \in Nat /\ Len(t) >= 1 /\ DOMAIN t = 1 .. Len(t)
        /\ t[1] = ThisJob /\ ThisJob \in AllJobs
        /\ Tail(t) \in Seq(AllJobs) /\ Len(Tail(t)) = Len(t) - 1
        /\ \A n \in 1 .. Len(Tail(t)) : Tail(t)[n] = t[n + 1]
  BY <1>1, <1>2, <1>3, <1>4, StackFacts DEF Top
<1>6. PICK rest \in Seq(AllJobs) : rest = Tail(t)
  BY <1>5
<1>7. PICK Y : Y = X \cup {name}
  OBVIOUS
<1>8. PICK class \in Seq(Y) : class = Append(Here, name)
  <2>1. X \subseteq Y /\ name \in Y
    BY <1>7
  <2>2. PICK here \in Seq(Y) : here = Here
    BY <1>4, <2>1
  <2>3. Append(here, name) \in Seq(Y)
    BY <2>1
  <2> QED BY <2>2, <2>3
<1>9. PICK frame : frame = Frame(class, more, blank)
  OBVIOUS
<1>10. frame \in Frames(Y) /\ frame.todo = more /\ frame.class = class
  BY <1>9 DEF Frame, Frames
<1>11. PICK left : left = [stack EXCEPT ![L] = [stack[L] EXCEPT !.todo = rest]]
  OBVIOUS
<1>12. stack' = Append(left, frame)
  BY <1>3, <1>5, <1>6, <1>8, <1>9, <1>11 DEF Enter
<1>13. Frames(X) \subseteq Frames(Y)
  <2>1. Seq(X) \subseteq Seq(Y)
    BY <1>7
  <2> QED BY <2>1 DEF Frames
<1>14. /\ [stack[L] EXCEPT !.todo = rest] \in Frames(X)
       /\ [stack[L] EXCEPT !.todo = rest].todo = rest
       /\ [stack[L] EXCEPT !.todo = rest].class = stack[L].class
  BY <1>3, <1>4, FrameTodo
<1>15. /\ left \in Seq(Frames(Y)) /\ Len(left) = L
       /\ \A k \in 1 .. L : k # L => left[k] = stack[k]
       /\ left[L] = [stack[L] EXCEPT !.todo = rest]
  <2> HIDE DEF Frames
  <2> QED BY <1>1, <1>3, <1>11, <1>13, <1>14
<1>16. /\ stack' \in Seq(Frames(Y)) /\ DOMAIN stack' = 1 .. L + 1 /\ stack' # <<>>
       /\ \A k \in 1 .. L : k # L => stack'[k] = stack[k]
       /\ stack'[L] = [stack[L] EXCEPT !.todo = rest]
       /\ stack'[L + 1] = frame
  <2> HIDE DEF Frames
  <2> QED BY <1>3, <1>10, <1>12, <1>15
<1>17. stack'[L].todo = rest /\ stack'[L].class = stack[L].class
  BY <1>14, <1>16
<1>18. ASSUME NEW k \in DOMAIN stack', NEW n \in DOMAIN stack'[k].todo
       PROVE  /\ k \in Nat /\ n \in Nat
              /\ \/ /\ k = L + 1 /\ n \in DOMAIN more
                    /\ stack'[k].todo[n] = more[n] /\ stack'[k].class = class
                 \/ /\ k \in DOMAIN stack /\ Was(k, n, 1) \in DOMAIN stack[k].todo
                    /\ k = Len(stack) => Was(k, n, 1) # 1
                    /\ stack'[k].todo[n] = stack[k].todo[Was(k, n, 1)]
                    /\ stack'[k].class = stack[k].class
  <2>1. CASE k \in 1 .. L /\ k # L
    BY <2>1, <1>3, <1>4, <1>16, <1>18 DEF Was
  <2>2. CASE k = L + 1
    <3>1. DOMAIN more = 1 .. Len(more) /\ Len(more) \in Nat
      OBVIOUS
    <3> QED BY <2>2, <3>1, <1>3, <1>10, <1>16
  <2>3. CASE k = L
    <3>1. n \in DOMAIN rest /\ Len(rest) = Len(t) - 1 /\ DOMAIN rest = 1 .. Len(rest)
      BY <2>3, <1>5, <1>6, <1>17, <1>18
    <3>2. n \in Nat /\ n + 1 \in 2 .. Len(t) /\ rest[n] = t[n + 1]
      BY <3>1, <1>5, <1>6
    <3>3. Was(k, n, 1) = n + 1
      BY <2>3, <3>1, <1>3 DEF Was
    <3> QED BY <2>3, <3>1, <3>2, <3>3, <1>3, <1>5, <1>17
  <2> QED BY <2>1, <2>2, <2>3, <1>3, <1>16
<1>19. IsNext(ThisJob) /\ Moves(more, class)
  <2>1. L + 1 \in Nat /\ 1 \in Int
    OBVIOUS
  <2>2. L \in DOMAIN stack /\ 1 \in DOMAIN stack[L].todo /\ stack[L].todo[1] = ThisJob /\ ThisJob \in AllJobs
    BY <1>3, <1>5
  <2> QED BY <1>3, <1>18, <2>1, <2>2 DEF IsNext, Moves
<1>20. Keeps(more)
  <2>1. ASSUME NEW m \in DOMAIN more
        PROVE  \E k \in DOMAIN stack' : \E n \in DOMAIN stack'[k].todo : stack'[k].todo[n] = more[m]
    <3>1. L + 1 \in DOMAIN stack' /\ stack'[L + 1].todo = more
      BY <1>3, <1>10, <1>16
    <3> QED BY <3>1
  <2>2. ASSUME NEW k \in DOMAIN stack, NEW n \in DOMAIN stack[k].todo, k = Len(stack) => n # 1
        PROVE  \E k2 \in DOMAIN stack' : \E n2 \in DOMAIN stack'[k2].todo :
                 stack'[k2].todo[n2] = stack[k].todo[n]
    <3>0. k \in DOMAIN stack'
      BY <1>3, <1>16
    <3>1. CASE k # L
      BY <3>0, <3>1, <1>3, <1>16
    <3>2. CASE k = L
      <4>1. n \in DOMAIN t /\ n # 1
        BY <3>2, <2>2, <1>3, <1>5
      <4>2. n - 1 \in DOMAIN rest /\ t[n] = rest[n - 1]
        <5>0. n \in 2 .. Len(t) /\ Len(rest) = Len(t) - 1 /\ Len(t) \in Nat
          BY <4>1, <1>5, <1>6
        <5>1. n - 1 \in 1 .. Len(rest) /\ (n - 1) + 1 = n
          BY <5>0
        <5> QED BY <5>1, <1>5, <1>6
      <4> QED BY <3>0, <3>2, <4>2, <1>5, <1>17
    <3> QED BY <3>1, <3>2
  <2> QED BY <2>1, <2>2 DEF Keeps
<1> QED BY <1>8, <1>16, <1>19, <1>20

LEMMA CloseMoves ==
  ASSUME Shape, CloseClass
  PROVE  /\ Moves(<<>>, <<>>) /\ Keeps(<<>>)
         /\ stack' # <<>> /\ \E X : stack' \in Seq(Frames(X))
<1>1. PICK X : stack \in Seq(Frames(X))
  BY DEF Shape
<1>2. PICK L \in Nat : L = Len(stack) /\ L > 1 /\ DOMAIN stack = 1 .. L
  <2> HIDE DEF Frames
  <2> QED BY <1>1 DEF CloseClass
<1>3. stack' = SubSeq(stack, 1, L - 1)
  BY <1>2 DEF CloseClass
<1>4. /\ stack' \in Seq(Frames(X)) /\ stack' # <<>> /\ DOMAIN stack' = 1 .. L - 1
      /\ \A k \in 1 .. L - 1 : stack'[k] = stack[k]
  <2>0. PICK F : F = Frames(X)
    OBVIOUS
  <2>1. PICK s \in Seq(F) : s = stack
    BY <1>1, <2>0
  <2>2. PICK u : u = SubSeq(s, 1, L - 1)
    OBVIOUS
  <2>3. /\ u \in Seq(F) /\ Len(u) = L - 1 /\ DOMAIN u = 1 .. L - 1
        /\ \A k \in 1 .. L - 1 : u[k] = s[k]
    BY <1>2, <2>1, <2>2
  <2>4. u # <<>>
    BY <1>2, <2>3
  <2> QED BY <1>3, <2>0, <2>1, <2>2, <2>3, <2>4
<1>5. \A k \in DOMAIN stack : DOMAIN stack[k].todo \subseteq Nat
  <2> TAKE k \in DOMAIN stack
  <2>1. stack[k] \in Frames(X)
    BY <1>1
  <2>2. stack[k].todo \in Seq(AllJobs)
    BY <2>1 DEF Frames
  <2> QED BY <2>2
<1>6. Moves(<<>>, <<>>)
  <2>1. ASSUME NEW k \in DOMAIN stack', NEW n \in DOMAIN stack'[k].todo
        PROVE  /\ k \in Nat /\ n \in Nat
               /\ k \in DOMAIN stack /\ Was(k, n, 0) = n /\ k # Len(stack)
               /\ stack'[k] = stack[k]
    BY <2>1, <1>2, <1>4, <1>5 DEF Was
  <2>2. 0 \in Nat /\ 0 \in Int
    OBVIOUS
  <2>3. \A k \in DOMAIN stack' : \A n \in DOMAIN stack'[k].todo :
          /\ k \in Nat /\ n \in Nat
          /\ k \in DOMAIN stack /\ Was(k, n, 0) \in DOMAIN stack[k].todo
          /\ k = Len(stack) => Was(k, n, 0) # 1
          /\ stack'[k].todo[n] = stack[k].todo[Was(k, n, 0)]
          /\ stack'[k].class = stack[k].class
    <3> TAKE k \in DOMAIN stack'
    <3> TAKE n \in DOMAIN stack'[k].todo
    <3>1. /\ k \in Nat /\ n \in Nat
          /\ k \in DOMAIN stack /\ Was(k, n, 0) = n /\ k # Len(stack)
          /\ stack'[k] = stack[k]
      BY <2>1
    <3> QED BY <3>1, Zenon
  <2>4. PICK none : none = <<>>
    OBVIOUS
  <2>5. Moves(none, none)
    BY <2>2, <2>3 DEF Moves
  <2> QED BY <2>4, <2>5
<1>7. Keeps(<<>>)
  <2>1. PICK none : none = <<>> /\ DOMAIN none = {}
    OBVIOUS
  <2>2. ASSUME NEW k \in DOMAIN stack, NEW n \in DOMAIN stack[k].todo
        PROVE  k \in DOMAIN stack' /\ stack'[k] = stack[k]
    <3>1. k # L
      BY <1>2, <2>1, <2>2 DEF CloseClass, Top
    <3> QED BY <3>1, <1>2, <1>4
  <2>3. Keeps(none)
    BY <2>1, <2>2 DEF Keeps
  <2> QED BY <2>1, <2>3
<1> QED BY <1>4, <1>6, <1>7

\* The declarations are followed by ds.
Grows(ds) ==
  \E L \in Nat :
    /\ DOMAIN decls = 1 .. L
    /\ \A n \in DOMAIN decls : n \in DOMAIN decls' /\ decls'[n] = decls[n]
    /\ \A m \in DOMAIN ds : m \in Nat /\ L + m \in DOMAIN decls' /\ decls'[L + m] = ds[m]
    /\ \A n \in DOMAIN decls' : n \notin DOMAIN decls => \E m \in DOMAIN ds : n = L + m

LEMMA DeclareGrows ==
  ASSUME Shape, NEW E, NEW ds \in Seq(E), Declare(ds)
  PROVE  Grows(ds) /\ \E D : decls' \in Seq(D)
<1>1. PICK D : decls \in Seq(D)
  BY DEF Shape
<1>2. PICK B : B = D \cup E
  OBVIOUS
<1>3. decls \in Seq(B) /\ ds \in Seq(B)
  BY <1>1, <1>2
<1>4. decls' = decls \o ds
  BY DEF Declare
<1>5. /\ decls' \in Seq(B) /\ Len(decls) \in Nat /\ Len(ds) \in Nat
      /\ DOMAIN decls = 1 .. Len(decls) /\ DOMAIN ds = 1 .. Len(ds)
      /\ DOMAIN decls' = 1 .. Len(decls) + Len(ds)
      /\ \A n \in DOMAIN decls : decls'[n] = decls[n]
      /\ \A n \in DOMAIN decls' : n \notin DOMAIN decls =>
           n - Len(decls) \in DOMAIN ds /\ decls'[n] = ds[n - Len(decls)]
  BY <1>3, <1>4, ConcatFacts
<1>6. \A m \in DOMAIN ds :
        /\ m \in Nat /\ Len(decls) + m \in DOMAIN decls' /\ Len(decls) + m \notin DOMAIN decls
        /\ (Len(decls) + m) - Len(decls) = m
  BY <1>5
<1>7. \A n \in DOMAIN decls' : n \notin DOMAIN decls => n = Len(decls) + (n - Len(decls))
  BY <1>5
<1>8. Grows(ds)
  <2>1. \A n \in DOMAIN decls : n \in DOMAIN decls'
    BY <1>5
  <2>2. \A m \in DOMAIN ds : decls'[Len(decls) + m] = ds[m]
    BY <1>5, <1>6
  <2>3. \A n \in DOMAIN decls' : n \notin DOMAIN decls => \E m \in DOMAIN ds : n = Len(decls) + m
    BY <1>5, <1>7
  <2> QED BY <1>5, <1>6, <2>1, <2>2, <2>3 DEF Grows
<1> QED BY <1>5, <1>8

LEMMA SameGrows ==
  ASSUME Shape, UNCHANGED decls
  PROVE  Grows(<<>>) /\ \E D : decls' \in Seq(D)
<1>1. PICK D : decls \in Seq(D)
  BY DEF Shape
<1>2. Len(decls) \in Nat /\ DOMAIN decls = 1 .. Len(decls)
  BY <1>1
<1>3. Grows(<<>>)
  <2>1. /\ \A n \in DOMAIN decls : n \in DOMAIN decls' /\ decls'[n] = decls[n]
        /\ \A n \in DOMAIN decls' : n \in DOMAIN decls
        /\ DOMAIN <<>> = {}
    OBVIOUS
  <2>2. PICK none : none = <<>> /\ DOMAIN none = {}
    BY <2>1
  <2>3. Grows(none)
    BY <1>2, <2>1, <2>2 DEF Grows
  <2> QED BY <2>2, <2>3
<1> QED BY <1>1, <1>3

--------------------------------------------------------------------------------
(* What a step of the walk does to the invariant. *)

\* A job that h makes in the class cls.
Child(h, job, cls) ==
  /\ JobFits(job, cls)
  /\ job.do \in ItemJobs =>
       /\ job.i \in Items(crate) /\ Home(crate, job.i) = h.i
       /\ h.do \in (ItemJobs \ {"trait"}) \cup {"defaults"}
  /\ job.do \in PartJobs => job.i = h.i /\ h.do \in (ItemJobs \ {"impl"}) \cup PartJobs
  /\ job.do = "defaults" => h.do = "trait"
  /\ job.do = "adt" => job.impls = IF h.do = "block" THEN LocalImpls(crate, h.n, job.i)
                                   ELSE CrateImpls(crate, job.i)
  /\ job.do = "block" => job.n = IF h.do = "block" THEN h.n ELSE h.i
  /\ job.do = "impl" => h.do = "adt" /\ job.i \in ToSet(h.impls)
  /\ h.do = "defaults" /\ job.do \in ItemJobs => crate[job.i].k = "fn" /\ crate[job.i].body
  /\ h.do = "block" => job.do \notin {"module", "trait"}
  /\ h.do = "block" /\ job.do \in ItemJobs \ {"block"} => job.i \in Deferred(crate, h.n)

Children(h, more, cls) ==
  /\ more \in Seq({job \in AllJobs : Child(h, job, cls)})
  /\ \A n, m \in DOMAIN more : Tied(more[n], more[m]) => n = m

Single == {"fn", "const", "static", "mod", "block"}

\* What h may declare.
Declared(h, ds, more) ==
  /\ \A m \in DOMAIN ds : Own(ds[m]) =>
       ds[m].item = h.i /\ h.do \in (ItemJobs \ {"impl"}) \cup PartJobs \cup {"operators"}
  /\ \A m1, m2 \in DOMAIN ds :
       Own(ds[m1]) /\ Own(ds[m2]) /\ (h.i = 0 \/ crate[h.i].k \in Single) =>
         m1 = m2 /\ h.do \in ItemJobs \ {"impl"}
  /\ h.do \in ItemJobs \ {"impl"} /\ more # <<>> => \E m \in DOMAIN ds : Own(ds[m])

\* What the handler of h asks before it goes on with the item.
Goes(h) ==
  CASE h.do = "module" -> ShouldEmit(crate, h.i) /\ (h.i = 0 \/ ~IsR2csNative(crate, h.i))
    [] h.do = "adt"    -> /\ ShouldEmit(crate, h.i) /\ ~IsR2csNative(crate, h.i)
                          /\ crate[h.i].k # "union"
    [] h.do = "fn"     -> ShouldEmit(crate, h.i) /\ ~IsR2csNative(crate, h.i)
    [] h.do = "impl"   -> ShouldEmit(crate, h.i)
    [] h.do = "field"  -> crate[h.i].name # <<>>
    [] OTHER           -> TRUE

\* The items it then makes jobs for.
HoldsDeferred(b, owner) ==
  crate[b].k = "block" /\ \E j \in Deferred(crate, owner) : Contains(Around(crate, j), b)

Found(h) ==
  {i \in Items(crate) :
     CASE h.do = "module" ->
            /\ crate[i].in = h.i
            /\ crate[i].k \in {"trait", "const", "static", "fn", "struct", "enum", "union", "mod"}
       [] h.do = "block" ->
            /\ crate[i].in = h.i
            /\ (i \in Deferred(crate, h.n) /\ crate[i].k # "impl") \/ HoldsDeferred(i, h.n)
       [] h.do \in {"fn", "field"} -> crate[i].in = h.i /\ HoldsDeferred(i, h.i)
       [] h.do = "defaults" -> crate[i].in = h.i /\ crate[i].k = "fn" /\ crate[i].body
       [] h.do = "impl" -> crate[i].in = h.i /\ crate[i].k \in {"fn", "const"}
       [] h.do = "adt" -> i \in ToSet(h.impls)
       [] OTHER -> FALSE}

Brings(more, I) == \A i \in I : \E n \in DOMAIN more : more[n].do \in ItemJobs /\ more[n].i = i

Declares(ds) == \E m \in DOMAIN ds : Own(ds[m])

\* Constants and statics are written in the order of declaration.
InOrder(jobs) ==
  \A n, m \in DOMAIN jobs :
    n < m /\ jobs[n].do = "field" /\ jobs[m].do = "field" => jobs[n].i < jobs[m].i

NoFields(jobs) == \A n \in DOMAIN jobs : jobs[n].do # "field"

Makes(h, more, ds) ==
  /\ more # <<>> => Goes(h)
  /\ Goes(h) => /\ Brings(more, Found(h))
                /\ h.do = "trait" => \E n \in DOMAIN more : more[n].do = "defaults"
                /\ h.do \in ItemJobs \ {"impl"} => Declares(ds)
  /\ h.do = "fn" => (Declares(ds) <=> ShouldEmit(crate, h.i))
  /\ h.do = "field" => (Declares(ds) => Goes(h))
  /\ Goes(h) /\ h.do \in {"module", "block", "impl"} => InOrder(more)

LEMMA PlainMakes ==
  ASSUME NEW h, h.do \notin ItemJobs, h.do # "defaults", NEW more, NEW ds
  PROVE  Makes(h, more, ds)
<1>1. Goes(h) /\ Found(h) = {}
  BY DEF Goes, Found, ItemJobs
<1> QED BY <1>1 DEF Makes, Brings, ItemJobs

\* Pending, not counting the next job.
Waiting(jobs, i) ==
  \E k \in DOMAIN stack : \E n \in DOMAIN stack[k].todo :
    /\ k = Len(stack) => n # 1
    /\ stack[k].todo[n].do \in jobs /\ stack[k].todo[n].i = i

LEMMA PendingMoves ==
  ASSUME NEW more, NEW cls, Moves(more, cls), NEW jobs, NEW i, Pending(jobs, i)'
  PROVE  (\E m \in DOMAIN more : more[m].do \in jobs /\ more[m].i = i) \/ Waiting(jobs, i)
<1>1. PICK k \in DOMAIN stack' : \E n \in DOMAIN stack'[k].todo :
        stack'[k].todo[n].do \in jobs /\ stack'[k].todo[n].i = i
  BY DEF Pending
<1>2. PICK n \in DOMAIN stack'[k].todo :
        stack'[k].todo[n].do \in jobs /\ stack'[k].todo[n].i = i
  BY <1>1
<1> QED BY <1>2 DEF Moves, Waiting

LEMMA WaitingPending == ASSUME NEW jobs, NEW i, Waiting(jobs, i) PROVE Pending(jobs, i)
BY DEF Waiting, Pending

LEMMA NextPending ==
  ASSUME NEW h, IsNext(h), NEW jobs, h.do \in jobs
  PROVE  Pending(jobs, h.i)
BY DEF IsNext, Pending

LEMMA NextOnce ==
  ASSUME OncePending, NEW h, IsNext(h), NEW jobs,
         \/ jobs \subseteq ItemJobs /\ h.do \in ItemJobs
         \/ jobs = {"defaults"} /\ h.do = "defaults"
  PROVE  ~Waiting(jobs, h.i)
<1> SUFFICES ASSUME Waiting(jobs, h.i) PROVE FALSE
  OBVIOUS
<1>1. PICK k \in DOMAIN stack : \E n \in DOMAIN stack[k].todo :
    /\ k = Len(stack) => n # 1
    /\ stack[k].todo[n].do \in jobs /\ stack[k].todo[n].i = h.i
  BY DEF Waiting
<1>2. PICK n \in DOMAIN stack[k].todo :
    /\ k = Len(stack) => n # 1
    /\ stack[k].todo[n].do \in jobs /\ stack[k].todo[n].i = h.i
  BY <1>1
<1>3. Tied(stack[k].todo[n], h)
  BY <1>2 DEF Tied
<1> QED BY <1>2, <1>3 DEF OncePending, IsNext

\* A type is no impl, and what is found through an item is another one.
LEMMA Kinds ==
  ASSUME crate \in Crates, NEW job, NEW class, JobFits(job, class)
  PROVE  /\ job.do \in ItemJobs \ {"impl"} => job.i = 0 \/ crate[job.i].k # "impl"
         /\ job.do \in ItemJobs => job.i = 0 \/ job.i \in Items(crate)
         /\ job.do = "impl" => /\ job.i # 0 /\ crate[job.i].k = "impl" /\ crate[job.i].to # 0
                               /\ crate[job.i].to \in Items(crate)
                               /\ crate[crate[job.i].to].k \notin {"impl", "trait"}
         /\ job.do \in {"trait", "defaults"} => job.i # 0 /\ crate[job.i].k = "trait"
         /\ job.do \in ItemJobs \ {"trait"} => job.i = 0 \/ crate[job.i].k # "trait"
         /\ job.do = "operators" => job.i # 0 /\ crate[job.i].k = "impl"
<1>1. /\ Items(crate) = 1 .. Len(crate)
      /\ \A i \in Items(crate) :
           crate[i].to # 0 => IsAdt(crate, crate[i].to) /\ crate[i].to \in Items(crate)
  BY CrateFacts
<1> QED BY <1>1 DEF JobFits, ItemJobs, PartJobs, IsAdt

LEMMA NextFits ==
  ASSUME JobsFit, NEW h, IsNext(h)
  PROVE  JobFits(h, stack[Len(stack)].class)
BY DEF JobsFit, IsNext

\* No step takes back what is written.
LEMMA WrittenStays ==
  ASSUME UNCHANGED crate, NEW ds, Grows(ds), NEW i
  PROVE  /\ Written(i) => Written(i)'
         /\ Written(i)' => Written(i) \/ \E m \in DOMAIN ds : Own(ds[m]) /\ ds[m].item = i
         /\ \A m \in DOMAIN ds : Own(ds[m]) /\ ds[m].item = i => Written(i)'
<1>1. PICK L \in Nat :
    /\ DOMAIN decls = 1 .. L
    /\ \A n \in DOMAIN decls : n \in DOMAIN decls' /\ decls'[n] = decls[n]
    /\ \A m \in DOMAIN ds : m \in Nat /\ L + m \in DOMAIN decls' /\ decls'[L + m] = ds[m]
    /\ \A n \in DOMAIN decls' : n \notin DOMAIN decls => \E m \in DOMAIN ds : n = L + m
  BY DEF Grows
<1>2. \A d : Own(d)' <=> Own(d)
  BY DEF Own
<1>3. Written(i)' <=> \E n \in DOMAIN decls' : Own(decls'[n]) /\ decls'[n].item = i
  BY <1>2 DEF Written
<1> QED BY <1>1, <1>3 DEF Written

\* What a job goes on with is not open yet.
LEMMA NotOpened ==
  ASSUME Shape, Walk, NEW h, IsNext(h), NEW cls, NEW job, Child(h, job, cls), job.do \in ItemJobs
  PROVE  ~Opened(h.i)
<1> SUFFICES ASSUME Opened(h.i) PROVE FALSE
  OBVIOUS
<1>1. crate \in Crates
  BY DEF Shape
<1>2. JobFits(h, stack[Len(stack)].class)
  BY NextFits DEF Walk
<1>3. h.do \in (ItemJobs \ {"trait"}) \cup {"defaults"}
  BY DEF Child
<1>4. CASE h.do \in ItemJobs \ {"impl", "trait"}
  <2>1. Pending(ItemJobs \ {"impl"}, h.i)
    BY <1>4, NextPending
  <2>2. h.i \in Items(crate) \cup {0} /\ (h.i = 0 \/ crate[h.i].k # "impl")
    BY <1>1, <1>2, <1>4, Kinds
  <2>3. ~Written(h.i)
    BY <2>1, <2>2 DEF Walk, FoundOnce
  <2> QED BY <2>2, <2>3 DEF Opened
<1>5. CASE h.do = "impl"
  <2>1. Pending({"impl"}, h.i)
    BY <1>5, NextPending
  <2>2. h.i # 0 /\ crate[h.i].k = "impl"
    BY <1>1, <1>2, <1>5, Kinds
  <2> QED BY <2>1, <2>2 DEF Opened
<1>6. CASE h.do = "defaults"
  <2>1. Pending({"defaults"}, h.i)
    BY <1>6, NextPending
  <2>2. h.i # 0 /\ crate[h.i].k = "trait"
    BY <1>1, <1>2, <1>6, Kinds
  <2> QED BY <2>1, <2>2 DEF Opened
<1> QED BY <1>3, <1>4, <1>5, <1>6

\* The walk comes to an item through the one it is found through, and then once.
LEMMA NotReached ==
  ASSUME Shape, Walk, NEW h, IsNext(h), NEW cls, NEW job, Child(h, job, cls), job.do \in ItemJobs
  PROVE  ~Reached(job.i)
BY NotOpened DEF Walk, FoundOnce, Child

\* What a step starts from.
Steps(h, more, cls, ds) ==
  /\ IsNext(h) /\ Moves(more, cls) /\ UNCHANGED crate /\ Grows(ds)
  /\ Children(h, more, cls) /\ Declared(h, ds, more)

\* The next job is done.
Made == \E more, cls, ds : /\ Steps(ThisJob, more, cls, ds) /\ Keeps(more)
                           /\ Makes(ThisJob, more, ds)

LEMMA ChildrenAre ==
  ASSUME NEW h, NEW more, NEW cls, Children(h, more, cls)
  PROVE  /\ \A n \in DOMAIN more : more[n] \in AllJobs /\ Child(h, more[n], cls)
         /\ (\E n \in DOMAIN more : TRUE) => more # <<>>
<1>1. \A n \in DOMAIN more : more[n] \in {job \in AllJobs : Child(h, job, cls)}
  BY DEF Children
<1>2. DOMAIN <<>> = {}
  OBVIOUS
<1> QED BY <1>1, <1>2

LEMMA FitsStep ==
  ASSUME Walk, NEW h, NEW more, NEW cls, NEW ds, Steps(h, more, cls, ds)
  PROVE  JobsFit'
<1>1. \A job, class : JobFits(job, class)' <=> JobFits(job, class)
  <2>1. UNCHANGED crate
    BY DEF Steps
  <2> QED BY <2>1 DEF JobFits, OfTraitFn
<1>2. ASSUME NEW k \in DOMAIN stack', NEW n \in DOMAIN stack'[k].todo
      PROVE  JobFits(stack'[k].todo[n], stack'[k].class)
  <2>1. \/ \E m \in DOMAIN more : stack'[k].todo[n] = more[m] /\ stack'[k].class = cls
        \/ /\ k \in DOMAIN stack /\ stack'[k].class = stack[k].class
           /\ \E m \in DOMAIN stack[k].todo : stack'[k].todo[n] = stack[k].todo[m]
    BY <1>2 DEF Steps, Moves
  <2>2. CASE \E m \in DOMAIN more : stack'[k].todo[n] = more[m] /\ stack'[k].class = cls
    BY <2>2, ChildrenAre DEF Steps, Child
  <2>3. CASE /\ k \in DOMAIN stack /\ stack'[k].class = stack[k].class
             /\ \E m \in DOMAIN stack[k].todo : stack'[k].todo[n] = stack[k].todo[m]
    BY <2>3 DEF Walk, JobsFit
  <2> QED BY <2>1, <2>2, <2>3
<1> QED BY <1>1, <1>2 DEF JobsFit

LEMMA OnceStep ==
  ASSUME Shape, Walk, NEW h, NEW more, NEW cls, NEW ds, Steps(h, more, cls, ds)
  PROVE  OncePending'
<1>1. ASSUME NEW m \in DOMAIN more, NEW k \in DOMAIN stack, NEW n \in DOMAIN stack[k].todo,
             k = Len(stack) => n # 1,
             Tied(more[m], stack[k].todo[n]) \/ Tied(stack[k].todo[n], more[m])
      PROVE  FALSE
  <2>1. Child(h, more[m], cls) /\ more[m] \in AllJobs
    BY <1>1, ChildrenAre DEF Steps
  <2>2. PICK old : old = stack[k].todo[n] /\ old.i = more[m].i
    BY <1>1 DEF Tied
  <2>3. CASE more[m].do \in ItemJobs
    <3>1. ~Reached(more[m].i)
      BY <2>1, <2>3, NotReached DEF Steps
    <3>2. old.do \in ItemJobs
      BY <1>1, <2>2, <2>3 DEF Tied, ItemJobs
    <3> QED BY <1>1, <2>2, <3>1, <3>2 DEF Reached, Pending
  <2>4. CASE more[m].do \notin ItemJobs
    <3>1. more[m].do = "defaults" /\ old.do = "defaults"
      BY <1>1, <2>2, <2>4 DEF Tied
    <3>2. h.do = "trait" /\ more[m].i = h.i
      BY <2>1, <3>1 DEF Child, PartJobs
    <3>3. Pending(ItemJobs \ {"impl"}, h.i)
      BY <3>2, NextPending DEF Steps, ItemJobs
    <3>4. Pending(PartJobs, h.i)
      BY <1>1, <2>2, <3>1, <3>2 DEF Pending, PartJobs
    <3>5. h.i \in Items(crate) \cup {0}
      <4>1. JobFits(h, stack[Len(stack)].class) /\ crate \in Crates
        BY NextFits DEF Walk, Steps, Shape
      <4> QED BY <4>1, <3>2, Kinds DEF ItemJobs
    <3> QED BY <3>3, <3>4, <3>5 DEF Walk, FoundOnce
  <2> QED BY <2>3, <2>4
<1>2. PICK K \in Nat, d \in Int :
       \A k \in DOMAIN stack' : \A n \in DOMAIN stack'[k].todo :
         /\ k \in Nat /\ n \in Nat
         /\ \/ /\ k = K /\ n \in DOMAIN more
               /\ stack'[k].todo[n] = more[n] /\ stack'[k].class = cls
            \/ /\ k \in DOMAIN stack /\ Was(k, n, d) \in DOMAIN stack[k].todo
               /\ k = Len(stack) => Was(k, n, d) # 1
               /\ stack'[k].todo[n] = stack[k].todo[Was(k, n, d)]
               /\ stack'[k].class = stack[k].class
  BY DEF Steps, Moves
<1>3. ASSUME NEW k1 \in DOMAIN stack', NEW k2 \in DOMAIN stack',
             NEW n1 \in DOMAIN stack'[k1].todo, NEW n2 \in DOMAIN stack'[k2].todo,
             Tied(stack'[k1].todo[n1], stack'[k2].todo[n2])
      PROVE  k1 = k2 /\ n1 = n2
  <2> DEFINE New(k, n) == k = K /\ n \in DOMAIN more /\ stack'[k].todo[n] = more[n]
             Old(k, n) == /\ k \in DOMAIN stack /\ Was(k, n, d) \in DOMAIN stack[k].todo
                          /\ k = Len(stack) => Was(k, n, d) # 1
                          /\ stack'[k].todo[n] = stack[k].todo[Was(k, n, d)]
  <2>1. /\ n1 \in Nat /\ n2 \in Nat
        /\ New(k1, n1) \/ Old(k1, n1)
        /\ New(k2, n2) \/ Old(k2, n2)
    BY <1>2, <1>3
  <2>2. CASE New(k1, n1) /\ New(k2, n2)
    BY <1>3, <2>2 DEF Steps, Children
  <2>3. CASE New(k1, n1) /\ Old(k2, n2)
    BY <1>1, <1>3, <2>3
  <2>4. CASE Old(k1, n1) /\ New(k2, n2)
    BY <1>1, <1>3, <2>4
  <2>5. CASE Old(k1, n1) /\ Old(k2, n2)
    <3>1. k1 = k2 /\ Was(k1, n1, d) = Was(k2, n2, d)
      BY <1>3, <2>5 DEF Walk, OncePending
    <3> QED BY <3>1, <2>1 DEF Was
  <2> QED BY <2>1, <2>2, <2>3, <2>4, <2>5
<1> QED BY <1>3 DEF OncePending, Tied

\* An item that is open stays so.
LEMMA OpenedStays ==
  ASSUME Shape, Walk, NEW h, NEW more, NEW cls, NEW ds, Steps(h, more, cls, ds), NEW p, Opened(p)
  PROVE  Opened(p)'
<1>1. crate \in Crates /\ UNCHANGED crate /\ Grows(ds) /\ Moves(more, cls) /\ IsNext(h)
  BY DEF Steps, Shape
<1>2. \A i : Written(i) => Written(i)'
  BY <1>1, WrittenStays
<1>3. ASSUME p # 0, crate[p].k = "impl" PROVE ~Pending({"impl"}, p)'
  <2>1. SUFFICES ASSUME Pending({"impl"}, p)' PROVE FALSE
    OBVIOUS
  <2>2. ~Waiting({"impl"}, p)
    BY <1>3, WaitingPending DEF Opened
  <2>3. PICK m \in DOMAIN more : more[m].do = "impl" /\ more[m].i = p
    BY <1>1, <2>1, <2>2, PendingMoves
  <2>4. Child(h, more[m], cls)
    BY ChildrenAre DEF Steps
  <2>5. p \in Items(crate) /\ crate[p].to = h.i /\ h.do \in (ItemJobs \ {"trait"}) \cup {"defaults"}
    BY <1>3, <2>3, <2>4 DEF Child, ItemJobs, Home
  <2>6. JobFits(h, stack[Len(stack)].class) /\ JobFits(more[m], cls)
    BY <1>1, <2>4, NextFits DEF Walk, Child
  <2>7. Written(h.i) /\ crate[h.i].k \notin {"impl", "trait"} /\ h.i # 0 /\ h.i \in Items(crate)
    BY <1>1, <1>3, <2>3, <2>5, <2>6, Kinds DEF Opened
  <2>8. h.do \in ItemJobs \ {"impl"}
    BY <1>1, <2>5, <2>6, <2>7, Kinds
  <2>9. Pending(ItemJobs \ {"impl"}, h.i)
    BY <1>1, <2>8, NextPending
  <2> QED BY <2>7, <2>9 DEF Walk, FoundOnce
<1>4. ASSUME p # 0, crate[p].k = "trait" PROVE ~Pending({"defaults"}, p)'
  <2>1. SUFFICES ASSUME Pending({"defaults"}, p)' PROVE FALSE
    OBVIOUS
  <2>2. ~Waiting({"defaults"}, p) /\ Written(p)
    BY <1>4, WaitingPending DEF Opened
  <2>3. PICK m \in DOMAIN more : more[m].do = "defaults" /\ more[m].i = p
    BY <1>1, <2>1, <2>2, PendingMoves
  <2>4. h.do = "trait" /\ h.i = p
    BY <2>3, ChildrenAre DEF Steps, Child, PartJobs
  <2>5. h.i \in Items(crate) \cup {0}
    BY <1>1, <2>4, NextFits, Kinds DEF Walk, ItemJobs
  <2>6. Pending(ItemJobs \ {"impl"}, h.i)
    BY <1>1, <2>4, NextPending DEF ItemJobs
  <2> QED BY <2>2, <2>4, <2>5, <2>6 DEF Walk, FoundOnce
<1> QED BY <1>1, <1>2, <1>3, <1>4 DEF Opened

\* What a step opens.
LEMMA OpenedNow ==
  ASSUME Shape, Walk, NEW h, NEW more, NEW cls, NEW ds, Steps(h, more, cls, ds),
         NEW m \in DOMAIN more, more[m].do \in ItemJobs
  PROVE  Opened(h.i)'
<1>1. crate \in Crates /\ UNCHANGED crate /\ Grows(ds) /\ Moves(more, cls) /\ IsNext(h)
  BY DEF Steps, Shape
<1>2. \A i : Written(i) => Written(i)'
  BY <1>1, WrittenStays
<1>3. Child(h, more[m], cls) /\ h.do \in (ItemJobs \ {"trait"}) \cup {"defaults"} /\ more # <<>>
  BY ChildrenAre DEF Steps, Child
<1>4. JobFits(h, stack[Len(stack)].class)
  BY <1>1, NextFits DEF Walk
<1>5. CASE h.do \in ItemJobs \ {"impl", "trait"}
  <2>1. Written(h.i)'
    <3>1. \E n \in DOMAIN ds : Own(ds[n]) /\ ds[n].item = h.i
      BY <1>3, <1>5 DEF Steps, Declared
    <3> QED BY <1>1, <3>1, WrittenStays
  <2>2. h.i = 0 \/ (crate[h.i].k # "impl" /\ crate[h.i].k # "trait")
    BY <1>1, <1>4, <1>5, Kinds
  <2> QED BY <1>1, <2>1, <2>2 DEF Opened
<1>6. CASE h.do = "impl"
  <2>1. /\ h.i # 0 /\ crate[h.i].k = "impl" /\ crate[h.i].to # 0 /\ h.i \in Items(crate)
        /\ crate[crate[h.i].to].k \notin {"impl", "trait"}
    BY <1>1, <1>4, <1>6, Kinds DEF ItemJobs
  <2>2. Pending(ItemJobs, h.i)
    BY <1>1, <1>6, NextPending DEF ItemJobs
  <2>3. Opened(crate[h.i].to)
    BY <2>1, <2>2 DEF Walk, FoundOnce, Reached, Home
  <2>4. PICK a : a = crate[h.i].to /\ Written(a)'
    BY <1>2, <2>1, <2>3 DEF Opened
  <2>5. ~Waiting({"impl"}, h.i)
    BY <1>1, <1>6, NextOnce DEF Walk, ItemJobs
  <2>6. ASSUME NEW n \in DOMAIN more, more[n].do = "impl", more[n].i = h.i PROVE FALSE
    <3>1. Child(h, more[n], cls)
      BY ChildrenAre DEF Steps
    <3>2. crate[h.i].to = h.i
      BY <2>1, <2>6, <3>1 DEF Child, Home, ItemJobs
    <3> QED BY <2>1, <3>2
  <2>7. ~Pending({"impl"}, h.i)'
    BY <1>1, <2>5, <2>6, PendingMoves
  <2> QED BY <1>1, <2>1, <2>4, <2>7 DEF Opened
<1>7. CASE h.do = "defaults"
  <2>1. h.i # 0 /\ crate[h.i].k = "trait" /\ h.i \in Items(crate)
    BY <1>1, <1>4, <1>7, Kinds DEF JobFits, PartJobs
  <2>2. Pending(PartJobs, h.i)
    BY <1>1, <1>7, NextPending DEF PartJobs
  <2>3. Written(h.i)'
    BY <1>2, <2>1, <2>2 DEF Walk, FoundOnce
  <2>4. ~Waiting({"defaults"}, h.i)
    BY <1>1, <1>7, NextOnce DEF Walk
  <2>5. ASSUME NEW n \in DOMAIN more, more[n].do = "defaults" PROVE FALSE
    BY <1>7, <2>5, ChildrenAre DEF Steps, Child
  <2>6. ~Pending({"defaults"}, h.i)'
    BY <1>1, <2>4, <2>5, PendingMoves
  <2> QED BY <1>1, <2>1, <2>3, <2>6 DEF Opened
<1> QED BY <1>3, <1>5, <1>6, <1>7

\* What a step writes is what its job is for, and was not written if a job for it
\* can write it.
LEMMA WrittenNow ==
  ASSUME Shape, Walk, NEW h, NEW more, NEW cls, NEW ds, Steps(h, more, cls, ds),
         NEW m \in DOMAIN ds, Own(ds[m])
  PROVE  /\ ds[m].item = h.i
         /\ h.i \in Items(crate) \cup {0}
         /\ \/ h.do \in ItemJobs \ {"impl"} /\ ~Written(h.i) /\ ~Waiting(ItemJobs \ {"impl"}, h.i)
            \/ h.do \in PartJobs /\ Written(h.i)
            \/ h.do = "operators" /\ h.i # 0 /\ crate[h.i].k = "impl"
<1>1. crate \in Crates /\ IsNext(h)
  BY DEF Steps, Shape
<1>2. ds[m].item = h.i /\ h.do \in (ItemJobs \ {"impl"}) \cup PartJobs \cup {"operators"}
  BY DEF Steps, Declared
<1>3. JobFits(h, stack[Len(stack)].class)
  BY <1>1, NextFits DEF Walk
<1>4. h.i \in Items(crate) \cup {0}
  <2>1. CASE h.do \in ItemJobs
    BY <1>1, <1>3, <2>1, Kinds
  <2>2. CASE h.do \in PartJobs \cup {"operators"}
    BY <1>3, <2>2 DEF JobFits, PartJobs, ItemJobs
  <2> QED BY <1>2, <2>1, <2>2
<1>5. CASE h.do \in ItemJobs \ {"impl"}
  <2>1. Pending(ItemJobs \ {"impl"}, h.i)
    BY <1>1, <1>5, NextPending
  <2>2. ~Waiting(ItemJobs \ {"impl"}, h.i)
    <3>1. ItemJobs \ {"impl"} \subseteq ItemJobs
      OBVIOUS
    <3> QED BY <1>1, <1>5, <3>1, NextOnce DEF Walk
  <2> QED BY <1>2, <1>4, <1>5, <2>1, <2>2 DEF Walk, FoundOnce
<1>6. CASE h.do \in PartJobs
  <2>1. Pending(PartJobs, h.i)
    BY <1>1, <1>6, NextPending
  <2> QED BY <1>2, <1>4, <1>6, <2>1 DEF Walk, FoundOnce
<1>7. CASE h.do = "operators"
  BY <1>1, <1>2, <1>3, <1>4, <1>7, Kinds
<1> QED BY <1>2, <1>5, <1>6, <1>7

LEMMA FoundStep ==
  ASSUME Shape, Walk, NEW h, NEW more, NEW cls, NEW ds, Steps(h, more, cls, ds)
  PROVE  FoundOnce'
<1>1. crate \in Crates /\ UNCHANGED crate /\ Grows(ds) /\ Moves(more, cls) /\ IsNext(h)
  BY DEF Steps, Shape
<1>2. ASSUME NEW i \in Items(crate), Reached(i)' PROVE \E p : p = Home(crate, i) /\ Opened(p)'
  <2>1. Pending(ItemJobs, i)' \/ (crate[i].k # "impl" /\ Written(i)')
    BY <1>1, <1>2 DEF Reached
  <2>2. CASE Reached(i)
    <3>1. PICK p : p = Home(crate, i) /\ Opened(p)
      BY <2>2 DEF Walk, FoundOnce
    <3> QED BY <3>1, OpenedStays
  <2>3. CASE ~Reached(i) /\ Pending(ItemJobs, i)'
    <3>1. ~Waiting(ItemJobs, i)
      BY <2>3, WaitingPending DEF Reached
    <3>2. PICK m \in DOMAIN more : more[m].do \in ItemJobs /\ more[m].i = i
      BY <1>1, <2>3, <3>1, PendingMoves
    <3>3. Home(crate, i) = h.i
      BY <3>2, ChildrenAre DEF Steps, Child
    <3>4. Opened(h.i)'
      BY <3>2, OpenedNow
    <3> QED BY <3>3, <3>4
  <2>4. CASE ~Reached(i) /\ crate[i].k # "impl" /\ Written(i)'
    <3>1. ~Written(i)
      BY <2>4 DEF Reached
    <3>2. PICK m \in DOMAIN ds : Own(ds[m]) /\ ds[m].item = i
      BY <1>1, <2>4, <3>1, WrittenStays
    <3>3. /\ i = h.i
          /\ \/ h.do \in ItemJobs
             \/ h.do \in PartJobs /\ Written(h.i)
             \/ h.do = "operators" /\ h.i # 0 /\ crate[h.i].k = "impl"
      BY <3>2, WrittenNow
    <3>4. h.do \in ItemJobs
      BY <2>4, <3>1, <3>3
    <3> QED BY <1>1, <2>4, <3>3, <3>4, NextPending DEF Reached
  <2> QED BY <2>1, <2>2, <2>3, <2>4
<1>3. ASSUME NEW i \in Items(crate) \cup {0}, Pending(ItemJobs \ {"impl"}, i)' PROVE ~Written(i)'
  <2>1. SUFFICES ASSUME Written(i)' PROVE FALSE
    OBVIOUS
  <2>2. Waiting(ItemJobs \ {"impl"}, i)
        \/ \E m \in DOMAIN more : more[m].do \in ItemJobs \ {"impl"} /\ more[m].i = i
    BY <1>1, <1>3, PendingMoves
  <2>3. CASE \E m \in DOMAIN more : more[m].do \in ItemJobs \ {"impl"} /\ more[m].i = i
    <3>1. PICK m \in DOMAIN more : more[m].do \in ItemJobs \ {"impl"} /\ more[m].i = i
      BY <2>3
    <3>2. Child(h, more[m], cls) /\ ~Reached(i) /\ i \in Items(crate) /\ Home(crate, i) = h.i
      BY <1>1, <3>1, ChildrenAre, NotReached DEF Steps, Child
    <3>3. i # 0 /\ crate[i].k # "impl"
      BY <1>1, <3>1, <3>2, Kinds, CrateFacts DEF Child
    <3>4. PICK n \in DOMAIN ds : Own(ds[n]) /\ ds[n].item = i
      BY <1>1, <2>1, <3>2, <3>3, WrittenStays DEF Reached
    <3>5. i = h.i
      BY <3>4, WrittenNow
    <3> QED BY <1>1, <3>2, <3>3, <3>5, CrateFacts DEF Home
  <2>4. CASE Waiting(ItemJobs \ {"impl"}, i)
    <3>1. Pending(ItemJobs \ {"impl"}, i)
      BY <2>4, WaitingPending
    <3>2. ~Written(i)
      BY <3>1 DEF Walk, FoundOnce
    <3>3. PICK n \in DOMAIN ds : Own(ds[n]) /\ ds[n].item = i
      BY <1>1, <2>1, <3>2, WrittenStays
    <3>4. i = h.i /\ h.i # 0 /\ crate[h.i].k = "impl"
      BY <2>4, <3>2, <3>3, WrittenNow
    <3>5. PICK k \in DOMAIN stack : \E l \in DOMAIN stack[k].todo :
            stack[k].todo[l].do \in ItemJobs \ {"impl"} /\ stack[k].todo[l].i = i
      BY <3>1 DEF Pending
    <3>6. PICK l \in DOMAIN stack[k].todo :
            stack[k].todo[l].do \in ItemJobs \ {"impl"} /\ stack[k].todo[l].i = i
      BY <3>5
    <3>7. JobFits(stack[k].todo[l], stack[k].class)
      BY DEF Walk, JobsFit
    <3> QED BY <1>1, <3>4, <3>6, <3>7, Kinds
  <2> QED BY <2>2, <2>3, <2>4
<1>4. ASSUME NEW i \in Items(crate) \cup {0}, Pending(PartJobs, i)' PROVE Written(i)'
  <2>1. Waiting(PartJobs, i) \/ \E m \in DOMAIN more : more[m].do \in PartJobs /\ more[m].i = i
    BY <1>1, <1>4, PendingMoves
  <2>2. CASE Waiting(PartJobs, i)
    <3>1. Written(i)
      BY <2>2, WaitingPending DEF Walk, FoundOnce
    <3> QED BY <1>1, <3>1, WrittenStays
  <2>3. CASE \E m \in DOMAIN more : more[m].do \in PartJobs /\ more[m].i = i
    <3>1. i = h.i /\ h.do \in (ItemJobs \ {"impl"}) \cup PartJobs /\ more # <<>>
      BY <2>3, ChildrenAre DEF Steps, Child
    <3>2. CASE h.do \in PartJobs
      <4>1. Written(i)
        BY <1>1, <3>1, <3>2, NextPending DEF Walk, FoundOnce
      <4> QED BY <1>1, <4>1, WrittenStays
    <3>3. CASE h.do \in ItemJobs \ {"impl"}
      <4>1. PICK n \in DOMAIN ds : Own(ds[n]) /\ ds[n].item = i
        BY <3>1, <3>3 DEF Steps, Declared
      <4> QED BY <1>1, <4>1, WrittenStays
    <3> QED BY <3>1, <3>2, <3>3
  <2> QED BY <2>1, <2>2, <2>3
<1>5. \A i : Home(crate, i)' = Home(crate, i)
  BY <1>1 DEF Home
<1>6. \A i \in Items(crate') : Reached(i)' => Opened(Home(crate, i))'
  <2> TAKE i \in Items(crate')
  <2> HAVE Reached(i)'
  <2>1. i \in Items(crate)
    BY <1>1
  <2>2. PICK p : p = Home(crate, i) /\ Opened(p)'
    BY <1>2, <2>1
  <2>3. p = Home(crate, i)'
    BY <1>5, <2>2
  <2> QED BY <2>2, <2>3
<1>7. \A i \in Items(crate') \cup {0} :
        /\ Pending(ItemJobs \ {"impl"}, i)' => ~Written(i)'
        /\ Pending(PartJobs, i)' => Written(i)'
  BY <1>1, <1>3, <1>4
<1> QED BY <1>6, <1>7, Zenon DEF FoundOnce

LEMMA WrittenOnceStep ==
  ASSUME Shape, Walk, NEW h, NEW more, NEW cls, NEW ds, Steps(h, more, cls, ds)
  PROVE  WrittenOnce'
<1>1. crate \in Crates /\ UNCHANGED crate /\ IsNext(h)
  BY DEF Steps, Shape
<1>2. PICK L \in Nat :
    /\ DOMAIN decls = 1 .. L
    /\ \A n \in DOMAIN decls : n \in DOMAIN decls' /\ decls'[n] = decls[n]
    /\ \A m \in DOMAIN ds : m \in Nat /\ L + m \in DOMAIN decls' /\ decls'[L + m] = ds[m]
    /\ \A n \in DOMAIN decls' : n \notin DOMAIN decls => \E m \in DOMAIN ds : n = L + m
  BY DEF Steps, Grows
<1>3. \A d : Own(d)' <=> Own(d)
  BY <1>1 DEF Own, OfTraitFn
<1> DEFINE Once(i) == i = 0 \/ crate[i].k \in Single
<1>4. ASSUME NEW n \in DOMAIN decls, NEW m \in DOMAIN ds, Own(decls[n]), Own(ds[m]),
             decls[n].item = ds[m].item, Once(ds[m].item)
      PROVE  FALSE
  <2>1. Written(h.i) /\ Once(h.i)
    BY <1>4, WrittenNow DEF Written
  <2>2. h.do \in ItemJobs \ {"impl"}
    BY <1>4, <2>1, WrittenNow DEF Steps, Declared
  <2>3. ~(h.do \in PartJobs) /\ h.do # "operators"
    BY <2>2 DEF ItemJobs, PartJobs
  <2> QED BY <1>4, <2>1, <2>3, WrittenNow
<1>5. ASSUME NEW n \in DOMAIN decls', NEW m \in DOMAIN decls',
             Own(decls'[n]), Own(decls'[m]), decls'[n].item = decls'[m].item, Once(decls'[n].item)
      PROVE  n = m
  <2>1. CASE n \in DOMAIN decls /\ m \in DOMAIN decls
    BY <1>2, <1>5, <2>1 DEF Walk, WrittenOnce, Single
  <2>2. CASE n \in DOMAIN decls /\ m \notin DOMAIN decls
    BY <1>2, <1>4, <1>5, <2>2
  <2>3. CASE n \notin DOMAIN decls /\ m \in DOMAIN decls
    BY <1>2, <1>4, <1>5, <2>3
  <2>4. CASE n \notin DOMAIN decls /\ m \notin DOMAIN decls
    <3>1. PICK n2 \in DOMAIN ds, m2 \in DOMAIN ds : n = L + n2 /\ m = L + m2
      BY <1>2, <2>4
    <3>2. Own(ds[n2]) /\ Own(ds[m2]) /\ Once(ds[n2].item)
      BY <1>2, <1>5, <3>1
    <3>3. ds[n2].item = h.i
      BY <3>2, WrittenNow
    <3>4. n2 = m2
      BY <3>2, <3>3 DEF Steps, Declared
    <3> QED BY <3>1, <3>4
  <2> QED BY <2>1, <2>2, <2>3, <2>4
<1> QED BY <1>1, <1>3, <1>5 DEF WrittenOnce, Single

LEMMA WalkStep ==
  ASSUME Shape, Walk, NEW h, NEW more, NEW cls, NEW ds, Steps(h, more, cls, ds)
  PROVE  Walk'
BY FitsStep, OnceStep, FoundStep, WrittenOnceStep DEF Walk

\* Closing a class makes no job and writes nothing.
LEMMA CloseStep == ASSUME Shape, Walk, CloseClass PROVE Shape' /\ Walk'
<1>1. crate \in Crates /\ UNCHANGED crate /\ UNCHANGED decls
  BY DEF Shape, CloseClass
<1>2. PICK none : none = <<>> /\ DOMAIN none = {}
  OBVIOUS
<1>3. Moves(none, none) /\ stack' # <<>> /\ \E X : stack' \in Seq(Frames(X))
  BY <1>2, CloseMoves
<1>4. Shape'
  BY <1>1, <1>3 DEF Shape
<1>5. \A jobs, i : Pending(jobs, i)' => Pending(jobs, i)
  BY <1>2, <1>3, PendingMoves, WaitingPending
<1>6. \A i : Written(i)' <=> Written(i)
  BY <1>1 DEF Written, Own, OfTraitFn
<1>7. JobsFit'
  <2>1. \A job, class : JobFits(job, class)' <=> JobFits(job, class)
    BY <1>1 DEF JobFits, OfTraitFn
  <2>2. ASSUME NEW k \in DOMAIN stack', NEW n \in DOMAIN stack'[k].todo
        PROVE  JobFits(stack'[k].todo[n], stack'[k].class)
    <3>1. /\ k \in DOMAIN stack /\ stack'[k].class = stack[k].class
          /\ \E m \in DOMAIN stack[k].todo : stack'[k].todo[n] = stack[k].todo[m]
      BY <1>2, <1>3 DEF Moves
    <3> QED BY <3>1 DEF Walk, JobsFit
  <2> QED BY <2>1, <2>2 DEF JobsFit
<1>8. OncePending'
  <2>1. ASSUME NEW k1 \in DOMAIN stack', NEW k2 \in DOMAIN stack',
               NEW n1 \in DOMAIN stack'[k1].todo, NEW n2 \in DOMAIN stack'[k2].todo,
               Tied(stack'[k1].todo[n1], stack'[k2].todo[n2])
        PROVE  k1 = k2 /\ n1 = n2
    <3>1. PICK d \in Int :
           \A k \in DOMAIN stack' : \A n \in DOMAIN stack'[k].todo :
             /\ n \in Nat /\ k \in DOMAIN stack /\ Was(k, n, d) \in DOMAIN stack[k].todo
             /\ stack'[k].todo[n] = stack[k].todo[Was(k, n, d)]
      BY <1>2, <1>3 DEF Moves
    <3>2. k1 = k2 /\ Was(k1, n1, d) = Was(k2, n2, d) /\ n1 \in Nat /\ n2 \in Nat
      BY <2>1, <3>1 DEF Walk, OncePending
    <3> QED BY <3>2 DEF Was
  <2> QED BY <2>1 DEF OncePending, Tied
<1>9. FoundOnce'
  <2>1. \A i : Home(crate, i)' = Home(crate, i)
    BY <1>1 DEF Home
  <2>2. \A p : Opened(p) => Opened(p)'
    BY <1>1, <1>5, <1>6 DEF Opened
  <2>3. \A i : Reached(i)' => Reached(i)
    BY <1>1, <1>5, <1>6 DEF Reached
  <2>4. \A i \in Items(crate') : Reached(i)' => Opened(Home(crate, i))'
    <3> TAKE i \in Items(crate')
    <3> HAVE Reached(i)'
    <3>1. PICK p : p = Home(crate, i) /\ Opened(p)
      BY <1>1, <2>3 DEF Walk, FoundOnce
    <3>2. p = Home(crate, i)' /\ Opened(p)'
      BY <2>1, <2>2, <3>1
    <3> QED BY <3>2
  <2>5. \A i \in Items(crate') \cup {0} :
          /\ Pending(ItemJobs \ {"impl"}, i)' => ~Written(i)'
          /\ Pending(PartJobs, i)' => Written(i)'
    BY <1>1, <1>5, <1>6 DEF Walk, FoundOnce
  <2> QED BY <2>4, <2>5, Zenon DEF FoundOnce
<1>10. WrittenOnce'
  BY <1>1 DEF Walk, WrittenOnce, Own, OfTraitFn
<1> QED BY <1>4, <1>7, <1>8, <1>9, <1>10 DEF Walk

LEMMA ContinueStep ==
  ASSUME Shape, Walk, Top.todo # <<>>, UNCHANGED crate,
         NEW E, NEW ds \in Seq(E), Declare(ds) \/ (ds = <<>> /\ UNCHANGED decls),
         NEW more, Continue(more), Children(ThisJob, more, Here), Declared(ThisJob, ds, more),
         Makes(ThisJob, more, ds)
  PROVE  Shape' /\ Walk' /\ Made
<1>1. more \in Seq(AllJobs)
  <2>1. PICK K : K = {job \in AllJobs : Child(ThisJob, job, Here)} /\ more \in Seq(K)
    BY DEF Children
  <2>2. K \subseteq AllJobs
    BY <2>1
  <2> QED BY <2>1, <2>2
<1>2. /\ IsNext(ThisJob) /\ Moves(more, Here) /\ Keeps(more)
      /\ stack' # <<>> /\ \E X : stack' \in Seq(Frames(X))
  BY <1>1, ContinueSpawns
<1>3. Grows(ds) /\ \E D : decls' \in Seq(D)
  BY DeclareGrows, SameGrows
<1>4. PICK h, cls : h = ThisJob /\ cls = Here
  OBVIOUS
<1>5. Steps(h, more, cls, ds)
  BY <1>2, <1>3, <1>4 DEF Steps
<1>6. Walk'
  BY <1>5, WalkStep
<1>7. Made
  BY <1>2, <1>4, <1>5 DEF Made
<1> QED BY <1>2, <1>3, <1>6, <1>7 DEF Shape

LEMMA EnterStep ==
  ASSUME Shape, Walk, Top.todo # <<>>, UNCHANGED crate,
         NEW E, NEW ds \in Seq(E), Declare(ds) \/ (ds = <<>> /\ UNCHANGED decls),
         NEW name, NEW more, NEW blank \in BOOLEAN, Enter(name, more, blank),
         Children(ThisJob, more, Append(Here, name)), Declared(ThisJob, ds, more),
         Makes(ThisJob, more, ds)
  PROVE  Shape' /\ Walk' /\ Made
<1>1. more \in Seq(AllJobs)
  <2>1. PICK K : K = {job \in AllJobs : Child(ThisJob, job, Append(Here, name))} /\ more \in Seq(K)
    BY DEF Children
  <2>2. K \subseteq AllJobs
    BY <2>1
  <2> QED BY <2>1, <2>2
<1>2. /\ IsNext(ThisJob) /\ Moves(more, Append(Here, name)) /\ Keeps(more)
      /\ stack' # <<>> /\ \E X : stack' \in Seq(Frames(X))
  BY <1>1, EnterSpawns
<1>3. Grows(ds) /\ \E D : decls' \in Seq(D)
  BY DeclareGrows, SameGrows
<1>4. PICK h, cls : h = ThisJob /\ cls = Append(Here, name)
  OBVIOUS
<1>5. Steps(h, more, cls, ds)
  BY <1>2, <1>3, <1>4 DEF Steps
<1>6. Walk'
  BY <1>5, WalkStep
<1>7. Made
  BY <1>2, <1>4, <1>5 DEF Made
<1> QED BY <1>2, <1>3, <1>6, <1>7 DEF Shape

--------------------------------------------------------------------------------
(* The jobs a step makes, and what it declares. *)

Kids(h, cls) == {job \in AllJobs : Child(h, job, cls)}
\* Jobs for items of these kinds.
Kin(h, cls, kinds) ==
  {job \in Kids(h, cls) : job.do \in ItemJobs /\ job.i \in Items(crate) /\ crate[job.i].k \in kinds}
\* Jobs that are tied to none.
Loose(h, cls) == {job \in Kids(h, cls) : job.do \notin ItemJobs \cup {"defaults"}}

Once(s) == \A n, m \in DOMAIN s : Tied(s[n], s[m]) => n = m

LEMMA ChildrenOnce ==
  ASSUME NEW h, NEW cls, NEW more \in Seq(Kids(h, cls)), Once(more)
  PROVE  Children(h, more, cls)
BY DEF Children, Kids, Once

LEMMA NoChildren == ASSUME NEW h, NEW cls PROVE Children(h, <<>>, cls)
<1>1. <<>> \in Seq({job \in AllJobs : Child(h, job, cls)}) /\ DOMAIN <<>> = {}
  OBVIOUS
<1> QED BY <1>1 DEF Children

LEMMA LooseOnce ==
  ASSUME NEW h, NEW cls, NEW s \in Seq(Loose(h, cls))
  PROVE  Once(s) /\ s \in Seq(Kids(h, cls))
<1>1. Loose(h, cls) \subseteq Kids(h, cls)
  BY DEF Loose
<1>2. \A n \in DOMAIN s : s[n] \in Loose(h, cls)
  OBVIOUS
<1>3. Once(s)
  BY <1>2 DEF Once, Loose, Tied
<1> QED BY <1>1, <1>3

\* One job for each of the items.
LEMMA EachOnce ==
  ASSUME NEW I, NEW is \in Seq(I), OneToOne(is), NEW K, NEW s, s = [n \in DOMAIN is |-> s[n]],
         \A n \in DOMAIN is : s[n] \in K /\ s[n].i = is[n]
  PROVE  s \in Seq(K) /\ Once(s)
<1>1. DOMAIN s = 1 .. Len(is) /\ DOMAIN is = 1 .. Len(is) /\ Len(is) \in Nat
  OBVIOUS
<1>2. s \in Seq(K)
  BY <1>1
<1> QED BY <1>1, <1>2 DEF Once, Tied, OneToOne

LEMMA ConcatOnce ==
  ASSUME NEW K, NEW s \in Seq(K), NEW t \in Seq(K), Once(s), Once(t),
         \A n \in DOMAIN s, m \in DOMAIN t : ~Tied(s[n], t[m])
  PROVE  s \o t \in Seq(K) /\ Once(s \o t)
<1> PICK u : u = s \o t
  OBVIOUS
<1>1. /\ u \in Seq(K) /\ Len(s) \in Nat /\ Len(t) \in Nat
      /\ DOMAIN s = 1 .. Len(s) /\ DOMAIN t = 1 .. Len(t)
      /\ DOMAIN u = 1 .. Len(s) + Len(t)
      /\ \A n \in DOMAIN s : u[n] = s[n]
      /\ \A n \in DOMAIN u : n \notin DOMAIN s => n - Len(s) \in DOMAIN t /\ u[n] = t[n - Len(s)]
  BY ConcatFacts
<1>2. \A a, b : Tied(a, b) => Tied(b, a)
  BY DEF Tied
<1>3. ASSUME NEW n \in DOMAIN u, NEW m \in DOMAIN u, Tied(u[n], u[m]) PROVE n = m
  <2>1. CASE n \in DOMAIN s /\ m \in DOMAIN s
    BY <1>1, <1>3, <2>1 DEF Once
  <2>2. CASE n \in DOMAIN s /\ m \notin DOMAIN s
    BY <1>1, <1>3, <2>2
  <2>3. CASE n \notin DOMAIN s /\ m \in DOMAIN s
    BY <1>1, <1>2, <1>3, <2>3
  <2>4. CASE n \notin DOMAIN s /\ m \notin DOMAIN s
    <3>1. n - Len(s) = m - Len(s)
      BY <1>1, <1>3, <2>4 DEF Once
    <3> QED BY <1>1, <3>1
  <2> QED BY <2>1, <2>2, <2>3, <2>4
<1> QED BY <1>1, <1>3 DEF Once

\* What two lists of jobs bring together, and a list of one job for each item.
LEMMA ConcatBrings ==
  ASSUME NEW A, NEW s \in Seq(A), NEW t \in Seq(A), NEW I, Brings(s, I) \/ Brings(t, I)
  PROVE  Brings(s \o t, I)
<1>1. PICK u : u = s \o t
  OBVIOUS
<1>2. /\ Len(s) \in Nat /\ Len(t) \in Nat
      /\ DOMAIN s = 1 .. Len(s) /\ DOMAIN t = 1 .. Len(t) /\ DOMAIN u = 1 .. Len(s) + Len(t)
      /\ \A n \in 1 .. Len(s) : u[n] = s[n]
      /\ \A n \in 1 .. Len(t) : u[Len(s) + n] = t[n]
  BY <1>1
<1>3. ASSUME NEW i \in I PROVE \E n \in DOMAIN u : u[n].do \in ItemJobs /\ u[n].i = i
  <2>1. CASE \E n \in DOMAIN s : s[n].do \in ItemJobs /\ s[n].i = i
    <3>1. \A n \in DOMAIN s : n \in DOMAIN u /\ u[n] = s[n]
      BY <1>2
    <3> QED BY <2>1, <3>1
  <2>2. CASE \E n \in DOMAIN t : t[n].do \in ItemJobs /\ t[n].i = i
    <3>1. \A n \in DOMAIN t : Len(s) + n \in DOMAIN u /\ u[Len(s) + n] = t[n]
      BY <1>2
    <3> QED BY <2>2, <3>1
  <2> QED BY <2>1, <2>2 DEF Brings
<1> QED BY <1>1, <1>3 DEF Brings

LEMMA EachInOrder ==
  ASSUME NEW is, Increasing(is), NEW s, s = [n \in DOMAIN is |-> s[n]],
         \A n \in DOMAIN is : s[n].i = is[n]
  PROVE  InOrder(s)
<1>1. DOMAIN s = DOMAIN is
  OBVIOUS
<1> QED BY <1>1 DEF InOrder, Increasing

LEMMA ConcatInOrder ==
  ASSUME NEW A, NEW s \in Seq(A), NEW t \in Seq(A), InOrder(s), InOrder(t), NoFields(s) \/ NoFields(t)
  PROVE  InOrder(s \o t) /\ (NoFields(s) /\ NoFields(t) => NoFields(s \o t))
<1>1. PICK u : u = s \o t
  OBVIOUS
<1>2. /\ Len(s) \in Nat /\ Len(t) \in Nat
      /\ DOMAIN s = 1 .. Len(s) /\ DOMAIN t = 1 .. Len(t) /\ DOMAIN u = 1 .. Len(s) + Len(t)
      /\ \A n \in DOMAIN s : u[n] = s[n]
      /\ \A n \in DOMAIN u : n \notin DOMAIN s => n - Len(s) \in DOMAIN t /\ u[n] = t[n - Len(s)]
  BY <1>1, ConcatFacts
<1>3. NoFields(s) /\ NoFields(t) => NoFields(u)
  BY <1>2 DEF NoFields
<1>4. ASSUME NEW n \in DOMAIN u, NEW m \in DOMAIN u, n < m, u[n].do = "field", u[m].do = "field"
      PROVE  u[n].i < u[m].i
  <2>1. CASE m \in DOMAIN s
    <3>1. n \in DOMAIN s
      BY <1>2, <1>4, <2>1
    <3> QED BY <1>2, <1>4, <2>1, <3>1 DEF InOrder
  <2>2. CASE n \notin DOMAIN s
    <3>1. m \notin DOMAIN s /\ n - Len(s) < m - Len(s)
      BY <1>2, <1>4, <2>2
    <3> QED BY <1>2, <1>4, <2>2, <3>1 DEF InOrder
  <2>3. CASE n \in DOMAIN s /\ m \notin DOMAIN s
    BY <1>2, <1>4, <2>3 DEF NoFields
  <2> QED BY <2>1, <2>2, <2>3
<1> QED BY <1>1, <1>3, <1>4 DEF InOrder

LEMMA NoneInOrder == ASSUME NEW s, NoFields(s) PROVE InOrder(s)
BY DEF NoFields, InOrder

LEMMA LooseNoFields == ASSUME NEW h, NEW cls, NEW s \in Seq(Loose(h, cls)) PROVE NoFields(s)
<1>1. \A n \in DOMAIN s : s[n] \in Loose(h, cls)
  OBVIOUS
<1> QED BY <1>1 DEF Loose, NoFields, ItemJobs

LEMMA KinNoFields ==
  ASSUME NEW h, NEW cls, NEW kinds, kinds \cap {"const", "static"} = {}, NEW s \in Seq(Kin(h, cls, kinds))
  PROVE  NoFields(s)
<1>1. \A n \in DOMAIN s : s[n] \in Kin(h, cls, kinds)
  OBVIOUS
<1> QED BY <1>1 DEF Kin, Kids, Child, JobFits, NoFields

LEMMA EachBrings ==
  ASSUME NEW h, NEW cls, NEW kinds, NEW s, NEW is, NEW I,
         \A n \in DOMAIN is : n \in DOMAIN s /\ s[n] \in Kin(h, cls, kinds) /\ s[n].i = is[n],
         \A i \in I : Has(is, i)
  PROVE  Brings(s, I)
BY DEF Brings, Kin, Has

LEMMA ConcatKin ==
  ASSUME NEW h, NEW cls, NEW A, NEW B, A \cap B = {},
         NEW s \in Seq(Kin(h, cls, A)), NEW t \in Seq(Kin(h, cls, B)), Once(s), Once(t)
  PROVE  s \o t \in Seq(Kin(h, cls, A \cup B)) /\ Once(s \o t)
<1>1. Kin(h, cls, A) \subseteq Kin(h, cls, A \cup B) /\ Kin(h, cls, B) \subseteq Kin(h, cls, A \cup B)
  BY DEF Kin
<1>2. s \in Seq(Kin(h, cls, A \cup B)) /\ t \in Seq(Kin(h, cls, A \cup B))
  <2>1. PICK K, S, T : K = Kin(h, cls, A \cup B) /\ S = Kin(h, cls, A) /\ T = Kin(h, cls, B)
    OBVIOUS
  <2>2. S \subseteq K /\ T \subseteq K /\ s \in Seq(S) /\ t \in Seq(T)
    BY <1>1, <2>1
  <2>3. s \in Seq(K) /\ t \in Seq(K)
    BY <2>2
  <2> QED BY <2>1, <2>3
<1>3. \A n \in DOMAIN s, m \in DOMAIN t : ~Tied(s[n], t[m])
  <2>1. \A n \in DOMAIN s : s[n] \in Kin(h, cls, A)
    OBVIOUS
  <2>2. \A m \in DOMAIN t : t[m] \in Kin(h, cls, B)
    OBVIOUS
  <2> QED BY <2>1, <2>2 DEF Kin, Tied
<1> QED BY <1>2, <1>3, ConcatOnce

LEMMA KinKids ==
  ASSUME NEW h, NEW cls, NEW A, NEW s \in Seq(Kin(h, cls, A))
  PROVE  s \in Seq(Kids(h, cls))
<1>1. Kin(h, cls, A) \subseteq Kids(h, cls)
  BY DEF Kin
<1> QED BY <1>1

LEMMA ConcatLoose ==
  ASSUME NEW h, NEW cls, NEW s \in Seq(Kids(h, cls)), Once(s), NEW t \in Seq(Loose(h, cls))
  PROVE  /\ s \o t \in Seq(Kids(h, cls)) /\ Once(s \o t)
         /\ t \o s \in Seq(Kids(h, cls)) /\ Once(t \o s)
<1>1. Once(t) /\ t \in Seq(Kids(h, cls))
  BY LooseOnce
<1>2. \A n \in DOMAIN s, m \in DOMAIN t : ~Tied(s[n], t[m]) /\ ~Tied(t[m], s[n])
  <2>1. \A m \in DOMAIN t : t[m] \in Loose(h, cls)
    OBVIOUS
  <2> QED BY <2>1 DEF Loose, Tied
<1> QED BY <1>1, <1>2, ConcatOnce

--------------------------------------------------------------------------------
(* Each action of the walk is such a step. *)

LEMMA NextJob ==
  ASSUME Shape, Walk, NEW do, Working(do)
  PROVE  /\ Top.todo # <<>> /\ ThisJob.do = do /\ ThisJob \in AllJobs
         /\ JobFits(ThisJob, Here) /\ crate \in Crates
<1>1. PICK X : stack \in Seq(Frames(X)) /\ stack # <<>>
  BY DEF Shape
<1>2. Top.todo # <<>> /\ ThisJob.do = do
  BY DEF Working, ThisJob
<1>3. IsNext(ThisJob) /\ ThisJob \in AllJobs
  BY <1>1, <1>2, StackFacts DEF IsNext, Top
<1>4. JobFits(ThisJob, stack[Len(stack)].class)
  BY <1>3, NextFits DEF Walk
<1> QED BY <1>2, <1>3, <1>4 DEF Shape, Here, Top

LEMMA NoneDeclared ==
  ASSUME NEW h, NEW more, h.do \notin ItemJobs \ {"impl"} \/ more = <<>>
  PROVE  Declared(h, <<>>, more)
<1>1. PICK none : none = <<>> /\ DOMAIN none = {}
  OBVIOUS
<1>2. Declared(h, none, more)
  BY <1>1 DEF Declared
<1> QED BY <1>1, <1>2

LEMMA Single1 == ASSUME NEW d PROVE DOMAIN <<d>> = {1} /\ <<d>>[1] = d /\ <<d>> \in Seq({d})
<1>1. DOMAIN <<d>> = {1} /\ <<d>>[1] = d
  OBVIOUS
<1>2. <<d>> \in Seq({d})
  OBVIOUS
<1> QED BY <1>1, <1>2

LEMMA SingleIn ==
  ASSUME NEW A, NEW d \in A
  PROVE  \E s : s = <<d>> /\ DOMAIN s = {1} /\ s[1] = d /\ s \in Seq(A)
<1>1. PICK s : s = <<d>>
  OBVIOUS
<1>2. DOMAIN s = {1} /\ s[1] = d
  BY <1>1
<1>3. s \in Seq(A)
  BY <1>1
<1> QED BY <1>1, <1>2, <1>3

LEMMA Pair ==
  ASSUME NEW d, NEW e
  PROVE  /\ DOMAIN <<d, e>> = 1 .. 2 /\ <<d, e>>[1] = d /\ <<d, e>>[2] = e
         /\ <<d, e>> \in Seq({d, e})
<1>1. DOMAIN <<d, e>> = 1 .. 2 /\ <<d, e>>[1] = d /\ <<d, e>>[2] = e
  OBVIOUS
<1>2. <<d, e>> \in Seq({d, e})
  OBVIOUS
<1> QED BY <1>1, <1>2

LEMMA OneDeclared ==
  ASSUME NEW h, NEW d, NEW more, h.do \in ItemJobs \ {"impl"},
         d.item = h.i, d.what # "slot", OfTraitFn(crate, h.i) => InDefaults(d.at)
  PROVE  Declared(h, <<d>>, more) /\ <<d>> \in Seq({d})
<1>1. PICK ds : ds = <<d>> /\ DOMAIN ds = {1} /\ ds[1] = d /\ ds \in Seq({d})
  BY Single1
<1>2. Own(d)
  BY DEF Own
<1>3. Declared(h, ds, more)
  BY <1>1, <1>2 DEF Declared
<1> QED BY <1>1, <1>3

LEMMA NotOwnDeclared ==
  ASSUME NEW h, NEW d, NEW more, h.do \notin ItemJobs \ {"impl"}, ~Own(d)
  PROVE  Declared(h, <<d>>, more) /\ <<d>> \in Seq({d})
<1>1. PICK ds : ds = <<d>> /\ DOMAIN ds = {1} /\ ds[1] = d /\ ds \in Seq({d})
  BY Single1
<1>2. Declared(h, ds, more)
  BY <1>1 DEF Declared
<1> QED BY <1>1, <1>2

LEMMA TypeDeclared ==
  ASSUME NEW h, NEW ds, NEW more, h.i # 0, crate[h.i].k \notin Single,
         h.do \in (ItemJobs \ {"impl"}) \cup PartJobs \cup {"operators"},
         \A m \in DOMAIN ds : ds[m].item = h.i /\ ds[m].what # "slot",
         h.do \in ItemJobs \ {"impl"} => more = <<>> \/ 1 \in DOMAIN ds
  PROVE  Declared(h, ds, more)
<1>1. \A m \in DOMAIN ds : Own(ds[m])
  BY DEF Own, OfTraitFn, Single
<1> QED BY <1>1 DEF Declared

LEMMA JobFacts ==
  ASSUME NEW i \in Nat, NEW do \in Dos
  PROVE  /\ Job(do, i) \in AllJobs /\ Job(do, i).do = do /\ Job(do, i).i = i
         /\ Job(do, i).impls = <<>> /\ Job(do, i).n = 0
<1>1. PICK none, normal, zero :
        /\ none = <<>> /\ normal = "normal" /\ zero = 0
        /\ none \in Seq(Nat) /\ normal \in Places /\ zero \in Nat
  <2>1. <<>> \in Seq(Nat) /\ "normal" \in Places /\ 0 \in Nat
    BY DEF Places
  <2> QED BY <2>1, Zenon
<1>2. Job(do, i) = [do |-> do, i |-> i, place |-> normal, impls |-> none, impl |-> zero, n |-> zero]
  BY <1>1 DEF Job
<1> QED BY <1>1, <1>2 DEF AllJobs

LEMMA BlankStep == ASSUME Shape, Walk, EmitBlank PROVE Shape' /\ Walk' /\ Made
<1>1. Working("blank") /\ Continue(<<>>) /\ UNCHANGED crate /\ UNCHANGED decls
  BY DEF EmitBlank, Nothing
<1>2. Top.todo # <<>> /\ ThisJob.do = "blank"
  BY <1>1, NextJob
<1>3. Children(ThisJob, <<>>, Here) /\ Declared(ThisJob, <<>>, <<>>)
  BY NoChildren, NoneDeclared
<1>4. <<>> \in Seq({})
  OBVIOUS
<1>5. Makes(ThisJob, <<>>, <<>>)
  BY <1>2, PlainMakes DEF ItemJobs
<1> QED BY <1>1, <1>2, <1>3, <1>4, <1>5, ContinueStep

LEMMA SlotStep == ASSUME Shape, Walk, EmitSlot PROVE Shape' /\ Walk' /\ Made
<1>1. PICK d : /\ Working("slot") /\ Continue(<<>>) /\ UNCHANGED crate
               /\ Declare(<<d>>) /\ d.what = "slot"
  BY DEF EmitSlot, Nothing, Decl
<1>2. Top.todo # <<>> /\ ThisJob.do = "slot"
  BY <1>1, NextJob
<1>3. ~Own(d) /\ ThisJob.do \notin ItemJobs
  BY <1>1, <1>2 DEF Own, ItemJobs
<1>4. Children(ThisJob, <<>>, Here) /\ Declared(ThisJob, <<d>>, <<>>) /\ <<d>> \in Seq({d})
  BY <1>3, NoChildren, NotOwnDeclared
<1>5. Makes(ThisJob, <<>>, <<d>>)
  BY <1>2, PlainMakes DEF ItemJobs
<1> QED BY <1>1, <1>2, <1>4, <1>5, ContinueStep

LEMMA WrapperStep == ASSUME Shape, Walk, EmitWrapper PROVE Shape' /\ Walk' /\ Made
<1>1. PICK d : /\ Working("wrap") /\ Continue(<<>>) /\ UNCHANGED crate
               /\ Declare(<<d>>) /\ d = FnDecl(ThisJob.i, FALSE)
  BY DEF EmitWrapper, Nothing
<1>2. Top.todo # <<>> /\ ThisJob.do = "wrap" /\ JobFits(ThisJob, Here)
  BY <1>1, NextJob
<1>3. ~Own(d) /\ ThisJob.do \notin ItemJobs
  BY <1>1, <1>2 DEF Own, ItemJobs, JobFits, FnDecl, Decl
<1>4. Children(ThisJob, <<>>, Here) /\ Declared(ThisJob, <<d>>, <<>>) /\ <<d>> \in Seq({d})
  BY <1>3, NoChildren, NotOwnDeclared
<1>5. Makes(ThisJob, <<>>, <<d>>)
  BY <1>2, PlainMakes DEF ItemJobs
<1> QED BY <1>1, <1>2, <1>4, <1>5, ContinueStep

LEMMA SelectItems ==
  ASSUME crate \in Crates, NEW S, S \subseteq Items(crate)
  PROVE  /\ Select(crate, S) \in Seq(S) /\ Select(crate, S) \in Seq(Nat)
         /\ OneToOne(Select(crate, S)) /\ \A i \in S : Has(Select(crate, S), i)
<1>1. Len(crate) \in Nat /\ Items(crate) = 1 .. Len(crate)
  BY CrateFacts
<1>2. S \cap (1 .. Len(crate)) = S /\ S \subseteq Nat
  BY <1>1
<1>3. /\ Select(crate, S) \in Seq(S) /\ OneToOne(Select(crate, S))
      /\ \A i \in S : Has(Select(crate, S), i)
  BY <1>1, <1>2, SelectOnce
<1> QED BY <1>2, <1>3

LEMMA DeclFacts ==
  \A what, at, name, sig, i :
    /\ Decl(what, at, name, sig, i).what = what /\ Decl(what, at, name, sig, i).at = at
    /\ Decl(what, at, name, sig, i).item = i
BY DEF Decl

LEMMA InClass ==
  ASSUME Shape, Top.todo # <<>>, NEW name
  PROVE  InDefaults(Append(Here, name)) <=> name = Defaults
<1>1. PICK X : stack \in Seq(Frames(X)) /\ stack # <<>>
  BY DEF Shape
<1>2. Here \in Seq(X)
  BY <1>1, StackFacts
<1>3. PICK here : here = Here /\ here \in Seq(X \cup {name})
  <2>1. X \subseteq X \cup {name}
    OBVIOUS
  <2> QED BY <1>2, <2>1
<1>4. PICK c : c = Append(here, name)
  OBVIOUS
<1>5. c # <<>> /\ c[Len(c)] = name
  BY <1>3, <1>4
<1> QED BY <1>3, <1>4, <1>5 DEF InDefaults

LEMMA LooseJob ==
  ASSUME NEW h, NEW cls, NEW i \in Nat, NEW do, do \in {"slot", "blank"}
  PROVE  Job(do, i) \in Loose(h, cls)
<1>1. do \in Dos /\ do \notin ItemJobs /\ do \notin PartJobs
  BY DEF Dos, ItemJobs, PartJobs
<1>2. Job(do, i) \in AllJobs /\ Job(do, i).do = do
  BY <1>1, JobFacts
<1>3. PICK job : job = Job(do, i)
  OBVIOUS
<1>4. Child(h, job, cls)
  BY <1>1, <1>2, <1>3 DEF Child, JobFits, ItemJobs, PartJobs
<1> QED BY <1>1, <1>2, <1>3, <1>4 DEF Loose, Kids, PartJobs

LEMMA LooseJobs ==
  ASSUME NEW h, NEW cls, NEW is \in Seq(Nat), NEW do, do \in {"slot", "blank"}
  PROVE  Jobs(do, is) \in Seq(Loose(h, cls))
<1>1. PICK K : K = Loose(h, cls)
  OBVIOUS
<1>2. \A n \in DOMAIN is : Job(do, is[n]) \in K
  BY <1>1, LooseJob
<1>3. [n \in DOMAIN is |-> Job(do, is[n])] \in Seq(K)
  BY <1>2
<1> QED BY <1>1, <1>3 DEF Jobs

LEMMA StaticsStep == ASSUME Shape, Walk, EmitStaticsInterface PROVE Shape' /\ Walk' /\ Made
<1>1. PICK more, ds : /\ Working("statics") /\ UNCHANGED crate /\ Declare(ds)
                  /\ ds = <<Decl("class", Here, Statics, <<>>, ThisJob.i)>>
                  /\ more = Jobs("slot", StaticFns(crate, ThisJob.i)) /\ Enter(Statics, more, FALSE)
  BY DEF EmitStaticsInterface, DeclareClass
<1>2. /\ Top.todo # <<>> /\ ThisJob.do = "statics" /\ JobFits(ThisJob, Here) /\ crate \in Crates
  BY <1>1, NextJob
<1>3. ThisJob.i # 0 /\ crate[ThisJob.i].k \notin Single
  BY <1>2, CrateFacts DEF JobFits, Single, PartJobs
<1>4. StaticFns(crate, ThisJob.i) \in Seq(Nat)
  BY <1>2, SelectItems DEF StaticFns
<1>5. PICK cls : cls = Append(Here, Statics)
  OBVIOUS
<1>6. Children(ThisJob, more, cls)
  BY <1>1, <1>4, LooseJobs, LooseOnce, ChildrenOnce
<1>7. PICK d : d = Decl("class", Here, Statics, <<>>, ThisJob.i)
  OBVIOUS
<1>8. DOMAIN ds = {1} /\ ds[1] = d /\ ds \in Seq({d}) /\ d.item = ThisJob.i /\ d.what = "class"
  BY <1>1, <1>7, Single1, DeclFacts
<1>9. Declared(ThisJob, ds, more)
  BY <1>2, <1>3, <1>8, TypeDeclared DEF PartJobs, ItemJobs
<1>10. Makes(ThisJob, more, ds)
  BY <1>2, PlainMakes DEF ItemJobs
<1> QED BY <1>1, <1>2, <1>5, <1>6, <1>8, <1>9, <1>10, EnterStep

LEMMA OperatorsStep == ASSUME Shape, Walk, EmitOperators PROVE Shape' /\ Walk' /\ Made
<1>1. PICK members, ds :
        /\ Working("operators") /\ UNCHANGED crate /\ Continue(<<>>) /\ Declare(ds)
        /\ members = Operators(crate[ThisJob.i])
        /\ ds = [n \in DOMAIN members |->
                   Decl("method", Here, Fixed(members[n][1]), members[n][2], ThisJob.i)]
  BY DEF EmitOperators, Nothing
<1>2. /\ Top.todo # <<>> /\ ThisJob.do = "operators" /\ JobFits(ThisJob, Here) /\ crate \in Crates
  BY <1>1, NextJob
<1>3. ThisJob.i # 0 /\ crate[ThisJob.i].k \notin Single
  BY <1>2, CrateFacts DEF JobFits, Single
<1>4. DOMAIN members = 1 .. Len(members) /\ Len(members) \in Nat
  <2> PICK impl : impl = crate[ThisJob.i]
    OBVIOUS
  <2>1. \E a, b, c, d : members \in {<<>>, <<a>>, <<a, b>>, <<a, b>> \o <<c>>, <<a, b>> \o <<>>, <<a, b, c, d>>}
    BY <1>1, Zenon DEF Operators
  <2> QED BY <2>1
<1>5. PICK E : ds \in Seq(E)
  <2>1. PICK F : F = {Decl("method", Here, Fixed(members[n][1]), members[n][2], ThisJob.i) :
                        n \in DOMAIN members}
    OBVIOUS
  <2>2. ds \in Seq(F)
    BY <1>1, <1>4, <2>1
  <2> QED BY <2>2
<1>6. \A n \in DOMAIN ds : ds[n].item = ThisJob.i /\ ds[n].what # "slot"
  BY <1>1 DEF Decl
<1>7. Children(ThisJob, <<>>, Here)
  BY NoChildren
<1>8. Declared(ThisJob, ds, <<>>)
  BY <1>2, <1>3, <1>6, TypeDeclared
<1>9. Makes(ThisJob, <<>>, ds)
  BY <1>2, PlainMakes DEF ItemJobs
<1> QED BY <1>1, <1>2, <1>5, <1>7, <1>8, <1>9, ContinueStep

LEMMA VariantStep == ASSUME Shape, Walk, EmitVariant PROVE Shape' /\ Walk' /\ Made
<1>a. PICK name : name = VariantName(crate[ThisJob.i].variants[ThisJob.n].name)
  OBVIOUS
<1>b. PICK d1 : d1 = Decl("constructor", Here, StructName(crate[ThisJob.i].name), <<name>>, ThisJob.i)
  OBVIOUS
<1>c. PICK d2 : d2 = Decl("class", Here, name, <<>>, ThisJob.i)
  OBVIOUS
<1>d. PICK job : job = [Job("constructable", ThisJob.i) EXCEPT !.n = ThisJob.n]
  OBVIOUS
<1>e. PICK ds : ds = <<d1, d2>>
  OBVIOUS
<1>1. /\ Working("variant") /\ UNCHANGED crate /\ Declare(ds)
      /\ d1.what = "constructor" /\ d1.item = ThisJob.i /\ d2.what = "class" /\ d2.item = ThisJob.i
      /\ Enter(name, <<job>>, TRUE)
  <2>1. /\ Working("variant") /\ UNCHANGED crate /\ Declare(ds) /\ Enter(name, <<job>>, TRUE)
    BY <1>a, <1>b, <1>c, <1>d, <1>e DEF EmitVariant
  <2>2. d1.what = "constructor" /\ d1.item = ThisJob.i
    BY <1>b, DeclFacts
  <2>3. d2.what = "class" /\ d2.item = ThisJob.i
    BY <1>c, DeclFacts
  <2> QED BY <2>1, <2>2, <2>3
<1>2. /\ Top.todo # <<>> /\ ThisJob.do = "variant" /\ JobFits(ThisJob, Here) /\ crate \in Crates
      /\ ThisJob \in AllJobs
  BY <1>1, NextJob
<1>3. /\ ThisJob.i # 0 /\ crate[ThisJob.i].k \notin Single /\ IsAdt(crate, ThisJob.i)
      /\ ThisJob.i \in Items(crate)
      /\ ThisJob.n \in DOMAIN crate[ThisJob.i].variants
  BY <1>2, CrateFacts DEF JobFits, Single, IsAdt, PartJobs
<1>4. ThisJob.i \in Nat /\ ThisJob.n \in Nat
  BY <1>2 DEF AllJobs
<1>5. /\ job \in AllJobs /\ job.do = "constructable" /\ job.i = ThisJob.i /\ job.n = ThisJob.n
  <2>1. PICK none, zero, normal, con : /\ none = <<>> /\ zero = 0 /\ normal = "normal" /\ con = "constructable"
          /\ none \in Seq(Nat) /\ zero \in Nat /\ normal \in Places /\ con \in Dos
    <3>1. <<>> \in Seq(Nat) /\ "normal" \in Places /\ 0 \in Nat /\ "constructable" \in Dos
      BY DEF Places, Dos, PartJobs
    <3> QED BY <3>1, Zenon
  <2>2. job = [do |-> con, i |-> ThisJob.i, place |-> normal, impls |-> none, impl |-> zero, n |-> ThisJob.n]
    BY <1>d, <2>1 DEF Job
  <2> QED BY <1>4, <2>1, <2>2 DEF AllJobs
<1>6. PICK cls : cls = Append(Here, name)
  OBVIOUS
<1>7. job \in Loose(ThisJob, cls)
  <2>1. Child(ThisJob, job, cls)
    BY <1>2, <1>3, <1>5 DEF Child, JobFits, ItemJobs, PartJobs
  <2> QED BY <1>5, <2>1 DEF Loose, Kids, ItemJobs
<1>8. PICK more : more = <<job>> /\ more \in Seq(Loose(ThisJob, cls))
  <2>1. <<job>> \in Seq({job}) /\ {job} \subseteq Loose(ThisJob, cls)
    BY <1>7, Single1
  <2>2. <<job>> \in Seq(Loose(ThisJob, cls))
    BY <2>1
  <2> QED BY <2>2
<1>9. Children(ThisJob, more, cls)
  BY <1>8, LooseOnce, ChildrenOnce
<1>10. DOMAIN ds = 1 .. 2 /\ ds[1] = d1 /\ ds[2] = d2 /\ ds \in Seq({d1, d2})
  BY <1>e, Pair
<1>11. \A n \in DOMAIN ds : ds[n].item = ThisJob.i /\ ds[n].what # "slot"
  BY <1>1, <1>10
<1>12. Declared(ThisJob, ds, more)
  BY <1>2, <1>3, <1>11, TypeDeclared DEF ItemJobs, PartJobs
<1>13. Makes(ThisJob, more, ds)
  BY <1>2, PlainMakes DEF ItemJobs
<1> QED BY <1>1, <1>2, <1>6, <1>8, <1>9, <1>10, <1>12, <1>13, EnterStep

LEMMA ConstructableStep == ASSUME Shape, Walk, EmitConstructable PROVE Shape' /\ Walk' /\ Made
<1>a. PICK def : def = IF ThisJob.n = 0 THEN crate[ThisJob.i] ELSE crate[ThisJob.i].variants[ThisJob.n]
  OBVIOUS
<1>b. PICK fields : fields = [n \in DOMAIN def.fields |->
                              Decl("field", Here, FieldName(def.fields[n]), <<>>, ThisJob.i)]
  OBVIOUS
<1>c. PICK d0 : d0 = Decl("method", Here, Fixed("ctor"), def.fields, ThisJob.i)
  OBVIOUS
<1>d. PICK d1 : d1 = Decl("constructor", Here, Here[Len(Here)], <<>>, ThisJob.i)
  OBVIOUS
<1>e. PICK d2 : d2 = Decl("field", Here, Fixed("instance"), <<>>, ThisJob.i)
  OBVIOUS
<1>1. /\ Working("constructable") /\ UNCHANGED crate /\ Continue(<<>>)
      /\ Declare(fields) \/ Declare(Append(fields, d0)) \/ Declare(fields \o <<d1, d2>>)
  BY <1>a, <1>b, <1>c, <1>d, <1>e DEF EmitConstructable, Nothing
<1>2. /\ Top.todo # <<>> /\ ThisJob.do = "constructable" /\ JobFits(ThisJob, Here) /\ crate \in Crates
  BY <1>1, NextJob
<1>3. /\ ThisJob.i # 0 /\ crate[ThisJob.i].k \notin Single /\ ThisJob.i \in Items(crate)
      /\ ThisJob.n \in {0} \cup DOMAIN crate[ThisJob.i].variants
  BY <1>2, CrateFacts DEF JobFits, Single, IsAdt, PartJobs
<1>4. IsList(def.fields)
  BY <1>a, <1>2, <1>3, CrateFacts
<1> DEFINE D == {d \in {d0, d1, d2} \cup {fields[n] : n \in DOMAIN fields} :
                   d.item = ThisJob.i /\ d.what # "slot"}
<1>5. d0 \in D /\ d1 \in D /\ d2 \in D /\ \A n \in DOMAIN fields : fields[n] \in D
  <2>1. /\ d0.item = ThisJob.i /\ d0.what = "method"
        /\ d1.item = ThisJob.i /\ d1.what = "constructor"
        /\ d2.item = ThisJob.i /\ d2.what = "field"
    BY <1>c, <1>d, <1>e, DeclFacts
  <2>2. \A n \in DOMAIN fields : fields[n].item = ThisJob.i /\ fields[n].what = "field"
    BY <1>b, DeclFacts
  <2> QED BY <2>1, <2>2
<1>6. \A d \in D : d.item = ThisJob.i /\ d.what # "slot"
  OBVIOUS
<1> HIDE DEF D
<1>7. fields \in Seq(D)
  <2>1. fields = [n \in 1 .. Len(def.fields) |-> fields[n]] /\ Len(def.fields) \in Nat
    BY <1>b, <1>4 DEF IsList
  <2>2. DOMAIN fields = 1 .. Len(def.fields)
    BY <1>b, <1>4 DEF IsList
  <2> QED BY <1>5, <2>1, <2>2
<1>8. Append(fields, d0) \in Seq(D) /\ fields \o <<d1, d2>> \in Seq(D)
  <2>1. <<d1, d2>> \in Seq(D)
    <3>1. <<d1, d2>> \in Seq({d1, d2}) /\ {d1, d2} \subseteq D
      BY <1>5, Pair
    <3> QED BY <3>1
  <2>2. PICK t \in Seq(D) : t = <<d1, d2>>
    BY <2>1
  <2> QED BY <1>5, <1>7, <2>2
<1>9. PICK ds \in Seq(D) : Declare(ds)
  BY <1>1, <1>7, <1>8
<1>10. \A n \in DOMAIN ds : ds[n].item = ThisJob.i /\ ds[n].what # "slot"
  BY <1>6
<1>11. Children(ThisJob, <<>>, Here) /\ Declared(ThisJob, ds, <<>>)
  BY <1>2, <1>3, <1>10, NoChildren, TypeDeclared DEF PartJobs
<1>12. Makes(ThisJob, <<>>, ds)
  BY <1>2, PlainMakes DEF ItemJobs
<1> QED BY <1>1, <1>2, <1>9, <1>11, <1>12, ContinueStep

\* Jobs for the functions of a trait with a default body.
LEMMA DefaultsStep == ASSUME Shape, Walk, EmitDefaults PROVE Shape' /\ Walk' /\ Made
<1>a. PICK t : t = ThisJob.i
  OBVIOUS
<1>b. PICK S : S = {f \in Items(crate) : crate[f].k = "fn" /\ crate[f].in = t /\ crate[f].body}
  OBVIOUS
<1>c. PICK is : is = Select(crate, S)
  OBVIOUS
<1>d. PICK more : more = [n \in DOMAIN is |-> Place(Job("fn", is[n]), "default")]
  OBVIOUS
<1>e. PICK d : d = Decl("class", Here, Defaults, <<>>, t)
  OBVIOUS
<1>f. PICK ds : ds = <<d>>
  OBVIOUS
<1>1. Working("defaults") /\ UNCHANGED crate /\ Declare(ds) /\ Enter(Defaults, more, FALSE)
  BY <1>a, <1>b, <1>c, <1>d, <1>e, <1>f DEF EmitDefaults, DeclareClass
<1>2. Top.todo # <<>> /\ ThisJob.do = "defaults" /\ JobFits(ThisJob, Here) /\ crate \in Crates
  BY <1>1, NextJob
<1>3. t \in Items(crate) /\ t # 0 /\ crate[t].k = "trait" /\ crate[t].k \notin Single
  BY <1>a, <1>2, CrateFacts DEF JobFits, Single, PartJobs
<1>4. is \in Seq(S) /\ OneToOne(is) /\ \A i \in S : Has(is, i)
  BY <1>2, <1>b, <1>c, SelectItems
<1>5. PICK cls : cls = Append(Here, Defaults)
  OBVIOUS
<1>6. InDefaults(cls)
  BY <1>2, <1>5, InClass
<1>7. ASSUME NEW n \in DOMAIN is
      PROVE  more[n] \in Kin(ThisJob, cls, {"fn"}) /\ more[n].i = is[n]
  <2>1. is[n] \in S
    BY <1>4
  <2>2. PICK i : /\ i = is[n] /\ i \in Items(crate) /\ crate[i].k = "fn" /\ crate[i].in = t /\ i \in Nat
                 /\ crate[i].body
    BY <2>1, <1>b, <1>2, CrateFacts
  <2>3. PICK job : job = Place(Job("fn", i), "default")
    OBVIOUS
  <2>4. job \in AllJobs /\ job.do = "fn" /\ job.i = i
    <3>1. "fn" \in Dos /\ "default" \in Places
      BY DEF Dos, ItemJobs, Places
    <3> QED BY <2>2, <2>3, <3>1, JobFacts DEF Place, AllJobs
  <2>5. Child(ThisJob, job, cls)
    BY <1>2, <1>6, <1>a, <2>2, <2>4 DEF Child, JobFits, ItemJobs, PartJobs, Home, OfTraitFn
  <2> QED BY <1>d, <2>2, <2>3, <2>4, <2>5 DEF Kin, Kids, ItemJobs
<1>8. more \in Seq(Kin(ThisJob, cls, {"fn"})) /\ Once(more)
  <2>1. more = [n \in DOMAIN is |-> more[n]]
    BY <1>d
  <2> QED BY <2>1, <1>4, <1>7, EachOnce
<1>9. Children(ThisJob, more, cls)
  BY <1>8, KinKids, ChildrenOnce
<1>10. DOMAIN ds = {1} /\ ds[1] = d /\ ds \in Seq({d}) /\ d.item = t /\ d.what = "class"
  BY <1>e, <1>f, Single1, DeclFacts
<1>11. Declared(ThisJob, ds, more)
  BY <1>a, <1>2, <1>3, <1>10, TypeDeclared DEF PartJobs, ItemJobs
<1>12. Makes(ThisJob, more, ds)
  <2>1. Found(ThisJob) = S
    BY <1>a, <1>b, <1>2 DEF Found
  <2>2. DOMAIN more = DOMAIN is
    BY <1>d
  <2>3. Brings(more, S)
    <3>1. \A n \in DOMAIN is : /\ n \in DOMAIN more /\ more[n].do \in ItemJobs
                              /\ more[n].i = is[n]
      BY <1>7, <2>2 DEF Kin
    <3> QED BY <1>4, <3>1 DEF Brings, Has
  <2>4. Goes(ThisJob)
    BY <1>2 DEF Goes
  <2> QED BY <1>2, <2>1, <2>3, <2>4 DEF Makes, ItemJobs
<1> QED BY <1>1, <1>2, <1>5, <1>9, <1>10, <1>11, <1>12, EnterStep

LEMMA TraitStep == ASSUME Shape, Walk, EmitTrait PROVE Shape' /\ Walk' /\ Made
<1>a. PICK t : t = ThisJob.i
  OBVIOUS
<1>b. PICK S : S = {i \in Items(crate) :
                 /\ crate[i].in = t /\ crate[i].k \in {"fn", "const"} /\ crate[i].name # <<>>
                 /\ crate[i].k = "fn" => crate[i].self}
  OBVIOUS
<1>c. PICK slots : slots = Jobs("slot", Select(crate, S))
  OBVIOUS
<1>d. PICK statics : statics = IF NeedsStatics(crate, t) THEN <<Job("statics", t)>> ELSE <<>>
  OBVIOUS
<1>e. PICK defaults : defaults = <<Job("defaults", t)>>
  OBVIOUS
<1>f. PICK more : more = slots \o statics \o defaults
  OBVIOUS
<1>g. PICK name : name = TraitName(crate[t].name)
  OBVIOUS
<1>h. PICK d : d = Decl("class", Here, name, <<>>, t)
  OBVIOUS
<1>i. PICK ds : ds = <<d>>
  OBVIOUS
<1>1. Working("trait") /\ UNCHANGED crate /\ Declare(ds) /\ Enter(name, more, TRUE)
  BY <1>a, <1>b, <1>c, <1>d, <1>e, <1>f, <1>g, <1>h, <1>i DEF EmitTrait, DeclareClass
<1>2. /\ Top.todo # <<>> /\ ThisJob.do = "trait" /\ JobFits(ThisJob, Here) /\ crate \in Crates
  BY <1>1, NextJob
<1>3. t \in Items(crate) /\ t # 0 /\ t \in Nat /\ crate[t].k = "trait" /\ crate[t].k \notin Single
  BY <1>a, <1>2, CrateFacts DEF JobFits, Single, PartJobs, ItemJobs
<1>4. PICK cls : cls = Append(Here, name)
  OBVIOUS
<1>5. slots \in Seq(Loose(ThisJob, cls))
  <2>1. Select(crate, S) \in Seq(Nat)
    BY <1>b, <1>2, SelectItems
  <2> QED BY <1>c, <2>1, LooseJobs
<1>6. statics \in Seq(Loose(ThisJob, cls))
  <2>1. PICK job : job = Job("statics", t)
    OBVIOUS
  <2>2. job \in AllJobs /\ job.do = "statics" /\ job.i = t
    BY <2>1, <1>3, JobFacts DEF Dos, PartJobs
  <2>3. Child(ThisJob, job, cls)
    BY <1>a, <1>2, <1>3, <2>2 DEF Child, JobFits, ItemJobs, PartJobs
  <2>4. {job} \subseteq Loose(ThisJob, cls)
    BY <2>2, <2>3 DEF Loose, Kids, ItemJobs
  <2>5. <<job>> \in Seq({job})
    BY Single1
  <2>6. <<job>> \in Seq(Loose(ThisJob, cls)) /\ <<>> \in Seq(Loose(ThisJob, cls))
    BY <2>4, <2>5
  <2> QED BY <1>d, <2>1, <2>6
<1>7. defaults \in Seq(Kids(ThisJob, cls)) /\ Once(defaults)
  <2>1. PICK job : job = Job("defaults", t)
    OBVIOUS
  <2>2. job \in AllJobs /\ job.do = "defaults" /\ job.i = t
    BY <2>1, <1>3, JobFacts DEF Dos, PartJobs
  <2>3. Child(ThisJob, job, cls)
    BY <1>a, <1>2, <1>3, <2>2 DEF Child, JobFits, ItemJobs, PartJobs
  <2>4. {job} \subseteq Kids(ThisJob, cls)
    BY <2>2, <2>3 DEF Kids
  <2>5. <<job>> \in Seq({job}) /\ DOMAIN <<job>> = {1}
    BY Single1
  <2>6. <<job>> \in Seq(Kids(ThisJob, cls))
    BY <2>4, <2>5
  <2> QED BY <1>e, <2>1, <2>5, <2>6 DEF Once
<1>8. PICK loose : loose = slots \o statics /\ loose \in Seq(Loose(ThisJob, cls))
  <2>1. PICK K : K = Loose(ThisJob, cls)
    OBVIOUS
  <2>2. slots \o statics \in Seq(K)
    BY <1>5, <1>6, <2>1
  <2> QED BY <2>1, <2>2
<1>9. Children(ThisJob, more, cls)
  <2>1. more = loose \o defaults
    BY <1>f, <1>8
  <2> QED BY <1>7, <1>8, <2>1, ConcatLoose, ChildrenOnce
<1>10. DOMAIN ds = {1} /\ ds[1] = d /\ ds \in Seq({d}) /\ d.item = t /\ d.what = "class"
  BY <1>h, <1>i, Single1, DeclFacts
<1>11. Declared(ThisJob, ds, more)
  BY <1>a, <1>2, <1>3, <1>10, TypeDeclared DEF PartJobs, ItemJobs
<1>12. Makes(ThisJob, more, ds)
  <2>1. Found(ThisJob) = {} /\ Goes(ThisJob)
    BY <1>2 DEF Found, Goes
  <2>2. Declares(ds)
    BY <1>3, <1>10 DEF Declares, Own, OfTraitFn
  <2>3. \E n \in DOMAIN more : more[n].do = "defaults"
    <3>1. PICK job : job = Job("defaults", t) /\ job.do = "defaults"
      BY JobFacts, <1>3 DEF Dos, PartJobs
    <3>2. more = Append(loose, job)
      <4>1. PICK K : K = Loose(ThisJob, cls) \cup {job}
        OBVIOUS
      <4>2. loose \in Seq(K) /\ job \in K
        BY <1>8, <4>1
      <4>3. Append(loose, job) = loose \o <<job>>
        BY <4>2
      <4> QED BY <1>e, <1>f, <1>8, <3>1, <4>3
    <3>3. Has(more, job)
      BY <1>8, <3>2, AppendHas
    <3> QED BY <3>1, <3>3 DEF Has
  <2> QED BY <1>2, <2>1, <2>2, <2>3 DEF Makes, Brings
<1> QED BY <1>1, <1>2, <1>4, <1>9, <1>10, <1>11, <1>12, EnterStep

\* The blocks of a body, each once.
LEMMA DeferredJobsOnce ==
  ASSUME crate \in Crates, NEW h, NEW cls, NEW owner \in Nat, h.do \in {"fn", "field", "block"},
         h.i \in Items(crate), owner = IF h.do = "block" THEN h.n ELSE h.i
  PROVE  /\ DeferredJobs(crate, owner, h.i) \in Seq(Kin(h, cls, {"block"}))
         /\ Once(DeferredJobs(crate, owner, h.i))
         /\ Brings(DeferredJobs(crate, owner, h.i),
                   {i \in Items(crate) : crate[i].in = h.i /\ HoldsDeferred(i, owner)})
<1>a. PICK S : S = BlocksBelow(crate, owner, h.i)
  OBVIOUS
<1>b. PICK is : is = DeferredBlocks(crate, owner, h.i)
  OBVIOUS
<1>c. PICK more : more = [n \in DOMAIN is |-> BlockJob(owner, is[n])]
  OBVIOUS
<1>1. DeferredJobs(crate, owner, h.i) = more
  BY <1>b, <1>c DEF DeferredJobs
<1>2. is \in Seq(S) /\ OneToOne(is) /\ \A i \in S : Has(is, i)
  BY <1>a, <1>b, CrateFacts, BodyFacts, DeferredBlocksOnce
<1>3. ASSUME NEW n \in DOMAIN is
      PROVE  more[n] \in Kin(h, cls, {"block"}) /\ more[n].i = is[n]
  <2>1. is[n] \in S
    BY <1>2
  <2>2. PICK i : i = is[n] /\ i \in Items(crate) /\ crate[i].k = "block" /\ crate[i].in = h.i /\ i \in Nat
    BY <2>1, <1>a, CrateFacts DEF BlocksBelow
  <2>3. PICK job : job = BlockJob(owner, i)
    OBVIOUS
  <2>4. job \in AllJobs /\ job.do = "block" /\ job.i = i /\ job.n = owner
    <3>1. "block" \in Dos
      BY DEF Dos, ItemJobs
    <3> QED BY <2>2, <2>3, <3>1, JobFacts DEF BlockJob, AllJobs
  <2>5. Child(h, job, cls)
    BY <2>2, <2>4 DEF Child, JobFits, ItemJobs, PartJobs, Home
  <2> QED BY <1>c, <2>2, <2>3, <2>4, <2>5 DEF Kin, Kids, ItemJobs
<1>4. more = [n \in DOMAIN is |-> more[n]]
  BY <1>c
<1>5. more \in Seq(Kin(h, cls, {"block"})) /\ Once(more)
  BY <1>2, <1>3, <1>4, EachOnce
<1>6. Brings(more, {i \in Items(crate) : crate[i].in = h.i /\ HoldsDeferred(i, owner)})
  <2>1. {i \in Items(crate) : crate[i].in = h.i /\ HoldsDeferred(i, owner)} = S
    BY <1>a DEF HoldsDeferred, BlocksBelow
  <2>2. DOMAIN more = DOMAIN is
    BY <1>c
  <2>3. Brings(more, S)
    BY <1>2, <1>3, <2>2, EachBrings
  <2> QED BY <2>1, <2>3
<1> QED BY <1>1, <1>5, <1>6

LEMMA FunctionStep == ASSUME Shape, Walk, EmitFunction PROVE Shape' /\ Walk' /\ Made
<1>a. PICK f : f = ThisJob.i
  OBVIOUS
<1>b. PICK d : d = FnDecl(f, ThisJob.place = "default" /\ crate[f].self)
  OBVIOUS
<1>c. PICK deferred : deferred = DeferredJobs(crate, f, f)
  OBVIOUS
<1>d. PICK blank : blank = <<Job("blank", f)>>
  OBVIOUS
<1>1. /\ Working("fn") /\ UNCHANGED crate
      /\ \/ ~ShouldEmit(crate, f) /\ Continue(<<>>) /\ UNCHANGED decls
         \/ /\ ShouldEmit(crate, f) /\ IsR2csNative(crate, f)
            /\ Continue(<<>>) /\ Declare(<<d>>)
         \/ /\ ShouldEmit(crate, f) /\ ~IsR2csNative(crate, f)
            /\ Continue(deferred \o blank) /\ Declare(<<d>>)
  BY <1>a, <1>b, <1>c, <1>d DEF EmitFunction, Nothing
<1>2. /\ Top.todo # <<>> /\ ThisJob.do = "fn" /\ JobFits(ThisJob, Here) /\ crate \in Crates
  BY <1>1, NextJob
<1>3. f \in Items(crate) /\ f \in Nat /\ (OfTraitFn(crate, f) => InDefaults(Here))
  BY <1>a, <1>2, CrateFacts DEF JobFits, ItemJobs, PartJobs
<1>4. d.item = f /\ d.what = "method" /\ d.at = Here
  BY <1>b, DeclFacts DEF FnDecl
<1> DEFINE Blocks == {i \in Items(crate) : crate[i].in = f /\ HoldsDeferred(i, f)}
<1>5. deferred \in Seq(Kids(ThisJob, Here)) /\ Once(deferred) /\ Brings(deferred, Blocks)
  <2>1. deferred \in Seq(Kin(ThisJob, Here, {"block"})) /\ Once(deferred) /\ Brings(deferred, Blocks)
    BY <1>a, <1>c, <1>2, <1>3, DeferredJobsOnce
  <2> HIDE DEF Blocks
  <2> QED BY <2>1, KinKids
<1>6. blank \in Seq(Loose(ThisJob, Here))
  <2>1. PICK job : job = Job("blank", f)
    OBVIOUS
  <2>2. <<job>> \in Seq({job}) /\ {job} \subseteq Loose(ThisJob, Here)
    BY <1>3, <2>1, LooseJob, Single1
  <2> QED BY <1>d, <2>1, <2>2
<1>7. PICK more : more = deferred \o blank
  OBVIOUS
<1>8. Children(ThisJob, more, Here) /\ Children(ThisJob, <<>>, Here)
  BY <1>5, <1>6, <1>7, ConcatLoose, ChildrenOnce, NoChildren
<1>9. \A jobs : Declared(ThisJob, <<d>>, jobs) /\ <<d>> \in Seq({d})
  BY <1>a, <1>2, <1>3, <1>4, OneDeclared DEF ItemJobs
<1>10. Declared(ThisJob, <<>>, <<>>) /\ <<>> \in Seq({d})
  BY NoneDeclared
<1>11. CASE ~ShouldEmit(crate, f) /\ Continue(<<>>) /\ UNCHANGED decls
  <2>1. PICK none : none = <<>> /\ DOMAIN none = {}
    OBVIOUS
  <2>2. Makes(ThisJob, none, none)
    BY <1>a, <1>2, <1>11, <2>1 DEF Makes, Goes, Declares, ItemJobs
  <2> QED BY <1>1, <1>2, <1>8, <1>10, <1>11, <2>1, <2>2, ContinueStep
<1> PICK ds : ds = <<d>>
  OBVIOUS
<1>14. Declares(ds)
  <2>1. DOMAIN ds = {1} /\ ds[1] = d
    BY Single1
  <2>2. Own(d)
    BY <1>3, <1>4 DEF Own
  <2> QED BY <2>1, <2>2 DEF Declares
<1>12. CASE /\ ShouldEmit(crate, f) /\ IsR2csNative(crate, f)
            /\ Continue(<<>>) /\ Declare(<<d>>)
  <2>1. PICK none : none = <<>>
    OBVIOUS
  <2>2. Makes(ThisJob, none, ds)
    BY <1>a, <1>2, <1>12, <1>14, <2>1 DEF Makes, Goes
  <2> QED BY <1>1, <1>2, <1>8, <1>9, <1>12, <2>1, <2>2, ContinueStep
<1>13. CASE /\ ShouldEmit(crate, f) /\ ~IsR2csNative(crate, f)
            /\ Continue(more) /\ Declare(<<d>>)
  <2>1. Goes(ThisJob)
    BY <1>a, <1>2, <1>13 DEF Goes
  <2>2. Found(ThisJob) = Blocks
    BY <1>a, <1>2 DEF Found
  <2>3. Brings(more, Blocks)
    <3>1. PICK K : K = Kids(ThisJob, Here)
      OBVIOUS
    <3>2. deferred \in Seq(K) /\ blank \in Seq(K)
      BY <1>5, <1>6, <3>1, LooseOnce
    <3> HIDE DEF Blocks
    <3> QED BY <1>5, <1>7, <3>2, ConcatBrings
  <2> HIDE DEF Blocks
  <2>4. Makes(ThisJob, more, ds)
    BY <1>a, <1>2, <1>13, <1>14, <2>1, <2>2, <2>3 DEF Makes
  <2> QED BY <1>1, <1>2, <1>8, <1>9, <1>13, <2>4, ContinueStep
<1> QED BY <1>1, <1>7, <1>11, <1>12, <1>13

LEMMA FieldStep == ASSUME Shape, Walk, EmitField PROVE Shape' /\ Walk' /\ Made
<1>a. PICK i : i = ThisJob.i
  OBVIOUS
<1>b. PICK name : name = IF crate[i].k = "const" THEN ConstName(crate[i].name) ELSE StaticName(crate[i].name)
  OBVIOUS
<1>c. PICK d : d = Decl("field", Here, name, <<>>, i)
  OBVIOUS
<1>d. PICK more : more = DeferredJobs(crate, i, i)
  OBVIOUS
<1>1. /\ Working("field") /\ UNCHANGED crate
      /\ \/ crate[i].name = <<>> /\ Continue(<<>>) /\ UNCHANGED decls
         \/ crate[i].name # <<>> /\ Continue(more) /\ Declare(<<d>>)
  BY <1>a, <1>b, <1>c, <1>d DEF EmitField, Nothing
<1>2. /\ Top.todo # <<>> /\ ThisJob.do = "field" /\ JobFits(ThisJob, Here) /\ crate \in Crates
  BY <1>1, NextJob
<1>3. i \in Items(crate) /\ i \in Nat /\ ~OfTraitFn(crate, i)
  BY <1>a, <1>2, CrateFacts DEF JobFits, ItemJobs, PartJobs, OfTraitFn
<1>4. d.item = i /\ d.what = "field"
  BY <1>c, DeclFacts
<1> DEFINE Blocks == {j \in Items(crate) : crate[j].in = i /\ HoldsDeferred(j, i)}
<1>5. more \in Seq(Kids(ThisJob, Here)) /\ Once(more) /\ Brings(more, Blocks)
  <2>1. more \in Seq(Kin(ThisJob, Here, {"block"})) /\ Once(more) /\ Brings(more, Blocks)
    BY <1>a, <1>d, <1>2, <1>3, DeferredJobsOnce
  <2> HIDE DEF Blocks
  <2> QED BY <2>1, KinKids
<1>6. Children(ThisJob, more, Here) /\ Children(ThisJob, <<>>, Here)
  BY <1>5, ChildrenOnce, NoChildren
<1>7. Declared(ThisJob, <<d>>, more) /\ <<d>> \in Seq({d})
  BY <1>a, <1>2, <1>3, <1>4, OneDeclared DEF ItemJobs
<1>8. Declared(ThisJob, <<>>, <<>>) /\ <<>> \in Seq({d})
  BY NoneDeclared
<1>9. CASE crate[i].name = <<>> /\ Continue(<<>>) /\ UNCHANGED decls
  <2>1. PICK none : none = <<>> /\ DOMAIN none = {}
    OBVIOUS
  <2>2. Makes(ThisJob, none, none)
    BY <1>a, <1>2, <1>9, <2>1 DEF Makes, Goes, Declares
  <2> QED BY <1>1, <1>2, <1>6, <1>8, <1>9, <2>1, <2>2, ContinueStep
<1>10. CASE crate[i].name # <<>> /\ Continue(more) /\ Declare(<<d>>)
  <2>1. Goes(ThisJob)
    BY <1>a, <1>2, <1>10 DEF Goes
  <2>2. Found(ThisJob) = Blocks
    BY <1>a, <1>2 DEF Found
  <2>3. PICK ds : ds = <<d>> /\ DOMAIN ds = {1} /\ ds[1] = d
    BY Single1
  <2>4. Declares(ds)
    BY <1>3, <1>4, <2>3 DEF Declares, Own
  <2> HIDE DEF Blocks
  <2>5. Makes(ThisJob, more, ds)
    BY <1>2, <1>5, <2>1, <2>2, <2>4 DEF Makes
  <2> QED BY <1>1, <1>2, <1>6, <1>7, <1>10, <2>3, <2>5, ContinueStep
<1> QED BY <1>1, <1>9, <1>10

LEMMA WrapFacts ==
  ASSUME NEW f \in Nat, NEW impl \in Nat, NEW place \in Places
  PROVE  WrapJob(f, impl, place) \in AllJobs
         /\ WrapJob(f, impl, place).do = "wrap" /\ WrapJob(f, impl, place).i = f
<1>1. "wrap" \in Dos
  BY DEF Dos
<1>2. PICK job : job = Job("wrap", f)
  OBVIOUS
<1>3. job \in AllJobs /\ job.do = "wrap" /\ job.i = f
  BY <1>1, <1>2, JobFacts
<1>4. WrapJob(f, impl, place) = [[job EXCEPT !.impl = impl] EXCEPT !.place = place]
  BY <1>2, <1>3 DEF WrapJob, AllJobs
<1>5. PICK job2 : job2 = [job EXCEPT !.impl = impl]
  OBVIOUS
<1>6. job2 \in AllJobs /\ job2.do = "wrap" /\ job2.i = f
  BY <1>3, <1>5 DEF AllJobs
<1>7. [job2 EXCEPT !.place = place] \in AllJobs
  BY <1>6 DEF AllJobs
<1> QED BY <1>4, <1>5, <1>6, <1>7 DEF AllJobs

\* Jobs for wrappers of a trait's functions.
LEMMA Wraps ==
  ASSUME crate \in Crates, NEW h, NEW cls, ~InDefaults(cls), NEW t \in Items(crate),
         crate[t].k = "trait", NEW S, NEW is \in Seq(S), NEW impl \in Nat, NEW place \in Places,
         S \subseteq {f \in Items(crate) : crate[f].k = "fn" /\ crate[f].in = t},
         NEW more, more = [n \in DOMAIN is |-> more[n]],
         \A n \in DOMAIN is : more[n] = WrapJob(is[n], impl, place)
  PROVE  more \in Seq(Loose(h, cls))
<1>1. PICK K : K = Loose(h, cls)
  OBVIOUS
<1>2. ASSUME NEW n \in DOMAIN is PROVE WrapJob(is[n], impl, place) \in K
  <2>1. is[n] \in S
    OBVIOUS
  <2>2. PICK f : f = is[n] /\ f \in Items(crate) /\ crate[f].k = "fn" /\ crate[f].in = t /\ f \in Nat /\ f # 0
    BY <2>1, CrateFacts
  <2>3. PICK job : job = WrapJob(f, impl, place) /\ job \in AllJobs /\ job.do = "wrap" /\ job.i = f
    <3>1. PICK job : job = WrapJob(f, impl, place)
      OBVIOUS
    <3>2. job \in AllJobs /\ job.do = "wrap" /\ job.i = f
      BY <2>2, <3>1, WrapFacts
    <3> QED BY <3>1, <3>2
  <2>4. OfTraitFn(crate, f)
    BY <2>2, CrateFacts DEF OfTraitFn
  <2>5. Child(h, job, cls)
    BY <2>2, <2>3, <2>4 DEF Child, JobFits, ItemJobs, PartJobs
  <2> QED BY <1>1, <2>2, <2>3, <2>5 DEF Loose, Kids, ItemJobs
<1>3. [n \in DOMAIN is |-> more[n]] \in Seq(K)
  BY <1>2
<1> QED BY <1>1, <1>3

LEMMA StaticsStructStep == ASSUME Shape, Walk, EmitStaticsStruct PROVE Shape' /\ Walk' /\ Made
<1>a. PICK j : j = ThisJob.i
  OBVIOUS
<1>b. PICK t : t = crate[j].of
  OBVIOUS
<1>c. PICK is : is = StaticFns(crate, t)
  OBVIOUS
<1>d. PICK more : more = [n \in DOMAIN is |-> WrapJob(is[n], j, "statics")]
  OBVIOUS
<1>1. Working("wrappers") /\ UNCHANGED crate /\ UNCHANGED decls /\ Enter(Statics, more, FALSE)
  BY <1>a, <1>b, <1>c, <1>d DEF EmitStaticsStruct
<1>2. /\ Top.todo # <<>> /\ ThisJob.do = "wrappers" /\ JobFits(ThisJob, Here) /\ crate \in Crates
  BY <1>1, NextJob
<1>3. j \in Items(crate) /\ j \in Nat /\ t \in Items(crate) /\ crate[t].k = "trait"
  BY <1>a, <1>b, <1>2, CrateFacts DEF JobFits
<1>4. PICK S : /\ S = {f \in Items(crate) : crate[f].k = "fn" /\ crate[f].in = t /\ ~crate[f].self /\ ~crate[f].sized}
               /\ is = Select(crate, S)
  BY <1>c DEF StaticFns
<1>5. is \in Seq(S)
  BY <1>2, <1>4, SelectItems
<1>6. PICK cls : cls = Append(Here, Statics)
  OBVIOUS
<1>7. ~InDefaults(cls)
  <2>1. Statics # Defaults
    BY DEF Statics, Defaults, Fixed
  <2> QED BY <1>2, <1>6, <2>1, InClass
<1>8. more \in Seq(Loose(ThisJob, cls))
  <2>1. S \subseteq {f \in Items(crate) : crate[f].k = "fn" /\ crate[f].in = t}
    BY <1>4
  <2>2. "statics" \in Places
    BY DEF Places
  <2>3. /\ more = [n \in DOMAIN is |-> more[n]]
        /\ \A n \in DOMAIN is : more[n] = WrapJob(is[n], j, "statics")
    BY <1>d
  <2> QED BY <1>2, <1>3, <1>5, <1>7, <2>1, <2>2, <2>3, Wraps
<1>9. Children(ThisJob, more, cls)
  BY <1>8, LooseOnce, ChildrenOnce
<1>10. Declared(ThisJob, <<>>, more) /\ <<>> \in Seq({})
  BY <1>2, NoneDeclared DEF ItemJobs
<1>11. Makes(ThisJob, more, <<>>)
  BY <1>2, PlainMakes DEF ItemJobs
<1> QED BY <1>1, <1>2, <1>6, <1>9, <1>10, <1>11, EnterStep

LEMMA ImplItemsStep == ASSUME Shape, Walk, EmitImpl PROVE Shape' /\ Walk' /\ Made
<1>a. PICK j : j = ThisJob.i
  OBVIOUS
<1>b. PICK items : items = Members(crate, j, {"fn", "const"})
  OBVIOUS
<1>c. PICK jobs : jobs = [n \in DOMAIN items |->
                           Job(IF crate[items[n]].k = "fn" THEN "fn" ELSE "field", items[n])]
  OBVIOUS
<1>d. PICK inherited : inherited = Inherited(crate, j)
  OBVIOUS
<1>e. PICK wraps : wraps = [n \in DOMAIN inherited |-> WrapJob(inherited[n], j, "normal")]
  OBVIOUS
<1>f. PICK ops : ops = IF Operators(crate[j]) = <<>> THEN <<>> ELSE <<Job("operators", j)>>
  OBVIOUS
<1>g. PICK statics : statics = IF crate[j].of = 0 THEN <<>> ELSE StaticFns(crate, crate[j].of)
  OBVIOUS
<1>h. PICK wrappers : wrappers = IF statics = <<>> THEN <<>> ELSE <<Job("wrappers", j)>>
  OBVIOUS
<1>i. PICK more : more = jobs \o wraps \o ops \o wrappers
  OBVIOUS
<1>1. /\ Working("impl") /\ UNCHANGED crate /\ UNCHANGED decls
      /\ \/ ~ShouldEmit(crate, j) /\ Continue(<<>>)
         \/ ShouldEmit(crate, j) /\ Continue(more)
  BY <1>a, <1>b, <1>c, <1>d, <1>e, <1>f, <1>g, <1>h, <1>i DEF EmitImpl, Nothing
<1>2. /\ Top.todo # <<>> /\ ThisJob.do = "impl" /\ JobFits(ThisJob, Here) /\ crate \in Crates
  BY <1>1, NextJob
<1>3. /\ j \in Items(crate) /\ j \in Nat /\ j # 0 /\ crate[j].k = "impl"
      /\ crate[j].of # 0 => crate[j].of \in Items(crate) /\ crate[crate[j].of].k = "trait"
      /\ ~InDefaults(Here)
  BY <1>a, <1>2, CrateFacts DEF JobFits, ItemJobs, PartJobs
<1> PICK S : S = {i \in Items(crate) : crate[i].in = j /\ crate[i].k \in {"fn", "const"}}
  OBVIOUS
<1>4. jobs \in Seq(Kids(ThisJob, Here)) /\ Once(jobs) /\ Brings(jobs, S) /\ InOrder(jobs)
  <2>1. items = Select(crate, S)
    BY <1>b DEF Members, Declarations
  <2>2. items \in Seq(S) /\ OneToOne(items) /\ \A i \in S : Has(items, i)
    BY <1>2, <2>1, SelectItems
  <2>3. ASSUME NEW n \in DOMAIN items
        PROVE  jobs[n] \in Kin(ThisJob, Here, {"fn", "const"}) /\ jobs[n].i = items[n]
    <3>1. items[n] \in S
      BY <2>2
    <3>2. PICK i : /\ i = items[n] /\ i \in Items(crate) /\ i \in Nat /\ i # 0
                   /\ crate[i].k \in {"fn", "const"} /\ crate[i].in = j
      <4>1. PICK i : i = items[n] /\ i \in S
        BY <3>1
      <4>2. i \in Items(crate) /\ crate[i].k \in {"fn", "const"} /\ crate[i].in = j
        BY <4>1
      <4>3. i \in Nat /\ i # 0
        BY <4>2, <1>2, CrateFacts
      <4> QED BY <4>1, <4>2, <4>3
    <3>3. PICK do : do = (IF crate[i].k = "fn" THEN "fn" ELSE "field") /\ do \in ItemJobs /\ do \in Dos
      BY DEF ItemJobs, Dos
    <3>4. PICK job : job = Job(do, i) /\ job \in AllJobs /\ job.do = do /\ job.i = i
      BY <3>2, <3>3, JobFacts
    <3>5. ~OfTraitFn(crate, i)
      BY <3>2, <1>3 DEF OfTraitFn
    <3>6. Child(ThisJob, job, Here)
      BY <1>a, <1>2, <3>2, <3>3, <3>4, <3>5 DEF Child, JobFits, ItemJobs, PartJobs, Home
    <3>7. jobs[n] = job
      BY <1>c, <3>2, <3>3, <3>4
    <3> QED BY <3>2, <3>3, <3>4, <3>6, <3>7 DEF Kin, Kids
  <2>4. jobs = [n \in DOMAIN items |-> jobs[n]]
    BY <1>c
  <2>5. jobs \in Seq(Kin(ThisJob, Here, {"fn", "const"})) /\ Once(jobs)
    BY <2>2, <2>3, <2>4, EachOnce
  <2>6. Brings(jobs, S)
    <3>1. DOMAIN jobs = DOMAIN items
      BY <1>c
    <3> QED BY <2>2, <2>3, <3>1, EachBrings
  <2>7. InOrder(jobs)
    <3>1. Increasing(items)
      BY <1>2, <2>1, CrateFacts, SelectInOrder
    <3>2. \A n \in DOMAIN items : jobs[n].i = items[n]
      BY <2>3
    <3> QED BY <2>4, <3>1, <3>2, EachInOrder
  <2> QED BY <2>5, <2>6, <2>7, KinKids
<1>5. wraps \in Seq(Loose(ThisJob, Here))
  <2>1. CASE crate[j].of = 0 \/ crate[crate[j].of].name \notin WrappedTraits
    <3>1. inherited = <<>>
      BY <1>d, <2>1 DEF Inherited
    <3>2. wraps = <<>>
      BY <1>e, <3>1
    <3> QED BY <3>2
  <2>2. CASE ~(crate[j].of = 0 \/ crate[crate[j].of].name \notin WrappedTraits)
    <3>1. PICK own : inherited = Select(crate, {f \in Items(crate) : /\ crate[f].k = "fn" /\ crate[f].in = crate[j].of
                                                                     /\ crate[f].name \notin own})
      BY <1>d, <2>2 DEF Inherited
    <3>2. PICK T : T = {f \in Items(crate) : /\ crate[f].k = "fn" /\ crate[f].in = crate[j].of
                                             /\ crate[f].name \notin own}
      OBVIOUS
    <3>3. inherited \in Seq(T)
      BY <1>2, <3>1, <3>2, SelectItems
    <3>4. PICK t : t = crate[j].of /\ t \in Items(crate) /\ crate[t].k = "trait"
      BY <1>3, <2>2
    <3>5. T \subseteq {f \in Items(crate) : crate[f].k = "fn" /\ crate[f].in = t}
      BY <3>2, <3>4
    <3>6. "normal" \in Places
      BY DEF Places
    <3>7. /\ wraps = [n \in DOMAIN inherited |-> wraps[n]]
          /\ \A n \in DOMAIN inherited : wraps[n] = WrapJob(inherited[n], j, "normal")
      BY <1>e
    <3> QED BY <1>2, <1>3, <3>3, <3>4, <3>5, <3>6, <3>7, Wraps
  <2> QED BY <2>1, <2>2
<1>6. ops \in Seq(Loose(ThisJob, Here))
  <2>1. PICK job : job = Job("operators", j)
    OBVIOUS
  <2>2. job \in AllJobs /\ job.do = "operators" /\ job.i = j
    BY <2>1, <1>3, JobFacts DEF Dos
  <2>3. Child(ThisJob, job, Here)
    BY <1>3, <2>2 DEF Child, JobFits, ItemJobs, PartJobs
  <2>4. {job} \subseteq Loose(ThisJob, Here)
    BY <2>2, <2>3 DEF Loose, Kids, ItemJobs
  <2>5. <<job>> \in Seq({job})
    BY Single1
  <2>6. <<job>> \in Seq(Loose(ThisJob, Here)) /\ <<>> \in Seq(Loose(ThisJob, Here))
    BY <2>4, <2>5
  <2> QED BY <1>f, <2>1, <2>6
<1>7. wrappers \in Seq(Loose(ThisJob, Here))
  <2>0. CASE statics = <<>>
    <3>1. wrappers = <<>>
      BY <1>h, <2>0
    <3> QED BY <3>1
  <2>00. CASE statics # <<>>
    <3>0. crate[j].of # 0
      BY <1>g, <2>00
    <3>1. PICK job : job = Job("wrappers", j)
      OBVIOUS
    <3>2. job \in AllJobs /\ job.do = "wrappers" /\ job.i = j
      BY <3>1, <1>3, JobFacts DEF Dos
    <3>3. Child(ThisJob, job, Here)
      BY <1>3, <3>0, <3>2 DEF Child, JobFits, ItemJobs, PartJobs
    <3>4. {job} \subseteq Loose(ThisJob, Here)
      BY <3>2, <3>3 DEF Loose, Kids, ItemJobs
    <3>5. <<job>> \in Seq({job})
      BY Single1
    <3>6. <<job>> \in Seq(Loose(ThisJob, Here))
      BY <3>4, <3>5
    <3> QED BY <1>h, <2>00, <3>1, <3>6
  <2> QED BY <2>0, <2>00
<1>8. more \in Seq(Kids(ThisJob, Here)) /\ Once(more) /\ Brings(more, S) /\ InOrder(more)
  <2>1. PICK s1 : s1 = jobs \o wraps
    OBVIOUS
  <2>2. s1 \in Seq(Kids(ThisJob, Here)) /\ Once(s1)
    BY <1>4, <1>5, <2>1, ConcatLoose
  <2>3. PICK s2 : s2 = s1 \o ops
    OBVIOUS
  <2>4. s2 \in Seq(Kids(ThisJob, Here)) /\ Once(s2)
    BY <1>6, <2>2, <2>3, ConcatLoose
  <2>5. more = s2 \o wrappers
    BY <1>i, <2>1, <2>3
  <2>6. Brings(more, S)
    <3>1. PICK K : K = Kids(ThisJob, Here)
      OBVIOUS
    <3>2. wraps \in Seq(K) /\ ops \in Seq(K) /\ wrappers \in Seq(K)
      BY <1>5, <1>6, <1>7, <3>1, LooseOnce
    <3>3. jobs \in Seq(K) /\ s1 \in Seq(K) /\ s2 \in Seq(K)
      BY <1>4, <2>2, <2>4, <3>1
    <3>4. Brings(s1, S)
      BY <1>4, <2>1, <3>2, <3>3, ConcatBrings
    <3>5. Brings(s2, S)
      BY <2>3, <3>2, <3>3, <3>4, ConcatBrings
    <3> QED BY <2>5, <3>2, <3>3, <3>5, ConcatBrings
  <2>7. InOrder(more)
    <3>1. PICK K : K = Kids(ThisJob, Here)
      OBVIOUS
    <3>2. wraps \in Seq(K) /\ ops \in Seq(K) /\ wrappers \in Seq(K)
      BY <1>5, <1>6, <1>7, <3>1, LooseOnce
    <3>3. NoFields(wraps) /\ NoFields(ops) /\ NoFields(wrappers)
      BY <1>5, <1>6, <1>7, LooseNoFields
    <3>4. InOrder(wraps) /\ InOrder(ops) /\ InOrder(wrappers)
      BY <3>3, NoneInOrder
    <3>5. InOrder(s1)
      BY <1>4, <2>1, <3>1, <3>2, <3>3, <3>4, ConcatInOrder
    <3>6. InOrder(s2)
      BY <2>2, <2>3, <3>1, <3>2, <3>3, <3>4, <3>5, ConcatInOrder
    <3> QED BY <2>4, <2>5, <3>1, <3>2, <3>3, <3>4, <3>6, ConcatInOrder
  <2> QED BY <1>7, <2>4, <2>5, <2>6, <2>7, ConcatLoose
<1>9. Children(ThisJob, more, Here) /\ Children(ThisJob, <<>>, Here)
  BY <1>8, ChildrenOnce, NoChildren
<1>10. Declared(ThisJob, <<>>, more) /\ Declared(ThisJob, <<>>, <<>>) /\ <<>> \in Seq({})
  BY <1>2, NoneDeclared
<1>11. CASE ~ShouldEmit(crate, j) /\ Continue(<<>>)
  <2>1. PICK none : none = <<>>
    OBVIOUS
  <2>2. Makes(ThisJob, none, none)
    BY <1>a, <1>2, <1>11, <2>1 DEF Makes, Goes
  <2> QED BY <1>1, <1>2, <1>9, <1>10, <1>11, <2>1, <2>2, ContinueStep
<1>12. CASE ShouldEmit(crate, j) /\ Continue(more)
  <2>1. Goes(ThisJob)
    BY <1>a, <1>2, <1>12 DEF Goes
  <2>2. Found(ThisJob) = S
    BY <1>a, <1>2 DEF Found
  <2>3. Makes(ThisJob, more, <<>>)
    BY <1>2, <1>8, <2>1, <2>2 DEF Makes
  <2> QED BY <1>1, <1>2, <1>9, <1>10, <1>12, <2>3, ContinueStep
<1> QED BY <1>1, <1>11, <1>12

\* The impls of a type, each once.
LEMMA ImplJobsOnce ==
  ASSUME crate \in Crates, NEW h, h.do = "adt", h.i \in Items(crate), NEW cls, ~InDefaults(cls),
         NEW is \in Seq(Nat), OneToOne(is), \A n \in DOMAIN is : is[n] \in ImplsOf(crate, h.i),
         h.impls = is
  PROVE  /\ Jobs("impl", is) \in Seq(Kin(h, cls, {"impl"})) /\ Once(Jobs("impl", is))
         /\ Brings(Jobs("impl", is), ToSet(is))
<1>a. PICK more : more = [n \in DOMAIN is |-> Job("impl", is[n])]
  OBVIOUS
<1>1. Jobs("impl", is) = more /\ more = [n \in DOMAIN is |-> more[n]]
  BY <1>a DEF Jobs
<1>2. ASSUME NEW n \in DOMAIN is
      PROVE  more[n] \in Kin(h, cls, {"impl"}) /\ more[n].i = is[n]
  <2>1. PICK j : /\ j = is[n] /\ j \in Items(crate) /\ j \in Nat /\ crate[j].k = "impl"
                 /\ crate[j].to = h.i /\ h.i # 0 /\ j \in ToSet(h.impls)
    BY CrateFacts DEF ImplsOf, ToSet
  <2>2. PICK job : job = Job("impl", j) /\ job \in AllJobs /\ job.do = "impl" /\ job.i = j
    <3>1. "impl" \in Dos
      BY DEF Dos, ItemJobs
    <3> QED BY <2>1, <3>1, JobFacts
  <2>3. Child(h, job, cls)
    BY <2>1, <2>2 DEF Child, JobFits, ItemJobs, PartJobs, Home
  <2> QED BY <1>a, <2>1, <2>2, <2>3 DEF Kin, Kids, ItemJobs
<1>3. more \in Seq(Kin(h, cls, {"impl"})) /\ Once(more)
  <2>1. more = [n \in DOMAIN is |-> more[n]]
    BY <1>1
  <2> QED BY <1>2, <2>1, EachOnce
<1>4. Brings(more, ToSet(is))
  <2>1. DOMAIN more = DOMAIN is
    BY <1>a
  <2> QED BY <1>2, <2>1 DEF Brings, ToSet, Kin
<1> QED BY <1>1, <1>3, <1>4

LEMMA VariantJobs ==
  ASSUME crate \in Crates, NEW h, h.do = "adt", h.i \in Items(crate), IsAdt(crate, h.i), NEW cls,
         NEW more, more = [n \in DOMAIN crate[h.i].variants |-> [Job("variant", h.i) EXCEPT !.n = n]]
  PROVE  more \in Seq(Loose(h, cls))
<1>1. PICK K : K = Loose(h, cls)
  OBVIOUS
<1>a. PICK vs : vs = crate[h.i].variants
  OBVIOUS
<1>b. Len(vs) \in Nat /\ DOMAIN vs = 1 .. Len(vs) /\ h.i \in Nat
  BY <1>a, CrateFacts DEF IsList
<1>2. ASSUME NEW n \in DOMAIN vs
      PROVE  more[n] \in K
  <2>1. PICK none, zero, normal, var : /\ none = <<>> /\ zero = 0 /\ normal = "normal" /\ var = "variant"
          /\ none \in Seq(Nat) /\ zero \in Nat /\ normal \in Places /\ var \in Dos
    <3>1. <<>> \in Seq(Nat) /\ "normal" \in Places /\ 0 \in Nat /\ "variant" \in Dos
      BY DEF Places, Dos, PartJobs
    <3> QED BY <3>1, Zenon
  <2>2. PICK job : job = [do |-> var, i |-> h.i, place |-> normal, impls |-> none, impl |-> zero, n |-> n]
    OBVIOUS
  <2>3. more[n] = job
    BY <1>a, <2>1, <2>2 DEF Job
  <2>4. job \in AllJobs /\ job.do = "variant" /\ job.i = h.i /\ job.n = n
    BY <1>b, <2>1, <2>2 DEF AllJobs
  <2>5. Child(h, job, cls)
    BY <1>a, <2>4 DEF Child, JobFits, ItemJobs, PartJobs
  <2> QED BY <1>1, <2>3, <2>4, <2>5 DEF Loose, Kids, ItemJobs
<1>3. more = [n \in 1 .. Len(vs) |-> more[n]]
  BY <1>a, <1>b
<1>4. [n \in 1 .. Len(vs) |-> more[n]] \in Seq(K)
  <2>1. PICK l : l = Len(vs) /\ l \in Nat
    BY <1>b
  <2>2. \A n \in 1 .. l : more[n] \in K
    BY <1>b, <1>2, <2>1
  <2>3. [n \in 1 .. l |-> more[n]] \in Seq(K)
    BY <2>1, <2>2
  <2> QED BY <2>1, <2>3
<1> QED BY <1>1, <1>3, <1>4

LEMMA AdtStep == ASSUME Shape, Walk, EmitAdt PROVE Shape' /\ Walk' /\ Made
<1>a. PICK a : a = ThisJob.i
  OBVIOUS
<1>b. PICK name : name = StructName(crate[a].name)
  OBVIOUS
<1>c. PICK is : is = ThisJob.impls
  OBVIOUS
<1>d. PICK impls : impls = Jobs("impl", is)
  OBVIOUS
<1>e. PICK variants : variants = [n \in DOMAIN crate[a].variants |-> [Job("variant", a) EXCEPT !.n = n]]
  OBVIOUS
<1>f. PICK struct : struct = <<Job("constructable", a), Job("blank", a)>>
  OBVIOUS
<1>g. PICK d1 : d1 = Decl("class", Here, name, <<>>, a)
  OBVIOUS
<1>h. PICK d2 : d2 = Decl("field", Append(Here, name), Fixed("inner"), <<>>, a)
  OBVIOUS
<1>i. PICK d3 : d3 = Decl("field", Append(Here, name), Fixed("Value"), <<>>, a)
  OBVIOUS
<1>j. PICK d4 : d4 = Decl("method", Append(Here, name), Fixed("set"), <<"self">>, a)
  OBVIOUS
<1>1. /\ Working("adt") /\ UNCHANGED crate
      /\ \/ ~Goes(ThisJob) /\ Continue(<<>>) /\ UNCHANGED decls
         \/ ~Goes(ThisJob) /\ Continue(<<>>) /\ Declare(<<d1>>)
         \/ Goes(ThisJob) /\ Enter(name, struct \o impls, TRUE) /\ Declare(<<d1>>)
         \/ Goes(ThisJob) /\ Enter(name, variants \o impls, TRUE) /\ Declare(<<d1, d2, d3, d4>>)
  <2>1. Working("adt") => ThisJob.do = "adt"
    BY DEF Working, ThisJob
  <2>2. PICK whole, left : /\ whole <=> ShouldEmit(crate, a) /\ ~IsR2csNative(crate, a)
                           /\ left <=> ~ShouldEmit(crate, a)
    OBVIOUS
  <2>3. Working("adt") => (Goes(ThisJob) <=> whole /\ crate[a].k # "union")
    BY <1>a, <2>1, <2>2 DEF Goes
  <2> QED BY <1>a, <1>b, <1>c, <1>d, <1>e, <1>f, <1>g, <1>h, <1>i, <1>j, <2>2, <2>3
          DEF EmitAdt, Nothing, DeclareClass
<1>2. /\ Top.todo # <<>> /\ ThisJob.do = "adt" /\ JobFits(ThisJob, Here) /\ crate \in Crates
      /\ ThisJob \in AllJobs
  BY <1>1, NextJob
<1>3. /\ a \in Items(crate) /\ a # 0 /\ a \in Nat /\ IsAdt(crate, a) /\ crate[a].k \notin Single
  BY <1>a, <1>2, CrateFacts DEF JobFits, Single, IsAdt, ItemJobs
<1>4. /\ is \in Seq(Nat) /\ OneToOne(is)
      /\ \A n \in DOMAIN is : is[n] \in ImplsOf(crate, a)
  <2>1. is \in Seq(Nat)
    BY <1>c, <1>2 DEF AllJobs
  <2>2. \A n \in DOMAIN is :
            /\ is[n] \in Items(crate)
            /\ crate[is[n]].k = "impl" /\ crate[is[n]].to = a
            /\ \A m \in DOMAIN is : is[n] = is[m] => n = m
    BY <1>a, <1>c, <1>2 DEF JobFits
  <2> QED BY <2>1, <2>2 DEF OneToOne, ImplsOf
<1>5. PICK cls : cls = Append(Here, name)
  OBVIOUS
<1>6. ~InDefaults(cls)
  <2>1. name # Defaults
    BY <1>b DEF StructName, Defaults, Fixed
  <2> QED BY <1>2, <1>5, <2>1, InClass
<1>7. impls \in Seq(Kids(ThisJob, cls)) /\ Once(impls) /\ Brings(impls, ToSet(is))
  <2>1. /\ impls \in Seq(Kin(ThisJob, cls, {"impl"})) /\ Once(impls)
        /\ Brings(impls, ToSet(is))
    BY <1>a, <1>c, <1>d, <1>2, <1>3, <1>4, <1>6, ImplJobsOnce
  <2> QED BY <2>1, KinKids
<1>8. variants \in Seq(Loose(ThisJob, cls))
  BY <1>a, <1>e, <1>2, <1>3, VariantJobs
<1>9. struct \in Seq(Loose(ThisJob, cls))
  <2>1. PICK blank : blank = Job("blank", a)
    OBVIOUS
  <2>2. PICK fields : fields = Job("constructable", a)
    OBVIOUS
  <2>3. blank \in Loose(ThisJob, cls)
    BY <2>1, <1>3, LooseJob
  <2>4. fields \in AllJobs /\ fields.do = "constructable" /\ fields.i = a /\ fields.n = 0
    BY <2>2, <1>3, JobFacts DEF Dos, PartJobs
  <2>5. Child(ThisJob, fields, cls)
    BY <1>a, <1>2, <1>3, <2>4 DEF Child, JobFits, ItemJobs, PartJobs
  <2>6. {fields, blank} \subseteq Loose(ThisJob, cls)
    BY <2>3, <2>4, <2>5 DEF Loose, Kids, ItemJobs
  <2>7. <<fields, blank>> \in Seq({fields, blank})
    BY Pair
  <2>8. <<fields, blank>> \in Seq(Loose(ThisJob, cls))
    BY <2>6, <2>7
  <2> QED BY <1>f, <2>1, <2>2, <2>8
<1>10. \A more : more = struct \o impls \/ more = variants \o impls => Children(ThisJob, more, cls)
  BY <1>7, <1>8, <1>9, ConcatLoose, ChildrenOnce
<1>11. PICK D : D = {d1, d2, d3, d4}
  OBVIOUS
<1>18. \A d \in D : d.item = ThisJob.i /\ d.what # "slot"
  <2>1. /\ d1.item = a /\ d1.what = "class" /\ d2.item = a /\ d2.what = "field"
        /\ d3.item = a /\ d3.what = "field" /\ d4.item = a /\ d4.what = "method"
    BY <1>g, <1>h, <1>i, <1>j, DeclFacts
  <2>2. d1.what # "slot" /\ d2.what # "slot" /\ d3.what # "slot" /\ d4.what # "slot"
    BY <2>1
  <2>3. \A d \in {d1, d2, d3, d4} : d.item = a /\ d.what # "slot"
    BY <2>1, <2>2
  <2> QED BY <2>3, <1>a, <1>11
<1>12. /\ <<d1>> \in Seq(D) /\ 1 \in DOMAIN <<d1>>
       /\ <<d1, d2, d3, d4>> \in Seq(D) /\ 1 \in DOMAIN <<d1, d2, d3, d4>>
  BY <1>11
<1>13. ASSUME NEW ds \in Seq(D), 1 \in DOMAIN ds, NEW more PROVE Declared(ThisJob, ds, more)
  <2>1. \A m \in DOMAIN ds : ds[m].item = ThisJob.i /\ ds[m].what # "slot"
    BY <1>18, <1>13
  <2> QED BY <1>a, <1>2, <1>3, <1>13, <2>1, TypeDeclared DEF ItemJobs
<1>14. CASE ~Goes(ThisJob) /\ Continue(<<>>) /\ UNCHANGED decls
  <2>1. Declared(ThisJob, <<>>, <<>>) /\ Children(ThisJob, <<>>, Here) /\ <<>> \in Seq(D)
    BY NoneDeclared, NoChildren
  <2>2. Makes(ThisJob, <<>>, <<>>)
    BY <1>2, <1>14 DEF Makes
  <2> QED BY <1>1, <1>2, <1>14, <2>1, <2>2, ContinueStep
<1>15. CASE ~Goes(ThisJob) /\ Continue(<<>>) /\ Declare(<<d1>>)
  <2>1. Declared(ThisJob, <<d1>>, <<>>) /\ Children(ThisJob, <<>>, Here)
    BY <1>12, <1>13, NoChildren
  <2>2. Makes(ThisJob, <<>>, <<d1>>)
    BY <1>2, <1>15 DEF Makes
  <2> QED BY <1>1, <1>2, <1>12, <1>15, <2>1, <2>2, ContinueStep
<1>19. ASSUME NEW loose \in Seq(Loose(ThisJob, cls)), NEW ds \in Seq(D), 1 \in DOMAIN ds,
              Goes(ThisJob)
       PROVE  Makes(ThisJob, loose \o impls, ds)
  <2>1. Brings(loose \o impls, ToSet(is))
    <3>1. PICK K : K = Kids(ThisJob, cls)
      OBVIOUS
    <3>2. loose \in Seq(K) /\ impls \in Seq(K)
      BY <1>7, <1>19, <3>1, LooseOnce
    <3> QED BY <1>7, <3>2, ConcatBrings
  <2>2. Found(ThisJob) \subseteq ToSet(is)
    BY <1>c, <1>2 DEF Found
  <2>3. Declares(ds)
    <3>1. ds[1].item = a /\ ds[1].what # "slot"
      BY <1>a, <1>18, <1>19
    <3> QED BY <1>3, <1>19, <3>1 DEF Declares, Own, OfTraitFn, Single
  <2> QED BY <1>2, <1>19, <2>1, <2>2, <2>3 DEF Makes, Brings
<1>16. CASE Goes(ThisJob) /\ Enter(name, struct \o impls, TRUE) /\ Declare(<<d1>>)
  <2>1. PICK more : more = struct \o impls
    OBVIOUS
  <2>2. Declared(ThisJob, <<d1>>, more) /\ Children(ThisJob, more, cls)
    BY <1>10, <1>12, <1>13, <2>1
  <2>3. Makes(ThisJob, more, <<d1>>)
    BY <1>9, <1>12, <1>16, <1>19, <2>1
  <2> QED BY <1>1, <1>2, <1>5, <1>12, <1>16, <2>1, <2>2, <2>3, EnterStep
<1>17. CASE Goes(ThisJob) /\ Enter(name, variants \o impls, TRUE) /\ Declare(<<d1, d2, d3, d4>>)
  <2>1. PICK more : more = variants \o impls
    OBVIOUS
  <2>2. Declared(ThisJob, <<d1, d2, d3, d4>>, more) /\ Children(ThisJob, more, cls)
    BY <1>10, <1>12, <1>13, <2>1
  <2>3. Makes(ThisJob, more, <<d1, d2, d3, d4>>)
    BY <1>8, <1>12, <1>17, <1>19, <2>1
  <2> QED BY <1>1, <1>2, <1>5, <1>12, <1>17, <2>1, <2>2, <2>3, EnterStep
<1> QED BY <1>1, <1>14, <1>15, <1>16, <1>17

\* Items of these kinds that are declared in p.
Within(p, kinds) == {i \in Items(crate) : crate[i].in = p /\ crate[i].k \in kinds}

AdtKinds == {"struct", "enum", "union"}
BodyKinds == {"fn", "struct", "enum", "const", "static"}

Along(more, is) == more = [n \in DOMAIN is |-> more[n]]

\* A type comes with the impls of its class, or of the body it is in.
ImplsFor(h, job) ==
  job.do = "adt" => job.impls = IF h.do = "block" THEN LocalImpls(crate, h.n, job.i)
                                ELSE CrateImpls(crate, job.i)

\* Jobs for some of the items that are declared in the item of h.
Part(h, cls, kinds, is, more) ==
  /\ h.do \in {"module", "block"} /\ kinds \cap {"impl", "block"} = {}
  /\ h.do = "block" => kinds = BodyKinds /\ \A n \in DOMAIN is : is[n] \in Deferred(crate, h.n)
  /\ is \in Seq(Within(h.i, kinds)) /\ OneToOne(is) /\ Along(more, is)
  /\ \A n \in DOMAIN is : /\ more[n] \in AllJobs /\ more[n].i = is[n]
                           /\ more[n].do \in ItemJobs /\ JobFits(more[n], cls)
                           /\ ImplsFor(h, more[n])

LEMMA PartOnce ==
  ASSUME crate \in Crates, NEW h, NEW cls, NEW kinds, NEW is, NEW more, Part(h, cls, kinds, is, more)
  PROVE  /\ more \in Seq(Kin(h, cls, kinds)) /\ Once(more)
         /\ \A I : (\A i \in I : Has(is, i)) => Brings(more, I)
<1>1. /\ h.do \in {"module", "block"} /\ kinds \cap {"impl", "block"} = {}
      /\ h.do = "block" => kinds = BodyKinds /\ \A n \in DOMAIN is : is[n] \in Deferred(crate, h.n)
      /\ is \in Seq(Within(h.i, kinds)) /\ OneToOne(is) /\ more = [n \in DOMAIN is |-> more[n]]
      /\ \A n \in DOMAIN is : /\ more[n] \in AllJobs /\ more[n].i = is[n]
                               /\ more[n].do \in ItemJobs /\ JobFits(more[n], cls)
                               /\ ImplsFor(h, more[n])
  BY DEF Part, Along
<1>2. ASSUME NEW n \in DOMAIN is
      PROVE  more[n] \in Kin(h, cls, kinds) /\ more[n].i = is[n]
  <2>1. is[n] \in Within(h.i, kinds)
    BY <1>1
  <2>2. PICK i : i = is[n] /\ i \in Items(crate) /\ crate[i].in = h.i /\ crate[i].k \in kinds
    BY <2>1 DEF Within
  <2>3. crate[i].k # "impl" /\ crate[i].k # "block" /\ Home(crate, i) = h.i
    BY <1>1, <2>2 DEF Home
  <2>4. h.do \in ItemJobs \ {"trait"}
    BY <1>1 DEF ItemJobs
  <2>5. PICK job : job = more[n]
    OBVIOUS
  <2>6. job \in AllJobs /\ job.i = i /\ job.do \in ItemJobs /\ JobFits(job, cls) /\ ImplsFor(h, job)
    BY <1>1, <2>2, <2>5
  <2>7. job.do \notin PartJobs /\ job.do # "defaults" /\ job.do # "impl" /\ job.do # "block"
    BY <2>3, <2>6 DEF ItemJobs, PartJobs, JobFits
  <2>8. h.do = "block" => job.do \notin {"module", "trait"}
    <3>1. job.do = "module" => job.i = 0 \/ crate[job.i].k = "mod"
      BY <2>6 DEF JobFits
    <3>2. job.do = "trait" => crate[job.i].k = "trait"
      BY <2>6 DEF JobFits
    <3>3. i # 0
      BY <2>2, CrateFacts
    <3> QED BY <1>1, <2>2, <2>6, <3>1, <3>2, <3>3 DEF BodyKinds
  <2>10. h.do = "block" => job.i \in Deferred(crate, h.n)
    BY <1>1, <2>2, <2>6
  <2>9. Child(h, job, cls)
    BY <1>1, <2>2, <2>3, <2>4, <2>6, <2>7, <2>8, <2>10 DEF Child, ImplsFor
  <2> QED BY <2>2, <2>5, <2>6, <2>9 DEF Kin, Kids
<1>3. is \in Seq(Within(h.i, kinds)) /\ OneToOne(is)
  BY <1>1
<1>4. more = [n \in DOMAIN is |-> more[n]]
  BY <1>1
<1>5. DOMAIN more = DOMAIN is
  BY <1>4
<1>6. \A I : (\A i \in I : Has(is, i)) => Brings(more, I)
  BY <1>2, <1>5, EachBrings
<1> QED BY <1>2, <1>3, <1>4, <1>6, EachOnce

\* One of them.
LEMMA PlainFits ==
  ASSUME crate \in Crates, NEW i \in Items(crate), NEW cls, NEW do,
         \/ do = "trait" /\ crate[i].k = "trait"
         \/ do = "field" /\ crate[i].k \in {"const", "static"}
         \/ do = "module" /\ crate[i].k = "mod"
         \/ do = "fn" /\ crate[i].k = "fn" /\ ~OfTraitFn(crate, i)
  PROVE  /\ Job(do, i) \in AllJobs /\ Job(do, i).do = do /\ Job(do, i).i = i
         /\ do \in ItemJobs /\ JobFits(Job(do, i), cls)
<1>1. do \in ItemJobs /\ do \in Dos /\ i \in Nat
  BY CrateFacts DEF ItemJobs, Dos
<1>2. PICK job : job = Job(do, i)
  OBVIOUS
<1>3. job \in AllJobs /\ job.do = do /\ job.i = i
  BY <1>1, <1>2, JobFacts
<1>4. JobFits(job, cls)
  BY <1>3 DEF JobFits, ItemJobs, PartJobs
<1> QED BY <1>1, <1>2, <1>3, <1>4

LEMMA AdtFits ==
  ASSUME crate \in Crates, NEW a \in Items(crate), IsAdt(crate, a), NEW cls,
         NEW impls, impls \in Seq(ImplsOf(crate, a)), OneToOne(impls)
  PROVE  /\ AdtJob(crate, a, impls) \in AllJobs /\ AdtJob(crate, a, impls).do = "adt"
         /\ AdtJob(crate, a, impls).i = a /\ "adt" \in ItemJobs
         /\ AdtJob(crate, a, impls).impls = impls
         /\ JobFits(AdtJob(crate, a, impls), cls)
<1>1. "adt" \in ItemJobs /\ "adt" \in Dos /\ a \in Nat
  BY CrateFacts DEF ItemJobs, Dos
<1>2. impls \in Seq(Nat)
  <2>1. ImplsOf(crate, a) \subseteq Nat
    BY CrateFacts DEF ImplsOf
  <2> QED BY <2>1
<1>3. PICK job : job = AdtJob(crate, a, impls)
  OBVIOUS
<1>4. job \in AllJobs /\ job.do = "adt" /\ job.i = a /\ job.impls = impls
  <2>1. PICK plain : plain = Job("adt", a) /\ plain \in AllJobs /\ plain.do = "adt" /\ plain.i = a
    BY <1>1, JobFacts
  <2>2. job = [plain EXCEPT !.impls = impls]
    BY <1>3, <2>1 DEF AdtJob
  <2> QED BY <1>2, <2>1, <2>2 DEF AllJobs
<1>5. \A n \in DOMAIN impls : impls[n] \in ImplsOf(crate, a)
  OBVIOUS
<1>6. JobFits(job, cls)
  BY <1>4, <1>5 DEF JobFits, ItemJobs, PartJobs, ImplsOf, OneToOne
<1> QED BY <1>1, <1>3, <1>4, <1>6

PlainKinds(do, kinds) ==
  \/ do = "trait" /\ kinds = {"trait"}
  \/ do = "field" /\ kinds = {"const", "static"}
  \/ do = "module" /\ kinds = {"mod"}

\* Traits, constants and statics, or modules.
LEMMA PlainPart ==
  ASSUME crate \in Crates, NEW h, h.do = "module", NEW cls, NEW do, NEW kinds, PlainKinds(do, kinds)
  PROVE  /\ Jobs(do, Declarations(crate, h.i, kinds)) \in Seq(Kin(h, cls, kinds))
         /\ Once(Jobs(do, Declarations(crate, h.i, kinds)))
         /\ Brings(Jobs(do, Declarations(crate, h.i, kinds)), Within(h.i, kinds))
         /\ InOrder(Jobs(do, Declarations(crate, h.i, kinds)))
<1>a. PICK S : S = Within(h.i, kinds) /\ S \subseteq Items(crate)
  BY Zenon DEF Within
<1>b. PICK is : is = Select(crate, S)
  OBVIOUS
<1>c. PICK more : more = [n \in DOMAIN is |-> Job(do, is[n])]
  OBVIOUS
<1>0. Jobs(do, Declarations(crate, h.i, kinds)) = more
  BY <1>a, <1>b, <1>c DEF Jobs, Declarations, Within
<1>1. is \in Seq(S) /\ OneToOne(is) /\ \A i \in S : Has(is, i)
  BY <1>a, <1>b, SelectItems
<1>2. ASSUME NEW n \in DOMAIN is
      PROVE  /\ more[n] \in AllJobs /\ more[n].i = is[n]
             /\ more[n].do \in ItemJobs /\ JobFits(more[n], cls) /\ ImplsFor(h, more[n])
  <2>1. is[n] \in S
    BY <1>1
  <2>2. PICK i : i = is[n] /\ i \in Items(crate) /\ crate[i].k \in kinds
    BY <1>a, <2>1 DEF Within
  <2>3. \/ do = "trait" /\ crate[i].k = "trait"
        \/ do = "field" /\ crate[i].k \in {"const", "static"}
        \/ do = "module" /\ crate[i].k = "mod"
    BY <2>2 DEF PlainKinds
  <2>4. PICK job : job = Job(do, i)
    OBVIOUS
  <2>5. job \in AllJobs /\ job.do = do /\ job.i = i /\ do \in ItemJobs /\ JobFits(job, cls)
    BY <2>2, <2>3, <2>4, PlainFits
  <2>6. ImplsFor(h, job)
    BY <2>3, <2>5 DEF ImplsFor
  <2> QED BY <1>c, <2>2, <2>4, <2>5, <2>6
<1>3. kinds \cap {"impl", "block"} = {}
  BY DEF PlainKinds
<1>4. Along(more, is)
  BY <1>c DEF Along
<1>5. Part(h, cls, kinds, is, more)
  BY <1>a, <1>1, <1>2, <1>3, <1>4 DEF Part
<1>6. more \in Seq(Kin(h, cls, kinds)) /\ Once(more)
  BY <1>5, PartOnce
<1>7. Brings(more, S)
  BY <1>1, <1>5, PartOnce
<1>8. InOrder(more)
  <2>1. Increasing(is)
    BY <1>b, CrateFacts, SelectInOrder
  <2>2. more = [n \in DOMAIN is |-> more[n]] /\ \A n \in DOMAIN is : more[n].i = is[n]
    BY <1>2, <1>4 DEF Along
  <2> QED BY <2>1, <2>2, EachInOrder
<1> QED BY <1>0, <1>a, <1>6, <1>7, <1>8

\* The functions of a module.
LEMMA FreePart ==
  ASSUME crate \in Crates, NEW h, h.do = "module", NEW cls0, JobFits(h, cls0), NEW cls,
         NEW fns \in Seq(Within(h.i, {"fn"})), OneToOne(fns), NEW more, Along(more, fns),
         \A n \in DOMAIN fns : more[n] = Place(Job("fn", fns[n]), "free"),
         \A i \in Within(h.i, {"fn"}) : Has(fns, i)
  PROVE  /\ more \in Seq(Kin(h, cls, {"fn"})) /\ Once(more)
         /\ Brings(more, Within(h.i, {"fn"}))
<1>2. ASSUME NEW n \in DOMAIN fns
      PROVE  /\ more[n] \in AllJobs /\ more[n].i = fns[n]
             /\ more[n].do \in ItemJobs /\ JobFits(more[n], cls) /\ ImplsFor(h, more[n])
  <2>1. fns[n] \in Within(h.i, {"fn"})
    OBVIOUS
  <2>2. PICK i : i = fns[n] /\ i \in Items(crate) /\ crate[i].k = "fn" /\ crate[i].in = h.i
    BY <2>1 DEF Within
  <2>3. ~OfTraitFn(crate, i)
    BY <2>2 DEF OfTraitFn, JobFits
  <2>4. PICK plain : plain = Job("fn", i)
    OBVIOUS
  <2>5. plain \in AllJobs /\ plain.do = "fn" /\ plain.i = i
    BY <2>2, <2>3, <2>4, PlainFits
  <2>6. PICK job : job = Place(plain, "free")
    OBVIOUS
  <2>7. job \in AllJobs /\ job.do = "fn" /\ job.i = i
    <3>1. "free" \in Places
      BY DEF Places
    <3> QED BY <2>5, <2>6, <3>1 DEF Place, AllJobs
  <2>8. JobFits(job, cls)
    BY <2>2, <2>3, <2>7 DEF JobFits, ItemJobs, PartJobs
  <2>9. job.do \in ItemJobs /\ ImplsFor(h, job)
    BY <2>7 DEF ItemJobs, ImplsFor
  <2>10. more[n] = job
    BY <2>2, <2>4, <2>6
  <2> QED BY <2>2, <2>7, <2>8, <2>9, <2>10
<1>3. {"fn"} \cap {"impl", "block"} = {} /\ h.do \in {"module", "block"}
  OBVIOUS
<1>4. \A n \in DOMAIN fns : /\ more[n] \in AllJobs /\ more[n].i = fns[n]
                            /\ more[n].do \in ItemJobs /\ JobFits(more[n], cls)
                            /\ ImplsFor(h, more[n])
  BY <1>2
<1>5. Part(h, cls, {"fn"}, fns, more)
  BY <1>3, <1>4 DEF Part
<1> QED BY <1>5, PartOnce

\* Its types, each with the impls that have its class.
LEMMA AdtPart ==
  ASSUME crate \in Crates, ClassesDistinct(crate), NEW h, h.do = "module", NEW cls0, JobFits(h, cls0),
         NEW cls, NEW adts \in Seq(Within(h.i, AdtKinds)), OneToOne(adts), NEW more, Along(more, adts),
         \A n \in DOMAIN adts : more[n] = AdtJob(crate, adts[n], CrateImpls(crate, adts[n])),
         \A i \in Within(h.i, AdtKinds) : Has(adts, i)
  PROVE  /\ more \in Seq(Kin(h, cls, AdtKinds)) /\ Once(more)
         /\ Brings(more, Within(h.i, AdtKinds))
<1>2. ASSUME NEW n \in DOMAIN adts
      PROVE  /\ more[n] \in AllJobs /\ more[n].i = adts[n]
             /\ more[n].do \in ItemJobs /\ JobFits(more[n], cls) /\ ImplsFor(h, more[n])
  <2>1. adts[n] \in Within(h.i, AdtKinds)
    OBVIOUS
  <2>2. PICK a : /\ a = adts[n] /\ a \in Items(crate) /\ crate[a].in = h.i
                 /\ crate[a].k \in {"struct", "enum", "union"} /\ a # 0
    BY <2>1, CrateFacts DEF Within, AdtKinds
  <2>3. IsAdt(crate, a) /\ ~IsBlock(crate, crate[a].in)
    BY <2>2 DEF IsAdt, IsBlock, JobFits
  <2>4. PICK impls : impls = CrateImpls(crate, a)
    OBVIOUS
  <2>5. impls \in Seq(ImplsNamed(crate, a)) /\ OneToOne(impls)
    BY <2>4, CrateFacts, CrateImplsOnce
  <2>6. ImplsNamed(crate, a) \subseteq ImplsOf(crate, a)
    <3>1. ASSUME NEW j \in ImplsNamed(crate, a) PROVE j \in ImplsOf(crate, a)
      <4>1. /\ j \in Items(crate) /\ crate[j].k = "impl" /\ crate[j].to # 0
            /\ AdtClass(crate, crate[j].to) = AdtClass(crate, a)
        BY <3>1 DEF ImplsNamed
      <4>2. crate[j].to \in Items(crate) /\ IsAdt(crate, crate[j].to)
        BY <4>1, CrateFacts
      <4>3. PICK b : b = crate[j].to
        OBVIOUS
      <4>4. b = a
        BY <2>2, <2>3, <4>1, <4>2, <4>3 DEF ClassesDistinct
      <4> QED BY <4>1, <4>3, <4>4 DEF ImplsOf
    <3> QED BY <3>1
  <2>7. impls \in Seq(ImplsOf(crate, a))
    BY <2>5, <2>6
  <2>8. PICK job : job = AdtJob(crate, a, impls)
    OBVIOUS
  <2>9. /\ job \in AllJobs /\ job.do = "adt" /\ job.i = a /\ "adt" \in ItemJobs /\ JobFits(job, cls)
        /\ job.impls = impls
    BY <2>2, <2>3, <2>5, <2>7, <2>8, AdtFits
  <2>10. more[n] = job
    BY <2>2, <2>4, <2>8
  <2>11. ImplsFor(h, job)
    BY <2>4, <2>9 DEF ImplsFor
  <2> QED BY <2>2, <2>9, <2>10, <2>11
<1>4. AdtKinds \cap {"impl", "block"} = {} /\ h.do \in {"module", "block"}
  BY DEF AdtKinds
<1>5. Part(h, cls, AdtKinds, adts, more)
  BY <1>2, <1>4 DEF Part
<1> QED BY <1>5, PartOnce

LEMMA ModuleStep ==
  ASSUME Shape, Walk, ClassesDistinct(crate), EmitModule PROVE Shape' /\ Walk' /\ Made
<1>a. PICK m : m = ThisJob.i
  OBVIOUS
<1>b. PICK name : name = ModSimpleName(crate, m)
  OBVIOUS
<1>c. PICK fns : fns = Declarations(crate, m, {"fn"})
  OBVIOUS
<1>d. PICK adts : adts = Declarations(crate, m, {"struct", "enum", "union"})
  OBVIOUS
<1>e. PICK traits : traits = Jobs("trait", Declarations(crate, m, {"trait"}))
  OBVIOUS
<1>f. PICK fields : fields = Jobs("field", Declarations(crate, m, {"const", "static"}))
  OBVIOUS
<1>g. PICK functions : functions = [n \in DOMAIN fns |-> Place(Job("fn", fns[n]), "free")]
  OBVIOUS
<1>h. PICK types : types = [n \in DOMAIN adts |-> AdtJob(crate, adts[n], CrateImpls(crate, adts[n]))]
  OBVIOUS
<1>i. PICK modules : modules = Jobs("module", Declarations(crate, m, {"mod"}))
  OBVIOUS
<1>j. PICK more : more = traits \o fields \o functions \o types \o modules
  OBVIOUS
<1>k. PICK d : d = Decl("class", Here, name, <<>>, m)
  OBVIOUS
<1>1. /\ Working("module") /\ UNCHANGED crate
      /\ \/ ~Goes(ThisJob) /\ Continue(<<>>) /\ UNCHANGED decls
         \/ ~Goes(ThisJob) /\ Continue(<<>>) /\ Declare(<<d>>)
         \/ Goes(ThisJob) /\ Enter(name, more, FALSE) /\ Declare(<<d>>)
  <2>1. more = ModuleJobs(crate, m)
    BY <1>c, <1>d, <1>e, <1>f, <1>g, <1>h, <1>i, <1>j DEF ModuleJobs
  <2>2. Working("module") => ThisJob.do = "module"
    BY DEF Working, ThisJob
  <2>3. Working("module") =>
          (Goes(ThisJob) <=> ShouldEmit(crate, m) /\ ~(m # 0 /\ IsR2csNative(crate, m)))
    BY <1>a, <2>2 DEF Goes
  <2> QED BY <1>a, <1>b, <1>k, <2>1, <2>3 DEF EmitModule, Nothing, DeclareClass
<1>2. Top.todo # <<>> /\ ThisJob.do = "module" /\ JobFits(ThisJob, Here) /\ crate \in Crates
  BY <1>1, NextJob
<1>3. PICK cls : cls = Append(Here, name)
  OBVIOUS
<1> DEFINE T(kinds) == Within(ThisJob.i, kinds)
<1>4. /\ more \in Seq(Kids(ThisJob, cls)) /\ Once(more)
      /\ \A I \in {T({"trait"}), T({"const", "static"}), T({"fn"}), T(AdtKinds), T({"mod"})} :
           Brings(more, I)
      /\ InOrder(more)
  <2>1. traits \in Seq(Kin(ThisJob, cls, {"trait"})) /\ Once(traits) /\ Brings(traits, T({"trait"}))
    <3>1. PICK do, kinds : do = "trait" /\ kinds = {"trait"}
      OBVIOUS
    <3>2. traits = Jobs(do, Declarations(crate, ThisJob.i, kinds))
      BY <1>a, <1>e, <3>1
    <3>4. PlainKinds(do, kinds)
      BY <3>1 DEF PlainKinds
    <3>3. /\ traits \in Seq(Kin(ThisJob, cls, kinds)) /\ Once(traits)
          /\ Brings(traits, Within(ThisJob.i, kinds))
      BY <1>2, <3>2, <3>4, PlainPart
    <3> QED BY <3>1, <3>3
  <2>2. fields \in Seq(Kin(ThisJob, cls, {"const", "static"})) /\ Once(fields) /\ Brings(fields, T({"const", "static"}))
       /\ InOrder(fields)
    <3>1. PICK do, kinds : do = "field" /\ kinds = {"const", "static"}
      OBVIOUS
    <3>2. fields = Jobs(do, Declarations(crate, ThisJob.i, kinds))
      BY <1>a, <1>f, <3>1
    <3>4. PlainKinds(do, kinds)
      BY <3>1 DEF PlainKinds
    <3>3. /\ fields \in Seq(Kin(ThisJob, cls, kinds)) /\ Once(fields)
          /\ Brings(fields, Within(ThisJob.i, kinds)) /\ InOrder(fields)
      BY <1>2, <3>2, <3>4, PlainPart
    <3> QED BY <3>1, <3>3
  <2>3. functions \in Seq(Kin(ThisJob, cls, {"fn"})) /\ Once(functions) /\ Brings(functions, T({"fn"}))
    <3>1. PICK S : S = Within(ThisJob.i, {"fn"}) /\ S \subseteq Items(crate)
      BY Zenon DEF Within
    <3>2. fns = Select(crate, S)
      BY <1>a, <1>c, <3>1 DEF Declarations, Within
    <3>3. fns \in Seq(S) /\ OneToOne(fns) /\ \A i \in S : Has(fns, i)
      BY <1>2, <3>1, <3>2, SelectItems
    <3>4. /\ Along(functions, fns)
          /\ \A n \in DOMAIN fns : functions[n] = Place(Job("fn", fns[n]), "free")
      BY <1>g DEF Along
    <3> QED BY <1>2, <3>1, <3>3, <3>4, FreePart
  <2>4. types \in Seq(Kin(ThisJob, cls, AdtKinds)) /\ Once(types) /\ Brings(types, T(AdtKinds))
    <3>1. PICK S : S = Within(ThisJob.i, AdtKinds) /\ S \subseteq Items(crate)
      BY Zenon DEF Within
    <3>2. adts = Select(crate, S)
      BY <1>a, <1>d, <3>1 DEF Declarations, Within, AdtKinds
    <3>3. adts \in Seq(S) /\ OneToOne(adts) /\ \A i \in S : Has(adts, i)
      BY <1>2, <3>1, <3>2, SelectItems
    <3>4. /\ Along(types, adts)
          /\ \A n \in DOMAIN adts : types[n] = AdtJob(crate, adts[n], CrateImpls(crate, adts[n]))
      BY <1>h DEF Along
    <3>5. types \in Seq(Kin(ThisJob, cls, AdtKinds)) /\ Once(types) /\ Brings(types, T(AdtKinds))
      BY <1>2, <3>1, <3>3, <3>4, AdtPart
    <3> QED BY <3>5
  <2>5. modules \in Seq(Kin(ThisJob, cls, {"mod"})) /\ Once(modules) /\ Brings(modules, T({"mod"}))
    <3>1. PICK do, kinds : do = "module" /\ kinds = {"mod"}
      OBVIOUS
    <3>2. modules = Jobs(do, Declarations(crate, ThisJob.i, kinds))
      BY <1>a, <1>i, <3>1
    <3>4. PlainKinds(do, kinds)
      BY <3>1 DEF PlainKinds
    <3>3. /\ modules \in Seq(Kin(ThisJob, cls, kinds)) /\ Once(modules)
          /\ Brings(modules, Within(ThisJob.i, kinds))
      BY <1>2, <3>2, <3>4, PlainPart
    <3> QED BY <3>1, <3>3
  <2>6. PICK A : A = {"trait"} \cup {"const", "static"}
    OBVIOUS
  <2>7. PICK s1 : s1 = traits \o fields
    OBVIOUS
  <2>8. s1 \in Seq(Kin(ThisJob, cls, A)) /\ Once(s1)
    BY <2>1, <2>2, <2>6, <2>7, ConcatKin
  <2>9. PICK B : B = A \cup {"fn"}
    OBVIOUS
  <2>10. PICK s2 : s2 = s1 \o functions
    OBVIOUS
  <2>11. s2 \in Seq(Kin(ThisJob, cls, B)) /\ Once(s2)
    BY <2>3, <2>6, <2>8, <2>9, <2>10, ConcatKin
  <2>12. PICK C : C = B \cup AdtKinds
    OBVIOUS
  <2>13. PICK s3 : s3 = s2 \o types
    OBVIOUS
  <2>14. s3 \in Seq(Kin(ThisJob, cls, C)) /\ Once(s3)
    BY <2>4, <2>6, <2>9, <2>11, <2>12, <2>13, ConcatKin DEF AdtKinds
  <2>15. PICK s4 : s4 = s3 \o modules
    OBVIOUS
  <2>16. s4 \in Seq(Kin(ThisJob, cls, C \cup {"mod"})) /\ Once(s4)
    BY <2>5, <2>6, <2>9, <2>12, <2>14, <2>15, ConcatKin DEF AdtKinds
  <2>17. s4 = more
    BY <1>j, <2>7, <2>10, <2>13, <2>15
  <2>18. \A I \in {T({"trait"}), T({"const", "static"}), T({"fn"}), T(AdtKinds), T({"mod"})} :
           Brings(more, I)
    <3>1. PICK K : K = Kids(ThisJob, cls)
      OBVIOUS
    <3>2. /\ traits \in Seq(K) /\ fields \in Seq(K) /\ functions \in Seq(K)
          /\ types \in Seq(K) /\ modules \in Seq(K)
          /\ s1 \in Seq(K) /\ s2 \in Seq(K) /\ s3 \in Seq(K)
      BY <2>1, <2>2, <2>3, <2>4, <2>5, <2>8, <2>11, <2>14, <3>1, KinKids
    <3> HIDE DEF T
    <3>3. Brings(s1, T({"trait"})) /\ Brings(s1, T({"const", "static"}))
      BY <2>1, <2>2, <2>7, <3>2, ConcatBrings
    <3>4. \A I \in {T({"trait"}), T({"const", "static"}), T({"fn"})} : Brings(s2, I)
      BY <2>3, <2>10, <3>2, <3>3, ConcatBrings
    <3>5. \A I \in {T({"trait"}), T({"const", "static"}), T({"fn"}), T(AdtKinds)} : Brings(s3, I)
      BY <2>4, <2>13, <3>2, <3>4, ConcatBrings
    <3>6. \A I \in {T({"trait"}), T({"const", "static"}), T({"fn"}), T(AdtKinds)} : Brings(s4, I)
      BY <2>15, <3>2, <3>5, ConcatBrings
    <3>7. Brings(s4, T({"mod"}))
      BY <2>5, <2>15, <3>2, ConcatBrings
    <3> QED BY <2>17, <3>6, <3>7
  <2>19. InOrder(more)
    <3>1. PICK K : K = Kids(ThisJob, cls)
      OBVIOUS
    <3>2. /\ traits \in Seq(K) /\ fields \in Seq(K) /\ functions \in Seq(K)
          /\ types \in Seq(K) /\ modules \in Seq(K)
          /\ s1 \in Seq(K) /\ s2 \in Seq(K) /\ s3 \in Seq(K)
      BY <2>1, <2>2, <2>3, <2>4, <2>5, <2>8, <2>11, <2>14, <3>1, KinKids
    <3>3. NoFields(traits) /\ NoFields(functions) /\ NoFields(types) /\ NoFields(modules)
      BY <2>1, <2>3, <2>4, <2>5, KinNoFields DEF AdtKinds
    <3>4. InOrder(traits) /\ InOrder(functions) /\ InOrder(types) /\ InOrder(modules)
      BY <3>3, NoneInOrder
    <3>5. InOrder(s1)
      BY <2>2, <2>7, <3>2, <3>3, <3>4, ConcatInOrder
    <3>6. InOrder(s2)
      BY <2>10, <3>2, <3>3, <3>4, <3>5, ConcatInOrder
    <3>7. InOrder(s3)
      BY <2>13, <3>2, <3>3, <3>4, <3>6, ConcatInOrder
    <3>8. InOrder(s4)
      BY <2>15, <3>2, <3>3, <3>4, <3>7, ConcatInOrder
    <3> QED BY <2>17, <3>8
  <2> QED BY <2>16, <2>17, <2>18, <2>19, KinKids
<1>5. Children(ThisJob, more, cls) /\ Children(ThisJob, <<>>, Here)
  BY <1>4, ChildrenOnce, NoChildren
<1>6. d.item = m /\ d.what = "class" /\ ~OfTraitFn(crate, m)
  <2>1. d.item = m /\ d.what = "class"
    BY <1>k, DeclFacts
  <2> QED BY <1>a, <1>2, <2>1 DEF JobFits, OfTraitFn
<1>7. \A jobs : Declared(ThisJob, <<d>>, jobs) /\ <<d>> \in Seq({d})
  BY <1>a, <1>2, <1>6, OneDeclared DEF ItemJobs
<1>8. Declared(ThisJob, <<>>, <<>>) /\ <<>> \in Seq({})
  BY NoneDeclared
<1>9. CASE ~Goes(ThisJob) /\ Continue(<<>>) /\ UNCHANGED decls
  <2>1. PICK none : none = <<>>
    OBVIOUS
  <2>2. Makes(ThisJob, none, none)
    BY <1>2, <1>9, <2>1 DEF Makes
  <2> QED BY <1>1, <1>2, <1>5, <1>8, <1>9, <2>1, <2>2, ContinueStep
<1>10. CASE ~Goes(ThisJob) /\ Continue(<<>>) /\ Declare(<<d>>)
  <2>1. PICK none : none = <<>>
    OBVIOUS
  <2>2. Makes(ThisJob, none, <<d>>)
    BY <1>2, <1>10, <2>1 DEF Makes
  <2> QED BY <1>1, <1>2, <1>5, <1>7, <1>10, <2>1, <2>2, ContinueStep
<1>11. CASE Goes(ThisJob) /\ Enter(name, more, FALSE) /\ Declare(<<d>>)
  <2>1. PICK ds : ds = <<d>> /\ DOMAIN ds = {1} /\ ds[1] = d
    BY Single1
  <2>2. Declares(ds)
    BY <1>6, <2>1 DEF Declares, Own
  <2>3. Brings(more, Found(ThisJob))
    <3>1. \A i \in Found(ThisJob) :
            \/ i \in T({"trait"}) \/ i \in T({"const", "static"}) \/ i \in T({"fn"})
            \/ i \in T(AdtKinds) \/ i \in T({"mod"})
      BY <1>2 DEF Found, Within, AdtKinds
    <3> HIDE DEF T
    <3> QED BY <1>4, <3>1 DEF Brings
  <2>4. Makes(ThisJob, more, ds)
    BY <1>2, <1>4, <1>11, <2>2, <2>3 DEF Makes
  <2> QED BY <1>1, <1>2, <1>3, <1>5, <1>7, <1>11, <2>1, <2>4, EnterStep
<1> QED BY <1>1, <1>9, <1>10, <1>11

\* The items of a body that stand in one of its blocks.
LEMMA BlockPart ==
  ASSUME crate \in Crates, NEW h, h.do = "block", NEW cls0, JobFits(h, cls0), NEW cls, NEW owner,
         NEW inBlock \in Seq(Within(h.i, BodyKinds)), OneToOne(inBlock), NEW more, Along(more, inBlock),
         \A n \in DOMAIN inBlock : more[n] = DeferredJob(crate, owner, inBlock[n]), owner = h.n,
         \A n \in DOMAIN inBlock : inBlock[n] \in Deferred(crate, owner)
  PROVE  /\ more \in Seq(Kin(h, cls, BodyKinds)) /\ Once(more)
         /\ \A I : (\A i \in I : Has(inBlock, i)) => Brings(more, I)
<1>3. ASSUME NEW n \in DOMAIN inBlock
      PROVE  /\ more[n] \in AllJobs /\ more[n].i = inBlock[n]
             /\ more[n].do \in ItemJobs /\ JobFits(more[n], cls) /\ ImplsFor(h, more[n])
  <2>1. inBlock[n] \in Within(h.i, BodyKinds)
    OBVIOUS
  <2>2. PICK i : i = inBlock[n] /\ i \in Items(crate) /\ crate[i].in = h.i /\ crate[i].k \in BodyKinds /\ i # 0
    BY <2>1, CrateFacts DEF Within, BodyKinds
  <2>3. more[n] = CASE crate[i].k = "fn" -> Job("fn", i)
                    [] IsAdt(crate, i) -> AdtJob(crate, i, LocalImpls(crate, owner, i))
                    [] crate[i].k \in {"const", "static"} -> Job("field", i)
    BY <2>2 DEF DeferredJob
  <2>4. CASE crate[i].k = "fn"
    <3>1. ~OfTraitFn(crate, i)
      BY <2>2 DEF OfTraitFn, JobFits
    <3>2. PICK job : job = Job("fn", i)
      OBVIOUS
    <3>3. job \in AllJobs /\ job.do = "fn" /\ job.i = i /\ "fn" \in ItemJobs /\ JobFits(job, cls)
      BY <2>2, <2>4, <3>1, <3>2, PlainFits
    <3>4. more[n] = job
      BY <2>3, <2>4, <3>2 DEF IsAdt
    <3> QED BY <2>2, <3>3, <3>4 DEF ImplsFor
  <2>5. CASE crate[i].k \in {"const", "static"}
    <3>2. PICK job : job = Job("field", i)
      OBVIOUS
    <3>3. job \in AllJobs /\ job.do = "field" /\ job.i = i /\ "field" \in ItemJobs /\ JobFits(job, cls)
      BY <2>2, <2>5, <3>2, PlainFits
    <3>4. more[n] = job
      BY <2>3, <2>5, <3>2 DEF IsAdt
    <3> QED BY <2>2, <3>3, <3>4 DEF ImplsFor
  <2>6. CASE crate[i].k \in {"struct", "enum"}
    <3>1. IsAdt(crate, i)
      BY <2>2, <2>6 DEF IsAdt
    <3>2. PICK impls : impls = LocalImpls(crate, owner, i)
      OBVIOUS
    <3>3. impls \in Seq(ImplsOf(crate, i)) /\ OneToOne(impls)
      BY <3>2, CrateFacts, BodyFacts, LocalImplsOnce
    <3>4. PICK job : job = AdtJob(crate, i, impls)
      OBVIOUS
    <3>5. /\ job \in AllJobs /\ job.do = "adt" /\ job.i = i /\ "adt" \in ItemJobs /\ JobFits(job, cls)
          /\ job.impls = impls
      BY <2>2, <3>1, <3>3, <3>4, AdtFits
    <3>6. more[n] = job
      BY <2>3, <2>6, <3>1, <3>2, <3>4
    <3>7. ImplsFor(h, job)
      BY <3>2, <3>5 DEF ImplsFor
    <3> QED BY <2>2, <3>5, <3>6, <3>7
  <2>7. crate[i].k \in {"const", "static"} \/ crate[i].k = "fn" \/ crate[i].k \in {"struct", "enum"}
    BY <2>2 DEF BodyKinds
  <2> QED BY <2>4, <2>5, <2>6, <2>7
<1>5. BodyKinds \cap {"impl", "block"} = {} /\ h.do \in {"module", "block"}
  BY DEF BodyKinds
<1>6. \A n \in DOMAIN inBlock : /\ more[n] \in AllJobs /\ more[n].i = inBlock[n]
                                /\ more[n].do \in ItemJobs /\ JobFits(more[n], cls)
                                /\ ImplsFor(h, more[n])
  BY <1>3
<1>7. Part(h, cls, BodyKinds, inBlock, more)
  BY <1>5, <1>6 DEF Part
<1> QED BY <1>7, PartOnce

LEMMA BlockStep ==
  ASSUME Shape, Walk, DeferredOnce(crate), EmitBlock PROVE Shape' /\ Walk' /\ Made
<1>a. PICK b : b = ThisJob.i
  OBVIOUS
<1>b. PICK owner : owner = ThisJob.n
  OBVIOUS
<1>c. PICK inBlock : inBlock = DeferredIn(crate, owner, b)
  OBVIOUS
<1>d. PICK jobs : jobs = [n \in DOMAIN inBlock |-> DeferredJob(crate, owner, inBlock[n])]
  OBVIOUS
<1>e. PICK blocks : blocks = DeferredJobs(crate, owner, b)
  OBVIOUS
<1>f. PICK more : more = jobs \o blocks
  OBVIOUS
<1>g. PICK name : name = ModSimpleName(crate, b)
  OBVIOUS
<1>h. PICK d : d = Decl("class", Here, name, <<>>, b)
  OBVIOUS
<1>1. /\ Working("block") /\ UNCHANGED crate
      /\ Enter(name, more, FALSE) /\ Declare(<<d>>)
  BY <1>a, <1>b, <1>c, <1>d, <1>e, <1>f, <1>g, <1>h DEF EmitBlock, DeclareClass
<1>2. /\ Top.todo # <<>> /\ ThisJob.do = "block" /\ JobFits(ThisJob, Here) /\ crate \in Crates
      /\ ThisJob \in AllJobs
  BY <1>1, NextJob
<1>3. b \in Items(crate) /\ crate[b].k = "block" /\ owner \in Nat
  BY <1>a, <1>b, <1>2 DEF JobFits, ItemJobs, AllJobs
<1>4. PICK cls : cls = Append(Here, name)
  OBVIOUS
<1> PICK S : S = ItemsIn(crate, owner, b)
  OBVIOUS
<1>5. OnceIn(crate, b, DeferredList(crate, owner))
  <2>1. CASE owner \in Items(crate)
    BY <2>1 DEF DeferredOnce, OnceIn, InBlock, DeferredList
  <2>2. CASE owner \notin Items(crate)
    <3>1. PICK none : none = <<>> /\ DOMAIN none = {}
      OBVIOUS
    <3> QED BY <2>2, <3>1 DEF OnceIn, DeferredList
  <2> QED BY <2>1, <2>2
<1>6. jobs \in Seq(Kin(ThisJob, cls, BodyKinds)) /\ Once(jobs) /\ Brings(jobs, S) /\ InOrder(jobs)
  <2>3. /\ inBlock \in Seq(S) /\ OneToOne(inBlock) /\ Increasing(inBlock)
        /\ \A i \in S : Has(inBlock, i)
    BY <1>c, <1>2, <1>5, CrateFacts, BodyFacts, DeferredInOnce
  <2>4. /\ Along(jobs, inBlock)
        /\ \A n \in DOMAIN inBlock : jobs[n] = DeferredJob(crate, owner, inBlock[n])
    BY <1>d DEF Along
  <2>5. S \subseteq Within(ThisJob.i, BodyKinds) /\ S \subseteq Deferred(crate, owner)
    <3>1. ASSUME NEW i \in S
          PROVE  i \in Within(ThisJob.i, BodyKinds) /\ i \in Deferred(crate, owner)
      <4>1. i \in Deferred(crate, owner) /\ crate[i].in = b /\ crate[i].k # "impl" /\ i \in Items(crate)
        BY <1>2, <3>1, CrateFacts, BodyFacts, DeferredAreItems DEF ItemsIn
      <4>2. crate[i].k \in ItemInBody
        BY <1>2, <4>1, DeferredKinds
      <4> QED BY <1>a, <4>1, <4>2 DEF Within, BodyKinds, ItemInBody
    <3> QED BY <3>1
  <2>6. inBlock \in Seq(Within(ThisJob.i, BodyKinds)) /\ OneToOne(inBlock)
    BY <2>3, <2>5
  <2>7. /\ jobs \in Seq(Kin(ThisJob, cls, BodyKinds)) /\ Once(jobs)
        /\ \A I : (\A i \in I : Has(inBlock, i)) => Brings(jobs, I)
    <3>1. PICK h, cls0 : h = ThisJob /\ cls0 = Here
      OBVIOUS
    <3>2. h.do = "block" /\ JobFits(h, cls0) /\ owner = h.n
      BY <1>b, <1>2, <3>1
    <3>3. inBlock \in Seq(Within(h.i, BodyKinds)) /\ OneToOne(inBlock)
      BY <2>6, <3>1
    <3>5. \A n \in DOMAIN inBlock : inBlock[n] \in Deferred(crate, owner)
      BY <2>3, <2>5
    <3>4. /\ jobs \in Seq(Kin(h, cls, BodyKinds)) /\ Once(jobs)
          /\ \A I : (\A i \in I : Has(inBlock, i)) => Brings(jobs, I)
      BY <1>2, <2>4, <3>2, <3>3, <3>5, BlockPart
    <3> QED BY <3>1, <3>4
  <2>8. InOrder(jobs)
    <3>2. ASSUME NEW n \in DOMAIN inBlock PROVE jobs[n].i = inBlock[n]
      <4>1. PICK i : i = inBlock[n] /\ i \in Items(crate) /\ crate[i].k \in BodyKinds /\ i # 0
        BY <1>2, <2>6, CrateFacts DEF Within, BodyKinds
      <4>2. jobs[n] = DeferredJob(crate, owner, i)
        BY <2>4, <4>1
      <4>3. DeferredJob(crate, owner, i).i = i
        BY <4>1 DEF DeferredJob, Job, AdtJob, BodyKinds, IsAdt
      <4> QED BY <4>1, <4>2, <4>3
    <3> QED BY <2>3, <2>4, <3>2, EachInOrder DEF Along
  <2> QED BY <2>3, <2>7, <2>8
<1> DEFINE B == {i \in Items(crate) : crate[i].in = ThisJob.i /\ HoldsDeferred(i, owner)}
<1>7. blocks \in Seq(Kin(ThisJob, cls, {"block"})) /\ Once(blocks) /\ Brings(blocks, B)
  BY <1>a, <1>b, <1>e, <1>2, <1>3, DeferredJobsOnce
<1>9. BodyKinds \cap {"block"} = {}
  BY DEF BodyKinds
<1>8. more \in Seq(Kin(ThisJob, cls, BodyKinds \cup {"block"})) /\ Once(more)
  BY <1>f, <1>6, <1>7, <1>9, ConcatKin
<1>11. Children(ThisJob, more, cls)
  BY <1>8, KinKids, ChildrenOnce
<1>12. d.item = b /\ d.what = "class" /\ ~OfTraitFn(crate, b)
  BY <1>h, <1>3, DeclFacts DEF OfTraitFn
<1>10. Declared(ThisJob, <<d>>, more) /\ <<d>> \in Seq({d})
  BY <1>a, <1>2, <1>12, OneDeclared DEF ItemJobs
<1>13. PICK ds : ds = <<d>> /\ DOMAIN ds = {1} /\ ds[1] = d
  BY Single1
<1>14. Makes(ThisJob, more, ds)
  <2>1. Declares(ds) /\ Goes(ThisJob)
    BY <1>2, <1>12, <1>13 DEF Declares, Own, Goes
  <2>2. Brings(more, S) /\ Brings(more, B)
    <3>1. PICK K : K = Kids(ThisJob, cls)
      OBVIOUS
    <3>2. jobs \in Seq(K) /\ blocks \in Seq(K)
      BY <1>6, <1>7, <3>1, KinKids
    <3> HIDE DEF B
    <3> QED BY <1>f, <1>6, <1>7, <3>2, ConcatBrings
  <2>3. \A i \in Found(ThisJob) : i \in S \/ i \in B
    BY <1>a, <1>b, <1>2 DEF Found, ItemsIn
  <2>4. Brings(more, Found(ThisJob))
    BY <2>2, <2>3 DEF Brings
  <2>5. InOrder(more)
    <3>1. PICK K : K = Kids(ThisJob, cls)
      OBVIOUS
    <3>2. jobs \in Seq(K) /\ blocks \in Seq(K)
      BY <1>6, <1>7, <3>1, KinKids
    <3>3. NoFields(blocks) /\ InOrder(blocks)
      BY <1>7, KinNoFields, NoneInOrder
    <3> QED BY <1>f, <1>6, <3>2, <3>3, ConcatInOrder
  <2> QED BY <1>2, <2>1, <2>4, <2>5 DEF Makes
<1> QED BY <1>1, <1>2, <1>4, <1>10, <1>11, <1>13, <1>14, EnterStep

--------------------------------------------------------------------------------
(* The walk over a crate. *)

LEMMA SameCrate == ASSUME [CrateNext]_cvars PROVE UNCHANGED crate
<1>1. CASE EmitModule BY <1>1 DEF EmitModule
<1>2. CASE EmitBlock BY <1>2 DEF EmitBlock
<1>3. CASE EmitBlank BY <1>3 DEF EmitBlank
<1>4. CASE CloseClass BY <1>4 DEF CloseClass
<1>5. CASE EmitFunction BY <1>5 DEF EmitFunction
<1>6. CASE EmitField BY <1>6 DEF EmitField
<1>7. CASE EmitTrait BY <1>7 DEF EmitTrait
<1>8. CASE EmitSlot BY <1>8 DEF EmitSlot
<1>9. CASE EmitStaticsInterface BY <1>9 DEF EmitStaticsInterface
<1>10. CASE EmitDefaults BY <1>10 DEF EmitDefaults
<1>11. CASE EmitAdt BY <1>11 DEF EmitAdt
<1>12. CASE EmitVariant BY <1>12 DEF EmitVariant
<1>13. CASE EmitConstructable BY <1>13 DEF EmitConstructable
<1>14. CASE EmitImpl BY <1>14 DEF EmitImpl
<1>15. CASE EmitWrapper BY <1>15 DEF EmitWrapper
<1>16. CASE EmitOperators BY <1>16 DEF EmitOperators
<1>17. CASE EmitStaticsStruct BY <1>17 DEF EmitStaticsStruct
<1>18. CASE UNCHANGED cvars BY <1>18 DEF cvars
<1> QED
  BY <1>1, <1>2, <1>3, <1>4, <1>5, <1>6, <1>7, <1>8, <1>9, <1>10, <1>11, <1>12, <1>13, <1>14,
     <1>15, <1>16, <1>17, <1>18 DEF CrateNext

LEMMA SameWalk == ASSUME Shape, Walk, UNCHANGED cvars PROVE Shape' /\ Walk'
<1>1. UNCHANGED crate /\ UNCHANGED stack /\ UNCHANGED decls
  BY DEF cvars
<1>2. Shape'
  BY <1>1 DEF Shape
<1>3. OncePending' /\ JobsFit' /\ WrittenOnce'
  <2>1. OncePending'
    BY <1>1 DEF Walk, OncePending
  <2>2. JobsFit'
    <3>1. \A job, class : JobFits(job, class)' <=> JobFits(job, class)
      BY <1>1 DEF JobFits
    <3>2. JobsFit
      BY DEF Walk
    <3> QED BY <1>1, <3>1, <3>2 DEF JobsFit
  <2>3. WrittenOnce'
    <3>1. \A n \in DOMAIN decls : Own(decls[n])' <=> Own(decls[n])
      BY <1>1 DEF Own
    <3> QED BY <1>1, <3>1 DEF Walk, WrittenOnce, Own
  <2> QED BY <2>1, <2>2, <2>3
<1>4. \A i : Written(i)' <=> Written(i)
  BY <1>1 DEF Written, Own
<1>5. \A jobs, i : Pending(jobs, i)' <=> Pending(jobs, i)
  BY <1>1 DEF Pending
<1>6. FoundOnce'
  <2>1. ASSUME NEW i \in Items(crate), Reached(i)' PROVE Opened(Home(crate, i))'
    <3>1. Reached(i)
      BY <1>1, <1>4, <1>5, <2>1 DEF Reached
    <3>2. Opened(Home(crate, i))
      BY <3>1 DEF Walk, FoundOnce
    <3>3. PICK p : p = Home(crate, i) /\ Opened(p)
      BY <3>2
    <3>4. Home(crate, i)' = p
      BY <1>1, <3>3 DEF Home
    <3>5. Opened(p)'
      <4>1. PICK to : to = crate[p].to
        OBVIOUS
      <4> QED BY <1>1, <1>4, <1>5, <3>3, <4>1 DEF Opened
    <3> QED BY <3>4, <3>5 DEF Opened
  <2> QED BY <1>1, <1>4, <1>5, <2>1 DEF Walk, FoundOnce
<1> QED BY <1>2, <1>3, <1>6 DEF Walk

LEMMA FirstJob ==
  \E job : job = Job("module", 0) /\ job \in AllJobs /\ job.do = "module" /\ job.i = 0
<1>1. PICK do, i : do = "module" /\ i = 0 /\ do \in Dos /\ i \in Nat
  <2>1. "module" \in Dos /\ 0 \in Nat
    BY DEF Dos, ItemJobs
  <2> QED BY <2>1, Zenon
<1>2. Job(do, i) \in AllJobs /\ Job(do, i).do = do /\ Job(do, i).i = i
  BY <1>1, JobFacts, Zenon
<1> QED BY <1>1, <1>2, Zenon

LEMMA WalkInit ==
  ASSUME CrateInit
  PROVE  /\ Shape /\ Walk /\ Pending(ItemJobs, 0) /\ \A i : ~Written(i)
         /\ \A k \in DOMAIN stack : \A n \in DOMAIN stack[k].todo :
              stack[k].todo[n].do = "module" /\ stack[k].todo[n].i = 0
<1>a. PICK job : job = Job("module", 0) /\ job \in AllJobs /\ job.do = "module" /\ job.i = 0
  BY FirstJob, Zenon
<1>b. PICK todo : todo = <<job>> /\ DOMAIN todo = {1} /\ todo[1] = job /\ todo \in Seq(AllJobs)
  <2>1. job \in AllJobs
    BY <1>a
  <2> QED BY <2>1, SingleIn
<1>c. PICK frame : frame = Frame(<<>>, todo, FALSE) /\ frame.todo = todo /\ frame \in Frames({})
  <2>1. PICK none : none = <<>> /\ none \in Seq({})
    <3>1. <<>> \in Seq({})
      OBVIOUS
    <3> QED BY <3>1, Zenon
  <2>2. Frame(none, todo, FALSE) \in Frames({}) /\ Frame(none, todo, FALSE).todo = todo
    BY <1>b, <2>1 DEF Frame, Frames
  <2> QED BY <2>1, <2>2
<1>1. crate \in Crates /\ stack = <<frame>> /\ decls = <<>>
  BY <1>a, <1>b, <1>c DEF CrateInit
<1>2. DOMAIN stack = {1} /\ stack[1] = frame /\ stack \in Seq(Frames({})) /\ stack # <<>>
  <2>1. DOMAIN <<frame>> = {1} /\ <<frame>>[1] = frame /\ <<frame>> \in Seq({frame}) /\ {frame} \subseteq Frames({})
    BY <1>c, Single1
  <2>2. <<frame>> \in Seq(Frames({})) /\ <<frame>> # <<>>
    BY <2>1
  <2> QED BY <1>1, <2>1, <2>2
<1>3. DOMAIN decls = {} /\ decls \in Seq({})
  BY <1>1
<1>4. Shape
  BY <1>1, <1>2, <1>3 DEF Shape
<1>5. \A k \in DOMAIN stack : \A n \in DOMAIN stack[k].todo :
        k = 1 /\ n = 1 /\ stack[k].todo[n] = job
  BY <1>b, <1>c, <1>2
<1>6. OncePending
  BY <1>5 DEF OncePending
<1>7. JobsFit
  BY <1>a, <1>5 DEF JobsFit, JobFits, ItemJobs, PartJobs
<1>8. WrittenOnce /\ \A i : ~Written(i)
  BY <1>3 DEF WrittenOnce, Written
<1>9. \A jobs, i : Pending(jobs, i) => i = 0 /\ "module" \in jobs
  BY <1>a, <1>5 DEF Pending
<1>10. FoundOnce
  <2>1. \A i \in Items(crate) : ~Reached(i)
    BY <1>1, <1>8, <1>9, CrateFacts DEF Reached
  <2>2. "module" \notin PartJobs
    BY DEF PartJobs
  <2> QED BY <1>8, <1>9, <2>1, <2>2 DEF FoundOnce
<1>11. Walk
  BY <1>6, <1>7, <1>8, <1>10 DEF Walk
<1>12. Pending(ItemJobs, 0)
  BY <1>a, <1>b, <1>c, <1>2 DEF Pending, ItemJobs
<1>13. \A k \in DOMAIN stack : \A n \in DOMAIN stack[k].todo :
         stack[k].todo[n].do = "module" /\ stack[k].todo[n].i = 0
  BY <1>a, <1>5
<1> QED BY <1>4, <1>8, <1>11, <1>12, <1>13

LEMMA WalkNext ==
  ASSUME Shape, Walk, FoundInOneWay(crate), [CrateNext]_cvars
  PROVE  Shape' /\ Walk' /\ (Made \/ CloseClass \/ UNCHANGED cvars)
<1>1. CASE EmitModule BY <1>1, ModuleStep DEF FoundInOneWay
<1>2. CASE EmitBlock BY <1>2, BlockStep DEF FoundInOneWay
<1>3. CASE EmitBlank BY <1>3, BlankStep
<1>4. CASE CloseClass BY <1>4, CloseStep
<1>5. CASE EmitFunction BY <1>5, FunctionStep
<1>6. CASE EmitField BY <1>6, FieldStep
<1>7. CASE EmitTrait BY <1>7, TraitStep
<1>8. CASE EmitSlot BY <1>8, SlotStep
<1>9. CASE EmitStaticsInterface BY <1>9, StaticsStep
<1>10. CASE EmitDefaults BY <1>10, DefaultsStep
<1>11. CASE EmitAdt BY <1>11, AdtStep
<1>12. CASE EmitVariant BY <1>12, VariantStep
<1>13. CASE EmitConstructable BY <1>13, ConstructableStep
<1>14. CASE EmitImpl BY <1>14, ImplItemsStep
<1>15. CASE EmitWrapper BY <1>15, WrapperStep
<1>16. CASE EmitOperators BY <1>16, OperatorsStep
<1>17. CASE EmitStaticsStruct BY <1>17, StaticsStructStep
<1>18. CASE UNCHANGED cvars BY <1>18, SameWalk
<1> QED
  BY <1>1, <1>2, <1>3, <1>4, <1>5, <1>6, <1>7, <1>8, <1>9, <1>10, <1>11, <1>12, <1>13, <1>14,
     <1>15, <1>16, <1>17, <1>18 DEF CrateNext

\* The walk's invariant, with the types of the stack and the declarations.
WholeWalk == FoundInOneWay(crate) => Shape /\ Walk

LEMMA WholeWalkInvariant == CrateSpec => []WholeWalk
<1>1. CrateInit => WholeWalk
  BY WalkInit DEF WholeWalk
<1>2. WholeWalk /\ [CrateNext]_cvars => WholeWalk'
  <2> SUFFICES ASSUME WholeWalk, [CrateNext]_cvars, FoundInOneWay(crate)'
               PROVE  Shape' /\ Walk'
    BY DEF WholeWalk
  <2>1. FoundInOneWay(crate)
    BY SameCrate
  <2>2. Shape /\ Walk
    BY <2>1 DEF WholeWalk
  <2> QED BY <2>1, <2>2, WalkNext
<1> QED BY <1>1, <1>2, PTL DEF CrateSpec

\* Whatever the crate, when no two types in modules have the same C# class and no
\* body defers an item twice, the walk comes to an item only through the one it is
\* found through, and once (emit_crate, emit_module, emit_adt_with_impls,
\* emit_trait, deferred).
THEOREM WalkIsInvariant == CrateSpec => []WalkInv
<1>1. WholeWalk => WalkInv
  BY DEF WholeWalk, WalkInv
<1> QED BY <1>1, WholeWalkInvariant, PTL

--------------------------------------------------------------------------------
(* Constants and statics keep their order. *)

\* A constant or static is found in the module, block or impl it stands in.
LEMMA FieldMaker ==
  ASSUME crate \in Crates, NEW h, NEW cls0, JobFits(h, cls0), NEW cls, NEW job,
         Child(h, job, cls), job.do = "field"
  PROVE  /\ h.do \in {"module", "block", "impl"} /\ IsValue(crate, job.i)
         /\ crate[job.i].in = h.i
<1>1. job.i \in Items(crate) /\ crate[job.i].k \in {"const", "static"} /\ crate[job.i].in = h.i
  BY DEF Child, JobFits, ItemJobs, Home
<1>2. StandsIn(crate, job.i)
  BY <1>1, CratesAssumption
<1>3. h.do \in (ItemJobs \ {"trait"}) \cup {"defaults"} /\ h.do # "defaults"
  BY <1>1 DEF Child, ItemJobs
<1>4. h.do \notin {"adt", "fn", "field"}
  <2>1. h.do \in {"adt", "fn", "field"} =>
          h.i \in Items(crate) /\ h.i # 0 /\ crate[h.i].k \notin {"mod", "block", "trait", "impl"}
    BY CrateFacts DEF JobFits, ItemJobs, IsAdt
  <2> QED BY <1>1, <1>2, <2>1 DEF StandsIn
<1> QED BY <1>1, <1>3, <1>4 DEF IsValue, ItemJobs

\* The first job for one of them is made when none of its siblings has a job or
\* is written.
LEMMA NewFields ==
  ASSUME Shape, Walk, NEW h, NEW more, NEW cls, NEW ds, Steps(h, more, cls, ds), Makes(h, more, ds),
         NEW m \in DOMAIN more, more[m].do = "field"
  PROVE  /\ InOrder(more) /\ IsValue(crate, more[m].i) /\ crate[more[m].i].in = h.i
         /\ \A k \in DOMAIN stack : \A n \in DOMAIN stack[k].todo :
              stack[k].todo[n].do = "field" => crate[stack[k].todo[n].i].in # h.i
         /\ \A n \in DOMAIN decls :
              Own(decls[n]) /\ IsValue(crate, decls[n].item) => crate[decls[n].item].in # h.i
<1>1. crate \in Crates /\ IsNext(h) /\ Child(h, more[m], cls) /\ more # <<>>
  BY ChildrenAre DEF Steps, Shape
<1>2. JobFits(h, stack[Len(stack)].class)
  BY <1>1, NextFits DEF Walk
<1>3. /\ h.do \in {"module", "block", "impl"} /\ IsValue(crate, more[m].i)
      /\ crate[more[m].i].in = h.i
  BY <1>1, <1>2, FieldMaker
<1>4. ~Opened(h.i)
  BY <1>1, NotOpened DEF ItemJobs
<1>5. ASSUME NEW i, IsValue(crate, i), Reached(i) PROVE crate[i].in # h.i
  <2>1. Opened(Home(crate, i))
    BY <1>5 DEF Walk, FoundOnce, IsValue
  <2> QED BY <1>4, <1>5, <2>1 DEF Home, IsValue
<1>6. ASSUME NEW k \in DOMAIN stack, NEW n \in DOMAIN stack[k].todo, stack[k].todo[n].do = "field"
      PROVE  crate[stack[k].todo[n].i].in # h.i
  <2>1. PICK i : i = stack[k].todo[n].i
    OBVIOUS
  <2>2. Pending(ItemJobs, i)
    BY <1>6, <2>1 DEF Pending, ItemJobs
  <2>3. IsValue(crate, i)
    BY <1>6, <2>1 DEF Walk, JobsFit, JobFits, IsValue, ItemJobs
  <2> QED BY <1>5, <2>1, <2>2, <2>3 DEF Reached
<1>7. ASSUME NEW n \in DOMAIN decls, Own(decls[n]), IsValue(crate, decls[n].item)
      PROVE  crate[decls[n].item].in # h.i
  <2>1. PICK i : i = decls[n].item
    OBVIOUS
  <2>2. Written(i) /\ IsValue(crate, i) /\ crate[i].k # "impl"
    BY <1>7, <2>1 DEF Written, IsValue
  <2> QED BY <1>5, <2>1, <2>2 DEF Reached
<1>8. InOrder(more)
  BY <1>1, <1>3 DEF Makes
<1> QED BY <1>3, <1>6, <1>7, <1>8

\* What h declares of them is itself.
LEMMA FieldDeclares ==
  ASSUME crate \in Crates, NEW h, NEW cls0, JobFits(h, cls0), NEW more, NEW ds, Declared(h, ds, more),
         NEW m \in DOMAIN ds, Own(ds[m]), IsValue(crate, ds[m].item)
  PROVE  h.do = "field" /\ ds[m].item = h.i /\ \A n \in DOMAIN ds : Own(ds[n]) => n = m
<1>1. ds[m].item = h.i /\ h.do \in (ItemJobs \ {"impl"}) \cup PartJobs \cup {"operators"}
  BY DEF Declared
<1>2. h.i \in Items(crate) /\ crate[h.i].k \in {"const", "static"} /\ h.i # 0
  BY <1>1, CrateFacts DEF IsValue
<1>3. h.do = "field"
  BY <1>1, <1>2 DEF JobFits, ItemJobs, PartJobs, IsAdt
<1> QED BY <1>1, <1>2, <1>3 DEF Declared, Single

LEMMA FieldsStep ==
  ASSUME Shape, Walk, FieldsInOrder, NEW h, NEW more, NEW cls, NEW ds,
         Steps(h, more, cls, ds), Makes(h, more, ds)
  PROVE  FieldsInOrder'
<1>1. UNCHANGED crate /\ \A i, j : SideBySide(i, j)' <=> SideBySide(i, j)
  BY DEF Steps, SideBySide, IsValue
<1>2. PICK K \in Nat, d \in Int :
        \A k \in DOMAIN stack' : \A n \in DOMAIN stack'[k].todo :
          /\ k \in Nat /\ n \in Nat
          /\ \/ /\ k = K /\ n \in DOMAIN more
                /\ stack'[k].todo[n] = more[n] /\ stack'[k].class = cls
             \/ /\ k \in DOMAIN stack /\ Was(k, n, d) \in DOMAIN stack[k].todo
                /\ k = Len(stack) => Was(k, n, d) # 1
                /\ stack'[k].todo[n] = stack[k].todo[Was(k, n, d)]
                /\ stack'[k].class = stack[k].class
  BY DEF Steps, Moves
<1> DEFINE New(k, n) == k = K /\ n \in DOMAIN more /\ stack'[k].todo[n] = more[n]
           Old(k, n) == /\ k \in DOMAIN stack /\ Was(k, n, d) \in DOMAIN stack[k].todo
                        /\ stack'[k].todo[n] = stack[k].todo[Was(k, n, d)]
<1>3. ASSUME NEW k1 \in DOMAIN stack', NEW k2 \in DOMAIN stack',
             NEW n1 \in DOMAIN stack'[k1].todo, NEW n2 \in DOMAIN stack'[k2].todo,
             NEW a, a = stack'[k1].todo[n1], NEW b, b = stack'[k2].todo[n2],
             a.do = "field", b.do = "field", SideBySide(a.i, b.i)
      PROVE  k1 = k2 /\ (n1 < n2 => a.i < b.i)
  <2>1. n1 \in Nat /\ n2 \in Nat /\ (New(k1, n1) \/ Old(k1, n1)) /\ (New(k2, n2) \/ Old(k2, n2))
    BY <1>2
  <2>2. crate[a.i].in = crate[b.i].in
    BY <1>3 DEF SideBySide
  <2>3. CASE New(k1, n1) /\ New(k2, n2)
    <3>1. InOrder(more)
      BY <1>3, <2>3, NewFields
    <3> QED BY <1>3, <2>3, <3>1 DEF InOrder
  <2>4. CASE New(k1, n1) /\ Old(k2, n2)
    <3>1. crate[a.i].in = h.i /\ crate[b.i].in # h.i
      BY <1>3, <2>4, NewFields
    <3> QED BY <2>2, <3>1
  <2>5. CASE Old(k1, n1) /\ New(k2, n2)
    <3>1. crate[b.i].in = h.i /\ crate[a.i].in # h.i
      BY <1>3, <2>5, NewFields
    <3> QED BY <2>2, <3>1
  <2>6. CASE Old(k1, n1) /\ Old(k2, n2)
    <3>1. k1 = k2 /\ (Was(k1, n1, d) < Was(k2, n2, d) => a.i < b.i)
      BY <1>3, <2>6 DEF FieldsInOrder
    <3>2. n1 < n2 => Was(k1, n1, d) < Was(k2, n2, d)
      BY <2>1, <3>1 DEF Was
    <3> QED BY <3>1, <3>2
  <2> QED BY <2>1, <2>3, <2>4, <2>5, <2>6
<1> QED BY <1>1, <1>3 DEF FieldsInOrder

LEMMA TodoNumbers ==
  ASSUME NEW X, stack \in Seq(Frames(X)), NEW k \in DOMAIN stack, NEW n \in DOMAIN stack[k].todo
  PROVE  n \in Nat \ {0}
<1>1. stack[k] \in Frames(X)
  <2> HIDE DEF Frames
  <2> QED OBVIOUS
<1>2. stack[k].todo \in Seq(AllJobs)
  BY <1>1 DEF Frames
<1> QED BY <1>2

LEMMA WrittenBeforeStep ==
  ASSUME Shape, Walk, FieldsInOrder, WrittenBefore, NEW h, NEW more, NEW cls, NEW ds,
         Steps(h, more, cls, ds), Makes(h, more, ds)
  PROVE  WrittenBefore'
<1>1. /\ UNCHANGED crate /\ \A i, j : SideBySide(i, j)' <=> SideBySide(i, j)
      /\ \A x : Own(x)' <=> Own(x)
  BY DEF Steps, SideBySide, IsValue, Own, OfTraitFn
<1>2. crate \in Crates /\ IsNext(h) /\ Declared(h, ds, more) /\ JobFits(h, stack[Len(stack)].class)
  BY NextFits DEF Steps, Shape, Walk
<1>3. ASSUME NEW n \in DOMAIN decls', NEW k \in DOMAIN stack', NEW m \in DOMAIN stack'[k].todo,
             NEW x, x = decls'[n], NEW job, job = stack'[k].todo[m],
             Own(x), job.do = "field", SideBySide(x.item, job.i)
      PROVE  x.item < job.i
  <2>1. \/ \E q \in DOMAIN more : job = more[q]
        \/ \E k0 \in DOMAIN stack : \E q \in DOMAIN stack[k0].todo :
             (k0 = Len(stack) => q # 1) /\ job = stack[k0].todo[q]
    BY <1>3 DEF Steps, Moves
  <2>2. (\E q \in DOMAIN decls : x = decls[q]) \/ (\E q \in DOMAIN ds : x = ds[q])
    BY <1>3 DEF Steps, Grows
  <2>3. IsValue(crate, x.item) /\ IsValue(crate, job.i) /\ crate[x.item].in = crate[job.i].in
    BY <1>3 DEF SideBySide
  <2>4. ASSUME NEW q \in DOMAIN more, job = more[q] PROVE FALSE
    <3>1. /\ crate[job.i].in = h.i
          /\ \A p \in DOMAIN decls :
               Own(decls[p]) /\ IsValue(crate, decls[p].item) => crate[decls[p].item].in # h.i
          /\ Child(h, job, cls)
      BY <1>3, <2>4, NewFields, ChildrenAre DEF Steps
    <3>2. PICK p \in DOMAIN ds : x = ds[p]
      BY <1>3, <2>2, <2>3, <3>1
    <3>3. h.do = "field"
      BY <1>2, <1>3, <2>3, <3>2, FieldDeclares
    <3>4. h.do \in {"module", "block", "impl"}
      BY <1>2, <1>3, <3>1, FieldMaker
    <3> QED BY <3>3, <3>4
  <2>5. ASSUME NEW k0 \in DOMAIN stack, NEW q \in DOMAIN stack[k0].todo,
               k0 = Len(stack) => q # 1, job = stack[k0].todo[q]
        PROVE  x.item < job.i
    <3>1. CASE \E p \in DOMAIN decls : x = decls[p]
      BY <1>3, <2>5, <3>1 DEF WrittenBefore
    <3>2. CASE \E p \in DOMAIN ds : x = ds[p]
      <4>1. h.do = "field" /\ x.item = h.i
        BY <1>2, <1>3, <2>3, <3>2, FieldDeclares
      <4>2. Len(stack) \in DOMAIN stack /\ 1 \in DOMAIN stack[Len(stack)].todo
            /\ h = stack[Len(stack)].todo[1]
        BY <1>2 DEF IsNext
      <4>3. k0 = Len(stack) /\ (1 < q => h.i < job.i)
        BY <1>3, <2>5, <4>1, <4>2 DEF FieldsInOrder
      <4>4. q \in Nat \ {0}
        BY <2>5, TodoNumbers DEF Shape
      <4> QED BY <2>5, <4>1, <4>3, <4>4
    <3> QED BY <2>2, <3>1, <3>2
  <2> QED BY <2>1, <2>4, <2>5
<1> QED BY <1>1, <1>3 DEF WrittenBefore

LEMMA WrittenInOrderStep ==
  ASSUME Shape, Walk, WrittenBefore, WrittenInOrder, NEW h, NEW more, NEW cls, NEW ds,
         Steps(h, more, cls, ds), Makes(h, more, ds)
  PROVE  WrittenInOrder'
<1>1. /\ UNCHANGED crate /\ \A i, j : SideBySide(i, j)' <=> SideBySide(i, j)
      /\ \A x : Own(x)' <=> Own(x)
  BY DEF Steps, SideBySide, IsValue, Own, OfTraitFn
<1>2. crate \in Crates /\ IsNext(h) /\ Declared(h, ds, more) /\ JobFits(h, stack[Len(stack)].class)
  BY NextFits DEF Steps, Shape, Walk
<1>3. PICK L \in Nat :
        /\ DOMAIN decls = 1 .. L
        /\ \A n \in DOMAIN decls : n \in DOMAIN decls' /\ decls'[n] = decls[n]
        /\ \A m \in DOMAIN ds : m \in Nat /\ L + m \in DOMAIN decls' /\ decls'[L + m] = ds[m]
        /\ \A n \in DOMAIN decls' : n \notin DOMAIN decls => \E m \in DOMAIN ds : n = L + m
  BY DEF Steps, Grows
<1>4. ASSUME NEW n \in DOMAIN decls', NEW m \in DOMAIN decls', n < m,
             NEW x, x = decls'[n], NEW y, y = decls'[m],
             Own(x), Own(y), SideBySide(x.item, y.item)
      PROVE  x.item < y.item
  <2>1. IsValue(crate, x.item) /\ IsValue(crate, y.item)
    BY <1>4 DEF SideBySide
  <2>2. CASE m \in DOMAIN decls
    <3>1. n \in DOMAIN decls
      <4>1. \A p \in DOMAIN ds : n # L + p
        BY <1>3, <1>4, <2>2
      <4> QED BY <1>3, <4>1
    <3> QED BY <1>3, <1>4, <2>2, <3>1 DEF WrittenInOrder
  <2>3. CASE m \notin DOMAIN decls
    <3>1. PICK q \in DOMAIN ds : m = L + q /\ y = ds[q] /\ q \in Nat
      BY <1>3, <1>4, <2>3
    <3>2. h.do = "field" /\ y.item = h.i /\ \A p \in DOMAIN ds : Own(ds[p]) => p = q
      BY <1>2, <1>4, <2>1, <3>1, FieldDeclares
    <3>3. n \in DOMAIN decls
      <4>1. ASSUME NEW p \in DOMAIN ds, n = L + p PROVE FALSE
        <5>1. p \in Nat /\ x = ds[p]
          BY <1>3, <1>4, <4>1
        <5>2. p = q
          BY <1>4, <3>2, <5>1
        <5> QED BY <1>4, <3>1, <4>1, <5>2
      <4> QED BY <1>3, <1>4, <4>1
    <3>4. x = decls[n]
      BY <1>3, <1>4, <3>3
    <3>5. Len(stack) \in DOMAIN stack /\ 1 \in DOMAIN stack[Len(stack)].todo
          /\ h = stack[Len(stack)].todo[1]
      BY <1>2 DEF IsNext
    <3> QED BY <1>4, <3>2, <3>3, <3>4, <3>5 DEF WrittenBefore
  <2> QED BY <2>2, <2>3
<1> QED BY <1>1, <1>4 DEF WrittenInOrder

\* Steps that write nothing, and make no job.
LEMMA OrderKept ==
  ASSUME Ordered, UNCHANGED crate, UNCHANGED decls,
         \A k \in DOMAIN stack' : k \in DOMAIN stack /\ stack'[k] = stack[k]
  PROVE  Ordered'
<1>1. /\ \A i, j : SideBySide(i, j)' <=> SideBySide(i, j)
      /\ \A x : Own(x)' <=> Own(x)
  BY DEF SideBySide, IsValue, Own, OfTraitFn
<1>2. FieldsInOrder'
  BY <1>1 DEF Ordered, FieldsInOrder
<1>3. WrittenBefore'
  BY <1>1 DEF Ordered, WrittenBefore
<1>4. WrittenInOrder'
  BY <1>1 DEF Ordered, WrittenInOrder
<1> QED BY <1>2, <1>3, <1>4 DEF Ordered

LEMMA CloseOrders == ASSUME Shape, Ordered, CloseClass PROVE Ordered'
<1>1. PICK X : stack \in Seq(Frames(X))
  BY DEF Shape
<1>2. Len(stack) \in Nat /\ DOMAIN stack = 1 .. Len(stack) /\ Len(stack) > 1
  BY <1>1 DEF CloseClass
<1>3. PICK s : s = SubSeq(stack, 1, Len(stack) - 1)
  OBVIOUS
<1>4. DOMAIN s = 1 .. Len(stack) - 1 /\ \A k \in DOMAIN s : s[k] = stack[k]
  BY <1>1, <1>2, <1>3
<1>5. stack' = s /\ UNCHANGED crate /\ UNCHANGED decls
  BY <1>3 DEF CloseClass
<1>6. \A k \in DOMAIN stack' : k \in DOMAIN stack /\ stack'[k] = stack[k]
  BY <1>2, <1>4, <1>5
<1> QED BY <1>5, <1>6, OrderKept

LEMMA OrderInit == ASSUME CrateInit PROVE Ordered
<1>1. \A k \in DOMAIN stack : \A n \in DOMAIN stack[k].todo : stack[k].todo[n].do = "module"
  BY WalkInit
<1>2. PICK none : none = <<>> /\ DOMAIN none = {}
  OBVIOUS
<1>3. DOMAIN decls = {}
  BY <1>2 DEF CrateInit
<1> QED BY <1>1, <1>3 DEF Ordered, FieldsInOrder, WrittenBefore, WrittenInOrder

WholeOrder == FoundInOneWay(crate) => Shape /\ Walk /\ Ordered

LEMMA WholeOrderInvariant == CrateSpec => []WholeOrder
<1>1. CrateInit => WholeOrder
  BY WalkInit, OrderInit DEF WholeOrder
<1>2. WholeOrder /\ [CrateNext]_cvars => WholeOrder'
  <2> SUFFICES ASSUME WholeOrder, [CrateNext]_cvars, FoundInOneWay(crate)'
               PROVE  Shape' /\ Walk' /\ Ordered'
    BY DEF WholeOrder
  <2>1. FoundInOneWay(crate)
    BY SameCrate
  <2>2. Shape /\ Walk /\ Ordered
    BY <2>1 DEF WholeOrder
  <2>3. Shape' /\ Walk' /\ (Made \/ CloseClass \/ UNCHANGED cvars)
    BY <2>1, <2>2, WalkNext
  <2>4. CASE Made
    <3>1. PICK h : h = ThisJob
      OBVIOUS
    <3>2. PICK more, cls, ds : Steps(h, more, cls, ds) /\ Makes(h, more, ds)
      BY <2>4, <3>1 DEF Made
    <3>3. FieldsInOrder'
      BY <2>2, <3>2, FieldsStep DEF Ordered
    <3>4. WrittenBefore'
      BY <2>2, <3>2, WrittenBeforeStep DEF Ordered
    <3>5. WrittenInOrder'
      BY <2>2, <3>2, WrittenInOrderStep DEF Ordered
    <3> QED BY <2>3, <3>3, <3>4, <3>5 DEF Ordered
  <2>5. CASE CloseClass
    BY <2>2, <2>3, <2>5, CloseOrders
  <2>6. CASE UNCHANGED cvars
    BY <2>2, <2>3, <2>6, OrderKept DEF cvars
  <2> QED BY <2>3, <2>4, <2>5, <2>6
<1> QED BY <1>1, <1>2, PTL DEF CrateSpec

\* Whatever the crate, when no two types in modules have the same C# class and no
\* body defers an item twice, the constants and statics of one module, block or
\* impl get their C# fields in the order of their declarations (emit_module,
\* deferred, emit_impl_items).
THEOREM WrittenAsDeclared == CrateSpec => []OrderInv
<1>1. WholeOrder => OrderInv
  BY DEF WholeOrder, OrderInv
<1> QED BY <1>1, WholeOrderInvariant, PTL
================================================================================
