--------------------------- MODULE CrateCover_proofs ---------------------------
(***************************************************************************)
(* Proofs that the walk over a crate writes each function, constant and    *)
(* static that is to be translated, and no other.  CoverInv is inductive   *)
(* together with the invariant of the walk (CrateWalk_proofs); once no job *)
(* is left, an item that is translated and not written would have one      *)
(* around it, or the type of its impl, that is not written either, and so  *)
(* on for ever.  Then that an initialiser finds ready what it reads, from  *)
(* the order in which constants are written.                               *)
(***************************************************************************)
EXTENDS EmittedProgram, CrateWalk_proofs, FiniteSetTheorems

(* The definitions by recursion over the items around an item. *)

\* A function whose value at j is made by G from the one at P[j].
Descends(f, base, G, P, N) ==
  /\ f[0] = base
  /\ \A j \in 1 .. N : f[j] = G[<<j, f[P[j]]>>]

LEMMA Descent ==
  ASSUME NEW N \in Nat, NEW V, NEW base \in V, NEW G \in [(1 .. N) \X V -> V],
         NEW P \in [1 .. N -> Nat], \A j \in 1 .. N : P[j] < j
  PROVE  \E f \in [0 .. N -> V] : Descends(f, base, G, P, N)
<1> DEFINE T == {n \in Nat : n <= N => \E f \in [0 .. n -> V] : Descends(f, base, G, P, n)}
<1>1. 0 \in T
  <2>1. [n \in 0 .. 0 |-> base] \in [0 .. 0 -> V] /\ Descends([n \in 0 .. 0 |-> base], base, G, P, 0)
    BY DEF Descends
  <2> QED BY <2>1
<1>2. ASSUME NEW m \in 0 .. N - 1, m \in T PROVE m + 1 \in T
  <2>1. PICK f \in [0 .. m -> V] : Descends(f, base, G, P, m)
    BY <1>2
  <2>2. PICK last : last = G[<<m + 1, f[P[m + 1]]>>]
    OBVIOUS
  <2>3. m + 1 \in 1 .. N /\ P[m + 1] \in 0 .. m
    BY <1>2
  <2>4. last \in V
    BY <2>1, <2>2, <2>3
  <2> DEFINE g == [n \in 0 .. m + 1 |-> IF n <= m THEN f[n] ELSE last]
  <2>5. /\ g \in [0 .. m + 1 -> V]
        /\ \A n \in 0 .. m : g[n] = f[n]
        /\ g[m + 1] = last
    BY <1>2, <2>1, <2>4
  <2> HIDE DEF g
  <2>6. g[0] = base
    BY <1>2, <2>1, <2>5 DEF Descends
  <2>7. ASSUME NEW n \in 1 .. m + 1 PROVE g[n] = G[<<n, g[P[n]]>>]
    <3>1. CASE n <= m
      <4>1. n \in 1 .. m /\ n \in 0 .. m /\ n \in 1 .. N
        BY <1>2, <3>1
      <4>2. P[n] \in 0 .. m
        BY <4>1
      <4>3. f[n] = G[<<n, f[P[n]]>>]
        BY <2>1, <4>1 DEF Descends
      <4> QED BY <4>1, <4>2, <4>3, <2>5
    <3>2. CASE n = m + 1
      BY <3>2, <2>2, <2>3, <2>5
    <3> QED BY <3>1, <3>2, <1>2
  <2>8. Descends(g, base, G, P, m + 1)
    BY <2>6, <2>7 DEF Descends
  <2> QED BY <1>2, <2>5, <2>8
<1>3. N \in T
  <2> HIDE DEF T
  <2>1. \A n \in 0 .. N : n \in T
    BY <1>1, <1>2, UpTo
  <2> QED BY <2>1
<1> QED BY <1>3

LEMMA Parents ==
  ASSUME crate \in Crates
  PROVE  /\ Len(crate) \in Nat /\ Items(crate) = 1 .. Len(crate)
         /\ \A i \in Items(crate) :
              /\ crate[i].in \in 0 .. Len(crate) /\ crate[i].in < i
              /\ crate[i].in # 0 => crate[i].in \in Items(crate)
              /\ Home(crate, i) \in 0 .. Len(crate)
              /\ StandsIn(crate, i)
<1>1. \A i \in Items(crate) : StandsIn(crate, i)
  BY CratesAssumption
<1> QED BY <1>1, CrateFacts DEF Home

\* up of Around.
Rising(f) ==
  f = [j \in 0 .. Len(crate) |-> IF j = 0 THEN <<0>> ELSE <<j>> \o f[crate[j].in]]

LEMMA AroundUnfold ==
  ASSUME crate \in Crates
  PROVE  /\ Around(crate, 0) = <<0>>
         /\ \A i \in Items(crate) : Around(crate, i) = <<i>> \o Around(crate, crate[i].in)
         /\ \A i \in Items(crate) \cup {0} : Around(crate, i) \in Seq(Nat)
<1> DEFINE N == Len(crate)
           V == Seq(Nat)
           P == [j \in 1 .. N |-> crate[j].in]
           G == [p \in (1 .. N) \X V |-> <<p[1]>> \o p[2]]
<1>1. N \in Nat /\ G \in [(1 .. N) \X V -> V] /\ <<0>> \in V
      /\ P \in [1 .. N -> Nat] /\ \A j \in 1 .. N : P[j] < j /\ P[j] = crate[j].in /\ P[j] \in 0 .. N
  BY Parents
<1>2. \A i \in 1 .. N, s \in V : G[<<i, s>>] = <<i>> \o s
  OBVIOUS
<1> HIDE DEF G, P, V, N
<1>3. PICK f \in [0 .. N -> V] : Descends(f, <<0>>, G, P, N)
  BY <1>1, Descent
<1>4. ASSUME NEW j \in 0 .. N
      PROVE  f[j] = IF j = 0 THEN <<0>> ELSE <<j>> \o f[crate[j].in]
  <2>1. CASE j = 0
    BY <1>3, <2>1 DEF Descends
  <2>2. CASE j # 0
    <3>1. j \in 1 .. N
      BY <2>2, <1>1
    <3>2. f[j] = G[<<j, f[P[j]]>>] /\ f[P[j]] \in V
      BY <3>1, <1>1, <1>3 DEF Descends
    <3> QED BY <2>2, <3>1, <3>2, <1>1, <1>2
  <2> QED BY <2>1, <2>2
<1>5. f = [j \in 0 .. N |-> f[j]]
  BY <1>3
<1>6. f = [j \in 0 .. N |-> IF j = 0 THEN <<0>> ELSE <<j>> \o f[crate[j].in]]
  BY <1>4, <1>5, Zenon
<1>7. \E g : Rising(g)
  BY <1>6 DEF Rising, N
<1>8. PICK g : g = CHOOSE h : Rising(h)
  OBVIOUS
<1>9. Rising(g)
  BY <1>7, <1>8, Zenon
<1>10. \A i : Around(crate, i) = g[i]
  BY <1>8, Zenon DEF Around, Rising
<1>11. \A j \in 0 .. N : g[j] = IF j = 0 THEN <<0>> ELSE <<j>> \o g[crate[j].in]
  BY <1>9, Zenon DEF Rising, N
<1>12. \A m \in 0 .. N : g[m] \in V
  <2> DEFINE T == {n \in Nat : n <= N => \A m \in 0 .. n : g[m] \in V}
  <2>2. 0 \in T
    BY <1>1, <1>11
  <2>3. ASSUME NEW m \in 0 .. N - 1, m \in T PROVE m + 1 \in T
    <3>1. m + 1 \in 1 .. N /\ crate[m + 1].in \in 0 .. m /\ m \in Nat /\ m + 1 # 0
      BY <1>1
    <3>2. g[crate[m + 1].in] \in V /\ \A k \in 0 .. m : g[k] \in V
      BY <1>1, <2>3, <3>1
    <3>3. g[m + 1] = <<m + 1>> \o g[crate[m + 1].in]
      <4>1. m + 1 \in 0 .. N
        BY <1>1, <3>1
      <4>2. g[m + 1] = IF m + 1 = 0 THEN <<0>> ELSE <<m + 1>> \o g[crate[m + 1].in]
        BY <1>11, <4>1
      <4> QED BY <3>1, <4>2, Zenon
    <3>4. g[m + 1] \in V
      BY <3>1, <3>2, <3>3 DEF V
    <3> QED BY <3>1, <3>2, <3>4
  <2>4. N \in T
    <3> HIDE DEF T
    <3>1. \A n \in 0 .. N : n \in T
      BY <1>1, <2>2, <2>3, UpTo
    <3> QED BY <1>1, <3>1
  <2> QED BY <2>4, <1>1
<1>13. 0 \in 0 .. N /\ \A i \in Items(crate) : i \in 0 .. N /\ i # 0
  BY Parents DEF N
<1> QED BY <1>10, <1>11, <1>12, <1>13 DEF V

\* The items around an item, itself included.
Near(i) == ToSet(Around(crate, i))

LEMMA NearUnfold ==
  ASSUME crate \in Crates
  PROVE  /\ Near(0) = {0}
         /\ \A i \in Items(crate) : Near(i) = {i} \cup Near(crate[i].in)
         /\ \A i \in Items(crate) \cup {0} : \A x : Contains(Around(crate, i), x) <=> x \in Near(i)
<1>1. Near(0) = {0}
  <2>1. PICK s : s = <<0>>
    OBVIOUS
  <2>2. Around(crate, 0) = s
    BY <2>1, AroundUnfold
  <2>3. DOMAIN s = {1} /\ s[1] = 0
    BY <2>1
  <2> QED BY <2>2, <2>3 DEF Near, ToSet
<1>2. ASSUME NEW i \in Items(crate)
      PROVE  Near(i) = {i} \cup Near(crate[i].in)
  <2>1. PICK t : t = Around(crate, crate[i].in)
    OBVIOUS
  <2>2. t \in Seq(Nat)
    BY <2>1, AroundUnfold, Parents
  <2>3. PICK one : one = <<i>>
    OBVIOUS
  <2>4. one \in Seq(Nat) /\ DOMAIN one = {1} /\ one[1] = i /\ Len(one) = 1
    BY <2>3, Parents
  <2>5. PICK u : u = one \o t
    OBVIOUS
  <2>6. Around(crate, i) = u
    BY <2>1, <2>3, <2>5, AroundUnfold
  <2>7. /\ DOMAIN t = 1 .. Len(t) /\ Len(t) \in Nat /\ DOMAIN u = 1 .. 1 + Len(t)
        /\ u[1] = i /\ \A n \in DOMAIN u : n # 1 => n - 1 \in DOMAIN t /\ u[n] = t[n - 1]
    <3>1. /\ Len(t) \in Nat /\ DOMAIN t = 1 .. Len(t) /\ DOMAIN u = 1 .. Len(one) + Len(t)
          /\ \A n \in DOMAIN one : u[n] = one[n]
          /\ \A n \in DOMAIN u : n \notin DOMAIN one => n - Len(one) \in DOMAIN t /\ u[n] = t[n - Len(one)]
      <4>1. one \in Seq(Nat) /\ t \in Seq(Nat) /\ u = one \o t
        BY <2>2, <2>4, <2>5
      <4>2. \A n \in DOMAIN one : u[n] = one[n]
        BY <4>1, ConcatFacts
      <4>3. \A n \in DOMAIN u : n \notin DOMAIN one => n - Len(one) \in DOMAIN t /\ u[n] = t[n - Len(one)]
        BY <4>1, ConcatFacts
      <4>4. Len(t) \in Nat /\ DOMAIN t = 1 .. Len(t) /\ DOMAIN u = 1 .. Len(one) + Len(t)
        BY <4>1, ConcatFacts
      <4> QED BY <4>2, <4>3, <4>4
    <3>2. u[1] = i
      BY <2>4, <3>1
    <3>3. \A n \in DOMAIN u : n # 1 => n - 1 \in DOMAIN t /\ u[n] = t[n - 1]
      BY <2>4, <3>1
    <3> QED BY <2>4, <3>1, <3>2, <3>3
  <2>8. \A n \in DOMAIN t : n + 1 \in DOMAIN u /\ u[n + 1] = t[n]
    BY <2>7
  <2>9. ToSet(u) = {i} \cup ToSet(t)
    <3>1. ASSUME NEW x \in ToSet(u) PROVE x = i \/ x \in ToSet(t)
      <4>1. PICK n \in DOMAIN u : x = u[n]
        BY <3>1 DEF ToSet
      <4> QED BY <2>7, <4>1 DEF ToSet
    <3>2. ASSUME NEW x \in ToSet(t) PROVE x \in ToSet(u)
      <4>1. PICK n \in DOMAIN t : x = t[n]
        BY <3>2 DEF ToSet
      <4> QED BY <2>8, <4>1 DEF ToSet
    <3>3. i \in ToSet(u)
      BY <2>7 DEF ToSet
    <3> QED BY <3>1, <3>2, <3>3
  <2> QED BY <2>1, <2>6, <2>9 DEF Near
<1>3. ASSUME NEW i \in Items(crate) \cup {0}, NEW x
      PROVE  Contains(Around(crate, i), x) <=> x \in Near(i)
  <2>1. PICK s : s = Around(crate, i) /\ s \in Seq(Nat)
    BY AroundUnfold
  <2>2. DOMAIN s = 1 .. Len(s)
    BY <2>1
  <2> QED BY <2>1, <2>2 DEF Near, ToSet, Contains
<1> QED BY <1>1, <1>2, <1>3

\* Strong induction over the items.
LEMMA ByItem ==
  ASSUME crate \in Crates, NEW T, 0 \in T,
         \A i \in Items(crate) : (\A j \in Items(crate) \cup {0} : j < i => j \in T) => i \in T
  PROVE  \A i \in Items(crate) \cup {0} : i \in T
<1> DEFINE Not == {i \in Items(crate) : i \notin T}
<1>1. Not \subseteq Nat
  BY Parents
<1> SUFFICES ASSUME Not # {} PROVE FALSE
  OBVIOUS
<1>2. PICK i \in Not : \A j \in Not : i <= j
  <2> HIDE DEF Not
  <2> QED BY <1>1, LeastNumber
<1>3. \A j \in Items(crate) \cup {0} : j < i => j \in T
  BY <1>1, <1>2, Parents
<1> QED BY <1>2, <1>3

LEMMA NearParts ==
  ASSUME crate \in Crates, NEW j \in Items(crate) \cup {0}, NEW i \in Near(j)
  PROVE  i \in Items(crate) \cup {0} /\ Near(i) \subseteq Near(j)
<1> DEFINE T == {x \in Nat : \A y \in Near(x) : y \in Items(crate) \cup {0} /\ Near(y) \subseteq Near(x)}
<1>1. 0 \in T
  BY NearUnfold
<1>2. ASSUME NEW x \in Items(crate), \A y \in Items(crate) \cup {0} : y < x => y \in T
      PROVE  x \in T
  <2>1. crate[x].in \in Items(crate) \cup {0} /\ crate[x].in < x /\ x \in Nat
    BY Parents
  <2>2. crate[x].in \in T
    BY <1>2, <2>1
  <2>3. Near(x) = {x} \cup Near(crate[x].in)
    BY NearUnfold
  <2> QED BY <2>1, <2>2, <2>3
<1>3. j \in T
  <2> HIDE DEF T
  <2> QED BY <1>1, <1>2, ByItem
<1> QED BY <1>3

LEMMA BodyUnfold ==
  ASSUME crate \in Crates
  PROVE  /\ ~InBody(crate, 0)
         /\ \A i \in Items(crate) : InBody(crate, i) <=> crate[i].k = "block" \/ InBody(crate, crate[i].in)
<1>1. \A i : InBody(crate, i) <=> \E j \in Near(i) : IsBlock(crate, j)
  BY DEF InBody, Near
<1>2. ~IsBlock(crate, 0) /\ \A i \in Items(crate) : IsBlock(crate, i) <=> crate[i].k = "block"
  BY Parents DEF IsBlock
<1> QED BY <1>1, <1>2, NearUnfold

--------------------------------------------------------------------------------
(* The function or const a body is of. *)

Owning(f) ==
  f = [j \in 0 .. Len(crate) |->
        IF j = 0 THEN 0 ELSE IF IsBlock(crate, crate[j].in) THEN f[crate[j].in] ELSE crate[j].in]

LEMMA OwnerUnfold ==
  ASSUME crate \in Crates
  PROVE  /\ Owner(crate, 0) = 0
         /\ \A i \in Items(crate) :
              Owner(crate, i) = IF IsBlock(crate, crate[i].in) THEN Owner(crate, crate[i].in)
                                ELSE crate[i].in
<1> DEFINE N == Len(crate)
           P == [j \in 1 .. N |-> crate[j].in]
           G == [p \in (1 .. N) \X Nat |-> IF IsBlock(crate, crate[p[1]].in) THEN p[2] ELSE crate[p[1]].in]
<1>1. N \in Nat /\ G \in [(1 .. N) \X Nat -> Nat]
      /\ P \in [1 .. N -> Nat] /\ \A j \in 1 .. N : P[j] < j /\ P[j] = crate[j].in /\ P[j] \in 0 .. N
  BY Parents
<1>2. \A i \in 1 .. N, s \in Nat : G[<<i, s>>] = IF IsBlock(crate, crate[i].in) THEN s ELSE crate[i].in
  OBVIOUS
<1> HIDE DEF G, P, N
<1>3. PICK f \in [0 .. N -> Nat] : Descends(f, 0, G, P, N)
  BY <1>1, Descent
<1>4. ASSUME NEW j \in 0 .. N
      PROVE  f[j] = IF j = 0 THEN 0
                    ELSE IF IsBlock(crate, crate[j].in) THEN f[crate[j].in] ELSE crate[j].in
  <2>1. CASE j = 0
    BY <1>3, <2>1 DEF Descends
  <2>2. CASE j # 0
    <3>1. j \in 1 .. N
      BY <2>2, <1>1
    <3>2. f[j] = G[<<j, f[P[j]]>>] /\ f[P[j]] \in Nat
      BY <3>1, <1>1, <1>3 DEF Descends
    <3> QED BY <2>2, <3>1, <3>2, <1>1, <1>2
  <2> QED BY <2>1, <2>2
<1>5. f = [j \in 0 .. N |-> f[j]]
  BY <1>3
<1>6. f = [j \in 0 .. N |-> IF j = 0 THEN 0
                     ELSE IF IsBlock(crate, crate[j].in) THEN f[crate[j].in] ELSE crate[j].in]
  BY <1>4, <1>5, Zenon
<1>7. \E g : Owning(g)
  BY <1>6 DEF Owning, N
<1>8. PICK g : g = CHOOSE h : Owning(h)
  OBVIOUS
<1>9. Owning(g)
  BY <1>7, <1>8, Zenon
<1>10. \A i : Owner(crate, i) = g[i]
  BY <1>8, Zenon DEF Owner, Owning
<1>11. \A j \in 0 .. N : g[j] = IF j = 0 THEN 0
                     ELSE IF IsBlock(crate, crate[j].in) THEN g[crate[j].in] ELSE crate[j].in
  BY <1>9, Zenon DEF Owning, N
<1>12. 0 \in 0 .. N /\ \A i \in Items(crate) : i \in 0 .. N /\ i # 0
  BY Parents DEF N
<1> QED BY <1>10, <1>11, <1>12

\* The owner of a block comes before it, and is what has a body.
LEMMA BlockOwner ==
  ASSUME crate \in Crates, NEW b \in Items(crate), crate[b].k = "block"
  PROVE  /\ Owner(crate, b) \in Items(crate) /\ Owner(crate, b) < b
         /\ crate[Owner(crate, b)].k \in {"fn", "const", "static"}
<1> DEFINE Is(x) == /\ Owner(crate, x) \in Items(crate) /\ Owner(crate, x) < x
                    /\ crate[Owner(crate, x)].k \in {"fn", "const", "static"}
           T == {x \in Nat : x \in Items(crate) /\ crate[x].k = "block" => Is(x)}
<1>1. 0 \in T
  BY Parents
<1>2. ASSUME NEW x \in Items(crate), \A y \in Items(crate) \cup {0} : y < x => y \in T
      PROVE  x \in T
  <2>1. PICK p : p = crate[x].in /\ p \in Items(crate) \cup {0} /\ p < x /\ x \in Nat /\ p \in Nat
    BY Parents
  <2>2. Owner(crate, x) = IF IsBlock(crate, p) THEN Owner(crate, p) ELSE p
    BY <2>1, OwnerUnfold
  <2>3. CASE crate[x].k = "block"
    <3>1. StandsIn(crate, x)
      BY Parents
    <3>2. p # 0 /\ crate[p].k \in {"fn", "const", "static", "block"} /\ p \in Items(crate)
      BY <2>1, <2>3, <3>1 DEF StandsIn
    <3>3. CASE crate[p].k = "block"
      <4>1. IsBlock(crate, p) /\ Is(p)
        BY <1>2, <2>1, <3>2, <3>3 DEF IsBlock
      <4>2. PICK o : o = Owner(crate, p)
        OBVIOUS
      <4>3. Owner(crate, x) = o /\ o \in Nat
        BY <2>2, <4>1, <4>2, Parents
      <4> QED BY <2>1, <4>1, <4>2, <4>3
    <3>4. CASE crate[p].k # "block"
      BY <2>1, <2>2, <3>2, <3>4 DEF IsBlock
    <3> QED BY <3>3, <3>4
  <2> QED BY <2>1, <2>3
<1>3. b \in T
  <2> HIDE DEF T
  <2> QED BY <1>1, <1>2, ByItem
<1> QED BY <1>3

--------------------------------------------------------------------------------
(* What is translated. *)

Choosing(f) ==
  f = [j \in 0 .. Len(crate) |->
        IF j = 0 THEN ShouldEmit(crate, 0)
        ELSE Placed(crate, j) /\ Passes(crate, j) /\ f[Home(crate, j)]]

LEMMA TranslatedUnfold ==
  ASSUME crate \in Crates
  PROVE  /\ Translated(crate, 0) <=> ShouldEmit(crate, 0)
         /\ \A i \in Items(crate) :
              Translated(crate, i) <=>
                Placed(crate, i) /\ Passes(crate, i) /\ Translated(crate, Home(crate, i))
<1> DEFINE N == Len(crate)
           Fine(x, S) == IF x = 0 THEN ShouldEmit(crate, 0)
                         ELSE Placed(crate, x) /\ Passes(crate, x) /\ Home(crate, x) \in S
           U == {x \in 0 .. N : \E S \in SUBSET (0 .. N) : x \in S /\ \A y \in S : Fine(y, S)}
<1>0. N \in Nat /\ \A x \in 0 .. N : x # 0 => x \in Items(crate) /\ Home(crate, x) \in 0 .. N
  BY Parents
<1>1. ASSUME NEW x \in 0 .. N PROVE x \in U <=> Fine(x, U)
  <2>1. ASSUME x \in U PROVE Fine(x, U)
    <3>1. PICK S \in SUBSET (0 .. N) : x \in S /\ \A y \in S : Fine(y, S)
      BY <2>1
    <3>2. S \subseteq U
      BY <3>1
    <3> HIDE DEF U
    <3> QED BY <3>1, <3>2
  <2>2. ASSUME Fine(x, U) PROVE x \in U
    <3>1. PICK S : S = U \cup {x} /\ S \in SUBSET (0 .. N)
      OBVIOUS
    <3>2. ASSUME NEW y \in U PROVE Fine(y, S)
      <4>1. PICK R \in SUBSET (0 .. N) : y \in R /\ \A z \in R : Fine(z, R)
        BY <3>2
      <4>2. R \subseteq U
        BY <4>1
      <4>3. R \subseteq S /\ Fine(y, R)
        BY <3>1, <4>1, <4>2
      <4> HIDE DEF U
      <4> QED BY <4>3
    <3>3. \A y \in S : Fine(y, S)
      <4>1. Fine(x, S)
        BY <2>2, <3>1
      <4> HIDE DEF U, Fine
      <4> QED BY <3>1, <3>2, <4>1
    <3> QED BY <3>1, <3>3
  <2> QED BY <2>1, <2>2
<1>2. PICK f : f = [j \in 0 .. N |-> j \in U]
  OBVIOUS
<1> HIDE DEF U
<1>3. ASSUME NEW j \in 0 .. N
      PROVE  f[j] = IF j = 0 THEN ShouldEmit(crate, 0)
                    ELSE Placed(crate, j) /\ Passes(crate, j) /\ f[Home(crate, j)]
  <2>1. CASE j = 0
    <3>1. f[j] = (j \in U)
      BY <1>2
    <3>2. (j \in U) = ShouldEmit(crate, 0)
      BY <1>1, <2>1 DEF ShouldEmit
    <3> QED BY <2>1, <3>1, <3>2
  <2>2. CASE j # 0
    <3>1. f[j] = (j \in U) /\ f[Home(crate, j)] = (Home(crate, j) \in U)
      BY <1>0, <1>2, <2>2
    <3>2. (j \in U) = (Placed(crate, j) /\ Passes(crate, j) /\ Home(crate, j) \in U)
      BY <1>1, <2>2
    <3> QED BY <2>2, <3>1, <3>2
  <2> QED BY <2>1, <2>2
<1>4. f = [j \in 0 .. N |-> f[j]]
  BY <1>2
<1>5. f = [j \in 0 .. N |-> IF j = 0 THEN ShouldEmit(crate, 0)
                     ELSE Placed(crate, j) /\ Passes(crate, j) /\ f[Home(crate, j)]]
  BY <1>3, <1>4, Zenon
<1>6. \E g : Choosing(g)
  BY <1>5 DEF Choosing
<1>7. PICK g : g = CHOOSE h : Choosing(h)
  OBVIOUS
<1>8. Choosing(g)
  BY <1>6, <1>7, Zenon
<1>9. \A i : Translated(crate, i) = g[i]
  BY <1>7, Zenon DEF Translated, Choosing
<1>10. \A j \in 0 .. N : g[j] = IF j = 0 THEN ShouldEmit(crate, 0)
                     ELSE Placed(crate, j) /\ Passes(crate, j) /\ g[Home(crate, j)]
  BY <1>8, Zenon DEF Choosing
<1>11. 0 \in 0 .. N /\ \A i \in Items(crate) : i \in 0 .. N /\ i # 0
  BY Parents
<1>12. g[0] = ShouldEmit(crate, 0)
  BY <1>10, <1>11, Zenon
<1>13. \A i \in Items(crate) : g[i] = (Placed(crate, i) /\ Passes(crate, i) /\ g[Home(crate, i)])
  BY <1>10, <1>11, Zenon
<1> QED BY <1>9, <1>12, <1>13, Zenon

\* An item whose job was made, and that its handler goes on with, is translated.
LEMMA DueGoes ==
  ASSUME crate \in Crates, NEW h, NEW cls, JobFits(h, cls), JobDue(h), Goes(h), h.do \in ItemJobs
  PROVE  Translated(crate, h.i)
<1>1. Due(crate, h.i)
  BY DEF JobDue
<1>2. CASE h.i = 0
  <2>1. h.do = "module"
    BY <1>2, Parents DEF JobFits, ItemJobs
  <2>2. ShouldEmit(crate, h.i)
    BY <2>1 DEF Goes
  <2> QED BY <1>2, <2>2, TranslatedUnfold
<1>3. CASE h.i # 0
  <2>1. h.i \in Items(crate)
    BY <1>3 DEF JobFits, ItemJobs
  <2>2. Placed(crate, h.i) /\ Translated(crate, Home(crate, h.i))
    BY <1>1, <1>3 DEF Due
  <2>3. Passes(crate, h.i)
    <3>1. CASE h.do = "module"
      BY <1>3, <2>1, <3>1 DEF Goes, JobFits, Passes
    <3>2. CASE h.do = "adt"
      BY <1>3, <2>1, <3>2 DEF Goes, JobFits, Passes, IsAdt
    <3>3. CASE h.do = "fn"
      BY <1>3, <2>1, <3>3 DEF Goes, JobFits, Passes
    <3>4. CASE h.do = "impl"
      BY <1>3, <2>1, <3>4 DEF Goes, JobFits, Passes
    <3>5. CASE h.do = "field"
      BY <1>3, <2>1, <3>5 DEF Goes, JobFits, Passes
    <3>6. CASE h.do \in {"trait", "block"}
      BY <1>3, <2>1, <3>6 DEF Goes, JobFits, Passes
    <3> QED BY <3>1, <3>2, <3>3, <3>4, <3>5, <3>6 DEF ItemJobs
  <2> QED BY <2>1, <2>2, <2>3, TranslatedUnfold
<1> QED BY <1>2, <1>3

--------------------------------------------------------------------------------
(* The jobs a job makes are due. *)

\* The statement of an item of a body has been written.
LEMMA ChildMet ==
  ASSUME crate \in Crates, NEW h, NEW cls0, JobFits(h, cls0),
         NEW job, NEW cls, Child(h, job, cls), job.do \in {"fn", "field", "adt"}
  PROVE  Met(crate, job.i)
<1>1. PICK i : i = job.i /\ i \in Items(crate) /\ Home(crate, i) = h.i
  BY DEF Child, ItemJobs
<1>2. JobFits(job, cls) /\ h.do \in (ItemJobs \ {"trait"}) \cup {"defaults"}
  BY DEF Child, ItemJobs
<1>3. crate[i].in = h.i
  BY <1>1, <1>2 DEF JobFits, Home, IsAdt
<1>4. ASSUME IsBlock(crate, h.i)
      PROVE  i \in Deferred(crate, BodyOwner(crate, i))
  <2>1. h.i # 0 /\ h.i \in Items(crate) /\ crate[h.i].k = "block"
    BY <1>1, <1>3, <1>4, Parents DEF IsBlock
  <2>2. h.do = "block"
    BY <1>2, <2>1 DEF JobFits, ItemJobs, PartJobs, IsAdt
  <2>3. i \in Deferred(crate, h.n)
    BY <1>1, <2>2 DEF Child, ItemJobs
  <2>4. BodyOwner(crate, i) = h.n
    BY <2>3, DeferredKinds
  <2> QED BY <2>3, <2>4
<1> QED BY <1>1, <1>3, <1>4 DEF Met

LEMMA ChildPlaced ==
  ASSUME crate \in Crates, NEW h, NEW cls0, JobFits(h, cls0), JobDue(h), Goes(h),
         NEW job, NEW cls, Child(h, job, cls), job.do \in ItemJobs
  PROVE  Placed(crate, job.i)
<1>1. PICK i : i = job.i /\ i \in Items(crate) /\ Home(crate, i) = h.i /\ i # 0
  BY Parents DEF Child
<1>2. JobFits(job, cls) /\ h.do \in (ItemJobs \ {"trait"}) \cup {"defaults"}
  BY DEF Child
<1>3. CASE job.do \in {"module", "trait"}
  <2>1. crate[i].k \in {"mod", "trait"} /\ crate[i].in = h.i
    BY <1>1, <1>2, <1>3 DEF JobFits, Home
  <2>2. StandsIn(crate, i) /\ h.do # "block"
    BY <1>1, <1>3, Parents DEF Child
  <2>3. h.i = 0 \/ crate[h.i].k = "mod" \/ crate[h.i].k = "block"
    BY <2>1, <2>2 DEF StandsIn
  <2>4. h.i # 0 => h.i \in Items(crate)
    BY <1>1, <2>1, Parents
  <2>5. h.do = "module"
    <3>1. h.do # "module" => h.i \in Items(crate) /\ h.i # 0
      BY <1>2, Parents DEF JobFits, ItemJobs, PartJobs
    <3>2. ASSUME h.do # "module" PROVE FALSE
      <4>1. crate[h.i].k \in {"mod", "block"}
        BY <2>3, <3>1, <3>2
      <4> QED BY <1>2, <2>2, <3>1, <3>2, <4>1 DEF JobFits, ItemJobs, PartJobs, IsAdt
    <3> QED BY <3>2
  <2>6. ~InBody(crate, h.i)
    <3>1. CASE h.i = 0
      BY <3>1, BodyUnfold
    <3>2. CASE h.i # 0
      <4>1. Placed(crate, h.i)
        BY <2>5, <3>2 DEF JobDue, Due, ItemJobs
      <4>2. crate[h.i].k = "mod"
        BY <2>5, <3>2 DEF JobFits
      <4> QED BY <4>1, <4>2 DEF Placed
    <3> QED BY <3>1, <3>2
  <2>7. ~InBody(crate, i)
    BY <1>1, <2>1, <2>6, BodyUnfold
  <2> QED BY <1>1, <2>1, <2>7 DEF Placed
<1>4. CASE job.do = "impl"
  <2>1. h.do = "adt" /\ i \in ToSet(h.impls) /\ crate[i].k = "impl" /\ crate[i].to = h.i
    BY <1>1, <1>2, <1>4 DEF Child, JobFits, Home
  <2> QED BY <1>1, <2>1 DEF JobDue
<1>5. CASE job.do = "block"
  <2>1. crate[i].k = "block" /\ crate[i].in = h.i
    BY <1>1, <1>2, <1>5 DEF JobFits, Home
  <2>2. StandsIn(crate, i)
    BY <1>1, Parents
  <2>3. crate[h.i].k = "fn" => h.do = "fn"
    <3>1. h.i # 0 /\ h.i \in Items(crate)
      BY <1>1, <2>1, <2>2, Parents DEF StandsIn
    <3> QED BY <1>2, <3>1 DEF JobFits, ItemJobs, PartJobs, IsAdt
  <2>4. ~(crate[h.i].k = "fn" /\ IsR2csNative(crate, h.i))
    BY <2>3 DEF Goes
  <2> QED BY <1>1, <2>1, <2>4 DEF Placed
<1>6. CASE job.do = "fn"
  <2>1. crate[i].k = "fn" /\ crate[i].in = h.i
    BY <1>1, <1>2, <1>6 DEF JobFits, Home
  <2>3. Met(crate, i)
    BY <1>1, <1>6, ChildMet
  <2>2. ASSUME h.i # 0, crate[h.i].k = "trait" PROVE crate[i].body
    <3>1. h.i \in Items(crate)
      BY <1>1, <2>1, <2>2, Parents
    <3>2. h.do = "defaults"
      BY <1>2, <2>2, <3>1 DEF JobFits, ItemJobs, PartJobs, IsAdt
    <3> QED BY <1>1, <3>2 DEF Child
  <2> QED BY <1>1, <2>1, <2>2, <2>3 DEF Placed
<1>7. CASE job.do = "field"
  <2>1. crate[i].k \in {"const", "static"} /\ crate[i].in = h.i
    BY <1>1, <1>2, <1>7 DEF JobFits, Home
  <2>4. Met(crate, i)
    BY <1>1, <1>7, ChildMet
  <2>2. h.do # "defaults"
    BY <1>1, <2>1 DEF Child
  <2>3. ASSUME h.i # 0, crate[h.i].k = "trait" PROVE FALSE
    <3>1. h.i \in Items(crate)
      BY <1>1, <2>1, <2>3, Parents
    <3> QED BY <1>2, <2>2, <2>3, <3>1 DEF JobFits, ItemJobs, PartJobs, IsAdt
  <2> QED BY <1>1, <2>1, <2>3, <2>4 DEF Placed
<1>8. CASE job.do = "adt"
  <2>1. crate[i].k \in {"struct", "enum", "union"}
    BY <1>1, <1>2, <1>8 DEF JobFits, IsAdt
  <2>2. Met(crate, i)
    BY <1>1, <1>8, ChildMet
  <2> QED BY <1>1, <2>1, <2>2 DEF Placed
<1> QED BY <1>3, <1>4, <1>5, <1>6, <1>7, <1>8 DEF ItemJobs

\* The impls that come with a type of a module, and with one of a body, are
\* those that may be translated.
LEMMA ModuleTypeDue ==
  ASSUME crate \in Crates, NEW a \in Items(crate), IsAdt(crate, a),
         crate[a].in = 0 \/ (crate[crate[a].in].k = "mod" /\ ~InBody(crate, crate[a].in)),
         NEW j \in Items(crate), crate[j].k = "impl", crate[j].to = a
  PROVE  /\ j \in ToSet(CrateImpls(crate, a)) => Placed(crate, j)
         /\ Placed(crate, j) /\ Passes(crate, j) => j \in ToSet(CrateImpls(crate, a))
<1>1. PICK s : s = CrateImpls(crate, a) /\ s \in Seq(ImplsNamed(crate, a)) /\ \A i \in ImplsNamed(crate, a) : Has(s, i)
  <2>1. IsList(crate) /\ \A i \in Items(crate) : crate[i].in \in 0 .. Len(crate)
    BY CrateFacts, Parents
  <2> QED BY <2>1, CrateImplsOnce
<1>2. j \in ToSet(s) <=> j \in ImplsNamed(crate, a)
  <2>1. j \in ToSet(s) => j \in ImplsNamed(crate, a)
    <3>1. \A n \in DOMAIN s : s[n] \in ImplsNamed(crate, a)
      BY <1>1
    <3> QED BY <3>1 DEF ToSet
  <2>2. j \in ImplsNamed(crate, a) => j \in ToSet(s)
    BY <1>1 DEF Has, ToSet
  <2> QED BY <2>1, <2>2
<1>3. ~InBody(crate, a)
  <2>1. crate[a].k # "block" /\ (crate[a].in = 0 => ~InBody(crate, crate[a].in))
    BY BodyUnfold DEF IsAdt
  <2> QED BY <2>1, BodyUnfold
<1>4. InBody(crate, j) <=> InBody(crate, crate[j].in)
  BY BodyUnfold
<1>5. PICK p : p = crate[j].in
  OBVIOUS
<1>6. IsModule(crate, p) /\ (p = 0 => ~InBody(crate, p)) /\ a # 0
  <2>1. StandsIn(crate, j)
    BY Parents
  <2>2. p = 0 \/ crate[p].k = "mod" \/ crate[p].k = "block"
    BY <1>5, <2>1 DEF StandsIn
  <2> QED BY <1>5, <2>2, BodyUnfold DEF IsModule, IsAdt
<1>7. Placed(crate, j) <=> ~InBody(crate, p) /\ ShouldEmit(crate, p)
  BY <1>3, <1>4, <1>5, <1>6 DEF Placed
<1>8. j \in ImplsNamed(crate, a) <=> ~InBody(crate, p) /\ ShouldEmit(crate, p) /\ ShouldEmit(crate, j)
  BY <1>5, <1>6 DEF ImplsNamed
<1>9. Passes(crate, j) <=> ShouldEmit(crate, j)
  BY DEF Passes
<1> QED BY <1>1, <1>2, <1>7, <1>8, <1>9

LEMMA BodyTypeDue ==
  ASSUME crate \in Crates, NEW a \in Items(crate),
         NEW b \in Items(crate), crate[b].k = "block", crate[a].in = b,
         NEW owner, owner = Owner(crate, b),
         NEW j \in Items(crate), crate[j].k = "impl", crate[j].to = a
  PROVE  j \in ToSet(LocalImpls(crate, owner, a)) <=> Placed(crate, j)
<1>1. j \in ToSet(LocalImpls(crate, owner, a)) <=> j \in ImplsNear(crate, owner, a)
  <2>1. IsList(crate)
    BY CrateFacts
  <2>2. \A x : Has(LocalImpls(crate, owner, a), x) <=> x \in ImplsNear(crate, owner, a)
    BY <2>1, BodyFacts, LocalImplsOnce
  <2> QED BY <2>2 DEF Has, ToSet
<1>2. owner # 0 /\ IsBlock(crate, b) /\ a # 0
  BY BlockOwner, Parents DEF IsBlock
<1>3. BodyOwner(crate, a) = owner /\ InBody(crate, a)
  <2>1. Owner(crate, a) = owner
    BY <1>2, OwnerUnfold
  <2> QED BY <1>2, <2>1, BodyUnfold DEF BodyOwner
<1>4. Placed(crate, j) <=> BodyOwner(crate, j) = owner /\ Met(crate, j)
  <2>1. BodyOwner(crate, j) = owner => InBody(crate, j)
    <3>1. ASSUME BodyOwner(crate, j) = owner PROVE InBody(crate, j)
      <4>1. IsBlock(crate, crate[j].in)
        BY <1>2, <3>1 DEF BodyOwner
      <4>2. crate[j].in \in Items(crate) /\ crate[crate[j].in].k = "block"
        BY <4>1, Parents DEF IsBlock
      <4> QED BY <4>2, BodyUnfold
    <3> QED BY <3>1
  <2> QED BY <1>2, <1>3, <2>1 DEF Placed
<1>5. j \in ImplsNear(crate, owner, a) <=> BodyOwner(crate, j) = owner /\ Met(crate, j)
  <2>1. ASSUME j \in ImplsNear(crate, owner, a) PROVE BodyOwner(crate, j) = owner /\ Met(crate, j)
    <3>1. PICK i \in Deferred(crate, owner) : i = j \/ (IsAdt(crate, i) /\ crate[j].in = crate[i].in)
      BY <2>1 DEF ImplsNear, ImplsAt
    <3>2. BodyOwner(crate, i) = owner /\ i \in Items(crate)
      BY <3>1, DeferredKinds, CrateFacts, BodyFacts, DeferredAreItems
    <3>3. IsBlock(crate, crate[i].in) /\ Owner(crate, i) = owner
      BY <1>2, <3>2 DEF BodyOwner
    <3>4. crate[j].in = crate[i].in
      BY <3>1
    <3>5. Owner(crate, j) = Owner(crate, i)
      BY <3>2, <3>3, <3>4, OwnerUnfold
    <3>6. BodyOwner(crate, j) = owner
      BY <3>3, <3>4, <3>5 DEF BodyOwner
    <3> QED BY <3>1, <3>6 DEF Met
  <2>2. ASSUME BodyOwner(crate, j) = owner, Met(crate, j) PROVE j \in ImplsNear(crate, owner, a)
    <3>1. IsBlock(crate, crate[j].in)
      BY <1>2, <2>2 DEF BodyOwner
    <3>2. PICK i \in Deferred(crate, owner) : j = i \/ (IsAdt(crate, i) /\ crate[j].in = crate[i].in)
      BY <2>2, <3>1 DEF Met
    <3> QED BY <3>2 DEF ImplsNear, ImplsAt
  <2> QED BY <2>1, <2>2
<1> QED BY <1>1, <1>4, <1>5

LEMMA ChildDue ==
  ASSUME crate \in Crates, NEW h, NEW cls0, JobFits(h, cls0), JobDue(h), Goes(h),
         NEW job, NEW cls, Child(h, job, cls)
  PROVE  JobDue(job)
<1>1. JobFits(job, cls)
  BY DEF Child
<1>2. job.do \in ItemJobs => Due(crate, job.i)
  <2>1. ASSUME job.do \in ItemJobs PROVE Due(crate, job.i)
    <3>1. Placed(crate, job.i)
      BY <2>1, ChildPlaced
    <3>2. Home(crate, job.i) = h.i /\ h.do \in ItemJobs \cup {"defaults"}
      BY <2>1 DEF Child
    <3>3. CASE h.do \in ItemJobs
      BY <3>1, <3>2, <3>3, DueGoes DEF Due
    <3>4. CASE h.do = "defaults"
      BY <3>1, <3>2, <3>4 DEF Due, JobDue
    <3> QED BY <3>2, <3>3, <3>4
  <2> QED BY <2>1
<1>3. job.do = "defaults" => Translated(crate, job.i)
  <2>1. ASSUME job.do = "defaults" PROVE Translated(crate, job.i)
    <3>1. h.do = "trait" /\ job.i = h.i
      BY <2>1 DEF Child, PartJobs
    <3> QED BY <3>1, DueGoes DEF ItemJobs
  <2> QED BY <2>1
<1>4. job.do = "block" => job.n = Owner(crate, job.i)
  <2>1. ASSUME job.do = "block" PROVE job.n = Owner(crate, job.i)
    <3>1. PICK i : i = job.i /\ i \in Items(crate) /\ Home(crate, i) = h.i /\ crate[i].k = "block"
      BY <1>1, <2>1 DEF Child, JobFits, ItemJobs
    <3>2. crate[i].in = h.i /\ h.do \in (ItemJobs \ {"trait"}) \cup {"defaults"}
      BY <2>1, <3>1 DEF Child, Home, ItemJobs
    <3>3. job.n = IF h.do = "block" THEN h.n ELSE h.i
      BY <2>1 DEF Child
    <3>4. Owner(crate, i) = IF IsBlock(crate, h.i) THEN Owner(crate, h.i) ELSE h.i
      BY <3>1, <3>2, OwnerUnfold
    <3>5. CASE h.do = "block"
      <4>1. IsBlock(crate, h.i)
        BY <3>5, Parents DEF JobFits, ItemJobs, IsBlock
      <4> QED BY <3>1, <3>3, <3>4, <3>5, <4>1 DEF JobDue
    <3>6. CASE h.do # "block"
      <4>1. ~IsBlock(crate, h.i)
        BY <3>2, <3>6, Parents DEF JobFits, ItemJobs, PartJobs, IsBlock, IsAdt
      <4> QED BY <3>1, <3>3, <3>4, <3>6, <4>1
    <3> QED BY <3>5, <3>6
  <2> QED BY <2>1
<1>5. ASSUME job.do = "adt", NEW j \in Items(crate), crate[j].k = "impl", crate[j].to = job.i
      PROVE  /\ j \in ToSet(job.impls) => Placed(crate, j)
             /\ Placed(crate, j) /\ Passes(crate, j) => j \in ToSet(job.impls)
  <2>1. PICK a : a = job.i /\ a \in Items(crate) /\ IsAdt(crate, a) /\ Home(crate, a) = h.i
    BY <1>1, <1>5 DEF Child, JobFits, ItemJobs
  <2>2. crate[a].in = h.i /\ h.do \in (ItemJobs \ {"trait"}) \cup {"defaults"} /\ StandsIn(crate, a)
    BY <1>5, <2>1, Parents DEF Child, Home, ItemJobs, IsAdt
  <2>3. job.impls = IF h.do = "block" THEN LocalImpls(crate, h.n, a) ELSE CrateImpls(crate, a)
    BY <1>5, <2>1 DEF Child
  <2>4. CASE h.do = "block"
    <3>1. h.i \in Items(crate) /\ crate[h.i].k = "block" /\ h.n = Owner(crate, h.i)
      BY <2>4 DEF JobFits, ItemJobs, JobDue
    <3> QED BY <1>5, <2>1, <2>2, <2>3, <2>4, <3>1, BodyTypeDue
  <2>5. CASE h.do # "block"
    <3>1. h.i = 0 \/ crate[h.i].k \in {"mod", "block"}
      BY <2>1, <2>2 DEF StandsIn, IsAdt
    <3>2. h.i = 0 \/ (h.do = "module" /\ crate[h.i].k = "mod" /\ h.i \in Items(crate))
      <4>1. h.i # 0 => h.i \in Items(crate)
        BY <2>1, <2>2, Parents
      <4> QED BY <2>2, <2>5, <3>1, <4>1 DEF JobFits, ItemJobs, PartJobs, IsAdt
    <3>3. h.i = 0 \/ (crate[h.i].k = "mod" /\ ~InBody(crate, h.i))
      <4>1. ASSUME h.i # 0 PROVE ~InBody(crate, h.i)
        <5>1. Placed(crate, h.i)
          BY <3>2, <4>1 DEF JobDue, Due, ItemJobs
        <5> QED BY <3>2, <4>1, <5>1 DEF Placed
      <4> QED BY <3>2, <4>1
    <3> QED BY <1>5, <2>1, <2>2, <2>3, <2>5, <3>3, ModuleTypeDue
  <2> QED BY <2>4, <2>5
<1> QED BY <1>2, <1>3, <1>4, <1>5 DEF JobDue

--------------------------------------------------------------------------------
(* Steps. *)

\* A job is there until it is done.
LEMMA StillPending ==
  ASSUME NEW h, IsNext(h), NEW more, Keeps(more), NEW jobs, NEW i
  PROVE  /\ Pending(jobs, i) => Pending(jobs, i)' \/ (h.do \in jobs /\ h.i = i)
         /\ (\E m \in DOMAIN more : more[m].do \in jobs /\ more[m].i = i) => Pending(jobs, i)'
<1>1. ASSUME Pending(jobs, i), ~(h.do \in jobs /\ h.i = i) PROVE Pending(jobs, i)'
  <2>1. PICK k \in DOMAIN stack : \E n \in DOMAIN stack[k].todo :
          stack[k].todo[n].do \in jobs /\ stack[k].todo[n].i = i
    BY <1>1 DEF Pending
  <2>2. PICK n \in DOMAIN stack[k].todo : stack[k].todo[n].do \in jobs /\ stack[k].todo[n].i = i
    BY <2>1
  <2>3. k = Len(stack) => n # 1
    BY <1>1, <2>2 DEF IsNext
  <2>4. \E k2 \in DOMAIN stack' : \E n2 \in DOMAIN stack'[k2].todo :
          stack'[k2].todo[n2] = stack[k].todo[n]
    BY <2>3 DEF Keeps
  <2> QED BY <2>2, <2>4 DEF Pending
<1>2. ASSUME NEW m \in DOMAIN more, more[m].do \in jobs, more[m].i = i PROVE Pending(jobs, i)'
  <2>1. \E k \in DOMAIN stack' : \E n \in DOMAIN stack'[k].todo : stack'[k].todo[n] = more[m]
    BY DEF Keeps
  <2> QED BY <1>2, <2>1 DEF Pending
<1> QED BY <1>1, <1>2

LEMMA JobsDueStep ==
  ASSUME Shape, Walk, JobsDue, NEW h, NEW more, NEW cls, NEW ds, Steps(h, more, cls, ds),
         Makes(h, more, ds)
  PROVE  JobsDue'
<1>1. crate \in Crates /\ UNCHANGED crate /\ IsNext(h) /\ Children(h, more, cls)
  BY DEF Steps, Shape
<1>2. \A job : JobDue(job)' <=> JobDue(job)
  BY <1>1 DEF JobDue
<1>3. JobDue(h) /\ JobFits(h, stack[Len(stack)].class)
  BY <1>1, NextFits DEF Walk, IsNext, JobsDue
<1>4. ASSUME NEW k \in DOMAIN stack', NEW n \in DOMAIN stack'[k].todo
      PROVE  JobDue(stack'[k].todo[n])
  <2>1. \/ \E m \in DOMAIN more : stack'[k].todo[n] = more[m]
        \/ /\ k \in DOMAIN stack
           /\ \E m \in DOMAIN stack[k].todo : stack'[k].todo[n] = stack[k].todo[m]
    BY <1>4 DEF Steps, Moves
  <2>2. CASE \E m \in DOMAIN more : stack'[k].todo[n] = more[m]
    <3>1. PICK m \in DOMAIN more : stack'[k].todo[n] = more[m]
      BY <2>2
    <3>2. Child(h, more[m], cls) /\ Goes(h)
      BY <1>1, ChildrenAre DEF Makes
    <3> QED BY <1>1, <1>3, <3>1, <3>2, ChildDue
  <2>3. CASE /\ k \in DOMAIN stack
             /\ \E m \in DOMAIN stack[k].todo : stack'[k].todo[n] = stack[k].todo[m]
    BY <2>3 DEF JobsDue
  <2> QED BY <2>1, <2>2, <2>3
<1> QED BY <1>2, <1>4 DEF JobsDue

LEMMA WrittenDueStep ==
  ASSUME Shape, Walk, JobsDue, WrittenDue, NEW h, NEW more, NEW cls, NEW ds,
         Steps(h, more, cls, ds), Makes(h, more, ds)
  PROVE  WrittenDue'
<1>1. crate \in Crates /\ UNCHANGED crate /\ IsNext(h) /\ Grows(ds)
  BY DEF Steps, Shape
<1>2. JobDue(h) /\ JobFits(h, stack[Len(stack)].class)
  BY <1>1, NextFits DEF Walk, IsNext, JobsDue
<1>3. ASSUME NEW i \in Items(crate), crate[i].k \in {"fn", "const", "static"}, Written(i)'
      PROVE  Translated(crate, i)
  <2>1. CASE Written(i)
    BY <1>3, <2>1 DEF WrittenDue
  <2>2. CASE ~Written(i)
    <3>1. PICK m \in DOMAIN ds : Own(ds[m]) /\ ds[m].item = i
      BY <1>1, <1>3, <2>2, WrittenStays
    <3>2. h.i = i /\ h.do \in ItemJobs \ {"impl"}
      BY <1>3, <2>2, <3>1, WrittenNow
    <3>3. i # 0 /\ Declares(ds)
      BY <1>1, <3>1, Parents DEF Declares
    <3>4. Placed(crate, i) /\ Translated(crate, Home(crate, i))
      BY <1>2, <3>2, <3>3 DEF JobDue, Due
    <3>5. CASE crate[i].k = "fn"
      <4>1. h.do = "fn"
        BY <1>2, <3>2, <3>3, <3>5 DEF JobFits, ItemJobs, PartJobs, IsAdt
      <4>2. ShouldEmit(crate, i)
        BY <3>2, <3>3, <4>1 DEF Makes
      <4>3. Passes(crate, i)
        BY <3>5, <4>2 DEF Passes
      <4> QED BY <1>1, <3>4, <4>3, TranslatedUnfold
    <3>6. CASE crate[i].k \in {"const", "static"}
      <4>1. h.do = "field"
        BY <1>2, <3>2, <3>3, <3>6 DEF JobFits, ItemJobs, PartJobs, IsAdt
      <4>2. crate[i].name # <<>>
        BY <3>2, <3>3, <4>1 DEF Makes, Goes
      <4>3. Passes(crate, i)
        BY <3>6, <4>2 DEF Passes
      <4> QED BY <1>1, <3>4, <4>3, TranslatedUnfold
    <3> QED BY <1>3, <3>5, <3>6
  <2> QED BY <2>1, <2>2
<1>4. \A i : Translated(crate, i)' <=> Translated(crate, i)
  BY <1>1
<1>5. \A i \in Items(crate)' : crate'[i] = crate[i] /\ i \in Items(crate)
  BY <1>1
<1> QED BY <1>3, <1>4, <1>5 DEF WrittenDue

\* The handler of an item that is translated goes on with it; that of a native
\* function declares it at least.
LEMMA TranslatedGoes ==
  ASSUME crate \in Crates, NEW h, NEW cls, JobFits(h, cls), h.do \in ItemJobs, Translated(crate, h.i)
  PROVE  Goes(h) \/ (h.do = "fn" /\ ShouldEmit(crate, h.i) /\ IsR2csNative(crate, h.i))
<1>1. CASE h.i = 0
  <2>1. h.do = "module"
    BY <1>1, Parents DEF JobFits, ItemJobs
  <2>2. ShouldEmit(crate, h.i)
    BY <1>1, TranslatedUnfold
  <2> QED BY <1>1, <2>1, <2>2 DEF Goes
<1>2. CASE h.i # 0
  <2>1. h.i \in Items(crate)
    BY <1>2 DEF JobFits, ItemJobs
  <2>2. Passes(crate, h.i)
    BY <2>1, TranslatedUnfold
  <2>3. CASE h.do = "module"
    BY <1>2, <2>1, <2>2, <2>3 DEF Goes, JobFits, Passes
  <2>4. CASE h.do = "adt"
    BY <1>2, <2>1, <2>2, <2>4 DEF Goes, JobFits, Passes, IsAdt
  <2>5. CASE h.do = "fn"
    BY <1>2, <2>1, <2>2, <2>5 DEF Goes, JobFits, Passes
  <2>6. CASE h.do = "impl"
    BY <1>2, <2>1, <2>2, <2>6 DEF Goes, JobFits, Passes
  <2>7. CASE h.do = "field"
    BY <1>2, <2>1, <2>2, <2>7 DEF Goes, JobFits, Passes
  <2>8. CASE h.do \in {"trait", "block"}
    BY <2>8 DEF Goes
  <2> QED BY <2>3, <2>4, <2>5, <2>6, <2>7, <2>8 DEF ItemJobs
<1> QED BY <1>1, <1>2

\* In a body, the items that are wanted are the deferred ones and their blocks.
LEMMA WantedInBlock ==
  ASSUME crate \in Crates, NEW b \in Items(crate), crate[b].k = "block",
         NEW i \in Items(crate), crate[i].in = b, crate[i].k # "impl", Wanted(crate, i)
  PROVE  i \in Deferred(crate, Owner(crate, b)) \/ HoldsDeferred(i, Owner(crate, b))
<1>1. IsBlock(crate, b)
  BY Parents DEF IsBlock
<1>2. Owner(crate, i) = Owner(crate, b) /\ BodyOwner(crate, i) = Owner(crate, b)
  BY <1>1, OwnerUnfold DEF BodyOwner
<1>3. InBody(crate, i)
  BY BodyUnfold
<1>4. Placed(crate, i) /\ Passes(crate, i) /\ StandsIn(crate, i)
  BY TranslatedUnfold, Parents DEF Wanted
<1>5. CASE crate[i].k = "block"
  <2>1. IsBlock(crate, i)
    BY <1>5, Parents DEF IsBlock
  <2> QED BY <1>2, <1>5, <2>1 DEF Wanted, HoldsDeferred
<1>6. CASE crate[i].k \in {"mod", "trait"}
  BY <1>3, <1>4, <1>6 DEF Placed
<1>7. CASE crate[i].k = "union"
  BY <1>4, <1>7 DEF Passes
<1>8. CASE crate[i].k \in {"fn", "struct", "enum", "const", "static"}
  <2>1. Met(crate, i)
    BY <1>4, <1>8 DEF Placed
  <2> QED BY <1>1, <1>2, <1>8, <2>1 DEF Met
<1>9. crate[i].k \in {"mod", "trait", "struct", "enum", "union", "static", "fn", "const", "block"}
  BY <1>4 DEF StandsIn
<1> QED BY <1>5, <1>6, <1>7, <1>8, <1>9

LEMMA WantedFound ==
  ASSUME crate \in Crates, NEW h, NEW cls, JobFits(h, cls), JobDue(h),
         h.do \in (ItemJobs \ {"trait"}) \cup {"defaults"},
         NEW i \in Items(crate), crate[i].k # "impl", Wanted(crate, i), crate[i].in = h.i
  PROVE  Goes(h) /\ i \in Found(h)
<1>1. Placed(crate, i) /\ Passes(crate, i) /\ StandsIn(crate, i) /\ Translated(crate, h.i)
  BY TranslatedUnfold, Parents DEF Wanted, Home
<1>2. h.i = 0 \/ h.i \in Items(crate)
  BY Parents
<1>3. Goes(h)
  <2>1. CASE h.do = "defaults"
    BY <2>1 DEF Goes
  <2>2. CASE h.do \in ItemJobs \ {"fn"}
    BY <1>1, <2>2, TranslatedGoes
  <2>3. CASE h.do = "fn"
    <3>1. h.i # 0 /\ crate[h.i].k = "fn"
      BY <2>3, Parents DEF JobFits, ItemJobs
    <3>2. crate[i].k = "block"
      BY <1>1, <3>1 DEF StandsIn
    <3>3. ~IsR2csNative(crate, h.i)
      BY <1>1, <3>1, <3>2 DEF Placed
    <3> QED BY <1>1, <2>3, <3>3, TranslatedGoes DEF ItemJobs
  <2> QED BY <2>1, <2>2, <2>3
<1>4. i \in Found(h)
  <2>1. CASE h.do = "module"
    <3>1. h.i = 0 \/ crate[h.i].k = "mod"
      BY <2>1 DEF JobFits
    <3>2. crate[i].k \in {"trait", "const", "static", "fn", "struct", "enum", "union", "mod"}
      BY <1>1, <3>1 DEF StandsIn
    <3> QED BY <2>1, <3>2 DEF Found
  <2>2. CASE h.do = "block"
    <3>1. h.i \in Items(crate) /\ crate[h.i].k = "block" /\ h.n = Owner(crate, h.i)
      BY <2>2 DEF JobFits, JobDue, ItemJobs
    <3>2. i \in Deferred(crate, h.n) \/ HoldsDeferred(i, h.n)
      BY <3>1, WantedInBlock
    <3> QED BY <2>2, <3>2 DEF Found
  <2>3. CASE h.do \in {"fn", "field"}
    <3>1. h.i \in Items(crate) /\ h.i # 0 /\ crate[h.i].k \in {"fn", "const", "static"}
      BY <2>3, Parents DEF JobFits, ItemJobs
    <3>2. crate[i].k = "block" /\ IsBlock(crate, i) /\ ~IsBlock(crate, h.i)
      BY <1>1, <3>1, Parents DEF StandsIn, IsBlock
    <3>3. Owner(crate, i) = h.i
      BY <3>2, OwnerUnfold
    <3>4. HoldsDeferred(i, h.i)
      BY <3>2, <3>3 DEF Wanted, HoldsDeferred
    <3> QED BY <2>3, <3>4 DEF Found
  <2>4. CASE h.do = "defaults"
    <3>1. h.i \in Items(crate) /\ h.i # 0 /\ crate[h.i].k = "trait"
      BY <2>4, Parents DEF JobFits, PartJobs
    <3>2. crate[i].k \in {"fn", "const"}
      BY <1>1, <3>1 DEF StandsIn
    <3>3. crate[i].k = "fn" /\ crate[i].body
      BY <1>1, <3>1, <3>2 DEF Placed
    <3> QED BY <2>4, <3>3 DEF Found
  <2>5. CASE h.do = "impl"
    <3>1. h.i \in Items(crate) /\ h.i # 0 /\ crate[h.i].k = "impl"
      BY <2>5, Parents DEF JobFits, ItemJobs
    <3>2. crate[i].k \in {"fn", "const"}
      BY <1>1, <3>1 DEF StandsIn
    <3> QED BY <2>5, <3>2 DEF Found
  <2>6. CASE h.do = "adt"
    <3>1. h.i \in Items(crate) /\ h.i # 0 /\ crate[h.i].k \in {"struct", "enum", "union"}
      BY <2>6, Parents DEF JobFits, ItemJobs, IsAdt
    <3> QED BY <1>1, <3>1 DEF StandsIn
  <2> QED BY <2>1, <2>2, <2>3, <2>4, <2>5, <2>6 DEF ItemJobs
<1> QED BY <1>3, <1>4

\* What is found through an item that a step opens is found by that step.
LEMMA OpenerFinds ==
  ASSUME Shape, Walk, JobsDue, NEW h, NEW more, NEW cls, NEW ds, Steps(h, more, cls, ds),
         Keeps(more), Makes(h, more, ds), NEW p \in Items(crate) \cup {0},
         Translated(crate, p), ~Opened(p), Opened(p)'
  PROVE  h.i = p /\ h.do \in (ItemJobs \ {"trait"}) \cup {"defaults"}
<1>1. crate \in Crates /\ UNCHANGED crate /\ IsNext(h) /\ Grows(ds) /\ Children(h, more, cls)
  BY DEF Steps, Shape
<1>2. JobDue(h) /\ JobFits(h, stack[Len(stack)].class)
  BY <1>1, NextFits DEF Walk, IsNext, JobsDue
<1>3. ASSUME NEW a, ~Written(a), Written(a)', a = 0 \/ crate[a].k # "impl"
      PROVE  h.i = a /\ h.do \in ItemJobs \ {"impl"}
  <2>1. PICK m \in DOMAIN ds : Own(ds[m]) /\ ds[m].item = a
    BY <1>1, <1>3, WrittenStays
  <2> QED BY <1>3, <2>1, WrittenNow
<1>4. CASE p # 0 /\ crate[p].k = "impl"
  <2>1. PICK a : a = crate[p].to
    OBVIOUS
  <2>2. /\ a # 0 /\ Written(a)' /\ ~Pending({"impl"}, p)'
        /\ ~Written(a) \/ Pending({"impl"}, p)
    BY <1>1, <1>4, <2>1 DEF Opened
  <2>3. CASE Pending({"impl"}, p)
    <3>1. h.do \in {"impl"} /\ h.i = p
      BY <1>1, <2>2, <2>3, StillPending
    <3> QED BY <3>1 DEF ItemJobs
  <2>4. CASE ~Written(a)
    <3>1. p \in Items(crate) /\ a \in Items(crate) /\ IsAdt(crate, a)
      BY <1>1, <1>4, <2>1, <2>2, CrateFacts
    <3>2. h.i = a /\ h.do \in ItemJobs \ {"impl"}
      BY <1>3, <2>2, <2>4, <3>1 DEF IsAdt
    <3>3. h.do = "adt"
      BY <1>2, <3>1, <3>2 DEF JobFits, ItemJobs, PartJobs, IsAdt
    <3>4. Placed(crate, p) /\ Passes(crate, p) /\ Translated(crate, a)
      BY <1>1, <1>4, <2>1, <3>1, TranslatedUnfold DEF Home
    <3>5. Goes(h)
      BY <1>1, <1>2, <3>2, <3>3, <3>4, TranslatedGoes
    <3>6. p \in Found(h)
      BY <1>2, <1>4, <2>1, <3>1, <3>2, <3>3, <3>4 DEF JobDue, Found
    <3>7. PICK n \in DOMAIN more : more[n].do \in ItemJobs /\ more[n].i = p
      BY <3>5, <3>6 DEF Makes, Brings
    <3>8. JobFits(more[n], cls)
      BY <1>1, ChildrenAre DEF Child
    <3>9. more[n].do \in {"impl"}
      BY <1>1, <1>4, <3>7, <3>8, Kinds
    <3>10. Pending({"impl"}, p)'
      BY <1>1, <3>7, <3>9, StillPending
    <3> QED BY <2>2, <3>10
  <2> QED BY <2>2, <2>3, <2>4
<1>5. CASE p # 0 /\ crate[p].k = "trait"
  <2>1. /\ Written(p)' /\ ~Pending({"defaults"}, p)'
        /\ ~Written(p) \/ Pending({"defaults"}, p)
    BY <1>1, <1>5 DEF Opened
  <2>2. CASE Pending({"defaults"}, p)
    <3>1. h.do \in {"defaults"} /\ h.i = p
      BY <1>1, <2>1, <2>2, StillPending
    <3> QED BY <3>1
  <2>3. CASE ~Written(p)
    <3>1. h.i = p /\ h.do \in ItemJobs \ {"impl"}
      BY <1>3, <1>5, <2>1, <2>3
    <3>2. h.do = "trait"
      BY <1>2, <1>5, <3>1 DEF JobFits, ItemJobs, PartJobs, IsAdt
    <3>3. PICK n \in DOMAIN more : more[n].do = "defaults"
      BY <3>2 DEF Makes, Goes
    <3>4. more[n].i = h.i
      BY <1>1, <3>3, ChildrenAre DEF Child, PartJobs
    <3>5. Pending({"defaults"}, p)'
      BY <1>1, <3>1, <3>3, <3>4, StillPending
    <3> QED BY <2>1, <3>5
  <2> QED BY <2>1, <2>2, <2>3
<1>6. CASE p = 0 \/ (crate[p].k # "impl" /\ crate[p].k # "trait")
  <2>1. Written(p)' /\ ~Written(p)
    BY <1>1, <1>6 DEF Opened
  <2>2. h.i = p /\ h.do \in ItemJobs \ {"impl"}
    BY <1>3, <1>6, <2>1
  <2>3. h.do # "trait"
    <3>1. ASSUME h.do = "trait" PROVE FALSE
      <4>1. crate[p].k = "trait" /\ p \in Items(crate)
        BY <1>2, <2>2, <3>1 DEF JobFits, ItemJobs
      <4> QED BY <1>1, <1>6, <4>1, Parents
    <3> QED BY <3>1
  <2> QED BY <2>2, <2>3
<1> QED BY <1>4, <1>5, <1>6

LEMMA AllReachedStep ==
  ASSUME Shape, Walk, JobsDue, AllReached, NEW h, NEW more, NEW cls, NEW ds,
         Steps(h, more, cls, ds), Keeps(more), Makes(h, more, ds)
  PROVE  AllReached'
<1>1. crate \in Crates /\ UNCHANGED crate /\ IsNext(h) /\ Grows(ds) /\ Children(h, more, cls)
  BY DEF Steps, Shape
<1>2. JobDue(h) /\ JobFits(h, stack[Len(stack)].class)
  BY <1>1, NextFits DEF Walk, IsNext, JobsDue
<1>3. ASSUME h.do \in ItemJobs \ {"impl"}, Translated(crate, h.i) PROVE Written(h.i)'
  <2>1. Goes(h) \/ (h.do = "fn" /\ ShouldEmit(crate, h.i))
    BY <1>1, <1>2, <1>3, TranslatedGoes
  <2>2. Declares(ds)
    BY <1>3, <2>1 DEF Makes
  <2>3. PICK m \in DOMAIN ds : Own(ds[m])
    BY <2>2 DEF Declares
  <2>4. ds[m].item = h.i
    BY <2>3, WrittenNow
  <2> QED BY <1>1, <2>3, <2>4, WrittenStays
<1>4. ASSUME NEW i, Translated(crate, i), Pending(ItemJobs, i), i = 0 \/ (i \in Items(crate) /\ crate[i].k # "impl")
      PROVE  Pending(ItemJobs, i)' \/ Written(i)'
  <2>1. CASE h.do \in ItemJobs /\ h.i = i
    <3>1. h.do # "impl"
      <4>1. ASSUME h.do = "impl" PROVE FALSE
        <5>1. h.i # 0 /\ crate[h.i].k = "impl"
          BY <1>1, <1>2, <4>1, Kinds
        <5> QED BY <1>4, <2>1, <5>1
      <4> QED BY <4>1
    <3> QED BY <1>3, <1>4, <2>1, <3>1
  <2>2. CASE ~(h.do \in ItemJobs /\ h.i = i)
    BY <1>1, <1>4, <2>2, StillPending
  <2> QED BY <2>1, <2>2
<1>5. \A i : Written(i) => Written(i)'
  BY <1>1, WrittenStays
<1>6. ASSUME Translated(crate, 0) PROVE Pending(ItemJobs, 0)' \/ Written(0)'
  BY <1>4, <1>5, <1>6 DEF AllReached
<1>7. ASSUME NEW i \in Items(crate), crate[i].k # "impl", Wanted(crate, i),
             NEW p, p = Home(crate, i), Opened(p)'
      PROVE  Pending(ItemJobs, i)' \/ Written(i)'
  <2>1. p = crate[i].in /\ p \in Items(crate) \cup {0} /\ Translated(crate, i) /\ Translated(crate, p)
    BY <1>1, <1>7, Parents, TranslatedUnfold DEF Home, Wanted
  <2>2. CASE Opened(p)
    <3>1. Pending(ItemJobs, i) \/ Written(i)
      BY <1>7, <2>2 DEF AllReached, Reached
    <3> QED BY <1>4, <1>5, <1>7, <2>1, <3>1
  <2>3. CASE ~Opened(p)
    <3>1. h.i = p /\ h.do \in (ItemJobs \ {"trait"}) \cup {"defaults"}
      BY <1>7, <2>1, <2>3, OpenerFinds
    <3>2. Goes(h) /\ i \in Found(h)
      BY <1>1, <1>2, <1>7, <2>1, <3>1, WantedFound
    <3>3. \E n \in DOMAIN more : more[n].do \in ItemJobs /\ more[n].i = i
      BY <3>2 DEF Makes, Brings
    <3> QED BY <1>1, <3>3, StillPending
  <2> QED BY <2>2, <2>3
<1>8. Translated(crate, 0)' => Pending(ItemJobs, 0)' \/ Written(0)'
  BY <1>1, <1>6
<1>9. ASSUME NEW i \in Items(crate)', (crate[i].k # "impl")', Wanted(crate, i)', Opened(Home(crate, i))'
      PROVE  Reached(i)'
  <2>1. PICK p : p = Home(crate, i)
    OBVIOUS
  <2>2. i \in Items(crate) /\ crate[i].k # "impl" /\ Wanted(crate, i) /\ Opened(p)'
    BY <1>1, <1>9, <2>1
  <2>3. Pending(ItemJobs, i)' \/ Written(i)'
    BY <1>7, <2>1, <2>2
  <2> QED BY <1>9, <2>3 DEF Reached
<1> QED BY <1>8, <1>9 DEF AllReached

LEMMA StepCovers ==
  ASSUME Shape, Walk, Covered, NEW h, NEW more, NEW cls, NEW ds,
         Steps(h, more, cls, ds), Keeps(more), Makes(h, more, ds)
  PROVE  Covered'
<1>1. JobsDue'
  BY JobsDueStep DEF Covered
<1>2. WrittenDue'
  BY WrittenDueStep DEF Covered
<1>3. AllReached'
  BY AllReachedStep DEF Covered
<1> QED BY <1>1, <1>2, <1>3 DEF Covered

\* Steps that neither make nor take a job.
LEMMA StillCovers ==
  ASSUME Covered, UNCHANGED <<crate, decls>>,
         \A jobs, i : Pending(jobs, i)' <=> Pending(jobs, i),
         \A k \in DOMAIN stack' : \A n \in DOMAIN stack'[k].todo :
           \E k0 \in DOMAIN stack : \E n0 \in DOMAIN stack[k0].todo :
             stack'[k].todo[n] = stack[k0].todo[n0]
  PROVE  Covered'
<1>1. UNCHANGED crate /\ UNCHANGED decls
  OBVIOUS
<1>2. \A i : Written(i)' <=> Written(i)
  BY <1>1 DEF Written, Own, OfTraitFn
<1>3. \A job : JobDue(job)' <=> JobDue(job)
  BY <1>1 DEF JobDue
<1>4. \A k \in DOMAIN stack' : \A n \in DOMAIN stack'[k].todo : JobDue(stack'[k].todo[n])
  BY DEF Covered, JobsDue
<1>5. JobsDue'
  BY <1>3, <1>4 DEF JobsDue
<1>6. WrittenDue'
  BY <1>1, <1>2 DEF Covered, WrittenDue
<1>7. AllReached'
  <2>1. Translated(crate, 0)' => Pending(ItemJobs, 0)' \/ Written(0)'
    BY <1>1, <1>2 DEF Covered, AllReached
  <2>2. ASSUME NEW i \in Items(crate)', (crate[i].k # "impl")', Wanted(crate, i)', Opened(Home(crate, i))'
        PROVE  Reached(i)'
    <3>1. PICK p : p = Home(crate, i)
      OBVIOUS
    <3>2. i \in Items(crate) /\ crate[i].k # "impl" /\ Wanted(crate, i) /\ Opened(p)'
      BY <1>1, <2>2, <3>1
    <3>3. Opened(p)
      BY <1>1, <1>2, <3>2 DEF Opened
    <3>4. Reached(i)
      BY <3>1, <3>2, <3>3 DEF Covered, AllReached
    <3> QED BY <1>1, <1>2, <3>4 DEF Reached
  <2> QED BY <2>1, <2>2 DEF AllReached
<1> QED BY <1>5, <1>6, <1>7 DEF Covered

LEMMA CloseCovers == ASSUME Shape, Covered, CloseClass PROVE Covered'
<1>1. UNCHANGED <<crate, decls>> /\ Top.todo = <<>> /\ Len(stack) > 1
  BY DEF CloseClass
<1>a. PICK none : none = <<>> /\ DOMAIN none = {}
  OBVIOUS
<1>2. Moves(none, none) /\ Keeps(none)
  BY <1>a, CloseMoves
<1>3. ASSUME NEW k \in DOMAIN stack', NEW n \in DOMAIN stack'[k].todo
      PROVE  \E k0 \in DOMAIN stack : \E n0 \in DOMAIN stack[k0].todo :
               stack'[k].todo[n] = stack[k0].todo[n0]
  BY <1>2, <1>3, <1>a DEF Moves
<1>4. ASSUME NEW jobs, NEW i, Pending(jobs, i)' PROVE Pending(jobs, i)
  BY <1>2, <1>4, <1>a, PendingMoves, WaitingPending
<1>5. ASSUME NEW jobs, NEW i, Pending(jobs, i) PROVE Pending(jobs, i)'
  <2>1. PICK k \in DOMAIN stack : \E n \in DOMAIN stack[k].todo :
          stack[k].todo[n].do \in jobs /\ stack[k].todo[n].i = i
    BY <1>5 DEF Pending
  <2>2. PICK n \in DOMAIN stack[k].todo : stack[k].todo[n].do \in jobs /\ stack[k].todo[n].i = i
    BY <2>1
  <2>3. k # Len(stack)
    BY <1>1, <2>2 DEF Top
  <2>4. \E k2 \in DOMAIN stack' : \E n2 \in DOMAIN stack'[k2].todo :
          stack'[k2].todo[n2] = stack[k].todo[n]
    BY <1>2, <2>3 DEF Keeps
  <2> QED BY <2>2, <2>4 DEF Pending
<1> QED BY <1>1, <1>3, <1>4, <1>5, StillCovers

LEMMA SameCovers == ASSUME Covered, UNCHANGED cvars PROVE Covered'
<1>1. UNCHANGED crate /\ UNCHANGED stack /\ UNCHANGED decls
  BY DEF cvars
<1>2. \A jobs, i : Pending(jobs, i)' <=> Pending(jobs, i)
  BY <1>1 DEF Pending
<1> QED BY <1>1, <1>2, StillCovers

LEMMA CoverInit == ASSUME CrateInit PROVE Covered
<1>1. /\ Pending(ItemJobs, 0) /\ \A i : ~Written(i)
      /\ \A k \in DOMAIN stack : \A n \in DOMAIN stack[k].todo :
           stack[k].todo[n].do = "module" /\ stack[k].todo[n].i = 0
  BY WalkInit
<1>2. ASSUME NEW k \in DOMAIN stack, NEW n \in DOMAIN stack[k].todo
      PROVE  JobDue(stack[k].todo[n])
  <2>1. PICK job : job = stack[k].todo[n] /\ job.do = "module" /\ job.i = 0
    BY <1>1
  <2>2. JobDue(job)
    BY <2>1 DEF JobDue, Due
  <2> QED BY <2>1, <2>2
<1>3. WrittenDue
  BY <1>1 DEF WrittenDue
<1>4. \A p : ~Opened(p)
  BY <1>1 DEF Opened
<1> QED BY <1>1, <1>2, <1>3, <1>4 DEF Covered, JobsDue, AllReached

\* What the walk's invariant and that of the cover say together.
WholeCover == FoundInOneWay(crate) => Shape /\ Walk /\ Covered

LEMMA WholeCoverInvariant == CrateSpec => []WholeCover
<1>1. CrateInit => WholeCover
  BY WalkInit, CoverInit DEF WholeCover
<1>2. WholeCover /\ [CrateNext]_cvars => WholeCover'
  <2> SUFFICES ASSUME WholeCover, [CrateNext]_cvars, FoundInOneWay(crate)'
               PROVE  Shape' /\ Walk' /\ Covered'
    BY DEF WholeCover
  <2>1. FoundInOneWay(crate)
    BY SameCrate
  <2>2. Shape /\ Walk /\ Covered
    BY <2>1 DEF WholeCover
  <2>3. Shape' /\ Walk' /\ (Made \/ CloseClass \/ UNCHANGED cvars)
    BY <2>1, <2>2, WalkNext
  <2>4. CASE Made
    <3>1. PICK h : h = ThisJob
      OBVIOUS
    <3>2. PICK more, cls, ds : Steps(h, more, cls, ds) /\ Keeps(more) /\ Makes(h, more, ds)
      BY <2>4, <3>1 DEF Made
    <3>3. Covered'
      BY <2>2, <3>2, StepCovers
    <3> QED BY <2>3, <3>3
  <2>5. CASE CloseClass
    BY <2>2, <2>3, <2>5, CloseCovers
  <2>6. CASE UNCHANGED cvars
    BY <2>2, <2>3, <2>6, SameCovers
  <2> QED BY <2>3, <2>4, <2>5, <2>6
<1> QED BY <1>1, <1>2, PTL DEF CrateSpec

\* Whatever the crate, when no two types in modules have the same C# class and no
\* body defers an item twice, the walk keeps what is found through an open item
\* pending or written, and makes jobs only for items whose surroundings are
\* translated (emit_crate, emit_module, emit_adt_with_impls, emit_impl_items,
\* deferred).
THEOREM CoverIsInvariant == CrateSpec => []CoverInv
<1>1. WholeCover => CoverInv
  BY DEF WholeCover, CoverInv
<1> QED BY <1>1, WholeCoverInvariant, PTL

--------------------------------------------------------------------------------
(* Nothing is found through itself. *)

\* f gives for each item the owner of the innermost body it is in or is: 0 if none.
Bodies(f) ==
  /\ f \in [0 .. Len(crate) -> Nat] /\ f[0] = 0
  /\ \A i \in Items(crate) :
       f[i] = IF crate[i].k = "block" THEN Owner(crate, i) ELSE f[crate[i].in]

LEMMA BodiesExist == ASSUME crate \in Crates PROVE \E f : Bodies(f)
<1> DEFINE N == Len(crate)
           P == [j \in 1 .. N |-> crate[j].in]
           G == [p \in (1 .. N) \X Nat |-> IF crate[p[1]].k = "block" THEN Owner(crate, p[1]) ELSE p[2]]
<1>1. /\ N \in Nat /\ P \in [1 .. N -> Nat]
      /\ \A j \in 1 .. N : P[j] < j /\ P[j] = crate[j].in /\ P[j] \in 0 .. N
  BY Parents
<1>2. \A j \in 1 .. N : crate[j].k = "block" => Owner(crate, j) \in Nat
  BY BlockOwner, Parents
<1>3. G \in [(1 .. N) \X Nat -> Nat]
  BY <1>2
<1>4. \A j \in 1 .. N, s \in Nat : G[<<j, s>>] = IF crate[j].k = "block" THEN Owner(crate, j) ELSE s
  OBVIOUS
<1> HIDE DEF G, P, N
<1>5. PICK f \in [0 .. N -> Nat] : Descends(f, 0, G, P, N)
  BY <1>1, <1>3, Descent
<1>6. ASSUME NEW i \in Items(crate)
      PROVE  f[i] = IF crate[i].k = "block" THEN Owner(crate, i) ELSE f[crate[i].in]
  <2>1. i \in 1 .. N
    BY Parents DEF N
  <2>2. f[i] = G[<<i, f[P[i]]>>] /\ f[P[i]] \in Nat
    BY <2>1, <1>1, <1>5 DEF Descends
  <2> QED BY <1>1, <1>4, <2>1, <2>2
<1> QED BY <1>5, <1>6 DEF Bodies, Descends, N

LEMMA BodiesBelow ==
  ASSUME crate \in Crates, NEW f, Bodies(f), NEW i \in Items(crate)
  PROVE  /\ f[i] < i /\ f[i] \in Nat
         /\ ~InBody(crate, i) => f[i] = 0
<1> DEFINE T == {x \in Nat : /\ x \in Items(crate) => f[x] < x
                             /\ ~InBody(crate, x) => f[x] = 0}
<1>1. 0 \in T
  BY Parents DEF Bodies
<1>2. ASSUME NEW x \in Items(crate), \A y \in Items(crate) \cup {0} : y < x => y \in T
      PROVE  x \in T
  <2>1. PICK p : p = crate[x].in /\ p \in Items(crate) \cup {0} /\ p < x /\ x \in Nat /\ p \in Nat
    BY Parents
  <2>2. p \in T
    BY <1>2, <2>1
  <2>3. f[x] = IF crate[x].k = "block" THEN Owner(crate, x) ELSE f[p]
    BY <2>1 DEF Bodies
  <2>4. CASE crate[x].k = "block"
    <3>1. PICK o : o = Owner(crate, x) /\ o < x
      BY <2>4, BlockOwner
    <3>2. InBody(crate, x)
      BY <2>4, BodyUnfold
    <3> QED BY <2>1, <2>3, <2>4, <3>1, <3>2
  <2>5. CASE crate[x].k # "block"
    <3>1. InBody(crate, x) <=> InBody(crate, p)
      BY <2>1, <2>5, BodyUnfold
    <3>2. f[p] < x
      <4>1. CASE p = 0
        BY <2>1, <4>1 DEF Bodies
      <4>2. CASE p # 0
        <5>1. f[p] < p /\ f[p] \in Nat
          BY <2>1, <2>2, <4>2, Parents DEF Bodies
        <5> QED BY <2>1, <5>1
      <4> QED BY <4>1, <4>2
    <3> QED BY <2>1, <2>2, <2>3, <2>5, <3>1, <3>2
  <2> QED BY <2>4, <2>5
<1>3. i \in T
  <2> HIDE DEF T
  <2> QED BY <1>1, <1>2, ByItem
<1>4. f[i] \in Nat
  BY Parents DEF Bodies
<1> QED BY <1>3, <1>4

\* An impl of a body is in that of its type.
LEMMA ImplBody ==
  ASSUME crate \in Crates, NEW f, Bodies(f), NEW j \in Items(crate), crate[j].k = "impl",
         Translated(crate, j)
  PROVE  crate[j].to \in Items(crate) /\ f[crate[j].to] = f[j]
<1>1. PICK a : a = crate[j].to
  OBVIOUS
<1>2. Placed(crate, j) /\ Translated(crate, a)
  BY <1>1, TranslatedUnfold DEF Home
<1>3. a \in Items(crate) /\ IsAdt(crate, a)
  BY <1>1, <1>2, CrateFacts DEF Placed
<1>4. CASE ~InBody(crate, j)
  <2>1. ~InBody(crate, a)
    BY <1>1, <1>2, <1>4 DEF Placed
  <2> QED BY <1>1, <1>3, <1>4, <2>1, BodiesBelow
<1>5. CASE InBody(crate, j)
  <2>1. InBody(crate, a) /\ BodyOwner(crate, a) = BodyOwner(crate, j)
    BY <1>1, <1>2, <1>5 DEF Placed
  <2>2. PICK p : p = crate[a].in
    OBVIOUS
  <2>3. Translated(crate, p) /\ StandsIn(crate, a) /\ crate[a].k \in {"struct", "enum", "union"}
    BY <1>2, <1>3, <2>2, TranslatedUnfold, Parents DEF Home, IsAdt
  <2>4. InBody(crate, p) /\ p \in Items(crate)
    <3>1. InBody(crate, p)
      BY <1>3, <2>1, <2>2, <2>3, BodyUnfold
    <3> QED BY <1>3, <2>2, <3>1, BodyUnfold, Parents
  <2>5. crate[p].k = "block"
    <3>1. p = 0 \/ crate[p].k = "mod" \/ crate[p].k = "block"
      BY <2>2, <2>3 DEF StandsIn
    <3>2. crate[p].k = "mod" => ~InBody(crate, p)
      BY <2>3, <2>4, TranslatedUnfold DEF Placed
    <3> QED BY <2>4, <3>1, <3>2, BodyUnfold
  <2>6. f[a] = Owner(crate, p) /\ f[a] # 0 /\ Owner(crate, a) = Owner(crate, p) /\ IsBlock(crate, p)
    <3>1. IsBlock(crate, p) /\ Owner(crate, p) # 0
      BY <2>4, <2>5, BlockOwner, Parents DEF IsBlock
    <3>2. f[a] = f[p] /\ f[p] = Owner(crate, p)
      BY <1>3, <2>2, <2>3, <2>4, <2>5 DEF Bodies
    <3>3. Owner(crate, a) = Owner(crate, p)
      BY <1>3, <2>2, <3>1, OwnerUnfold
    <3> QED BY <3>1, <3>2, <3>3
  <2>7. BodyOwner(crate, j) = f[a]
    BY <2>1, <2>2, <2>6 DEF BodyOwner
  <2>8. PICK q : q = crate[j].in /\ IsBlock(crate, q) /\ Owner(crate, j) = f[a]
    BY <2>6, <2>7 DEF BodyOwner
  <2>9. q \in Items(crate) /\ crate[q].k = "block"
    BY <2>8, Parents DEF IsBlock
  <2>10. Owner(crate, j) = Owner(crate, q)
    BY <2>8, OwnerUnfold
  <2>11. f[j] = Owner(crate, q)
    BY <2>8, <2>9 DEF Bodies
  <2> QED BY <1>1, <1>3, <2>8, <2>10, <2>11
<1> QED BY <1>4, <1>5

LEMMA HomeBody ==
  ASSUME crate \in Crates, NEW f, Bodies(f), NEW i \in Items(crate), Translated(crate, i),
         NEW p, p = Home(crate, i), p \in Items(crate)
  PROVE  /\ f[p] <= f[i]
         /\ crate[i].k = "block" => p < i /\ (crate[p].k = "block" \/ f[p] < f[i])
<1>0. f[i] \in Nat /\ f[p] \in Nat
  BY BodiesBelow
<1>1. CASE crate[i].k = "impl"
  BY <1>0, <1>1, ImplBody DEF Home
<1>2. CASE crate[i].k = "block"
  <2>1. p = crate[i].in /\ p < i /\ StandsIn(crate, i)
    BY <1>2, Parents DEF Home
  <2>2. f[i] = Owner(crate, i)
    BY <1>2 DEF Bodies
  <2>3. CASE crate[p].k = "block"
    <3>1. IsBlock(crate, p)
      BY <2>3, Parents DEF IsBlock
    <3>2. Owner(crate, i) = Owner(crate, p)
      BY <2>1, <3>1, OwnerUnfold
    <3>3. f[p] = Owner(crate, p)
      BY <2>3 DEF Bodies
    <3> QED BY <1>0, <2>1, <2>2, <2>3, <3>2, <3>3
  <2>4. CASE crate[p].k # "block"
    <3>1. Owner(crate, i) = p
      BY <2>1, <2>4, OwnerUnfold DEF IsBlock
    <3>2. f[p] < p
      BY BodiesBelow
    <3> QED BY <1>0, <2>1, <2>2, <3>1, <3>2, Parents
  <2> QED BY <2>3, <2>4
<1>3. CASE crate[i].k # "impl" /\ crate[i].k # "block"
  BY <1>0, <1>3 DEF Bodies, Home
<1> QED BY <1>1, <1>2, <1>3
LEMMA WantedHome ==
  ASSUME crate \in Crates, NEW i \in Items(crate), Wanted(crate, i)
  PROVE  Wanted(crate, Home(crate, i))
<1>1. PICK p : p = Home(crate, i) /\ p \in Items(crate) \cup {0} /\ Translated(crate, p)
  BY TranslatedUnfold, Parents DEF Wanted
<1>2. CASE ~IsBlock(crate, p)
  BY <1>1, <1>2 DEF Wanted
<1>3. CASE IsBlock(crate, p)
  <2>1. p \in Items(crate) /\ crate[p].k = "block"
    BY <1>1, <1>3, Parents DEF IsBlock
  <2>2. crate[i].k # "impl" /\ p = crate[i].in
    <3>1. ASSUME crate[i].k = "impl" PROVE FALSE
      <4>1. p = crate[i].to /\ p # 0
        BY <1>1, <2>1, <3>1, Parents DEF Home
      <4>2. IsAdt(crate, p)
        BY <4>1, CrateFacts
      <4> QED BY <2>1, <4>2 DEF IsAdt
    <3> QED BY <1>1, <3>1 DEF Home
  <2>3. \A j \in Items(crate) : i \in Near(j) => p \in Near(j)
    <3>1. p \in Near(i)
      BY <1>1, <2>1, <2>2, NearUnfold
    <3> QED BY <3>1, NearParts
  <2>4. p \in Near(i) /\ Owner(crate, i) = Owner(crate, p)
    BY <1>3, <2>1, <2>2, NearUnfold, OwnerUnfold
  <2>5. \A j \in Items(crate) : \A x : Contains(Around(crate, j), x) <=> x \in Near(j)
    BY NearUnfold
  <2>6. \A owner : Deferred(crate, owner) \subseteq Items(crate)
    BY CrateFacts, BodyFacts, DeferredAreItems
  <2>7. \E j \in Deferred(crate, Owner(crate, p)) : i \in Near(j) \/ j = i
    <3>1. CASE i \in Deferred(crate, Owner(crate, p))
      BY <3>1
    <3>2. CASE HoldsDeferred(i, Owner(crate, p))
      BY <2>5, <2>6, <3>2 DEF HoldsDeferred
    <3> QED BY <2>1, <2>2, <3>1, <3>2, WantedInBlock
  <2>8. \E j \in Deferred(crate, Owner(crate, p)) : Contains(Around(crate, j), p)
    BY <2>3, <2>4, <2>5, <2>6, <2>7
  <2> QED BY <1>1, <2>8 DEF Wanted
<1> QED BY <1>2, <1>3

\* What is wanted and not opened has a home that is neither.
LEMMA UnopenedHome ==
  ASSUME crate \in Crates, AllReached, \A jobs, i : ~Pending(jobs, i),
         NEW i \in Items(crate), Wanted(crate, i), ~Opened(i)
  PROVE  Home(crate, i) \in Items(crate) /\ Wanted(crate, Home(crate, i)) /\ ~Opened(Home(crate, i))
<1>1. PICK p : p = Home(crate, i) /\ p \in Items(crate) \cup {0} /\ Wanted(crate, p)
  BY WantedHome, Parents
<1>2. i # 0 /\ Placed(crate, i)
  BY Parents, TranslatedUnfold DEF Wanted
<1>3. p = 0 => Opened(p)
  BY <1>1 DEF AllReached, Wanted, Opened
<1>4. ~Opened(p)
  <2>1. CASE crate[i].k = "impl"
    <3>1. p = crate[i].to /\ p # 0
      BY <1>1, <1>2, <2>1 DEF Home, Placed
    <3>2. IsAdt(crate, p)
      BY <3>1, CrateFacts
    <3>3. Opened(p) <=> Written(p)
      BY <3>1, <3>2 DEF IsAdt, Opened
    <3> QED BY <1>2, <2>1, <3>1, <3>3 DEF Opened
  <2>2. CASE crate[i].k # "impl"
    <3>1. ~Written(i)
      BY <1>2, <2>2 DEF Opened
    <3> QED BY <1>1, <2>2, <3>1 DEF AllReached, Reached
  <2> QED BY <2>1, <2>2
<1> QED BY <1>1, <1>3, <1>4

\* When no job is left, all that is wanted has been opened.
LEMMA EndReached ==
  ASSUME crate \in Crates, AllReached, \A jobs, i : ~Pending(jobs, i),
         NEW i \in Items(crate), Wanted(crate, i)
  PROVE  Opened(i)
<1> DEFINE Bad == {x \in Items(crate) : Wanted(crate, x) /\ ~Opened(x)}
<1>1. PICK f : Bodies(f)
  BY BodiesExist
<1>2. \A x \in Bad : Home(crate, x) \in Bad
  BY UnopenedHome
<1> SUFFICES ASSUME Bad # {} PROVE FALSE
  OBVIOUS
<1>3. /\ Bad \subseteq Items(crate) /\ Items(crate) \subseteq Nat
      /\ \A x \in Bad : f[x] \in Nat /\ Translated(crate, x)
  BY <1>1, BodiesBelow, Parents DEF Wanted
<1> HIDE DEF Bad
<1>4. PICK low \in Bad : \A x \in Bad : f[low] <= f[x]
  <2> DEFINE Values == {f[x] : x \in Bad}
  <2>1. Values \subseteq Nat /\ Values # {}
    BY <1>3
  <2>2. PICK v \in Values : \A w \in Values : v <= w
    <3> HIDE DEF Values
    <3> QED BY <2>1, LeastNumber
  <2> QED BY <2>2
<1> DEFINE Least == {x \in Bad : f[x] = f[low]}
<1>5. ASSUME NEW x \in Least
      PROVE  /\ Home(crate, x) \in Least
             /\ crate[x].k = "block" => Home(crate, x) < x /\ crate[Home(crate, x)].k = "block"
  <2>1. PICK p : p = Home(crate, x) /\ p \in Bad /\ x \in Bad
    BY <1>2
  <2>2. f[p] \in Nat /\ f[x] \in Nat /\ f[low] <= f[p] /\ f[x] = f[low]
    BY <1>3, <1>4, <2>1
  <2>3. f[p] <= f[x] /\ (crate[x].k = "block" => p < x /\ (crate[p].k = "block" \/ f[p] < f[x]))
    BY <1>1, <1>3, <2>1, HomeBody
  <2>4. f[p] = f[low]
    BY <2>2, <2>3
  <2> QED BY <2>1, <2>2, <2>3, <2>4
<1>6. /\ Least \subseteq Items(crate) /\ low \in Least
      /\ \A x \in Least : StandsIn(crate, x) /\ x \in Nat /\ x # 0
      /\ \A x \in Least : crate[x].k # "impl" => Home(crate, x) = crate[x].in
      /\ \A x \in Least : crate[x].k = "impl" => Home(crate, x) = crate[x].to
      /\ \A x \in Least : crate[x].in # 0 => crate[x].in < x
  BY <1>3, Parents DEF Home
<1> HIDE DEF Least
<1>7. \A x \in Least : crate[x].k # "block"
  <2> DEFINE Blocks == {x \in Least : crate[x].k = "block"}
  <2> SUFFICES ASSUME Blocks # {} PROVE FALSE
    OBVIOUS
  <2>1. Blocks \subseteq Nat
    BY <1>6
  <2>2. PICK b \in Blocks : \A x \in Blocks : b <= x
    <3> HIDE DEF Blocks
    <3> QED BY <2>1, LeastNumber
  <2>3. Home(crate, b) \in Blocks /\ Home(crate, b) < b
    BY <1>5
  <2> QED BY <2>1, <2>2, <2>3
<1>8. \A x \in Least : crate[x].k # "mod"
  <2> DEFINE Mods == {x \in Least : crate[x].k = "mod"}
  <2> SUFFICES ASSUME Mods # {} PROVE FALSE
    OBVIOUS
  <2>1. Mods \subseteq Nat
    BY <1>6
  <2>2. PICK m \in Mods : \A x \in Mods : m <= x
    <3> HIDE DEF Mods
    <3> QED BY <2>1, LeastNumber
  <2>3. crate[m].in \in Least
    BY <1>5, <1>6
  <2>4. crate[m].in < m /\ crate[m].in # 0
    BY <1>6, <2>3
  <2>5. crate[crate[m].in].k \in {"mod", "block"}
    BY <1>6, <2>4 DEF StandsIn
  <2>6. crate[m].in \in Mods
    BY <1>7, <2>3, <2>5
  <2> QED BY <2>1, <2>2, <2>4, <2>6
<1>9. \A x \in Least : crate[x].k \notin {"trait", "struct", "enum", "union", "static"}
  <2> SUFFICES ASSUME NEW x \in Least, crate[x].k \in {"trait", "struct", "enum", "union", "static"}
               PROVE  FALSE
    OBVIOUS
  <2>1. crate[x].in \in Least /\ crate[x].in # 0
    BY <1>5, <1>6
  <2>2. crate[crate[x].in].k \in {"mod", "block"}
    BY <1>6, <2>1 DEF StandsIn
  <2> QED BY <1>7, <1>8, <2>1, <2>2
<1>10. \A x \in Least : crate[x].k # "impl"
  <2> SUFFICES ASSUME NEW x \in Least, crate[x].k = "impl" PROVE FALSE
    OBVIOUS
  <2>1. crate[x].to \in Least /\ crate[x].to # 0 /\ x \in Items(crate)
    BY <1>5, <1>6
  <2>2. IsAdt(crate, crate[x].to)
    BY <2>1, CrateFacts
  <2> QED BY <1>9, <2>1, <2>2 DEF IsAdt
<1>11. crate[low].k \notin {"fn", "const"}
  <2> SUFFICES ASSUME crate[low].k \in {"fn", "const"} PROVE FALSE
    OBVIOUS
  <2>1. crate[low].in \in Least /\ crate[low].in # 0
    BY <1>5, <1>6
  <2>2. crate[crate[low].in].k \in {"mod", "block", "trait", "impl"}
    BY <1>6, <2>1 DEF StandsIn
  <2> QED BY <1>7, <1>8, <1>9, <1>10, <2>1, <2>2
<1> QED BY <1>6, <1>7, <1>8, <1>9, <1>10, <1>11 DEF StandsIn
--------------------------------------------------------------------------------
(* The end of the walk. *)

LEMMA EndIdle == ASSUME Shape, Emitted PROVE \A jobs, i : ~Pending(jobs, i)
<1>1. PICK X : stack \in Seq(Frames(X))
  BY DEF Shape
<1>2. DOMAIN stack = {1} /\ stack[1].todo = <<>>
  BY <1>1 DEF Emitted, Top
<1>3. DOMAIN stack[1].todo = {}
  BY <1>2
<1> QED BY <1>2, <1>3 DEF Pending

LEMMA Emits ==
  ASSUME Shape, Walk, Covered, Emitted,
         NEW i \in Items(crate), crate[i].k \in {"fn", "const", "static"}
  PROVE  Emissions(i) = IF Translated(crate, i) THEN 1 ELSE 0
<1> DEFINE Ds == {n \in DeclsOf(i) : Own(decls[n])}
<1>1. \A n : n \in Ds <=> n \in DOMAIN decls /\ Own(decls[n]) /\ decls[n].item = i
  BY DEF DeclsOf, Own
<1>2. Ds # {} <=> Written(i)
  BY <1>1 DEF Written
<1>0. Emissions(i) = Cardinality(Ds)
  BY DEF Emissions
<1> HIDE DEF Ds
<1>3. CASE ~Translated(crate, i)
  <2>1. Ds = {}
    BY <1>2, <1>3 DEF Covered, WrittenDue
  <2>2. Cardinality(Ds) = 0
    BY <2>1, FS_EmptySet
  <2> QED BY <1>0, <1>3, <2>2
<1>4. CASE Translated(crate, i)
  <2>1. Wanted(crate, i)
    BY <1>4 DEF Wanted, IsBlock
  <2>2. Opened(i)
    BY <2>1, EndIdle, EndReached DEF Covered, Shape
  <2>3. Written(i)
    BY <2>2 DEF Opened
  <2>4. PICK n : n \in Ds
    BY <1>2, <2>3
  <2>5. \A m \in Ds : m = n
    BY <1>1, <2>4 DEF Walk, WrittenOnce
  <2>6. Ds = {n}
    BY <2>4, <2>5
  <2>7. Cardinality(Ds) = 1
    BY <2>6, FS_Singleton
  <2> QED BY <1>0, <1>4, <2>7
<1> QED BY <1>3, <1>4

\* A block is translated only in what is.
LEMMA BlockOwnerTranslated ==
  ASSUME crate \in Crates, NEW b \in Items(crate), crate[b].k = "block", Translated(crate, b)
  PROVE  Translated(crate, Owner(crate, b))
<1> DEFINE T == {x \in Nat : x \in Items(crate) /\ crate[x].k = "block" /\ Translated(crate, x) =>
                               Translated(crate, Owner(crate, x))}
<1>1. 0 \in T
  BY Parents
<1>2. ASSUME NEW x \in Items(crate), \A y \in Items(crate) \cup {0} : y < x => y \in T
      PROVE  x \in T
  <2>1. PICK p : p = crate[x].in /\ p \in Items(crate) \cup {0} /\ p < x /\ x \in Nat
    BY Parents
  <2>2. ASSUME crate[x].k = "block", Translated(crate, x) PROVE Translated(crate, Owner(crate, x))
    <3>1. Translated(crate, p)
      BY <2>1, <2>2, TranslatedUnfold DEF Home
    <3>2. Owner(crate, x) = IF IsBlock(crate, p) THEN Owner(crate, p) ELSE p
      BY <2>1, OwnerUnfold
    <3>3. CASE IsBlock(crate, p)
      <4>1. p \in Items(crate) /\ crate[p].k = "block"
        BY <2>1, <3>3, Parents DEF IsBlock
      <4>2. Translated(crate, Owner(crate, p))
        BY <1>2, <2>1, <3>1, <4>1
      <4> QED BY <3>2, <3>3, <4>2
    <3>4. CASE ~IsBlock(crate, p)
      BY <3>1, <3>2, <3>4
    <3> QED BY <3>3, <3>4
  <2> QED BY <2>1, <2>2
<1>3. b \in T
  <2> HIDE DEF T
  <2> QED BY <1>1, <1>2, ByItem
<1> QED BY <1>3

\* An item of a body that is translated has been deferred by it, once.
LEMMA DeferredByOwner ==
  ASSUME crate \in Crates, DeferredOnce(crate), NEW i \in Items(crate), Translated(crate, i),
         crate[i].k \in {"fn", "const", "static", "struct", "enum", "union"},
         NEW owner, owner = BodyOwner(crate, i), owner # 0
  PROVE  /\ owner \in Items(crate) /\ crate[owner].k \in {"fn", "const", "static"}
         /\ Translated(crate, owner) /\ Entries(crate, i) = 1
<1>1. PICK b : /\ b = crate[i].in /\ b \in Items(crate) /\ crate[b].k = "block"
               /\ IsBlock(crate, b) /\ Owner(crate, i) = owner
  BY Parents DEF BodyOwner, IsBlock
<1>2. owner = Owner(crate, b)
  BY <1>1, OwnerUnfold
<1>3. Placed(crate, i) /\ Translated(crate, b)
  BY <1>1, TranslatedUnfold DEF Home
<1>4. i \in Deferred(crate, owner)
  <2>1. Met(crate, i)
    BY <1>3 DEF Placed
  <2> QED BY <1>1, <2>1 DEF Met
<1>5. owner \in Items(crate) /\ crate[owner].k \in {"fn", "const", "static"} /\ Translated(crate, owner)
  BY <1>1, <1>2, <1>3, BlockOwner, BlockOwnerTranslated
<1>6. PICK deferred : /\ deferred = crate[owner].deferred /\ deferred = DeferredList(crate, owner)
                      /\ deferred \in Seq(Nat) /\ Has(deferred, i)
  BY <1>4, <1>5, CrateFacts, BodyFacts, DeferredAreItems DEF DeferredList
<1>7. PICK n : n \in DOMAIN deferred /\ deferred[n] = i
  BY <1>6 DEF Has
<1>8. ASSUME NEW m \in DOMAIN deferred, deferred[m] = i PROVE m = n
  <2>1. m \in Nat /\ n \in Nat /\ i \in Nat
    BY <1>6, <1>7, Parents
  <2>2. \A x, y \in DOMAIN deferred : x < y /\ deferred[x] = i /\ deferred[y] = i => i < i
    BY <1>5, <1>6 DEF DeferredOnce
  <2> QED BY <1>7, <1>8, <2>1, <2>2
<1>9. {m \in DOMAIN deferred : deferred[m] = i} = {n}
  BY <1>7, <1>8
<1>10. Entries(crate, i) = 1
  <2>1. PICK E : E = {m \in DOMAIN deferred : deferred[m] = i}
    OBVIOUS
  <2>2. BodyOwner(crate, i) = owner
    OBVIOUS
  <2>3. Entries(crate, i) = Cardinality(E)
    BY <1>6, <2>1, <2>2 DEF Entries
  <2>4. Cardinality(E) = 1
    BY <1>9, <2>1, FS_Singleton
  <2> QED BY <2>3, <2>4
<1> QED BY <1>5, <1>10

LEMMA CoverEnds == WholeCover => (FoundInOneWay(crate) => EmittedOnce)
<1> SUFFICES ASSUME FoundInOneWay(crate), Shape, Walk, Covered, Emitted,
                    NEW i \in Items(crate), crate[i].k \in {"fn", "const", "static"},
                    NEW found, found = WithType(crate, i)
             PROVE  Emissions(i) =
                      IF ~Translated(crate, i) THEN 0
                      ELSE IF BodyOwner(crate, found) = 0 THEN 1
                      ELSE Entries(crate, found) * Emissions(BodyOwner(crate, found))
  BY DEF WholeCover, EmittedOnce
<1>1. crate \in Crates
  BY DEF Shape
<1>2. Emissions(i) = IF Translated(crate, i) THEN 1 ELSE 0
  BY Emits
<1>3. ASSUME Translated(crate, i), NEW owner, owner = BodyOwner(crate, found), owner # 0
      PROVE  Entries(crate, found) = 1 /\ Emissions(owner) = 1
  <2>1. /\ found \in Items(crate) /\ Translated(crate, found)
        /\ crate[found].k \in {"fn", "const", "static", "struct", "enum", "union"}
    <3>1. PICK p : p = crate[i].in /\ (p # 0 => p \in Items(crate))
      BY <1>1, Parents
    <3>2. CASE p # 0 /\ crate[p].k = "impl"
      <4>1. found = crate[p].to
        BY <3>1, <3>2 DEF WithType
      <4>2. Translated(crate, p)
        BY <1>1, <1>3, <3>1, TranslatedUnfold DEF Home
      <4>3. Placed(crate, p) /\ Translated(crate, found)
        BY <1>1, <3>1, <3>2, <4>1, <4>2, TranslatedUnfold DEF Home
      <4>4. found # 0
        BY <3>2, <4>1, <4>3 DEF Placed
      <4>5. found \in Items(crate) /\ IsAdt(crate, found)
        BY <1>1, <3>1, <3>2, <4>1, <4>4, CrateFacts
      <4> QED BY <4>3, <4>5 DEF IsAdt
    <3>3. CASE ~(p # 0 /\ crate[p].k = "impl")
      <4>1. found = i
        BY <3>1, <3>3 DEF WithType
      <4> QED BY <1>3, <4>1
    <3> QED BY <3>2, <3>3
  <2>2. /\ owner \in Items(crate) /\ crate[owner].k \in {"fn", "const", "static"}
        /\ Translated(crate, owner) /\ Entries(crate, found) = 1
    BY <1>1, <1>3, <2>1, DeferredByOwner DEF FoundInOneWay
  <2> QED BY <2>2, Emits
<1>4. CASE ~Translated(crate, i)
  BY <1>2, <1>4
<1>5. CASE Translated(crate, i)
  <2>1. PICK owner : owner = BodyOwner(crate, found)
    OBVIOUS
  <2>2. CASE owner = 0
    BY <1>2, <1>5, <2>1, <2>2
  <2>3. CASE owner # 0
    <3>1. Entries(crate, found) = 1 /\ Emissions(owner) = 1
      BY <1>3, <1>5, <2>1, <2>3
    <3>2. Entries(crate, found) * Emissions(owner) = 1
      BY <3>1
    <3> QED BY <1>2, <1>5, <2>1, <2>3, <3>2
  <2> QED BY <2>2, <2>3
<1> QED BY <1>4, <1>5

\* The initialisation of the classes changes nothing of what the walk wrote.
LEMMA ProgramWalks == ProgramSpec => CrateSpec
<1>1. ProgramInit => CrateInit
  BY DEF ProgramInit
<1>2. [ProgramNext]_<<cvars, pvars>> => [CrateNext]_cvars
  BY DEF ProgramNext
<1> QED BY <1>1, <1>2, PTL DEF ProgramSpec, CrateSpec

\* Whatever the crate, when no two types in modules have the same C# class and no
\* body defers an item twice: once the walk is over, each function, constant and
\* static that is to be translated has exactly one C# declaration of its own, and
\* the others have none, those of expressions the emitter drops among them,
\* wherever impls, traits and blocks stand (emit_crate, emit_module,
\* emit_impl_items, deferred).
THEOREM EmittedAsTranslated == ProgramSpec => [](FoundInOneWay(crate) => EmittedOnce)
BY CoverEnds, ProgramWalks, WholeCoverInvariant, PTL

--------------------------------------------------------------------------------
(* The fields of a class, and what an initialiser reads. *)

ValuesAt(class) == {i \in Items(crate) : HasValue(i) /\ ClassOf(i) = class}
ReadBy(i) == {d \in crate[i].uses : HasValue(d)}

\* The items of one module, block or impl come in order.
Sorted(s) == \A n, m \in DOMAIN s : n < m /\ SideBySide(s[n], s[m]) => s[n] < s[m]

LEMMA OneClass ==
  ASSUME WrittenOnce, NEW i, NEW n \in DeclsOf(i), IsValue(crate, i), i # 0
  PROVE  HasValue(i) /\ ClassOf(i) = decls[n].at /\ n \in DOMAIN decls /\ Own(decls[n])
<1>1. \A m \in DeclsOf(i) : m \in DOMAIN decls /\ decls[m].item = i /\ Own(decls[m])
  BY DEF DeclsOf, Own, OfTraitFn, IsValue
<1>2. \A m \in DeclsOf(i) : m = n
  BY <1>1 DEF WrittenOnce, IsValue
<1>3. (CHOOSE m \in DeclsOf(i) : TRUE) = n
  BY <1>2
<1> QED BY <1>1, <1>3 DEF HasValue, ClassOf

LEMMA FieldsAre ==
  ASSUME Shape, Walk, WrittenInOrder, NEW class
  PROVE  /\ FieldsOf(class) \in Seq(ValuesAt(class)) /\ Sorted(FieldsOf(class))
         /\ \A i \in ValuesAt(class) : Has(FieldsOf(class), i)
<1>1. Len(decls) \in Nat /\ DOMAIN decls = 1 .. Len(decls)
  BY DEF Shape
<1>2. Items(crate) = 1 .. Len(crate) /\ Len(crate) \in Nat
  BY CrateFacts DEF Shape
<1>3. PICK S : S = {n \in DOMAIN decls : /\ decls[n].at = class /\ decls[n].what # "slot"
                                         /\ IsValue(crate, decls[n].item)}
  OBVIOUS
<1>4. PICK at : at = Select(decls, S)
  OBVIOUS
<1>5. PICK f : f = [n \in DOMAIN at |-> decls[at[n]].item]
  OBVIOUS
<1>6. FieldsOf(class) = f
  BY <1>3, <1>4, <1>5 DEF FieldsOf
<1>7. /\ at \in Seq(S) /\ OneToOne(at) /\ Increasing(at) /\ \A n \in S : Has(at, n)
  <2>1. S \cap (1 .. Len(decls)) = S
    BY <1>1, <1>3
  <2> QED BY <1>1, <1>4, <2>1, SelectOnce, SelectInOrder
<1>8. Len(at) \in Nat /\ DOMAIN at = 1 .. Len(at) /\ \A k \in DOMAIN at : at[k] \in S
  BY <1>7
<1>9. ASSUME NEW n \in S
      PROVE  /\ n \in DOMAIN decls /\ decls[n].item \in ValuesAt(class) /\ Own(decls[n])
             /\ n \in DeclsOf(decls[n].item)
  <2>1. n \in DeclsOf(decls[n].item) /\ IsValue(crate, decls[n].item)
    BY <1>3 DEF DeclsOf
  <2>2. decls[n].item \in Items(crate) /\ decls[n].item # 0
    BY <1>2, <2>1 DEF IsValue
  <2> QED BY <1>3, <2>1, <2>2, OneClass DEF ValuesAt, Walk
<1>10. f \in Seq(ValuesAt(class))
  <2>1. f \in [1 .. Len(at) -> ValuesAt(class)]
    BY <1>5, <1>8, <1>9
  <2> QED BY <1>8, <2>1
<1>11. Sorted(f)
  <2> SUFFICES ASSUME NEW n \in DOMAIN f, NEW m \in DOMAIN f, n < m, SideBySide(f[n], f[m])
               PROVE  f[n] < f[m]
    BY DEF Sorted
  <2>1. /\ n \in DOMAIN at /\ m \in DOMAIN at
        /\ f[n] = decls[at[n]].item /\ f[m] = decls[at[m]].item
    BY <1>5
  <2>2. at[n] < at[m] /\ at[n] \in S /\ at[m] \in S
    BY <1>7, <1>8, <2>1 DEF Increasing
  <2> QED BY <1>9, <2>1, <2>2 DEF WrittenInOrder
<1>12. ASSUME NEW i \in ValuesAt(class) PROVE Has(f, i)
  <2>1. PICK n : n \in DeclsOf(i)
    BY DEF ValuesAt, HasValue
  <2>2. i # 0 /\ IsValue(crate, i)
    BY <1>2 DEF ValuesAt, HasValue
  <2>3. decls[n].at = class
    BY <2>1, <2>2, OneClass DEF ValuesAt, Walk
  <2>4. n \in S /\ decls[n].item = i
    BY <1>3, <2>1, <2>2, <2>3 DEF DeclsOf
  <2>5. PICK k \in DOMAIN at : at[k] = n
    BY <1>7, <2>4 DEF Has
  <2>6. k \in DOMAIN f /\ f[k] = i
    BY <1>5, <2>4, <2>5
  <2> QED BY <2>6 DEF Has
<1> QED BY <1>6, <1>10, <1>11, <1>12

LEMMA ReadsAre == ASSUME crate \in Crates, NEW i PROVE Reads(i) \in Seq(ReadBy(i))
<1>1. PICK S : S = ReadBy(i)
  OBVIOUS
<1>2. IsFiniteSet(S)
  <2>1. S \in SUBSET (1 .. Len(crate)) /\ Len(crate) \in Nat
    BY <1>1, CrateFacts DEF ReadBy, HasValue, IsValue
  <2>2. IsFiniteSet(1 .. Len(crate))
    BY <2>1, FS_Interval
  <2> QED BY <2>1, <2>2, FS_Subset
<1>3. PICK N \in Nat : N = Cardinality(S)
  BY <1>2, FS_CardinalityType
<1>4. ExistsBijection(1 .. N, S)
  BY <1>2, <1>3, FS_CardinalityType
<1>5. \E f \in [1 .. N -> S] : IsInjective(f)
  BY <1>4 DEF ExistsBijection, Bijection, Injection, Surjection
<1>6. PICK f : f = SetToSeq(S)
  OBVIOUS
<1>7. f \in [1 .. N -> S]
  BY <1>3, <1>5, <1>6 DEF SetToSeq
<1>8. f \in Seq(S)
  BY <1>7
<1> QED BY <1>1, <1>6, <1>8 DEF Reads, ReadBy

LEMMA SameValues ==
  ASSUME UNCHANGED crate, UNCHANGED decls
  PROVE  /\ \A i : (HasValue(i)' <=> HasValue(i)) /\ ClassOf(i)' = ClassOf(i)
         /\ \A class : ValuesAt(class)' = ValuesAt(class)
         /\ \A i : ReadBy(i)' = ReadBy(i)
         /\ \A s : Sorted(s)' <=> Sorted(s)
<1>1. \A i : DeclsOf(i)' = DeclsOf(i)
  BY DEF DeclsOf
<1>2. \A i : HasValue(i)' <=> HasValue(i)
  BY <1>1 DEF HasValue, IsValue
<1>3. \A i : ClassOf(i)' = ClassOf(i)
  BY <1>1 DEF ClassOf
<1>4. \A class : ValuesAt(class)' = ValuesAt(class)
  BY <1>2, <1>3 DEF ValuesAt
<1>5. \A i : ReadBy(i)' = ReadBy(i)
  BY <1>2 DEF ReadBy
<1>6. \A s : Sorted(s)' <=> Sorted(s)
  BY DEF Sorted, SideBySide, IsValue
<1> QED BY <1>2, <1>3, <1>4, <1>5, <1>6

--------------------------------------------------------------------------------
(* The initialisation of the classes. *)

\* A set of classes with all that the initialisers of its classes read.
Closed(S) ==
  \A i, d \in Items(crate) :
    HasValue(i) /\ HasValue(d) /\ d \in crate[i].uses /\ ClassOf(i) \in S => ClassOf(d) \in S
Reaches(class, other) == \A S : Closed(S) /\ class \in S => other \in S

\* An initialisation has yet to give a value to each field of its class that has
\* none, and to make some reads for the first of them.
Fits(it, begun, done) ==
  /\ it.class \in begun
  /\ it.fields \in Seq(ValuesAt(it.class)) /\ it.fields # <<>> /\ Sorted(it.fields)
  /\ \A i \in ValuesAt(it.class) : i \in done \/ Has(it.fields, i)
  /\ it.left \in Seq(ReadBy(it.fields[1]))

\* A class whose initialisation began is at it or has all its values.
Begun ==
  \A class \in started :
    (\E k \in DOMAIN running : running[k].class = class) \/ ValuesAt(class) \subseteq ready

Apart == \A k1, k2 \in DOMAIN running : running[k1].class = running[k2].class => k1 = k2

\* Each initialisation waits for the next, which one of its reads began.
Chained ==
  \A k \in DOMAIN running : k # Len(running) =>
    running[k].left # <<>> /\ running[k + 1].class = ClassOf(running[k].left[1])

ReadSound(r) ==
  /\ r.by \in Items(crate) /\ HasValue(r.by) /\ r.of \in Items(crate) /\ HasValue(r.of)
  /\ OneHome /\ ~r.ready =>
       IF ClassOf(r.by) = ClassOf(r.of) THEN Later(r.by, r.of)
       ELSE Reaches(ClassOf(r.of), ClassOf(r.by))

Inits(X) == [class : X, fields : Seq(Nat), left : Seq(Nat)]

Initialising ==
  /\ started # {} => Emitted
  /\ started = {} => running = <<>> /\ reads = {}
  /\ \E X : running \in Seq(Inits(X))
  /\ \A k \in DOMAIN running : Fits(running[k], started, ready)
  /\ Begun /\ Apart /\ Chained
  /\ \A r \in reads : ReadSound(r)

\* What is written does not change any more.
Settle == Shape /\ Walk /\ WrittenInOrder /\ Emitted /\ UNCHANGED cvars

LEMMA SameJudgement ==
  ASSUME UNCHANGED crate, UNCHANGED decls
  PROVE  /\ \A it, begun, done : Fits(it, begun, done)' <=> Fits(it, begun, done)
         /\ \A r : ReadSound(r)' <=> ReadSound(r)
<1>1. /\ \A i : (HasValue(i)' <=> HasValue(i)) /\ ClassOf(i)' = ClassOf(i)
      /\ \A class : ValuesAt(class)' = ValuesAt(class)
      /\ \A i : ReadBy(i)' = ReadBy(i)
      /\ \A s : Sorted(s)' <=> Sorted(s)
  BY SameValues
<1>2. \A it, begun, done : Fits(it, begun, done)' <=> Fits(it, begun, done)
  BY <1>1 DEF Fits
<1>3. OneHome' <=> OneHome
  BY <1>1 DEF OneHome
<1>4. \A S : Closed(S)' <=> Closed(S)
  BY <1>1 DEF Closed
<1>5. \A a, b : Reaches(a, b)' <=> Reaches(a, b)
  BY <1>4 DEF Reaches
<1>6. \A i, d : Later(i, d)' <=> Later(i, d)
  BY DEF Later
<1>7. \A r : ReadSound(r)' <=> ReadSound(r)
  BY <1>1, <1>3, <1>5, <1>6 DEF ReadSound
<1> QED BY <1>2, <1>7

LEMMA FitsStays ==
  ASSUME NEW it, NEW begun, NEW done, Fits(it, begun, done), NEW begun2, NEW done2,
         begun \subseteq begun2, done \subseteq done2
  PROVE  Fits(it, begun2, done2)
BY DEF Fits

LEMMA RunningFacts ==
  ASSUME NEW X, running \in Seq(Inits(X))
  PROVE  /\ Len(running) \in Nat /\ DOMAIN running = 1 .. Len(running)
         /\ running # <<>> <=> Len(running) # 0
         /\ \A k \in DOMAIN running : running[k] \in Inits(X)
<1> HIDE DEF Inits
<1> QED OBVIOUS

LEMMA FirstFits ==
  ASSUME NEW it, NEW begun, NEW done, Fits(it, begun, done)
  PROVE  /\ 1 \in DOMAIN it.fields /\ it.fields[1] \in ValuesAt(it.class)
         /\ it.left # <<>> => it.left[1] \in ReadBy(it.fields[1])
<1>1. PICK s, V : s = it.fields /\ V = ValuesAt(it.class) /\ s \in Seq(V) /\ s # <<>>
  BY DEF Fits
<1>2. 1 \in DOMAIN s /\ s[1] \in V
  BY <1>1
<1>3. PICK t, R : t = it.left /\ R = ReadBy(it.fields[1]) /\ t \in Seq(R)
  BY DEF Fits
<1>4. t # <<>> => t[1] \in R
  BY <1>3
<1> QED BY <1>1, <1>2, <1>3, <1>4

\* An initialisation that waits reaches the class of the one it waits for.
LEMMA WaitsReach ==
  ASSUME NEW X, running \in Seq(Inits(X)), \A k \in DOMAIN running : Fits(running[k], started, ready),
         Chained, NEW k \in DOMAIN running
  PROVE  Reaches(running[k].class, running[Len(running)].class)
<1>1. PICK L \in Nat : L = Len(running) /\ DOMAIN running = 1 .. L
  BY RunningFacts
<1> SUFFICES ASSUME NEW S, Closed(S), running[k].class \in S PROVE running[L].class \in S
  BY <1>1 DEF Reaches
<1> DEFINE T == {n \in Nat : k + n <= L => running[k + n].class \in S}
<1>2. k \in Nat /\ 1 <= k /\ k <= L /\ L - k \in Nat
  BY <1>1
<1>3. 0 \in T
  BY <1>2
<1>4. ASSUME NEW n \in 0 .. (L - k) - 1, n \in T PROVE n + 1 \in T
  <2>1. PICK j : j = k + n
    OBVIOUS
  <2>2. j \in DOMAIN running /\ j + 1 = k + (n + 1) /\ j # L /\ running[j].class \in S
    BY <1>1, <1>2, <1>4, <2>1
  <2>3. /\ running[j].left # <<>> /\ running[j + 1].class = ClassOf(running[j].left[1])
        /\ Fits(running[j], started, ready)
    BY <1>1, <2>2 DEF Chained
  <2>4. PICK it, i, d : it = running[j] /\ i = it.fields[1] /\ d = it.left[1]
    OBVIOUS
  <2>5. Fits(it, started, ready) /\ it.left # <<>>
    BY <2>3, <2>4
  <2>6. i \in ValuesAt(it.class) /\ d \in ReadBy(i)
    BY <2>4, <2>5, FirstFits
  <2>7. ClassOf(d) \in S
    BY <2>2, <2>4, <2>6 DEF Closed, ValuesAt, ReadBy, HasValue, IsValue
  <2> QED BY <1>4, <2>2, <2>3, <2>4, <2>7
<1>5. \A n \in 0 .. L - k : n \in T
  <2> HIDE DEF T
  <2> QED BY <1>2, <1>3, <1>4, UpTo
<1>6. L - k \in T /\ k + (L - k) = L
  BY <1>2, <1>5
<1> QED BY <1>6

\* What the innermost initialisation reads, when its class has begun.
LEMMA ReadIsSound ==
  ASSUME crate \in Crates, NEW X, running \in Seq(Inits(X)), running # <<>>,
         \A k \in DOMAIN running : Fits(running[k], started, ready), Begun, Chained,
         NEW i, i = Running.fields[1], Running.left # <<>>, NEW d, d = Running.left[1],
         ClassOf(d) \in started
  PROVE  ReadSound([by |-> i, of |-> d, ready |-> d \in ready])
<1>1. PICK L \in Nat : L = Len(running) /\ L # 0 /\ DOMAIN running = 1 .. L /\ L \in 1 .. L
  BY RunningFacts
<1>2. PICK it : it = running[L] /\ it = Running /\ Fits(it, started, ready)
  BY <1>1 DEF Running
<1>3. i \in ValuesAt(it.class) /\ i = it.fields[1] /\ 1 \in DOMAIN it.fields
  BY <1>2, FirstFits
<1>4. d \in ReadBy(i)
  BY <1>2, <1>3, FirstFits
<1>5. /\ i \in Items(crate) /\ HasValue(i) /\ ClassOf(i) = it.class
      /\ d \in Items(crate) /\ HasValue(d) /\ d \in Nat
  BY <1>3, <1>4, CrateFacts DEF ValuesAt, ReadBy, HasValue, IsValue
<1>6. ASSUME OneHome, d \notin ready, ClassOf(i) = ClassOf(d) PROVE Later(i, d)
  <2>1. d \in ValuesAt(it.class)
    BY <1>5, <1>6 DEF ValuesAt
  <2>2. PICK q \in DOMAIN it.fields : it.fields[q] = d
    BY <1>2, <1>6, <2>1 DEF Fits, Has
  <2>3. CASE q = 1
    <3>1. d >= i
      BY <1>3, <1>5, <2>2, <2>3
    <3> QED BY <3>1 DEF Later
  <2>4. CASE q # 1
    <3>1. 1 < q
      BY <1>2, <2>2, <2>4 DEF Fits
    <3>2. ASSUME ImplOf(crate, i) = ImplOf(crate, d) PROVE d >= i
      <4>1. SideBySide(i, d)
        BY <1>5, <1>6, <3>2 DEF OneHome, SideBySide, HasValue
      <4>2. i < d
        BY <1>2, <1>3, <2>2, <3>1, <4>1 DEF Fits, Sorted
      <4>3. i \in Nat
        BY <1>5, CrateFacts
      <4> QED BY <1>5, <4>2, <4>3
    <3> QED BY <3>2 DEF Later
  <2> QED BY <2>3, <2>4
<1>7. ASSUME d \notin ready, ClassOf(i) # ClassOf(d) PROVE Reaches(ClassOf(d), ClassOf(i))
  <2>1. d \in ValuesAt(ClassOf(d))
    BY <1>5 DEF ValuesAt
  <2>2. PICK k \in DOMAIN running : running[k].class = ClassOf(d)
    BY <1>7, <2>1 DEF Begun
  <2>3. Reaches(running[k].class, running[Len(running)].class)
    BY WaitsReach
  <2> QED BY <1>1, <1>2, <1>5, <2>2, <2>3
<1> QED BY <1>5, <1>6, <1>7 DEF ReadSound

LEMMA SeqWider == ASSUME NEW A, NEW B, A \subseteq B, NEW s \in Seq(A) PROVE s \in Seq(B)
OBVIOUS

\* The initialisation that begins is fit.
LEMMA InitialiserFits ==
  ASSUME Shape, Walk, WrittenInOrder, NEW class, FieldsOf(class) # <<>>, NEW begun, class \in begun
  PROVE  /\ Fits(Initialiser(class), begun, ready) /\ Initialiser(class).class = class
         /\ Initialiser(class) \in Inits({class})
<1>1. PICK s : s = FieldsOf(class) /\ s \in Seq(ValuesAt(class)) /\ s # <<>> /\ Sorted(s)
               /\ \A i \in ValuesAt(class) : Has(s, i)
  BY FieldsAre
<1>2. PICK r : r = Reads(s[1]) /\ r \in Seq(ReadBy(s[1]))
  BY ReadsAre DEF Shape
<1>3. PICK it : it = [class |-> class, fields |-> s, left |-> r]
  OBVIOUS
<1>4. it = Initialiser(class) /\ it.class = class /\ it.fields = s /\ it.left = r
  BY <1>1, <1>2, <1>3 DEF Initialiser
<1>5. Fits(it, begun, ready)
  BY <1>1, <1>2, <1>4 DEF Fits
<1>6. ValuesAt(class) \subseteq Nat /\ ReadBy(s[1]) \subseteq Nat
  BY CrateFacts DEF Shape, ValuesAt, ReadBy, HasValue, IsValue
<1>7. s \in Seq(Nat) /\ r \in Seq(Nat)
  BY <1>1, <1>2, <1>6, SeqWider
<1>8. it \in Inits({class})
  BY <1>3, <1>7 DEF Inits
<1> QED BY <1>4, <1>5, <1>8

LEMMA BeginStep ==
  ASSUME Settle, Initialising, NEW class, class \notin started, FieldsOf(class) # <<>>, Start(class),
         UNCHANGED ready, UNCHANGED reads,
         running # <<>> => Running.left # <<>> /\ class = ClassOf(Running.left[1])
  PROVE  Initialising'
<1>1. PICK X0 : running \in Seq(Inits(X0))
  BY DEF Initialising
<1>2. PICK it, begun : it = Initialiser(class) /\ begun = started \cup {class}
  OBVIOUS
<1>3. started' = begun /\ running' = Append(running, it) /\ UNCHANGED crate /\ UNCHANGED decls
  BY <1>2 DEF Start, Settle, cvars
<1>4. Fits(it, begun, ready) /\ it.class = class /\ it \in Inits({class})
  BY <1>2, InitialiserFits DEF Settle
<1>5. PICK X : X = X0 \cup {class}
  OBVIOUS
<1>6. Inits(X0) \subseteq Inits(X) /\ Inits({class}) \subseteq Inits(X)
  BY <1>5 DEF Inits
<1>7. PICK I : I = Inits(X)
  OBVIOUS
<1>8. running \in Seq(I) /\ it \in I
  BY <1>1, <1>4, <1>6, <1>7, SeqWider
<1>9. PICK s : s = Append(running, it)
  OBVIOUS
<1>10. PICK L \in Nat : L = Len(running) /\ DOMAIN running = 1 .. L /\ (running # <<>> <=> L # 0)
  BY <1>1, RunningFacts
<1>11. /\ s \in Seq(I) /\ DOMAIN s = 1 .. L + 1 /\ Len(s) = L + 1
       /\ \A k \in 1 .. L : s[k] = running[k]
       /\ s[L + 1] = it
  BY <1>8, <1>9, <1>10
<1>12. \A k \in 1 .. L : Fits(s[k], begun, ready) /\ s[k].class \in started
  <2> TAKE k \in 1 .. L
  <2>1. Fits(running[k], started, ready)
    BY <1>10 DEF Initialising
  <2>2. started \subseteq begun
    BY <1>2
  <2>3. Fits(running[k], begun, ready) /\ running[k].class \in started
    BY <2>1, <2>2, FitsStays DEF Fits
  <2> QED BY <1>11, <2>3
<1>13. \A k \in 1 .. L + 1 : Fits(s[k], begun, ready)
  BY <1>4, <1>11, <1>12
<1>14. \A k1, k2 \in 1 .. L + 1 : s[k1].class = s[k2].class => k1 = k2
  <2>1. \A k1, k2 \in 1 .. L : s[k1].class = s[k2].class => k1 = k2
    BY <1>10, <1>11 DEF Initialising, Apart
  <2>2. \A k \in 1 .. L : s[k].class # s[L + 1].class
    BY <1>4, <1>11, <1>12
  <2> QED BY <2>1, <2>2
<1>15. \A k \in 1 .. L + 1 : k # L + 1 =>
         s[k].left # <<>> /\ s[k + 1].class = ClassOf(s[k].left[1])
  <2> TAKE k \in 1 .. L + 1
  <2> HAVE k # L + 1
  <2>1. CASE k = L
    <3>1. running # <<>> /\ s[k] = Running
      BY <1>10, <1>11, <2>1 DEF Running
    <3> QED BY <1>4, <1>11, <2>1, <3>1
  <2>2. CASE k # L
    <3>1. k \in 1 .. L /\ k + 1 \in 1 .. L
      BY <2>2
    <3> QED BY <1>10, <1>11, <2>2, <3>1 DEF Initialising, Chained
  <2> QED BY <2>1, <2>2
<1>16. \A c \in begun : (\E k \in 1 .. L + 1 : s[k].class = c) \/ ValuesAt(c) \subseteq ready
  <2> TAKE c \in begun
  <2>1. CASE c = class
    BY <1>4, <1>11, <2>1
  <2>2. CASE c \in started
    BY <1>10, <1>11, <2>2 DEF Initialising, Begun
  <2> QED BY <1>2, <2>1, <2>2
<1>17. /\ \A c : ValuesAt(c)' = ValuesAt(c) /\ \A i : ClassOf(i)' = ClassOf(i)
       /\ \A x, b, d : Fits(x, b, d)' <=> Fits(x, b, d)
       /\ \A r : ReadSound(r)' <=> ReadSound(r)
  BY <1>3, SameValues, SameJudgement
<1>18. started' # {} /\ Emitted'
  BY <1>2, <1>3 DEF Settle, Emitted, Top, cvars
<1>19. running' = s
  BY <1>3, <1>9
<1>20. \E Y : running' \in Seq(Inits(Y))
  BY <1>7, <1>11, <1>19
<1>21. \A k \in DOMAIN running' : Fits(running[k], started, ready)'
  BY <1>3, <1>11, <1>13, <1>17, <1>19
<1>22. Begun'
  BY <1>3, <1>11, <1>16, <1>17, <1>19 DEF Begun
<1>23. Apart' /\ Chained'
  BY <1>11, <1>14, <1>15, <1>17, <1>19 DEF Apart, Chained
<1>24. \A r \in reads' : ReadSound(r)'
  BY <1>17 DEF Initialising
<1> QED BY <1>18, <1>20, <1>21, <1>22, <1>23, <1>24 DEF Initialising

\* The innermost initialisation goes on as it.
LEMMA GoOnStep ==
  ASSUME Settle, Initialising, NEW X, running \in Seq(Inits(X)), running # <<>>,
         NEW it \in Inits(X), it.class = Running.class,
         running' = [running EXCEPT ![Len(running)] = it],
         UNCHANGED started, ready \subseteq ready', Fits(it, started, ready'),
         \A r \in reads' : ReadSound(r)
  PROVE  Initialising'
<1>1. UNCHANGED crate /\ UNCHANGED decls
  BY DEF Settle, cvars
<1>2. PICK L \in Nat : L = Len(running) /\ DOMAIN running = 1 .. L /\ L # 0
  BY RunningFacts
<1>3. PICK I : I = Inits(X)
  OBVIOUS
<1>4. PICK s : s = [running EXCEPT ![L] = it]
  OBVIOUS
<1>5. /\ s \in Seq(I) /\ DOMAIN s = 1 .. L /\ Len(s) = L /\ s[L] = it
      /\ \A k \in 1 .. L : k # L => s[k] = running[k]
  BY <1>2, <1>3, <1>4
<1>6. running' = s
  BY <1>2, <1>4
<1>7. it.class = running[L].class
  BY <1>2 DEF Running
<1>8. \A k \in 1 .. L : s[k].class = running[k].class
  BY <1>5, <1>7
<1>9. PICK done : done = ready'
  OBVIOUS
<1>10. ASSUME NEW k \in 1 .. L PROVE Fits(s[k], started, done)
  <2>1. CASE k = L
    BY <1>5, <1>9, <2>1
  <2>2. CASE k # L
    <3>1. Fits(running[k], started, ready)
      BY <1>2 DEF Initialising
    <3> QED BY <1>5, <1>9, <2>2, <3>1, FitsStays
  <2> QED BY <2>1, <2>2
<1>11. \A k \in 1 .. L : k # L => s[k].left # <<>> /\ s[k + 1].class = ClassOf(s[k].left[1])
  <2> TAKE k \in 1 .. L
  <2> HAVE k # L
  <2>1. s[k] = running[k] /\ k + 1 \in 1 .. L
    BY <1>5
  <2>2. running[k].left # <<>> /\ running[k + 1].class = ClassOf(running[k].left[1])
    BY <1>2 DEF Initialising, Chained
  <2> QED BY <1>8, <2>1, <2>2
<1>12. /\ \A c : ValuesAt(c)' = ValuesAt(c) /\ \A i : ClassOf(i)' = ClassOf(i)
       /\ \A x, b, d : Fits(x, b, d)' <=> Fits(x, b, d)
       /\ \A r : ReadSound(r)' <=> ReadSound(r)
  BY <1>1, SameValues, SameJudgement
<1>13. started' # {} /\ Emitted'
  <2>1. Fits(running[L], started, ready)
    BY <1>2 DEF Initialising
  <2> QED BY <2>1 DEF Fits, Settle, Emitted, Top, cvars
<1>14. \E Y : running' \in Seq(Inits(Y))
  BY <1>3, <1>5, <1>6
<1>15. \A k \in DOMAIN running' : Fits(running[k], started, ready)'
  BY <1>5, <1>6, <1>9, <1>10, <1>12
<1>16. Begun'
  BY <1>2, <1>5, <1>6, <1>8, <1>12 DEF Begun, Initialising
<1>17. Apart'
  BY <1>2, <1>5, <1>6, <1>8 DEF Apart, Initialising
<1>18. Chained'
  BY <1>5, <1>6, <1>11, <1>12 DEF Chained
<1>19. \A r \in reads' : ReadSound(r)'
  BY <1>12
<1> QED BY <1>13, <1>14, <1>15, <1>16, <1>17, <1>18, <1>19 DEF Initialising

LEMMA EmptyIff == ASSUME NEW A, NEW s \in Seq(A) PROVE s = <<>> <=> Len(s) = 0
OBVIOUS

LEMMA TailFacts ==
  ASSUME NEW A, NEW s \in Seq(A), s # <<>>, NEW t, t = Tail(s)
  PROVE  /\ t \in Seq(A) /\ Len(s) \in Nat /\ Len(s) >= 1 /\ DOMAIN s = 1 .. Len(s)
         /\ DOMAIN t = 1 .. Len(s) - 1 /\ (t = <<>> <=> Len(s) = 1)
         /\ \A k \in DOMAIN t : k + 1 \in DOMAIN s /\ t[k] = s[k + 1]
         /\ \A k \in DOMAIN s : k # 1 => k - 1 \in DOMAIN t /\ t[k - 1] = s[k]
<1>1. /\ t \in Seq(A) /\ Len(s) \in Nat /\ Len(s) >= 1 /\ DOMAIN s = 1 .. Len(s)
      /\ DOMAIN t = 1 .. Len(s) - 1 /\ Len(t) = Len(s) - 1
      /\ \A k \in 1 .. Len(s) - 1 : t[k] = s[k + 1]
  OBVIOUS
<1>2. t = <<>> <=> Len(s) = 1
  <2>1. t = <<>> <=> Len(t) = 0
    BY <1>1, EmptyIff
  <2> QED BY <1>1, <2>1
<1>3. \A k \in DOMAIN s : k # 1 => k - 1 \in DOMAIN t /\ t[k - 1] = s[(k - 1) + 1] /\ (k - 1) + 1 = k
  BY <1>1
<1> QED BY <1>1, <1>2, <1>3

LEMMA ReadStep ==
  ASSUME Settle, Initialising, Read PROVE Initialising'
<1>1. PICK X : running \in Seq(Inits(X))
  BY DEF Initialising
<1>2. running # <<>> /\ Running.left # <<>>
  BY DEF Read
<1>3. PICK L \in Nat : L = Len(running) /\ DOMAIN running = 1 .. L /\ L # 0 /\ L \in 1 .. L
  BY <1>1, <1>2, RunningFacts
<1>4. PICK old : old = running[L] /\ old = Running /\ old \in Inits(X) /\ Fits(old, started, ready)
  BY <1>1, <1>3, RunningFacts DEF Running, Initialising
<1>5. PICK i, d : i = old.fields[1] /\ d = old.left[1]
  OBVIOUS
<1>6. d = Head(Running.left) /\ i = Head(Running.fields)
  BY <1>2, <1>4, <1>5
<1>7. i \in ValuesAt(old.class) /\ d \in ReadBy(i)
  BY <1>2, <1>4, <1>5, FirstFits
<1>8. CASE /\ ClassOf(d) \notin started /\ Start(ClassOf(d)) /\ UNCHANGED <<ready, reads>>
  <2>1. PICK class : class = ClassOf(d)
    OBVIOUS
  <2>2. d \in ValuesAt(class)
    BY <1>7, <2>1 DEF ReadBy, ValuesAt, HasValue, IsValue
  <2>3. FieldsOf(class) # <<>>
    <3>1. PICK f : f = FieldsOf(class)
      OBVIOUS
    <3>2. Has(f, d)
      BY <2>2, <3>1, FieldsAre DEF Settle
    <3>3. PICK none : none = <<>> /\ DOMAIN none = {}
      OBVIOUS
    <3> QED BY <3>1, <3>2, <3>3 DEF Has
  <2>4. running # <<>> => Running.left # <<>> /\ class = ClassOf(Running.left[1])
    BY <1>2, <1>4, <1>5, <2>1
  <2> QED BY <1>8, <2>1, <2>3, <2>4, BeginStep
<1>9. CASE /\ ClassOf(d) \in started
           /\ reads' = reads \cup {[by |-> i, of |-> d, ready |-> d \in ready]}
           /\ running' = [running EXCEPT ![Len(running)].left = Tail(@)]
           /\ UNCHANGED <<started, ready>>
  <2>1. PICK t : t = Tail(old.left)
    OBVIOUS
  <2>2. PICK it : it = [old EXCEPT !.left = t]
    OBVIOUS
  <2>3. t \in Seq(ReadBy(i)) /\ t \in Seq(Nat)
    <3>1. old.left \in Seq(ReadBy(i)) /\ old.left \in Seq(Nat) /\ old.left # <<>>
      BY <1>2, <1>4, <1>5 DEF Fits, Inits
    <3>2. PICK s, R : s = old.left /\ R = ReadBy(i)
      OBVIOUS
    <3> QED BY <2>1, <3>1, <3>2, TailFacts
  <2>4. it \in Inits(X) /\ it.class = old.class /\ it.fields = old.fields /\ it.left = t
    BY <1>4, <2>2, <2>3 DEF Inits
  <2>5. Fits(it, started, ready)
    BY <1>4, <1>5, <2>3, <2>4 DEF Fits
  <2>6. running' = [running EXCEPT ![Len(running)] = it]
    BY <1>3, <1>4, <1>9, <2>1, <2>2
  <2>7. ReadSound([by |-> i, of |-> d, ready |-> d \in ready])
    <3>1. crate \in Crates
      BY DEF Settle, Shape
    <3>2. i = Running.fields[1] /\ d = Running.left[1]
      BY <1>4, <1>5
    <3> QED BY <1>1, <1>2, <1>9, <3>1, <3>2, ReadIsSound DEF Initialising
  <2>8. \A r \in reads' : ReadSound(r)
    BY <1>9, <2>7 DEF Initialising
  <2>9. UNCHANGED started /\ ready \subseteq ready' /\ Fits(it, started, ready')
    BY <1>9, <2>5
  <2>10. it.class = Running.class
    BY <1>4, <2>4
  <2> QED BY <1>1, <1>2, <2>4, <2>6, <2>8, <2>9, <2>10, GoOnStep
<1> QED BY <1>6, <1>8, <1>9 DEF Read

\* The first field has got its value; there are more.
LEMMA StoreNext ==
  ASSUME Settle, Initialising, NEW X, running \in Seq(Inits(X)), running # <<>>,
         NEW rest, rest = Tail(Running.fields), rest # <<>>,
         ready' = ready \cup {Head(Running.fields)},
         running' = [running EXCEPT ![Len(running)].fields = rest,
                                    ![Len(running)].left = Reads(rest[1])],
         UNCHANGED <<started, reads>>
  PROVE  Initialising'
<1>1. PICK L \in Nat : L = Len(running) /\ DOMAIN running = 1 .. L /\ L # 0 /\ L \in 1 .. L
  BY RunningFacts
<1>2. PICK old : old = running[L] /\ old = Running /\ old \in Inits(X) /\ Fits(old, started, ready)
  BY <1>1, RunningFacts DEF Running, Initialising
<1>3. PICK s, V : /\ s = old.fields /\ V = ValuesAt(old.class) /\ s \in Seq(V) /\ s \in Seq(Nat)
                  /\ s # <<>> /\ Sorted(s) /\ \A i \in V : i \in ready \/ Has(s, i)
  BY <1>2 DEF Fits, Inits
<1>4. /\ rest \in Seq(V) /\ rest \in Seq(Nat) /\ DOMAIN s = 1 .. Len(s) /\ Len(s) \in Nat
      /\ DOMAIN rest = 1 .. Len(s) - 1
      /\ \A k \in DOMAIN rest : k + 1 \in DOMAIN s /\ rest[k] = s[k + 1]
      /\ \A k \in DOMAIN s : k # 1 => k - 1 \in DOMAIN rest /\ rest[k - 1] = s[k]
  <2>1. rest = Tail(s)
    BY <1>2, <1>3
  <2>2. rest \in Seq(Nat)
    BY <1>3, <2>1, TailFacts
  <2>3. s \in Seq(V) /\ s # <<>>
    BY <1>3
  <2>4. rest \in Seq(V)
    BY <2>1, <2>3, TailFacts, Zenon
  <2>5. Len(s) \in Nat /\ DOMAIN s = 1 .. Len(s)
    BY <2>1, <2>3, TailFacts, Zenon
  <2>6. DOMAIN rest = 1 .. Len(s) - 1
    BY <2>1, <2>3, TailFacts, Zenon
  <2>7. \A k \in DOMAIN rest : k + 1 \in DOMAIN s /\ rest[k] = s[k + 1]
    BY <2>1, <2>3, <2>5, <2>6
  <2>8. \A k \in DOMAIN s : k # 1 => k - 1 \in DOMAIN rest /\ rest[k - 1] = s[k]
    BY <2>1, <2>3, TailFacts, Zenon
  <2> QED BY <2>2, <2>4, <2>5, <2>6, <2>7, <2>8
<1>5. PICK done : done = ready' /\ done = ready \cup {s[1]} /\ ready \subseteq done
  <2>1. Head(Running.fields) = s[1]
    BY <1>2, <1>3
  <2>2. ready' = ready \cup {s[1]}
    BY <2>1
  <2> QED BY <2>2
<1>6. Sorted(rest)
  <2> SUFFICES ASSUME NEW n \in DOMAIN rest, NEW m \in DOMAIN rest, n < m, SideBySide(rest[n], rest[m])
               PROVE  rest[n] < rest[m]
    BY DEF Sorted
  <2>1. n + 1 < m + 1
    BY <1>4
  <2> QED BY <1>3, <1>4, <2>1 DEF Sorted
<1>7. \A i \in V : i \in done \/ Has(rest, i)
  <2> TAKE i \in V
  <2>1. CASE Has(s, i)
    <3>1. PICK k \in DOMAIN s : s[k] = i
      BY <2>1 DEF Has
    <3>2. CASE k = 1
      BY <1>5, <3>1, <3>2
    <3>3. CASE k # 1
      BY <1>4, <3>1, <3>3 DEF Has
    <3> QED BY <3>2, <3>3
  <2> QED BY <1>3, <1>5, <2>1
<1>8. PICK r : r = Reads(rest[1]) /\ r \in Seq(ReadBy(rest[1])) /\ r \in Seq(Nat)
  <2>1. crate \in Crates
    BY DEF Settle, Shape
  <2>2. ReadBy(rest[1]) \subseteq Nat
    BY <2>1, CrateFacts DEF ReadBy, HasValue, IsValue
  <2> QED BY <2>1, <2>2, ReadsAre, SeqWider
<1>9. PICK it : it = [old EXCEPT !.fields = rest, !.left = r]
  OBVIOUS
<1>10. it \in Inits(X) /\ it.class = old.class /\ it.fields = rest /\ it.left = r
  BY <1>2, <1>4, <1>8, <1>9 DEF Inits
<1>11. Fits(it, started, done)
  BY <1>2, <1>3, <1>4, <1>6, <1>7, <1>8, <1>10 DEF Fits
<1>12. running' = [running EXCEPT ![Len(running)] = it]
  BY <1>1, <1>2, <1>8, <1>9
<1>13. \A x \in reads' : ReadSound(x)
  BY DEF Initialising
<1>14. it.class = Running.class
  BY <1>2, <1>10
<1> QED BY <1>5, <1>10, <1>11, <1>12, <1>13, <1>14, GoOnStep

\* The last field has got its value.
LEMMA StoreLast ==
  ASSUME Settle, Initialising, running # <<>>, Tail(Running.fields) = <<>>,
         ready' = ready \cup {Head(Running.fields)},
         running' = SubSeq(running, 1, Len(running) - 1),
         UNCHANGED <<started, reads>>
  PROVE  Initialising'
<1>1. PICK X : running \in Seq(Inits(X))
  BY DEF Initialising
<1>2. PICK L \in Nat : L = Len(running) /\ DOMAIN running = 1 .. L /\ L # 0 /\ L \in 1 .. L
  BY <1>1, RunningFacts
<1>3. PICK old : old = running[L] /\ old = Running /\ Fits(old, started, ready)
  BY <1>2 DEF Running, Initialising
<1>4. PICK f, V : /\ f = old.fields /\ V = ValuesAt(old.class) /\ f \in Seq(V)
                  /\ f # <<>> /\ \A i \in V : i \in ready \/ Has(f, i)
  BY <1>3 DEF Fits
<1>5. DOMAIN f = 1 .. Len(f) /\ Len(f) = 1
  BY <1>3, <1>4, TailFacts
<1>6. PICK done : done = ready' /\ done = ready \cup {f[1]}
  <2>1. Head(Running.fields) = f[1]
    BY <1>3, <1>4
  <2>2. ready' = ready \cup {f[1]}
    BY <2>1
  <2> QED BY <2>2
<1>7. V \subseteq done /\ ready \subseteq done
  BY <1>4, <1>5, <1>6 DEF Has
<1>8. PICK I : I = Inits(X)
  OBVIOUS
<1>9. PICK s : s = SubSeq(running, 1, L - 1)
  OBVIOUS
<1>10. s \in Seq(I) /\ DOMAIN s = 1 .. L - 1 /\ Len(s) = L - 1 /\ \A k \in 1 .. L - 1 : s[k] = running[k]
  BY <1>1, <1>2, <1>8, <1>9
<1>11. running' = s
  BY <1>2, <1>9
<1>12. UNCHANGED crate /\ UNCHANGED decls
  BY DEF Settle, cvars
<1>13. /\ \A c : ValuesAt(c)' = ValuesAt(c) /\ \A i : ClassOf(i)' = ClassOf(i)
       /\ \A x, b, d : Fits(x, b, d)' <=> Fits(x, b, d)
       /\ \A r : ReadSound(r)' <=> ReadSound(r)
  BY <1>12, SameValues, SameJudgement
<1>14. started' # {} /\ Emitted'
  BY <1>3 DEF Fits, Settle, Emitted, Top, cvars
<1>15. \A k \in 1 .. L - 1 : Fits(s[k], started, done)
  <2> TAKE k \in 1 .. L - 1
  <2>1. Fits(running[k], started, ready)
    BY <1>2 DEF Initialising
  <2> QED BY <1>7, <1>10, <2>1, FitsStays
<1>16. \A c \in started : (\E k \in 1 .. L - 1 : s[k].class = c) \/ ValuesAt(c) \subseteq done
  <2> TAKE c \in started
  <2>1. CASE c = old.class
    BY <1>4, <1>7, <2>1
  <2>2. CASE c # old.class
    <3>1. (\E k \in 1 .. L : running[k].class = c) \/ ValuesAt(c) \subseteq ready
      BY <1>2 DEF Initialising, Begun
    <3>2. ASSUME NEW k \in 1 .. L, running[k].class = c PROVE k \in 1 .. L - 1
      <4>1. k # L
        BY <1>3, <2>2, <3>2
      <4> QED BY <4>1, <3>2
    <3> QED BY <1>7, <1>10, <3>1, <3>2
  <2> QED BY <2>1, <2>2
<1>17. \A k1, k2 \in 1 .. L - 1 : s[k1].class = s[k2].class => k1 = k2
  <2> TAKE k1, k2 \in 1 .. L - 1
  <2>1. k1 \in DOMAIN running /\ k2 \in DOMAIN running
    BY <1>2
  <2> QED BY <1>10, <2>1 DEF Initialising, Apart
<1>18. \A k \in 1 .. L - 1 : k # L - 1 =>
         s[k].left # <<>> /\ s[k + 1].class = ClassOf(s[k].left[1])
  <2> TAKE k \in 1 .. L - 1
  <2> HAVE k # L - 1
  <2>1. k \in DOMAIN running /\ k # L /\ k + 1 \in 1 .. L - 1
    BY <1>2
  <2> QED BY <1>2, <1>10, <2>1 DEF Initialising, Chained
<1>19. \A k \in DOMAIN running' : Fits(running[k], started, ready)'
  BY <1>6, <1>10, <1>11, <1>13, <1>15
<1>20. Begun'
  BY <1>6, <1>10, <1>11, <1>13, <1>16 DEF Begun
<1>21. Apart' /\ Chained'
  <2>1. Apart'
    BY <1>10, <1>11, <1>17 DEF Apart
  <2>2. Chained'
    BY <1>10, <1>11, <1>13, <1>18 DEF Chained
  <2> QED BY <2>1, <2>2
<1>22. \A r \in reads' : ReadSound(r)'
  BY <1>13 DEF Initialising
<1>23. \E Y : running' \in Seq(Inits(Y))
  BY <1>8, <1>10, <1>11
<1> QED BY <1>14, <1>19, <1>20, <1>21, <1>22, <1>23 DEF Initialising

LEMMA StoreStep == ASSUME Settle, Initialising, Store PROVE Initialising'
<1>1. PICK X : running \in Seq(Inits(X))
  BY DEF Initialising
<1>2. PICK rest : rest = Tail(Running.fields)
  OBVIOUS
<1>3. /\ running # <<>> /\ ready' = ready \cup {Head(Running.fields)} /\ UNCHANGED <<started, reads>>
      /\ running' = IF rest = <<>> THEN SubSeq(running, 1, Len(running) - 1)
                    ELSE [running EXCEPT ![Len(running)].fields = rest,
                                         ![Len(running)].left = Reads(rest[1])]
  BY <1>2 DEF Store
<1>4. CASE rest = <<>>
  BY <1>2, <1>3, <1>4, StoreLast
<1>5. CASE rest # <<>>
  BY <1>1, <1>2, <1>3, <1>5, StoreNext
<1> QED BY <1>4, <1>5

LEMMA TouchStep == ASSUME Settle, Initialising, Touch PROVE Initialising'
<1>1. PICK class : FieldsOf(class) # <<>> /\ Start(class) /\ class \notin started
  BY DEF Touch
<1> QED BY <1>1, BeginStep DEF Touch

--------------------------------------------------------------------------------
(* What is reached from a class is needed by it: within as many steps as there  *)
(* are items.                                                                   *)

\* f is the recursive function that Needs defines.
Needing(f, class) ==
  f = [n \in 0 .. Len(crate) |->
        IF n = 0 THEN {class}
        ELSE f[n - 1] \cup {ClassOf(d) : d \in {d \in {i \in Items(crate) : HasValue(i)} :
                              \E i \in {i \in Items(crate) : HasValue(i)} :
                                ClassOf(i) \in f[n - 1] /\ d \in crate[i].uses}}]

Consts == {i \in Items(crate) : HasValue(i)}
Classes == {ClassOf(d) : d \in Consts}

\* The classes that S and the initialisers of its classes read.
Readers(S) == {d \in Consts : \E i \in Consts : ClassOf(i) \in S /\ d \in crate[i].uses}
Widened(S) == S \cup {ClassOf(d) : d \in Readers(S)}

LEMMA NeedingExists ==
  ASSUME Len(crate) \in Nat, NEW class \in Classes
  PROVE  \E f : Needing(f, class)
<1> DEFINE V == SUBSET Classes
           G == [p \in (1 .. Len(crate)) \X V |-> Widened(p[2])]
<1>1. \A S \in V : Widened(S) \in V
  BY DEF Widened, Readers, Classes
<1>2. G \in [(1 .. Len(crate)) \X V -> V] /\ {class} \in V
  <2>1. {class} \in V
    OBVIOUS
  <2> HIDE DEF V
  <2> QED BY <1>1, <2>1
<1>3. \A n \in 1 .. Len(crate), S \in V : G[<<n, S>>] = Widened(S)
  OBVIOUS
<1> HIDE DEF G, V
<1>4. PICK f \in [0 .. Len(crate) -> V] : Follows(f, {class}, G, Len(crate))
  BY <1>2, Recursion
<1>5. f[0] = {class}
  BY <1>4 DEF Follows
<1>6. ASSUME NEW n \in 1 .. Len(crate) PROVE f[n] = Widened(f[n - 1])
  <2>1. n - 1 \in 0 .. Len(crate)
    OBVIOUS
  <2>2. f[n] = G[<<n, f[n - 1]>>] /\ f[n - 1] \in V
    BY <1>4, <2>1 DEF Follows
  <2> QED BY <1>3, <2>2
<1>7. ASSUME NEW n \in 0 .. Len(crate)
      PROVE  f[n] = IF n = 0 THEN {class} ELSE Widened(f[n - 1])
  <2>1. CASE n = 0
    BY <1>5, <2>1
  <2>2. CASE n # 0
    <3>1. n \in 1 .. Len(crate)
      BY <2>2
    <3> QED BY <1>6, <2>2, <3>1
  <2> QED BY <2>1, <2>2
<1>8. f = [n \in 0 .. Len(crate) |-> f[n]]
  BY <1>4
<1>9. f = [n \in 0 .. Len(crate) |-> IF n = 0 THEN {class} ELSE Widened(f[n - 1])]
  BY <1>7, <1>8, Zenon
<1>10. Needing(f, class)
  BY <1>9, Zenon DEF Needing, Widened, Readers, Consts
<1> QED BY <1>10

LEMMA NeedsUnfold ==
  ASSUME Len(crate) \in Nat, NEW class \in Classes, NEW other
  PROVE  \E f : Needing(f, class) /\ (Needs(class, other) <=> other \in f[Len(crate)])
<1>1. \E f : Needing(f, class)
  BY NeedingExists
<1> QED BY <1>1, Zenon DEF Needs, Needing

LEMMA NeedsSteps ==
  ASSUME Len(crate) \in Nat, NEW class \in Classes, NEW other
  PROVE  \E f : /\ f[0] = {class}
                /\ \A n \in 1 .. Len(crate) : f[n] = Widened(f[n - 1])
                /\ Needs(class, other) <=> other \in f[Len(crate)]
<1>1. PICK f : Needing(f, class) /\ (Needs(class, other) <=> other \in f[Len(crate)])
  BY NeedsUnfold
<1>2. f = [n \in 0 .. Len(crate) |-> IF n = 0 THEN {class} ELSE Widened(f[n - 1])]
  BY <1>1, Zenon DEF Needing, Widened, Readers, Consts
<1>3. \A n \in 0 .. Len(crate) : f[n] = IF n = 0 THEN {class} ELSE Widened(f[n - 1])
  BY <1>2, Zenon
<1>4. f[0] = {class}
  BY <1>3, 0 \in 0 .. Len(crate)
<1>5. ASSUME NEW n \in 1 .. Len(crate) PROVE f[n] = Widened(f[n - 1])
  <2>1. n \in 0 .. Len(crate) /\ n # 0
    OBVIOUS
  <2> QED BY <1>3, <2>1
<1> QED BY <1>1, <1>4, <1>5

\* One step adds a class, unless nothing is left to add.
LEMMA Widens ==
  ASSUME NEW S \in SUBSET Classes, IsFiniteSet(Classes)
  PROVE  /\ Widened(S) \in SUBSET Classes /\ S \subseteq Widened(S)
         /\ IsFiniteSet(S) /\ IsFiniteSet(Widened(S))
         /\ Closed(S) => Widened(S) = S
         /\ ~Closed(S) => Cardinality(Widened(S)) >= Cardinality(S) + 1
<1>1. PICK W : W = Widened(S)
  OBVIOUS
<1>2. W \in SUBSET Classes /\ S \subseteq W
  BY <1>1 DEF Widened, Readers, Classes
<1>3. IsFiniteSet(S) /\ IsFiniteSet(W)
  BY <1>2, FS_Subset
<1>4. Closed(S) => W = S
  BY <1>1 DEF Closed, Widened, Readers, Consts
<1>5. ASSUME ~Closed(S) PROVE Cardinality(W) >= Cardinality(S) + 1
  <2>1. PICK i \in Items(crate), d \in Items(crate) :
          /\ HasValue(i) /\ HasValue(d) /\ d \in crate[i].uses
          /\ ClassOf(i) \in S /\ ClassOf(d) \notin S
    BY <1>5 DEF Closed
  <2>2. d \in Readers(S)
    BY <2>1 DEF Readers, Consts
  <2>3. ClassOf(d) \in W
    BY <1>1, <2>2 DEF Widened
  <2>4. W # S
    BY <2>1, <2>3
  <2>5. Cardinality(S) <= Cardinality(W) /\ (Cardinality(W) = Cardinality(S) => W = S)
    BY <1>2, <1>3, FS_Subset
  <2>6. Cardinality(S) \in Nat /\ Cardinality(W) \in Nat
    BY <1>3, FS_CardinalityType
  <2> QED BY <2>4, <2>5, <2>6
<1> QED BY <1>1, <1>2, <1>3, <1>4, <1>5

LEMMA FewClasses ==
  ASSUME crate \in Crates PROVE IsFiniteSet(Classes) /\ Cardinality(Classes) <= Len(crate)
<1>1. Len(crate) \in Nat /\ Consts \subseteq 1 .. Len(crate)
  BY CrateFacts DEF Consts
<1>2. IsFiniteSet(1 .. Len(crate)) /\ Cardinality(1 .. Len(crate)) = Len(crate)
  BY <1>1, FS_Interval
<1>3. IsFiniteSet(Consts) /\ Cardinality(Consts) <= Len(crate)
  BY <1>1, <1>2, FS_Subset
<1> DEFINE f == [d \in Consts |-> ClassOf(d)]
<1>4. f \in Surjection(Consts, Classes)
  BY DEF Surjection, Classes
<1> HIDE DEF f
<1>5. IsFiniteSet(Classes) /\ Cardinality(Classes) <= Cardinality(Consts)
  BY <1>3, <1>4, FS_Surjection
<1>6. Cardinality(Classes) \in Nat /\ Cardinality(Consts) \in Nat
  BY <1>3, <1>5, FS_CardinalityType
<1> QED BY <1>1, <1>3, <1>5, <1>6

LEMMA ReachesNeeds ==
  ASSUME crate \in Crates, NEW class \in Classes, NEW other, Reaches(class, other)
  PROVE  Needs(class, other)
<1>1. PICK N \in Nat : N = Len(crate)
  BY CrateFacts
<1>2. IsFiniteSet(Classes) /\ Cardinality(Classes) <= N
  BY <1>1, FewClasses
<1>3. PICK f : /\ f[0] = {class} /\ \A n \in 1 .. N : f[n] = Widened(f[n - 1])
               /\ Needs(class, other) <=> other \in f[N]
  BY <1>1, NeedsSteps
<1> DEFINE T == {n \in Nat : n <= N => /\ f[n] \in SUBSET Classes /\ class \in f[n]
                                       /\ Closed(f[n]) \/ Cardinality(f[n]) >= n + 1}
<1>4. 0 \in T
  <2>1. Cardinality({class}) = 1
    BY FS_Singleton
  <2>2. Cardinality(f[0]) >= 0 + 1
    BY <1>3, <2>1
  <2> QED BY <1>3, <2>2
<1>5. ASSUME NEW n \in 0 .. N - 1, n \in T PROVE n + 1 \in T
  <2>1. f[n] \in SUBSET Classes /\ class \in f[n] /\ (Closed(f[n]) \/ Cardinality(f[n]) >= n + 1)
    BY <1>5
  <2>2. f[n + 1] = Widened(f[n])
    <3>1. n + 1 \in 1 .. N /\ (n + 1) - 1 = n
      BY <1>1
    <3> QED BY <1>3, <3>1
  <2>3. f[n + 1] \in SUBSET Classes /\ class \in f[n + 1]
    BY <1>2, <2>1, <2>2, Widens
  <2>4. CASE Closed(f[n])
    <3>1. Closed(f[n + 1])
      BY <1>2, <2>1, <2>2, <2>4, Widens
    <3> QED BY <2>3, <3>1
  <2>5. CASE ~Closed(f[n])
    <3>1. Cardinality(f[n + 1]) >= Cardinality(f[n]) + 1
      BY <1>2, <2>1, <2>2, <2>5, Widens
    <3>2. Cardinality(f[n]) \in Nat /\ Cardinality(f[n + 1]) \in Nat
      <4>1. IsFiniteSet(f[n]) /\ IsFiniteSet(f[n + 1])
        BY <1>2, <2>1, <2>2, Widens
      <4> QED BY <4>1, FS_CardinalityType
    <3>3. Cardinality(f[n + 1]) >= (n + 1) + 1
      BY <2>1, <2>5, <3>1, <3>2
    <3> QED BY <2>3, <3>3
  <2> QED BY <2>4, <2>5
<1>6. N \in T
  <2> HIDE DEF T
  <2>1. N \in 0 .. N
    OBVIOUS
  <2> QED BY <1>4, <1>5, <2>1, UpTo
<1>7. PICK S : S = f[N]
  OBVIOUS
<1>8. S \in SUBSET Classes /\ class \in S /\ (Closed(S) \/ Cardinality(S) >= N + 1)
  BY <1>6, <1>7
<1>9. Closed(S)
  <2>1. IsFiniteSet(S) /\ Cardinality(S) <= Cardinality(Classes)
    BY <1>2, <1>8, FS_Subset
  <2>2. Cardinality(S) \in Nat /\ Cardinality(Classes) \in Nat
    BY <1>2, <2>1, FS_CardinalityType
  <2> QED BY <1>2, <1>8, <2>1, <2>2
<1> QED BY <1>3, <1>7, <1>8, <1>9 DEF Reaches

--------------------------------------------------------------------------------
(* The initialisation and the walk together. *)

LEMMA NoneBegun ==
  ASSUME started = {}, running = <<>>, reads = {} PROVE Initialising
<1>1. DOMAIN running = {} /\ running \in Seq(Inits({}))
  OBVIOUS
<1>2. \A k \in DOMAIN running : Fits(running[k], started, ready)
  BY <1>1
<1>3. Begun /\ Apart /\ Chained
  BY <1>1 DEF Begun, Apart, Chained
<1> QED BY <1>1, <1>2, <1>3 DEF Initialising

LEMMA StillNoneBegun ==
  ASSUME started' = {}, running' = <<>>, reads' = {} PROVE Initialising'
<1>1. DOMAIN running' = {} /\ running' \in Seq(Inits({}))
  OBVIOUS
<1>2. \A k \in DOMAIN running' : Fits(running[k], started, ready)'
  BY <1>1
<1>3. Begun' /\ Apart' /\ Chained'
  BY <1>1 DEF Begun, Apart, Chained
<1>4. \E X : running' \in Seq(Inits(X))
  BY <1>1
<1> QED BY <1>2, <1>3, <1>4 DEF Initialising

\* A walk that is over makes no step.
LEMMA WalkOver ==
  ASSUME Shape, Walk, Emitted, FoundInOneWay(crate), CrateNext PROVE UNCHANGED cvars
<1>1. Made \/ CloseClass \/ UNCHANGED cvars
  BY WalkNext
<1>2. CASE Made
  <2>1. 1 \in DOMAIN stack[Len(stack)].todo
    BY <1>2 DEF Made, Steps, IsNext
  <2>2. stack[Len(stack)].todo = <<>>
    BY DEF Emitted, Top
  <2>3. DOMAIN stack[Len(stack)].todo = {}
    BY <2>2
  <2> QED BY <2>1, <2>3
<1>3. CASE CloseClass
  BY <1>3 DEF CloseClass, Emitted
<1> QED BY <1>1, <1>2, <1>3

\* Nothing that the judgement of the initialisations reads has changed.
LEMMA SameInitialising ==
  ASSUME Initialising, UNCHANGED cvars, UNCHANGED pvars PROVE Initialising'
<1>1. /\ UNCHANGED crate /\ UNCHANGED decls /\ UNCHANGED stack /\ UNCHANGED started
      /\ UNCHANGED running /\ UNCHANGED ready /\ UNCHANGED reads
  BY DEF cvars, pvars
<1>2. /\ \A it, begun, done : Fits(it, begun, done)' <=> Fits(it, begun, done)
      /\ \A r : ReadSound(r)' <=> ReadSound(r)
  BY <1>1, SameJudgement
<1>3. Emitted' <=> Emitted
  BY <1>1 DEF Emitted, Top
<1>4. /\ started' # {} => Emitted'
      /\ started' = {} => running' = <<>> /\ reads' = {}
  BY <1>1, <1>3 DEF Initialising
<1>5. \E X : running' \in Seq(Inits(X))
  BY <1>1 DEF Initialising
<1>6. \A k \in DOMAIN running' : Fits(running[k], started, ready)'
  <2>1. \A k \in DOMAIN running : Fits(running[k], started, ready)
    BY DEF Initialising
  <2> QED BY <1>1, <1>2, <2>1
<1>7. Begun'
  <2>1. \A class : ValuesAt(class)' = ValuesAt(class)
    BY <1>1, SameValues
  <2>2. Begun
    BY DEF Initialising
  <2> QED BY <1>1, <2>1, <2>2 DEF Begun
<1>8. Apart' /\ Chained'
  <2>1. \A i : ClassOf(i)' = ClassOf(i)
    BY <1>1, SameValues
  <2>2. Apart /\ Chained
    BY DEF Initialising
  <2> QED BY <1>1, <2>1, <2>2 DEF Apart, Chained
<1>9. \A r \in reads' : ReadSound(r)'
  BY <1>1, <1>2 DEF Initialising
<1> QED BY <1>4, <1>5, <1>6, <1>7, <1>8, <1>9 DEF Initialising

WholeProgram == FoundInOneWay(crate) => Shape /\ Walk /\ Ordered /\ Initialising

LEMMA ProgramKeeps ==
  ASSUME Shape, Walk, Ordered, Initialising, FoundInOneWay(crate), [ProgramNext]_<<cvars, pvars>>
  PROVE  Initialising'
<1>1. CASE UNCHANGED <<cvars, pvars>>
  BY <1>1, SameInitialising
<1>2. CASE CrateNext /\ UNCHANGED pvars
  <2>1. CASE started = {}
    <3>1. started' = {} /\ running' = <<>> /\ reads' = {}
      BY <1>2, <2>1 DEF pvars, Initialising
    <3> QED BY <3>1, StillNoneBegun
  <2>2. CASE started # {}
    <3>1. UNCHANGED cvars
      BY <1>2, <2>2, WalkOver DEF Initialising
    <3> QED BY <1>2, <3>1, SameInitialising
  <2> QED BY <2>1, <2>2
<1>3. CASE Touch /\ UNCHANGED cvars
  <2>1. Settle
    BY <1>3 DEF Settle, Touch, Ordered
  <2> QED BY <1>3, <2>1, TouchStep
<1>4. ASSUME Read \/ Store, UNCHANGED cvars PROVE Initialising'
  <2>1. running # <<>>
    BY <1>4 DEF Read, Store
  <2>2. Emitted
    BY <2>1 DEF Initialising
  <2>3. Settle
    BY <1>4, <2>2 DEF Settle, Ordered
  <2> QED BY <1>4, <2>3, ReadStep, StoreStep
<1> QED BY <1>1, <1>2, <1>3, <1>4 DEF ProgramNext

LEMMA WholeProgramInvariant == ProgramSpec => []WholeProgram
<1>1. ProgramInit => WholeProgram
  <2> SUFFICES ASSUME ProgramInit, FoundInOneWay(crate) PROVE Shape /\ Walk /\ Ordered /\ Initialising
    BY DEF WholeProgram
  <2>1. CrateInit
    BY DEF ProgramInit
  <2>2. Shape /\ Walk /\ Ordered
    BY <2>1, WalkInit, OrderInit
  <2>3. Initialising
    BY NoneBegun DEF ProgramInit
  <2> QED BY <2>2, <2>3
<1>2. WholeProgram /\ WholeOrder' /\ [ProgramNext]_<<cvars, pvars>> => WholeProgram'
  <2> SUFFICES ASSUME WholeProgram, WholeOrder', [ProgramNext]_<<cvars, pvars>>, FoundInOneWay(crate)'
               PROVE  Shape' /\ Walk' /\ Ordered' /\ Initialising'
    BY DEF WholeProgram
  <2>1. FoundInOneWay(crate)
    <3>1. [CrateNext]_cvars
      BY DEF ProgramNext
    <3> QED BY <3>1, SameCrate
  <2>2. Shape /\ Walk /\ Ordered /\ Initialising
    BY <2>1 DEF WholeProgram
  <2>3. Shape' /\ Walk' /\ Ordered'
    BY DEF WholeOrder
  <2> QED BY <2>1, <2>2, <2>3, ProgramKeeps
<1>3. ProgramSpec => []WholeOrder
  BY ProgramWalks, WholeOrderInvariant, PTL
<1> QED BY <1>1, <1>2, <1>3, PTL DEF ProgramSpec

LEMMA ReadsEnd == WholeProgram => (FoundInOneWay(crate) /\ OneHome => ReadsInitialised)
<1> SUFFICES ASSUME Shape, Initialising, OneHome, NEW r \in reads, ~r.ready
             PROVE  IF ClassOf(r.by) = ClassOf(r.of) THEN Later(r.by, r.of)
                    ELSE Needs(ClassOf(r.of), ClassOf(r.by))
  BY DEF WholeProgram, ReadsInitialised
<1>1. ReadSound(r)
  BY DEF Initialising
<1>2. crate \in Crates
  BY DEF Shape
<1>3. CASE ClassOf(r.by) = ClassOf(r.of)
  BY <1>1, <1>3 DEF ReadSound
<1>4. CASE ClassOf(r.by) # ClassOf(r.of)
  <2>1. Reaches(ClassOf(r.of), ClassOf(r.by))
    BY <1>1, <1>4 DEF ReadSound
  <2>2. ClassOf(r.of) \in Classes
    BY <1>1 DEF ReadSound, Classes, Consts
  <2> QED BY <1>2, <1>4, <2>1, <2>2, ReachesNeeds
<1> QED BY <1>3, <1>4

\* Whatever the crate, when no two types in modules have the same C# class, no
\* body defers an item twice and each class holds the constants of one module, block or impl, an initialiser
\* finds the value of every constant and static it reads, but for those that are
\* written later in its class and those whose class needs its own first
\* (emit_module, emit_impl_items, deferred, and how C# initialises its classes).
THEOREM ReadsAreReady ==
  ProgramSpec => [](FoundInOneWay(crate) /\ OneHome => ReadsInitialised)
BY ReadsEnd, WholeProgramInvariant, PTL
================================================================================
