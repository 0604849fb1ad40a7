-------------------------- MODULE CrateEmission_proofs --------------------------
(***************************************************************************)
(* Two things about the generator that hold for every crate.               *)
(*   What the operators that collect items return: Select, CrateImpls      *)
(* (emit_crate's table of impls) and LocalImpls (the impls of a body)      *)
(* return each item asked for once.  They are functions on the numbers up  *)
(* to the length of the crate; what such a function computes follows from  *)
(* LeastNumber, the well-foundedness of < on Nat stated with a set.        *)
(*   The output is balanced: whatever the items and however deep they      *)
(* nest, each step of the walk leaves the output at the start of a line,   *)
(* indented once per open class.  LayoutBalanced alone does not say that   *)
(* out is a buffer and that the stack is a stack with a bottom; LayoutInv  *)
(* adds both.                                                              *)
(***************************************************************************)
EXTENDS CrateEmission, WellFoundedInduction, TLAPS

--------------------------------------------------------------------------------
(* Induction and recursion on numbers, stated with sets and functions. *)

LEMMA LeastNumber ==
  ASSUME NEW T, T \subseteq Nat, T # {}
  PROVE  \E x \in T : \A y \in T : x <= y
<1>1. PICK x \in T : \A y \in T : ~ (<<y, x>> \in OpToRel(<, Nat))
  BY NatLessThanWellFounded, WFMin, Zenon
<1>2. \A y \in T : ~(y < x)
  BY <1>1, Zenon DEF OpToRel
<1> QED BY <1>2

\* What holds of 0, and of n + 1 if of n, holds up to N.
LEMMA UpTo ==
  ASSUME NEW N \in Nat, NEW T, 0 \in T, \A n \in 0 .. N - 1 : n \in T => n + 1 \in T
  PROVE  \A n \in 0 .. N : n \in T
<1> DEFINE Not == {n \in 0 .. N : n \notin T}
<1> SUFFICES ASSUME Not # {} PROVE FALSE
  OBVIOUS
<1>1. PICK x \in Not : \A y \in Not : x <= y
  <2>1. Not \subseteq Nat
    OBVIOUS
  <2> HIDE DEF Not
  <2> QED BY <2>1, LeastNumber
<1>2. x \in 0 .. N /\ x \notin T /\ x # 0
  BY <1>1
<1>3. x - 1 \in 0 .. N - 1 /\ (x - 1) + 1 = x
  BY <1>2
<1>4. x - 1 \notin T
  BY <1>2, <1>3
<1>5. x - 1 \in Not
  BY <1>3, <1>4
<1>6. x <= x - 1
  BY <1>1, <1>5
<1> QED BY <1>2, <1>6

\* A function whose value at n is made by G from the one at n - 1.
Follows(f, base, G, N) ==
  /\ f[0] = base
  /\ \A n \in 1 .. N : f[n] = G[<<n, f[n - 1]>>]

LEMMA Recursion ==
  ASSUME NEW N \in Nat, NEW V, NEW base \in V, NEW G \in [(1 .. N) \X V -> V]
  PROVE  \E f \in [0 .. N -> V] : Follows(f, base, G, N)
<1> DEFINE T == {n \in Nat : n <= N => \E f \in [0 .. n -> V] : Follows(f, base, G, n)}
<1>1. 0 \in T
  <2>1. [n \in 0 .. 0 |-> base] \in [0 .. 0 -> V] /\ Follows([n \in 0 .. 0 |-> base], base, G, 0)
    BY DEF Follows
  <2> QED BY <2>1
<1>2. ASSUME NEW m \in 0 .. N - 1, m \in T PROVE m + 1 \in T
  <2>1. PICK f \in [0 .. m -> V] : Follows(f, base, G, m)
    BY <1>2
  <2> DEFINE last == G[<<m + 1, f[m]>>]
             g == [n \in 0 .. m + 1 |-> IF n <= m THEN f[n] ELSE last]
  <2>2. last \in V
    BY <1>2, <2>1
  <2>3. /\ g \in [0 .. m + 1 -> V]
        /\ \A n \in 0 .. m : g[n] = f[n]
        /\ g[m + 1] = last
    BY <1>2, <2>1, <2>2
  <2> HIDE DEF g
  <2>4. g[0] = base
    BY <1>2, <2>1, <2>3 DEF Follows
  <2>5. ASSUME NEW n \in 1 .. m + 1 PROVE g[n] = G[<<n, g[n - 1]>>]
    <3>1. CASE n <= m
      <4>1. n \in 1 .. m /\ n \in 0 .. m /\ n - 1 \in 0 .. m
        BY <1>2, <3>1
      <4>2. f[n] = G[<<n, f[n - 1]>>]
        BY <2>1, <4>1 DEF Follows
      <4> QED BY <4>1, <4>2, <2>3
    <3>2. CASE n = m + 1
      <4>1. n - 1 = m /\ m \in 0 .. m
        BY <1>2, <3>2
      <4> QED BY <3>2, <4>1, <2>3
    <3> QED BY <3>1, <3>2, <1>2
  <2>6. Follows(g, base, G, m + 1)
    BY <2>4, <2>5 DEF Follows
  <2> QED BY <1>2, <2>3, <2>6
<1>3. N \in T
  <2> HIDE DEF T
  <2>1. \A n \in 0 .. N : n \in T
    BY <1>1, <1>2, UpTo
  <2> QED BY <2>1
<1> QED BY <1>3

--------------------------------------------------------------------------------
(* Sequences without repetition. *)

OneToOne(s) == \A n, m \in DOMAIN s : s[n] = s[m] => n = m

Has(s, x) == \E n \in DOMAIN s : s[n] = x

Increasing(s) == \A n, m \in DOMAIN s : n < m => s[n] < s[m]

LEMMA AppendHas ==
  ASSUME NEW X, NEW s \in Seq(X), NEW x
  PROVE  \A y : Has(Append(s, x), y) <=> Has(s, y) \/ y = x
<1>1. PICK Y : Y = X \cup {x}
  OBVIOUS
<1>2. s \in Seq(Y) /\ x \in Y
  BY <1>1
<1>3. PICK u : u = Append(s, x)
  OBVIOUS
<1>4. /\ Len(s) \in Nat /\ DOMAIN s = 1 .. Len(s) /\ DOMAIN u = 1 .. Len(s) + 1
      /\ \A n \in 1 .. Len(s) : u[n] = s[n]
      /\ u[Len(s) + 1] = x
  BY <1>2, <1>3
<1>5. Len(s) + 1 \in DOMAIN u /\ \A n \in DOMAIN u : n \in DOMAIN s \/ n = Len(s) + 1
  BY <1>4
<1> QED BY <1>3, <1>4, <1>5 DEF Has

LEMMA ConcatHas ==
  ASSUME NEW X, NEW s \in Seq(X), NEW t \in Seq(X)
  PROVE  \A y : Has(s \o t, y) <=> Has(s, y) \/ Has(t, y)
<1>1. PICK u : u = s \o t
  OBVIOUS
<1>2. /\ Len(s) \in Nat /\ Len(t) \in Nat
      /\ DOMAIN s = 1 .. Len(s) /\ DOMAIN t = 1 .. Len(t) /\ DOMAIN u = 1 .. Len(s) + Len(t)
      /\ \A n \in 1 .. Len(s) : u[n] = s[n]
      /\ \A n \in 1 .. Len(t) : u[Len(s) + n] = t[n]
  BY <1>1
<1>3. /\ \A n \in DOMAIN t : Len(s) + n \in DOMAIN u
      /\ \A n \in DOMAIN u : n \in DOMAIN s \/ \E m \in DOMAIN t : n = Len(s) + m
  <2>1. \A n \in DOMAIN u : n \notin DOMAIN s => n - Len(s) \in DOMAIN t /\ n = Len(s) + (n - Len(s))
    BY <1>2
  <2> QED BY <1>2, <2>1
<1>4. \A y : Has(u, y) => Has(s, y) \/ Has(t, y)
  BY <1>2, <1>3 DEF Has
<1>5. \A y : Has(s, y) => Has(u, y)
  <2>1. \A n \in DOMAIN s : n \in DOMAIN u
    BY <1>2
  <2> QED BY <1>2, <2>1 DEF Has
<1>6. \A y : Has(t, y) => Has(u, y)
  BY <1>2, <1>3 DEF Has
<1> QED BY <1>1, <1>4, <1>5, <1>6

LEMMA AppendOneToOne ==
  ASSUME NEW X, NEW s \in Seq(X), OneToOne(s), NEW x, x \notin X
  PROVE  Append(s, x) \in Seq(X \cup {x}) /\ OneToOne(Append(s, x))
<1>1. /\ Len(Append(s, x)) = Len(s) + 1 /\ DOMAIN Append(s, x) = 1 .. Len(s) + 1
      /\ s \in Seq(X \cup {x}) /\ Append(s, x) \in Seq(X \cup {x})
      /\ \A n \in 1 .. Len(s) : Append(s, x)[n] = s[n] /\ s[n] \in X
      /\ Append(s, x)[Len(s) + 1] = x
      /\ Len(s) \in Nat /\ DOMAIN s = 1 .. Len(s)
  OBVIOUS
<1> QED BY <1>1 DEF OneToOne

--------------------------------------------------------------------------------
(* The parts of a crate: what the functions that collect them return. *)

\* upTo of Select.
Selecting(f, c, S) ==
  f = [i \in 0 .. Len(c) |->
        IF i = 0 THEN <<>>
        ELSE IF i \in S THEN Append(f[i - 1], i) ELSE f[i - 1]]

LEMMA SelectingExists == ASSUME NEW c, Len(c) \in Nat, NEW S PROVE \E f : Selecting(f, c, S)
<1> DEFINE V == Seq(Nat)
           G == [p \in (1 .. Len(c)) \X V |-> IF p[1] \in S THEN Append(p[2], p[1]) ELSE p[2]]
<1>1. G \in [(1 .. Len(c)) \X V -> V] /\ <<>> \in V
  OBVIOUS
<1>2. \A i \in 1 .. Len(c), s \in V : G[<<i, s>>] = IF i \in S THEN Append(s, i) ELSE s
  OBVIOUS
<1> HIDE DEF G, V
<1>3. PICK f \in [0 .. Len(c) -> V] : Follows(f, <<>>, G, Len(c))
  BY <1>1, Recursion
<1>4. ASSUME NEW i \in 0 .. Len(c)
      PROVE  f[i] = IF i = 0 THEN <<>> ELSE IF i \in S THEN Append(f[i - 1], i) ELSE f[i - 1]
  <2>1. CASE i = 0
    BY <1>3, <2>1 DEF Follows
  <2>2. CASE i # 0
    <3>1. i \in 1 .. Len(c) /\ i - 1 \in 0 .. Len(c)
      BY <2>2
    <3>2. f[i] = G[<<i, f[i - 1]>>] /\ f[i - 1] \in V
      BY <3>1, <1>3 DEF Follows
    <3> QED BY <2>2, <3>1, <3>2, <1>2
  <2> QED BY <2>1, <2>2
<1>5. f = [i \in 0 .. Len(c) |-> f[i]]
  BY <1>3
<1>6. f = [i \in 0 .. Len(c) |->
            IF i = 0 THEN <<>> ELSE IF i \in S THEN Append(f[i - 1], i) ELSE f[i - 1]]
  BY <1>4, <1>5, Zenon
<1> QED BY <1>6 DEF Selecting

LEMMA SelectUnfold ==
  ASSUME NEW c, Len(c) \in Nat, NEW S
  PROVE  \E f : Selecting(f, c, S) /\ Select(c, S) = f[Len(c)]
<1>1. \E f : Selecting(f, c, S)
  BY SelectingExists
<1> QED BY <1>1, Zenon DEF Select, Selecting

\* Select returns the items of the set, each once.
LEMMA SelectOnce ==
  ASSUME NEW c, Len(c) \in Nat, NEW S
  PROVE  /\ Select(c, S) \in Seq(S \cap (1 .. Len(c))) /\ OneToOne(Select(c, S))
         /\ \A i \in S \cap (1 .. Len(c)) : Has(Select(c, S), i)
<1>1. PICK f : Selecting(f, c, S) /\ Select(c, S) = f[Len(c)]
  BY SelectUnfold
<1> DEFINE T == {n \in Nat : n <= Len(c) =>
                     /\ f[n] \in Seq(S \cap (1 .. n)) /\ OneToOne(f[n])
                     /\ \A i \in S \cap (1 .. n) : Has(f[n], i)}
<1>2. \A i \in 0 .. Len(c) :
        f[i] = IF i = 0 THEN <<>> ELSE IF i \in S THEN Append(f[i - 1], i) ELSE f[i - 1]
  BY <1>1, Zenon DEF Selecting
<1>3. \A i \in 1 .. Len(c) : f[i] = IF i \in S THEN Append(f[i - 1], i) ELSE f[i - 1]
  <2> TAKE i \in 1 .. Len(c)
  <2>1. i \in 0 .. Len(c) /\ i # 0
    OBVIOUS
  <2> QED BY <2>1, <1>2
<1>4. 0 \in T
  <2>1. f[0] = <<>>
    BY <1>2, 0 \in 0 .. Len(c)
  <2>2. /\ <<>> \in Seq(S \cap (1 .. 0)) /\ OneToOne(<<>>)
        /\ S \cap (1 .. 0) = {}
    BY DEF OneToOne
  <2> QED BY <2>1, <2>2
<1>5. ASSUME NEW n \in 0 .. Len(c) - 1, n \in T PROVE n + 1 \in T
  <2>1. /\ f[n] \in Seq(S \cap (1 .. n)) /\ OneToOne(f[n]) /\ n + 1 \in 1 .. Len(c) /\ (n + 1) - 1 = n
        /\ \A i \in S \cap (1 .. n) : Has(f[n], i)
    BY <1>5
  <2>2. CASE n + 1 \in S
    <3>1. n + 1 \notin S \cap (1 .. n)
      BY <1>5
    <3>2. /\ Append(f[n], n + 1) \in Seq((S \cap (1 .. n)) \cup {n + 1})
          /\ OneToOne(Append(f[n], n + 1))
      BY <2>1, <3>1, AppendOneToOne
    <3>3. (S \cap (1 .. n)) \cup {n + 1} = S \cap (1 .. n + 1)
      BY <2>2, <1>5
    <3>4. f[n + 1] = Append(f[n], n + 1)
      BY <2>1, <2>2, <1>3
    <3>5. f[n + 1] \in Seq(S \cap (1 .. n + 1)) /\ OneToOne(f[n + 1])
      BY <3>2, <3>3, <3>4
    <3>6. \A i \in S \cap (1 .. n + 1) : Has(f[n + 1], i)
      BY <2>1, <3>3, <3>4, AppendHas
    <3> QED BY <3>5, <3>6, <1>5
  <2>3. CASE n + 1 \notin S
    <3>1. S \cap (1 .. n) = S \cap (1 .. n + 1)
      BY <2>3, <1>5
    <3>2. f[n + 1] = f[n]
      BY <2>1, <2>3, <1>3
    <3>3. f[n + 1] \in Seq(S \cap (1 .. n + 1)) /\ OneToOne(f[n + 1])
      BY <3>1, <3>2, <2>1
    <3>4. \A i \in S \cap (1 .. n + 1) : Has(f[n + 1], i)
      BY <3>1, <3>2, <2>1
    <3> QED BY <3>3, <3>4, <1>5
  <2> QED BY <2>2, <2>3
<1>6. Len(c) \in T
  <2> HIDE DEF T
  <2>1. \A n \in 0 .. Len(c) : n \in T
    BY <1>4, <1>5, UpTo
  <2> QED BY <2>1
<1> QED BY <1>1, <1>6

\* Select keeps the order of declaration.
LEMMA SelectInOrder == ASSUME NEW c, Len(c) \in Nat, NEW S PROVE Increasing(Select(c, S))
<1>1. PICK f : Selecting(f, c, S) /\ Select(c, S) = f[Len(c)]
  BY SelectUnfold
<1> DEFINE T == {n \in Nat : n <= Len(c) => f[n] \in Seq(1 .. n) /\ Increasing(f[n])}
<1>2. \A i \in 0 .. Len(c) :
        f[i] = IF i = 0 THEN <<>> ELSE IF i \in S THEN Append(f[i - 1], i) ELSE f[i - 1]
  BY <1>1, Zenon DEF Selecting
<1>3. \A i \in 1 .. Len(c) : f[i] = IF i \in S THEN Append(f[i - 1], i) ELSE f[i - 1]
  <2> TAKE i \in 1 .. Len(c)
  <2>1. i \in 0 .. Len(c) /\ i # 0
    OBVIOUS
  <2> QED BY <2>1, <1>2
<1>4. 0 \in T
  <2>1. f[0] = <<>>
    BY <1>2, 0 \in 0 .. Len(c)
  <2>2. PICK none : none = <<>> /\ DOMAIN none = {}
    OBVIOUS
  <2>3. Increasing(none)
    BY <2>2 DEF Increasing
  <2>4. <<>> \in Seq(1 .. 0)
    OBVIOUS
  <2> QED BY <2>1, <2>2, <2>3, <2>4
<1>5. ASSUME NEW n \in 0 .. Len(c) - 1, n \in T PROVE n + 1 \in T
  <2>1. PICK s : s = f[n] /\ s \in Seq(1 .. n) /\ Increasing(s)
    BY <1>5
  <2>2. f[n + 1] = IF n + 1 \in S THEN Append(s, n + 1) ELSE s
    <3>1. n + 1 \in 1 .. Len(c) /\ (n + 1) - 1 = n
      BY <1>5
    <3> QED BY <1>3, <2>1, <3>1
  <2>3. s \in Seq(1 .. n + 1)
    BY <2>1
  <2>4. PICK t : t = Append(s, n + 1)
    OBVIOUS
  <2>5. /\ t \in Seq(1 .. n + 1) /\ Len(s) \in Nat
        /\ DOMAIN s = 1 .. Len(s) /\ DOMAIN t = 1 .. Len(s) + 1
        /\ \A k \in 1 .. Len(s) : t[k] = s[k] /\ s[k] \in 1 .. n
        /\ t[Len(s) + 1] = n + 1
    BY <2>1, <2>3, <2>4
  <2>6. ASSUME NEW k \in DOMAIN t, NEW m \in DOMAIN t, k < m PROVE t[k] < t[m]
    <3>1. CASE m = Len(s) + 1
      <4>1. k \in 1 .. Len(s)
        BY <2>5, <2>6, <3>1
      <4>2. t[k] \in 1 .. n
        BY <2>5, <4>1
      <4>3. t[m] = n + 1
        BY <2>5, <3>1
      <4> QED BY <4>2, <4>3, <1>5
    <3>2. CASE m # Len(s) + 1
      <4>1. k \in DOMAIN s /\ m \in DOMAIN s /\ t[k] = s[k] /\ t[m] = s[m]
        BY <2>5, <2>6, <3>2
      <4> QED BY <4>1, <2>1, <2>6 DEF Increasing
    <3> QED BY <3>1, <3>2
  <2>7. Increasing(t)
    BY <2>6 DEF Increasing
  <2>8. f[n + 1] \in Seq(1 .. n + 1) /\ Increasing(f[n + 1])
    BY <2>1, <2>2, <2>3, <2>4, <2>5, <2>7
  <2> QED BY <1>5, <2>8
<1>6. Len(c) \in T
  <2> HIDE DEF T
  <2>1. \A n \in 0 .. Len(c) : n \in T
    BY <1>4, <1>5, UpTo
  <2> QED BY <2>1
<1> QED BY <1>1, <1>6

LEMMA ConcatOneToOne ==
  ASSUME NEW X, NEW s \in Seq(X), NEW t \in Seq(X), OneToOne(s), OneToOne(t),
         \A n \in DOMAIN s, m \in DOMAIN t : s[n] # t[m]
  PROVE  s \o t \in Seq(X) /\ OneToOne(s \o t)
<1>1. /\ s \o t \in Seq(X) /\ Len(s) \in Nat /\ Len(t) \in Nat
      /\ DOMAIN s = 1 .. Len(s) /\ DOMAIN t = 1 .. Len(t) /\ DOMAIN (s \o t) = 1 .. Len(s) + Len(t)
      /\ \A n \in 1 .. Len(s) : (s \o t)[n] = s[n]
      /\ \A n \in Len(s) + 1 .. Len(s) + Len(t) :
           n - Len(s) \in 1 .. Len(t) /\ (s \o t)[n] = t[n - Len(s)]
  OBVIOUS
<1> PICK u : u = s \o t
  OBVIOUS
<1>2. ASSUME NEW n \in DOMAIN u, NEW m \in DOMAIN u, u[n] = u[m] PROVE n = m
  <2>1. n \in 1 .. Len(s) \/ n \in Len(s) + 1 .. Len(s) + Len(t)
    BY <1>1
  <2>2. m \in 1 .. Len(s) \/ m \in Len(s) + 1 .. Len(s) + Len(t)
    BY <1>1
  <2> QED BY <1>1, <1>2, <2>1, <2>2 DEF OneToOne
<1> QED BY <1>1, <1>2 DEF OneToOne

\* The impls that emit_crate finds in a module, and upTo of CrateImpls.
ImplsIn(c, a, m) ==
  Select(c, {i \in Items(c) :
    /\ c[i].k = "impl" /\ c[i].in = m /\ c[i].to # 0
    /\ ShouldEmit(c, m) /\ ShouldEmit(c, i)
    /\ AdtClass(c, c[i].to) = AdtClass(c, a)})

Gathering(f, c, a) ==
  f = [m \in 0 .. Len(c) |->
        IF m = 0 THEN ImplsIn(c, a, 0)
        ELSE IF IsModule(c, m) /\ ~InBody(c, m) THEN f[m - 1] \o ImplsIn(c, a, m)
        ELSE f[m - 1]]

ImplsNamed(c, a) ==
  {i \in Items(c) : /\ c[i].k = "impl" /\ c[i].to # 0 /\ AdtClass(c, c[i].to) = AdtClass(c, a)
                    /\ c[i].in = 0 \/ (IsModule(c, c[i].in) /\ ~InBody(c, c[i].in))
                    /\ ShouldEmit(c, c[i].in) /\ ShouldEmit(c, i)}

NamedIn(c, a, m) ==
  {i \in Items(c) : /\ c[i].k = "impl" /\ c[i].to # 0 /\ AdtClass(c, c[i].to) = AdtClass(c, a)
                    /\ ShouldEmit(c, m) /\ ShouldEmit(c, i) /\ c[i].in = m}

LEMMA ImplsInOnce ==
  ASSUME NEW c, IsList(c), NEW a, NEW m
  PROVE  /\ ImplsIn(c, a, m) \in Seq(Nat)
         /\ ImplsIn(c, a, m) \in Seq(NamedIn(c, a, m))
         /\ OneToOne(ImplsIn(c, a, m))
         /\ \A i \in NamedIn(c, a, m) : Has(ImplsIn(c, a, m), i)
<1> DEFINE S == {i \in Items(c) :
                   /\ c[i].k = "impl" /\ c[i].in = m /\ c[i].to # 0
                   /\ ShouldEmit(c, m) /\ ShouldEmit(c, i)
                   /\ AdtClass(c, c[i].to) = AdtClass(c, a)}
<1>1. Len(c) \in Nat /\ ImplsIn(c, a, m) = Select(c, S)
  BY Zenon DEF IsList, ImplsIn
<1>2. S \cap (1 .. Len(c)) \subseteq Nat
      /\ S \cap (1 .. Len(c)) = NamedIn(c, a, m)
  BY DEF NamedIn, Items, IsList
<1> HIDE DEF S
<1>3. /\ ImplsIn(c, a, m) \in Seq(S \cap (1 .. Len(c))) /\ OneToOne(ImplsIn(c, a, m))
      /\ \A i \in S \cap (1 .. Len(c)) : Has(ImplsIn(c, a, m), i)
  BY <1>1, SelectOnce
<1> QED BY <1>2, <1>3

LEMMA GatheringExists == ASSUME NEW c, IsList(c), NEW a PROVE \E f : Gathering(f, c, a)
<1> DEFINE V == Seq(Nat)
           Module(m) == IsModule(c, m) /\ ~InBody(c, m)
           G == [p \in (1 .. Len(c)) \X V |-> IF Module(p[1]) THEN p[2] \o ImplsIn(c, a, p[1]) ELSE p[2]]
<1>0. Len(c) \in Nat
  BY DEF IsList
<1>1. G \in [(1 .. Len(c)) \X V -> V] /\ ImplsIn(c, a, 0) \in V
  <2>1. \A m : ImplsIn(c, a, m) \in V
    BY ImplsInOnce
  <2>2. \A s \in V, t \in V : s \o t \in V
    OBVIOUS
  <2> HIDE DEF V, Module
  <2> QED BY <2>1, <2>2
<1>2. \A m \in 1 .. Len(c), s \in V :
        G[<<m, s>>] = IF Module(m) THEN s \o ImplsIn(c, a, m) ELSE s
  OBVIOUS
<1> HIDE DEF G, V
<1>3. PICK f \in [0 .. Len(c) -> V] : Follows(f, ImplsIn(c, a, 0), G, Len(c))
  BY <1>0, <1>1, Recursion
<1>4. ASSUME NEW m \in 0 .. Len(c)
      PROVE  f[m] = IF m = 0 THEN ImplsIn(c, a, 0)
                    ELSE IF Module(m) THEN f[m - 1] \o ImplsIn(c, a, m) ELSE f[m - 1]
  <2>1. CASE m = 0
    BY <1>3, <2>1 DEF Follows
  <2>2. CASE m # 0
    <3>1. m \in 1 .. Len(c) /\ m - 1 \in 0 .. Len(c)
      BY <1>0, <2>2
    <3>2. f[m] = G[<<m, f[m - 1]>>] /\ f[m - 1] \in V
      BY <3>1, <1>3 DEF Follows
    <3> QED BY <2>2, <3>1, <3>2, <1>2
  <2> QED BY <2>1, <2>2
<1>5. f = [m \in 0 .. Len(c) |-> f[m]]
  BY <1>3
<1>6. f = [m \in 0 .. Len(c) |->
            IF m = 0 THEN ImplsIn(c, a, 0)
            ELSE IF Module(m) THEN f[m - 1] \o ImplsIn(c, a, m) ELSE f[m - 1]]
  BY <1>4, <1>5, Zenon
<1> QED BY <1>6 DEF Gathering

LEMMA CrateImplsUnfold ==
  ASSUME NEW c, IsList(c), NEW a
  PROVE  \E f : Gathering(f, c, a) /\ CrateImpls(c, a) = f[Len(c)]
<1>1. \E f : Gathering(f, c, a)
  BY GatheringExists
<1> QED BY <1>1, Zenon DEF CrateImpls, Gathering, ImplsIn

\* emit_crate finds each impl of a module that is not left out, once, by the name
\* of its type.
LEMMA CrateImplsOnce ==
  ASSUME NEW c, IsList(c), \A i \in Items(c) : c[i].in \in 0 .. Len(c), NEW a
  PROVE  /\ CrateImpls(c, a) \in Seq(ImplsNamed(c, a)) /\ OneToOne(CrateImpls(c, a))
         /\ \A i \in ImplsNamed(c, a) : Has(CrateImpls(c, a), i)
<1>1. PICK f : Gathering(f, c, a) /\ CrateImpls(c, a) = f[Len(c)]
  BY CrateImplsUnfold
<1> DEFINE Upto(m) == {i \in ImplsNamed(c, a) : c[i].in \in 0 .. m}
           Good(s, m) == /\ s \in Seq(Upto(m)) /\ OneToOne(s)
                         /\ \A i \in Upto(m) : Has(s, i)
           T == {m \in Nat : m <= Len(c) => Good(f[m], m)}
<1>0. Len(c) \in Nat
  BY DEF IsList
<1>2. \A m \in 0 .. Len(c) :
        f[m] = IF m = 0 THEN ImplsIn(c, a, 0)
               ELSE IF IsModule(c, m) /\ ~InBody(c, m) THEN f[m - 1] \o ImplsIn(c, a, m)
               ELSE f[m - 1]
  BY <1>1, Zenon DEF Gathering
<1>4. 0 \in T
  <2>1. f[0] = ImplsIn(c, a, 0)
    BY <1>2, <1>0, 0 \in 0 .. Len(c)
  <2>2. NamedIn(c, a, 0) = Upto(0)
    BY DEF NamedIn, ImplsNamed
  <2>3. /\ f[0] \in Seq(NamedIn(c, a, 0)) /\ OneToOne(f[0])
        /\ \A i \in NamedIn(c, a, 0) : Has(f[0], i)
    BY <2>1, ImplsInOnce
  <2>4. Good(f[0], 0)
    <3> HIDE DEF Upto
    <3> QED BY <2>2, <2>3
  <2> HIDE DEF Good
  <2> QED BY <2>4
<1>5. ASSUME NEW m \in 0 .. Len(c) - 1, m \in T PROVE m + 1 \in T
  <2>1. /\ f[m] \in Seq(Upto(m)) /\ OneToOne(f[m]) /\ \A i \in Upto(m) : Has(f[m], i)
        /\ m + 1 \in 0 .. Len(c) /\ (m + 1) - 1 = m /\ m + 1 # 0
    BY <1>0, <1>5
  <2>4. \A i \in Upto(m) : c[i].in # m + 1
    BY <1>5
  <2>5. /\ ImplsIn(c, a, m + 1) \in Seq(NamedIn(c, a, m + 1))
        /\ OneToOne(ImplsIn(c, a, m + 1))
        /\ \A i \in NamedIn(c, a, m + 1) : Has(ImplsIn(c, a, m + 1), i)
    BY ImplsInOnce
  <2>a. \A i \in ImplsNamed(c, a) : c[i].in \in 0 .. m + 1 <=> (c[i].in \in 0 .. m \/ c[i].in = m + 1)
    BY <1>5 DEF ImplsNamed
  <2>b. CASE ~(IsModule(c, m + 1) /\ ~InBody(c, m + 1))
    <3>1. f[m + 1] = f[m]
      BY <1>2, <2>1, <2>b
    <3>2. Upto(m + 1) = Upto(m)
      BY <2>a, <2>b, <2>1 DEF ImplsNamed
    <3>3. Good(f[m + 1], m + 1)
      <4> HIDE DEF Upto
      <4> QED BY <2>1, <3>1, <3>2
    <3> HIDE DEF Good
    <3> QED BY <3>3, <1>5
  <2>c. CASE IsModule(c, m + 1) /\ ~InBody(c, m + 1)
    <3>1. f[m + 1] = f[m] \o ImplsIn(c, a, m + 1)
      BY <1>2, <2>1, <2>c
    <3>2. Upto(m + 1) = Upto(m) \cup NamedIn(c, a, m + 1)
      BY <2>a, <2>c DEF NamedIn, ImplsNamed
    <3> HIDE DEF Upto
    <3>3. PICK s : s = f[m]
      OBVIOUS
    <3>4. PICK t : t = ImplsIn(c, a, m + 1)
      OBVIOUS
    <3>5. s \in Seq(Upto(m + 1)) /\ t \in Seq(Upto(m + 1))
      BY <2>1, <2>5, <3>2, <3>3, <3>4
    <3>6. \A n \in DOMAIN s, l \in DOMAIN t : s[n] # t[l]
      <4>1. \A n \in DOMAIN s : s[n] \in Upto(m)
        BY <2>1, <3>3
      <4>2. \A l \in DOMAIN t : c[t[l]].in = m + 1
        BY <2>5, <3>4 DEF NamedIn
      <4> QED BY <4>1, <4>2, <2>4
    <3>7. s \o t \in Seq(Upto(m + 1)) /\ OneToOne(s \o t)
      BY <2>1, <2>5, <3>3, <3>4, <3>5, <3>6, ConcatOneToOne
    <3>8. \A i : Has(s \o t, i) <=> Has(s, i) \/ Has(t, i)
      BY <3>5, ConcatHas
    <3>9. \A i \in Upto(m + 1) : Has(s \o t, i)
      BY <2>1, <2>5, <3>2, <3>3, <3>4, <3>8
    <3>10. Good(f[m + 1], m + 1)
      BY <3>1, <3>3, <3>4, <3>7, <3>9
    <3> HIDE DEF Good
    <3> QED BY <3>10, <1>5
  <2> QED BY <2>b, <2>c
<1>6. Good(f[Len(c)], Len(c))
  <2> HIDE DEF Good
  <2>1. \A n \in 0 .. Len(c) : n \in T
    <3> HIDE DEF T
    <3> QED BY <1>0, <1>4, <1>5, UpTo
  <2> QED BY <2>1, <1>0
<1>7. Upto(Len(c)) = ImplsNamed(c, a)
  BY DEF ImplsNamed
<1> HIDE DEF Upto
<1> QED BY <1>1, <1>6, <1>7

\* A body defers items of the crate.
LEMMA DeferredAreItems ==
  ASSUME NEW c, IsList(c), NEW owner, owner \in Items(c) => DefersItsOwn(c, owner)
  PROVE  /\ DeferredList(c, owner) \in Seq(Items(c)) /\ DeferredList(c, owner) \in Seq(Nat)
         /\ \A i : Has(DeferredList(c, owner), i) <=> i \in Deferred(c, owner)
         /\ Deferred(c, owner) \subseteq Items(c)
<1>1. PICK deferred : deferred = DeferredList(c, owner)
  OBVIOUS
<1>2. deferred \in Seq(Items(c))
  BY <1>1 DEF DeferredList, DefersItsOwn
<1>3. Items(c) \subseteq Nat
  BY DEF Items, IsList
<1>4. deferred \in Seq(Nat)
  BY <1>2, <1>3
<1> QED BY <1>1, <1>2, <1>4 DEF Has, Deferred, ToSet

\* Sets of items collected one after the other, each item once.
Collecting(f, c, sets, N) ==
  f = [n \in 0 .. N |->
        IF n = 0 THEN <<>> ELSE f[n - 1] \o Select(c, sets[n] \ ToSet(f[n - 1]))]

LEMMA CollectingExists ==
  ASSUME NEW c, IsList(c), NEW N \in Nat, NEW sets
  PROVE  \E f : Collecting(f, c, sets, N)
<1> DEFINE V == Seq(Nat)
           More(n, s) == Select(c, sets[n] \ ToSet(s))
           G == [p \in (1 .. N) \X V |-> p[2] \o More(p[1], p[2])]
<1>0. Len(c) \in Nat
  BY DEF IsList
<1>1. G \in [(1 .. N) \X V -> V] /\ <<>> \in V
  <2>1. \A n, s : More(n, s) \in V
    <3> TAKE n, s
    <3> DEFINE S == sets[n] \ ToSet(s)
    <3>1. S \cap (1 .. Len(c)) \subseteq Nat
      OBVIOUS
    <3> HIDE DEF S
    <3>2. Select(c, S) \in Seq(S \cap (1 .. Len(c)))
      BY <1>0, SelectOnce
    <3>3. Select(c, S) \in Seq(Nat)
      BY <3>1, <3>2
    <3> QED BY <3>3 DEF S
  <2>2. \A s \in V, t \in V : s \o t \in V
    OBVIOUS
  <2>3. <<>> \in V
    OBVIOUS
  <2> HIDE DEF V, More
  <2> QED BY <2>1, <2>2, <2>3
<1>2. \A n \in 1 .. N, s \in V : G[<<n, s>>] = s \o More(n, s)
  <2> HIDE DEF V, More
  <2> QED OBVIOUS
<1> HIDE DEF G, V
<1>3. PICK f \in [0 .. N -> V] : Follows(f, <<>>, G, N)
  BY <1>1, Recursion
<1>4. ASSUME NEW n \in 0 .. N
      PROVE  f[n] = IF n = 0 THEN <<>> ELSE f[n - 1] \o More(n, f[n - 1])
  <2> HIDE DEF More
  <2>1. CASE n = 0
    BY <1>3, <2>1 DEF Follows
  <2>2. CASE n # 0
    <3>1. n \in 1 .. N /\ n - 1 \in 0 .. N
      BY <2>2
    <3>2. f[n] = G[<<n, f[n - 1]>>] /\ f[n - 1] \in V
      BY <3>1, <1>3 DEF Follows
    <3> QED BY <2>2, <3>1, <3>2, <1>2
  <2> QED BY <2>1, <2>2
<1>5. f = [n \in 0 .. N |-> f[n]]
  BY <1>3
<1>6. f = [n \in 0 .. N |-> IF n = 0 THEN <<>> ELSE f[n - 1] \o More(n, f[n - 1])]
  BY <1>4, <1>5, Zenon
<1> QED BY <1>6 DEF Collecting

LEMMA CollectedOnce ==
  ASSUME NEW c, IsList(c), NEW N \in Nat, NEW sets, NEW X, X \subseteq Items(c),
         \A n \in 1 .. N : sets[n] \subseteq X,
         NEW f, Collecting(f, c, sets, N)
  PROVE  /\ f[N] \in Seq(X) /\ OneToOne(f[N])
         /\ \A j : Has(f[N], j) <=> \E n \in 1 .. N : j \in sets[n]
<1>0. Len(c) \in Nat
  BY DEF IsList
<1> DEFINE Upto(n) == {j \in X : \E i \in 1 .. n : j \in sets[i]}
           Good(s, n) == /\ s \in Seq(X) /\ OneToOne(s)
                         /\ \A j : Has(s, j) <=> j \in Upto(n)
           T == {n \in Nat : n <= N => Good(f[n], n)}
<1>3. \A n \in 0 .. N :
        f[n] = IF n = 0 THEN <<>> ELSE f[n - 1] \o Select(c, sets[n] \ ToSet(f[n - 1]))
  BY Zenon DEF Collecting
<1>4. 0 \in T
  <2>1. f[0] = <<>>
    BY <1>3, 0 \in 0 .. N
  <2>2. PICK none : none = <<>> /\ DOMAIN none = {} /\ none \in Seq(X)
    <3>1. DOMAIN <<>> = {}
      OBVIOUS
    <3>2. <<>> \in Seq(X)
      OBVIOUS
    <3> QED BY <3>1, <3>2, Zenon
  <2>3. Upto(0) = {}
    OBVIOUS
  <2>4. Good(none, 0)
    BY <2>2, <2>3 DEF OneToOne, Has
  <2> HIDE DEF Good
  <2> QED BY <2>1, <2>2, <2>4
<1>5. ASSUME NEW n \in 0 .. N - 1, n \in T PROVE n + 1 \in T
  <2>1. Good(f[n], n) /\ n + 1 \in 0 .. N /\ (n + 1) - 1 = n /\ n + 1 # 0 /\ n + 1 \in 1 .. N
    <3> HIDE DEF Good
    <3> QED BY <1>5
  <2>2. PICK s : s = f[n]
    OBVIOUS
  <2>3. PICK S : S = sets[n + 1] \ ToSet(s)
    OBVIOUS
  <2>4. f[n + 1] = s \o Select(c, S)
    BY <1>3, <2>1, <2>2, <2>3
  <2>5. PICK t : t = Select(c, S)
    OBVIOUS
  <2>6. /\ t \in Seq(S \cap (1 .. Len(c))) /\ OneToOne(t)
        /\ \A j \in S \cap (1 .. Len(c)) : Has(t, j)
    BY <1>0, <2>5, SelectOnce
  <2>7. S \cap (1 .. Len(c)) = S /\ S \subseteq X
    BY <2>1, <2>3 DEF Items, IsList
  <2>8. \A i \in DOMAIN s, j \in DOMAIN t : s[i] # t[j]
    BY <2>3, <2>6 DEF ToSet
  <2>9. s \in Seq(X) /\ OneToOne(s) /\ \A j : Has(s, j) <=> j \in Upto(n)
    BY <2>1, <2>2
  <2>10. t \in Seq(X)
    BY <2>6, <2>7
  <2>11. s \o t \in Seq(X) /\ OneToOne(s \o t)
    BY <2>6, <2>8, <2>9, <2>10, ConcatOneToOne
  <2>12. \A j : Has(s \o t, j) <=> Has(s, j) \/ Has(t, j)
    BY <2>9, <2>10, ConcatHas
  <2>13. \A j : Has(t, j) <=> j \in S
    BY <2>6, <2>7 DEF Has
  <2>14. \A j : j \in ToSet(s) <=> Has(s, j)
    BY DEF ToSet, Has
  <2>15. \A j : Has(s \o t, j) <=> j \in Upto(n) \/ j \in sets[n + 1]
    BY <2>3, <2>9, <2>12, <2>13, <2>14
  <2>16. \A i : i \in 1 .. n + 1 <=> i \in 1 .. n \/ i = n + 1
    BY <1>5
  <2>17. \A j : j \in Upto(n + 1) <=> j \in Upto(n) \/ j \in sets[n + 1]
    BY <2>1, <2>16
  <2>18. Good(f[n + 1], n + 1) /\ n + 1 \in Nat
    <3>1. \A j : Has(s \o t, j) <=> j \in Upto(n + 1)
      BY <2>15, <2>17
    <3> HIDE DEF Upto
    <3> QED BY <2>4, <2>5, <2>11, <3>1, <1>5
  <2> HIDE DEF Good
  <2> QED BY <2>18
<1>6. Good(f[N], N)
  <2> HIDE DEF Good
  <2>2. \A n \in 0 .. N : n \in T
    <3> HIDE DEF T
    <3> QED BY <1>4, <1>5, UpTo
  <2> QED BY <2>2
<1>7. \A j : j \in Upto(N) <=> \E n \in 1 .. N : j \in sets[n]
  OBVIOUS
<1> HIDE DEF Upto
<1> QED BY <1>6, <1>7

ImplsOf(c, a) == {j \in Items(c) : c[j].k = "impl" /\ c[j].to = a}

ImplsNear(c, owner, a) == {j \in Items(c) : \E i \in Deferred(c, owner) : j \in ImplsAt(c, a, i)}

\* upTo of LocalImpls.
TakingLocalImpls(f, c, a, deferred) ==
  f = [n \in 0 .. Len(deferred) |->
        IF n = 0 THEN <<>>
        ELSE f[n - 1] \o Select(c, ImplsAt(c, a, deferred[n]) \ ToSet(f[n - 1]))]

\* The impls known to the items of a body are those of the type that are deferred
\* or next to a deferred type, each once.
LEMMA LocalImplsOnce ==
  ASSUME NEW c, IsList(c), NEW owner, NEW a, owner \in Items(c) => DefersItsOwn(c, owner)
  PROVE  /\ LocalImpls(c, owner, a) \in Seq(ImplsOf(c, a)) /\ OneToOne(LocalImpls(c, owner, a))
         /\ \A j : Has(LocalImpls(c, owner, a), j) <=> j \in ImplsNear(c, owner, a)
<1>1. PICK deferred : /\ deferred = DeferredList(c, owner) /\ deferred \in Seq(Nat)
                      /\ \A i : Has(deferred, i) <=> i \in Deferred(c, owner)
  BY DeferredAreItems
<1>2. PICK N : N = Len(deferred) /\ N \in Nat /\ DOMAIN deferred = 1 .. N
  BY <1>1
<1>3. PICK sets : sets = [n \in 1 .. N |-> ImplsAt(c, a, deferred[n])]
  OBVIOUS
<1>s. \A n \in 0 .. N : n # 0 => sets[n] = ImplsAt(c, a, deferred[n])
  BY <1>2, <1>3
<1>4. \E f : TakingLocalImpls(f, c, a, deferred)
  <2>1. PICK f : Collecting(f, c, sets, N)
    BY <1>2, CollectingExists
  <2>2. \A n \in 0 .. N :
          f[n] = IF n = 0 THEN <<>> ELSE f[n - 1] \o Select(c, sets[n] \ ToSet(f[n - 1]))
    BY <2>1, Zenon DEF Collecting
  <2>3. \A n \in 0 .. N :
          f[n] = IF n = 0 THEN <<>>
                 ELSE f[n - 1] \o Select(c, ImplsAt(c, a, deferred[n]) \ ToSet(f[n - 1]))
    BY <1>s, <2>2, Zenon
  <2>4. f = [n \in 0 .. N |-> f[n]]
    BY <2>1, Zenon DEF Collecting
  <2>5. TakingLocalImpls(f, c, a, deferred)
    BY <1>2, <2>3, <2>4, Zenon DEF TakingLocalImpls
  <2> QED BY <2>5
<1>5. PICK f : TakingLocalImpls(f, c, a, deferred) /\ LocalImpls(c, owner, a) = f[N]
  <2>1. \E f : TakingLocalImpls(f, c, a, DeferredList(c, owner))
    BY <1>1, <1>4
  <2>2. \E f : /\ TakingLocalImpls(f, c, a, DeferredList(c, owner))
               /\ LocalImpls(c, owner, a) = f[Len(DeferredList(c, owner))]
    BY <2>1, Zenon DEF LocalImpls, TakingLocalImpls
  <2> QED BY <1>1, <1>2, <2>2
<1>c. Collecting(f, c, sets, N)
  <2>2. \A n \in 0 .. N :
          f[n] = IF n = 0 THEN <<>>
                 ELSE f[n - 1] \o Select(c, ImplsAt(c, a, deferred[n]) \ ToSet(f[n - 1]))
    BY <1>2, <1>5, Zenon DEF TakingLocalImpls
  <2>3. \A n \in 0 .. N :
          f[n] = IF n = 0 THEN <<>> ELSE f[n - 1] \o Select(c, sets[n] \ ToSet(f[n - 1]))
    BY <1>s, <2>2, Zenon
  <2>4. f = [n \in 0 .. N |-> f[n]]
    BY <1>2, <1>5, Zenon DEF TakingLocalImpls
  <2> QED BY <2>3, <2>4, Zenon DEF Collecting
<1>6. PICK X : X = ImplsOf(c, a)
  OBVIOUS
<1>7. X \subseteq Items(c) /\ \A n \in 1 .. N : sets[n] \subseteq X
  BY <1>3, <1>6 DEF ImplsOf, ImplsAt
<1>8. /\ f[N] \in Seq(X) /\ OneToOne(f[N])
      /\ \A j : Has(f[N], j) <=> \E n \in 1 .. N : j \in sets[n]
  BY <1>2, <1>c, <1>7, CollectedOnce
<1>9. \A j : (\E n \in 1 .. N : j \in sets[n]) <=> j \in ImplsNear(c, owner, a)
  <2>1. \A n \in 1 .. N : sets[n] = ImplsAt(c, a, deferred[n])
    BY <1>3
  <2>2. \A i, j : j \in ImplsAt(c, a, i) => j \in Items(c)
    BY DEF ImplsAt
  <2>3. \A i : i \in Deferred(c, owner) <=> \E n \in 1 .. N : deferred[n] = i
    BY <1>1, <1>2 DEF Has
  <2> QED BY <2>1, <2>2, <2>3 DEF ImplsNear
<1> QED BY <1>5, <1>6, <1>8, <1>9

\* The blocks right below b that hold an item the body defers, each once.
BlocksBelow(c, owner, b) ==
  {j \in Items(c) : /\ c[j].k = "block" /\ c[j].in = b
                    /\ \E i \in Deferred(c, owner) : Contains(Around(c, i), j)}

\* upTo of DeferredBlocks.
TakingDeferredBlocks(f, c, b, deferred) ==
  f = [n \in 0 .. Len(deferred) |->
        IF n = 0 THEN <<>>
        ELSE f[n - 1] \o Select(c, BlocksAt(c, b, deferred[n]) \ ToSet(f[n - 1]))]

LEMMA DeferredBlocksOnce ==
  ASSUME NEW c, IsList(c), NEW owner, NEW b, owner \in Items(c) => DefersItsOwn(c, owner)
  PROVE  /\ DeferredBlocks(c, owner, b) \in Seq(BlocksBelow(c, owner, b))
         /\ OneToOne(DeferredBlocks(c, owner, b))
         /\ \A j \in BlocksBelow(c, owner, b) : Has(DeferredBlocks(c, owner, b), j)
<1>1. PICK deferred : /\ deferred = DeferredList(c, owner) /\ deferred \in Seq(Nat)
                      /\ \A i : Has(deferred, i) <=> i \in Deferred(c, owner)
  BY DeferredAreItems
<1>2. PICK N : N = Len(deferred) /\ N \in Nat /\ DOMAIN deferred = 1 .. N
  BY <1>1
<1>3. PICK sets : sets = [n \in 1 .. N |-> BlocksAt(c, b, deferred[n])]
  OBVIOUS
<1>s. \A n \in 0 .. N : n # 0 => sets[n] = BlocksAt(c, b, deferred[n])
  BY <1>2, <1>3
<1>4. \E f : TakingDeferredBlocks(f, c, b, deferred)
  <2>1. PICK f : Collecting(f, c, sets, N)
    BY <1>2, CollectingExists
  <2>2. \A n \in 0 .. N :
          f[n] = IF n = 0 THEN <<>> ELSE f[n - 1] \o Select(c, sets[n] \ ToSet(f[n - 1]))
    BY <2>1, Zenon DEF Collecting
  <2>3. \A n \in 0 .. N :
          f[n] = IF n = 0 THEN <<>>
                 ELSE f[n - 1] \o Select(c, BlocksAt(c, b, deferred[n]) \ ToSet(f[n - 1]))
    BY <1>s, <2>2, Zenon
  <2>4. f = [n \in 0 .. N |-> f[n]]
    BY <2>1, Zenon DEF Collecting
  <2>5. TakingDeferredBlocks(f, c, b, deferred)
    BY <1>2, <2>3, <2>4, Zenon DEF TakingDeferredBlocks
  <2> QED BY <2>5
<1>5. PICK f : TakingDeferredBlocks(f, c, b, deferred) /\ DeferredBlocks(c, owner, b) = f[N]
  <2>1. \E f : TakingDeferredBlocks(f, c, b, DeferredList(c, owner))
    BY <1>1, <1>4
  <2>2. \E f : /\ TakingDeferredBlocks(f, c, b, DeferredList(c, owner))
               /\ DeferredBlocks(c, owner, b) = f[Len(DeferredList(c, owner))]
    BY <2>1, Zenon DEF DeferredBlocks, TakingDeferredBlocks
  <2> QED BY <1>1, <1>2, <2>2
<1>c. Collecting(f, c, sets, N)
  <2>2. \A n \in 0 .. N :
          f[n] = IF n = 0 THEN <<>>
                 ELSE f[n - 1] \o Select(c, BlocksAt(c, b, deferred[n]) \ ToSet(f[n - 1]))
    BY <1>2, <1>5, Zenon DEF TakingDeferredBlocks
  <2>3. \A n \in 0 .. N :
          f[n] = IF n = 0 THEN <<>> ELSE f[n - 1] \o Select(c, sets[n] \ ToSet(f[n - 1]))
    BY <1>s, <2>2, Zenon
  <2>4. f = [n \in 0 .. N |-> f[n]]
    BY <1>2, <1>5, Zenon DEF TakingDeferredBlocks
  <2> QED BY <2>3, <2>4, Zenon DEF Collecting
<1>6. PICK X : X = BlocksBelow(c, owner, b)
  OBVIOUS
<1>7. \A n \in 1 .. N : sets[n] = BlocksAt(c, b, deferred[n])
  BY <1>3
<1>8. \A i : i \in Deferred(c, owner) <=> \E n \in 1 .. N : deferred[n] = i
  BY <1>1, <1>2 DEF Has
<1>9. X \subseteq Items(c) /\ \A n \in 1 .. N : sets[n] \subseteq X
  BY <1>6, <1>7, <1>8 DEF BlocksBelow, BlocksAt
<1>10. /\ f[N] \in Seq(X) /\ OneToOne(f[N])
       /\ \A j : Has(f[N], j) <=> \E n \in 1 .. N : j \in sets[n]
  BY <1>2, <1>c, <1>9, CollectedOnce
<1>11. \A j \in X : \E n \in 1 .. N : j \in sets[n]
  BY <1>6, <1>7, <1>8 DEF BlocksBelow, BlocksAt
<1> QED BY <1>5, <1>6, <1>10, <1>11

\* upTo of DeferredIn.
InBlock(c, b, i) == c[i].in = b /\ c[i].k # "impl"

Filtering(f, c, b, deferred) ==
  f = [n \in 0 .. Len(deferred) |->
        IF n = 0 THEN <<>>
        ELSE IF c[deferred[n]].in = b /\ c[deferred[n]].k # "impl"
             THEN Append(f[n - 1], deferred[n]) ELSE f[n - 1]]

LEMMA FilteringExists ==
  ASSUME NEW c, NEW b, NEW deferred \in Seq(Nat) PROVE \E f : Filtering(f, c, b, deferred)
<1> DEFINE V == Seq(Nat)
           N == Len(deferred)
           G == [p \in (1 .. N) \X V |->
                  IF InBlock(c, b, deferred[p[1]]) THEN Append(p[2], deferred[p[1]]) ELSE p[2]]
<1>0. N \in Nat
  OBVIOUS
<1>1. G \in [(1 .. N) \X V -> V] /\ <<>> \in V
  OBVIOUS
<1>2. \A n \in 1 .. N, s \in V :
        G[<<n, s>>] = IF InBlock(c, b, deferred[n]) THEN Append(s, deferred[n]) ELSE s
  OBVIOUS
<1> HIDE DEF G, V, N
<1>3. PICK f \in [0 .. N -> V] : Follows(f, <<>>, G, N)
  BY <1>0, <1>1, Recursion
<1>4. ASSUME NEW n \in 0 .. N
      PROVE  f[n] = IF n = 0 THEN <<>>
                    ELSE IF InBlock(c, b, deferred[n]) THEN Append(f[n - 1], deferred[n]) ELSE f[n - 1]
  <2>1. CASE n = 0
    BY <1>3, <2>1 DEF Follows
  <2>2. CASE n # 0
    <3>1. n \in 1 .. N /\ n - 1 \in 0 .. N
      BY <1>0, <2>2
    <3>2. f[n] = G[<<n, f[n - 1]>>] /\ f[n - 1] \in V
      BY <3>1, <1>3 DEF Follows
    <3> QED BY <2>2, <3>1, <3>2, <1>2
  <2> QED BY <2>1, <2>2
<1>5. f = [n \in 0 .. N |-> f[n]]
  BY <1>3
<1>6. f = [n \in 0 .. N |->
            IF n = 0 THEN <<>>
            ELSE IF InBlock(c, b, deferred[n]) THEN Append(f[n - 1], deferred[n]) ELSE f[n - 1]]
  BY <1>4, <1>5, Zenon
<1> QED BY <1>6 DEF Filtering, N, InBlock

\* The list comes to the items of a block once each, in their order.
OnceIn(c, b, deferred) ==
  \A n, m \in DOMAIN deferred :
    n < m /\ InBlock(c, b, deferred[n]) /\ InBlock(c, b, deferred[m]) => deferred[n] < deferred[m]

ItemsIn(c, owner, b) == {i \in Deferred(c, owner) : c[i].in = b /\ c[i].k # "impl"}

\* The items of a block are those deferred, in the order of declaration if the
\* list comes to them so.
LEMMA DeferredInOnce ==
  ASSUME NEW c, IsList(c), NEW owner, NEW b, owner \in Items(c) => DefersItsOwn(c, owner)
  PROVE  /\ DeferredIn(c, owner, b) \in Seq(ItemsIn(c, owner, b))
         /\ \A i \in ItemsIn(c, owner, b) : Has(DeferredIn(c, owner, b), i)
         /\ OnceIn(c, b, DeferredList(c, owner)) =>
              OneToOne(DeferredIn(c, owner, b)) /\ Increasing(DeferredIn(c, owner, b))
<1>1. PICK deferred : /\ deferred = DeferredList(c, owner) /\ deferred \in Seq(Nat)
                      /\ \A i : Has(deferred, i) <=> i \in Deferred(c, owner)
  BY DeferredAreItems
<1>2. PICK N : N = Len(deferred) /\ N \in Nat /\ DOMAIN deferred = 1 .. N
  BY <1>1
<1>3. PICK f : Filtering(f, c, b, deferred) /\ DeferredIn(c, owner, b) = f[N]
  <2>1. \E f : Filtering(f, c, b, deferred)
    BY <1>1, FilteringExists
  <2> QED BY <1>1, <1>2, <2>1, Zenon DEF DeferredIn, Filtering
<1> DEFINE X == ItemsIn(c, owner, b)
           Good(s, n) == /\ s \in Seq(X)
                         /\ \A i : Has(s, i) <=> \E k \in 1 .. n : deferred[k] = i /\ InBlock(c, b, i)
                         /\ OnceIn(c, b, deferred) => Increasing(s)
           T == {n \in Nat : n <= N => Good(f[n], n)}
<1>4. \A n \in 0 .. N :
        f[n] = IF n = 0 THEN <<>>
               ELSE IF InBlock(c, b, deferred[n]) THEN Append(f[n - 1], deferred[n]) ELSE f[n - 1]
  BY <1>2, <1>3, Zenon DEF Filtering, InBlock
<1>x. \A i : i \in X <=> i \in Deferred(c, owner) /\ InBlock(c, b, i)
  BY DEF ItemsIn, InBlock
<1> HIDE DEF X
<1>5. 0 \in T
  <2>1. f[0] = <<>>
    BY <1>4, <1>2, 0 \in 0 .. N
  <2>2. PICK none : none = <<>> /\ DOMAIN none = {} /\ none \in Seq(X)
    <3>1. DOMAIN <<>> = {}
      OBVIOUS
    <3>2. <<>> \in Seq(X)
      OBVIOUS
    <3> QED BY <3>1, <3>2, Zenon
  <2>3. ~\E k \in 1 .. 0 : TRUE
    OBVIOUS
  <2>4. Good(none, 0)
    BY <2>2, <2>3 DEF Increasing, Has
  <2> HIDE DEF Good
  <2> QED BY <2>1, <2>2, <2>4
<1>6. ASSUME NEW n \in 0 .. N - 1, n \in T PROVE n + 1 \in T
  <2>1. Good(f[n], n) /\ n + 1 \in 0 .. N /\ (n + 1) - 1 = n /\ n + 1 # 0 /\ n + 1 \in 1 .. N /\ n + 1 \in Nat
    <3> HIDE DEF Good
    <3> QED BY <1>2, <1>6
  <2>2. PICK s, x : s = f[n] /\ x = deferred[n + 1]
    OBVIOUS
  <2>3. f[n + 1] = IF InBlock(c, b, x) THEN Append(s, x) ELSE s
    BY <1>4, <2>1, <2>2
  <2>4. \A k : k \in 1 .. n + 1 <=> k \in 1 .. n \/ k = n + 1
    BY <1>6
  <2>5. /\ s \in Seq(X) /\ (OnceIn(c, b, deferred) => Increasing(s))
        /\ \A i : Has(s, i) <=> \E k \in 1 .. n : deferred[k] = i /\ InBlock(c, b, i)
    BY <2>1, <2>2
  <2>6. CASE ~InBlock(c, b, x)
    <3>1. \A i : Has(s, i) <=> \E k \in 1 .. n + 1 : deferred[k] = i /\ InBlock(c, b, i)
      BY <2>2, <2>4, <2>5, <2>6
    <3>2. Good(s, n + 1)
      BY <2>5, <3>1
    <3> HIDE DEF Good
    <3> QED BY <2>1, <2>3, <2>6, <3>2
  <2>7. CASE InBlock(c, b, x)
    <3>1. x \in X
      BY <1>1, <1>2, <1>x, <2>1, <2>2, <2>7 DEF Has
    <3>2. PICK t : t = Append(s, x)
      OBVIOUS
    <3>3. /\ t \in Seq(X) /\ Len(s) \in Nat /\ DOMAIN s = 1 .. Len(s) /\ DOMAIN t = 1 .. Len(s) + 1
          /\ \A k \in 1 .. Len(s) : t[k] = s[k]
          /\ t[Len(s) + 1] = x
      BY <2>5, <3>1, <3>2
    <3>4. \A i : Has(t, i) <=> Has(s, i) \/ i = x
      BY <2>5, <3>1, <3>2, AppendHas
    <3>5. \A i : Has(t, i) <=> \E k \in 1 .. n + 1 : deferred[k] = i /\ InBlock(c, b, i)
      BY <2>2, <2>4, <2>5, <2>7, <3>4
    <3>6. ASSUME OnceIn(c, b, deferred), NEW k \in DOMAIN t, NEW m \in DOMAIN t, k < m
          PROVE  t[k] < t[m]
      <4>1. CASE m = Len(s) + 1
        <5>1. k \in 1 .. Len(s) /\ t[k] = s[k] /\ t[m] = x
          BY <3>3, <3>6, <4>1
        <5>2. Has(s, t[k])
          BY <3>3, <5>1 DEF Has
        <5>3. PICK l \in 1 .. n : deferred[l] = t[k] /\ InBlock(c, b, t[k])
          BY <2>5, <5>2
        <5>4. l < n + 1 /\ l \in DOMAIN deferred /\ n + 1 \in DOMAIN deferred
          BY <1>2, <1>6, <2>1
        <5> QED BY <2>2, <2>7, <3>6, <5>1, <5>3, <5>4 DEF OnceIn
      <4>2. CASE m # Len(s) + 1
        <5>1. k \in DOMAIN s /\ m \in DOMAIN s /\ t[k] = s[k] /\ t[m] = s[m]
          BY <3>3, <3>6, <4>2
        <5> QED BY <2>5, <3>6, <5>1 DEF Increasing
      <4> QED BY <4>1, <4>2
    <3>7. Good(t, n + 1)
      BY <3>3, <3>5, <3>6 DEF Increasing
    <3> HIDE DEF Good
    <3> QED BY <2>1, <2>3, <2>7, <3>2, <3>7
  <2> QED BY <2>6, <2>7
<1>7. Good(f[N], N)
  <2> HIDE DEF Good
  <2>1. \A n \in 0 .. N : n \in T
    <3> HIDE DEF T
    <3> QED BY <1>2, <1>5, <1>6, UpTo
  <2> QED BY <1>2, <2>1
<1>8. PICK s : s = DeferredIn(c, owner, b)
  OBVIOUS
<1>9. Good(s, N)
  <2> HIDE DEF Good
  <2> QED BY <1>3, <1>7, <1>8
<1>10. \A i \in X : Has(s, i)
  BY <1>1, <1>2, <1>9, <1>x DEF Has
<1>11. ASSUME Increasing(s) PROVE OneToOne(s)
  <2>1. X \subseteq Nat
    BY <1>x, DeferredAreItems DEF Items, IsList
  <2>2. \A n \in DOMAIN s : s[n] \in Nat /\ n \in Nat
    <3>1. s \in Seq(X)
      BY <1>9
    <3>2. DOMAIN s = 1 .. Len(s) /\ Len(s) \in Nat /\ \A n \in DOMAIN s : s[n] \in X
      BY <3>1
    <3>3. \A i \in X : i \in Nat
      BY <2>1
    <3> QED BY <3>2, <3>3
  <2>3. \A n, m \in DOMAIN s : n < m => s[n] < s[m]
    BY <1>11 DEF Increasing
  <2> QED BY <2>2, <2>3 DEF OneToOne
<1>12. s \in Seq(X) /\ (OnceIn(c, b, deferred) => Increasing(s))
  BY <1>9
<1> HIDE DEF Good
<1> QED BY <1>1, <1>8, <1>10, <1>11, <1>12 DEF X

--------------------------------------------------------------------------------
(* The operations of the buffer. *)

\* Anywhere in a line, d deep once the pending marks are written.
InLine(c, d) == c \in Code /\ Kept(c) /\ c.indent = d
\* At the start of a line, d deep.
AtStart(c, d) == c \in Code /\ Settled(c, d)

LEMMA AtStartInLine == ASSUME NEW d \in Int, NEW c, AtStart(c, d) PROVE InLine(c, d)
BY DEF AtStart, InLine, Settled, Kept, Code

LEMMA TextInLine == ASSUME NEW d \in Int, NEW c, InLine(c, d) PROVE InLine(Text(c), d)
BY DEF InLine, Kept, Code, Text

LEMMA MarkInLine ==
  ASSUME NEW d \in Int, NEW by \in Int, NEW c, InLine(c, d)
  PROVE  InLine(Mark(c, by), d + by)
<1>1. /\ c.level \in Int /\ c.indent \in Int /\ c.pending \in Int /\ c.indent = c.level + c.pending
      /\ c.indent = d /\ c \in Code
  BY DEF InLine, Kept, Code
<1>2. PICK level \in Int, indent \in Int, pending \in Int :
        level = c.level + by /\ indent = c.indent + by /\ pending = c.pending + by
  BY <1>1
<1>. indent = d + by /\ indent = level + c.pending /\ indent = c.level + pending
  BY <1>1, <1>2
<1>3. CASE AtLineStart(c)
  <2>1. Mark(c, by) = [c EXCEPT !.tail = "mark", !.level = level, !.indent = indent]
    BY <1>2, <1>3 DEF Mark
  <2>2. /\ Mark(c, by) \in Code /\ Mark(c, by).level = level
        /\ Mark(c, by).indent = indent /\ Mark(c, by).pending = c.pending
    BY <2>1, <1>1 DEF Code
  <2> QED BY <2>2 DEF InLine, Kept
<1>4. CASE ~AtLineStart(c)
  <2>1. Mark(c, by) = [c EXCEPT !.pending = pending, !.indent = indent]
    BY <1>2, <1>4 DEF Mark
  <2>2. /\ Mark(c, by) \in Code /\ Mark(c, by).level = c.level
        /\ Mark(c, by).indent = indent /\ Mark(c, by).pending = pending
    BY <2>1, <1>1 DEF Code
  <2> QED BY <2>2 DEF InLine, Kept
<1> QED BY <1>3, <1>4

LEMMA MarkAtStart ==
  ASSUME NEW d \in Int, NEW by \in Int, NEW c, AtStart(c, d)
  PROVE  AtStart(Mark(c, by), d + by)
<1>1. /\ c.level = d /\ c.indent = d /\ c.pending = 0 /\ AtLineStart(c) /\ c \in Code
  BY DEF AtStart, Settled
<1>2. PICK deeper \in Int : deeper = d + by
  OBVIOUS
<1>3. Mark(c, by) = [c EXCEPT !.tail = "mark", !.level = deeper, !.indent = deeper]
  BY <1>1, <1>2 DEF Mark
<1>4. /\ Mark(c, by) \in Code /\ Mark(c, by).tail = "mark" /\ Mark(c, by).level = deeper
      /\ Mark(c, by).indent = deeper /\ Mark(c, by).pending = c.pending
  BY <1>1, <1>3 DEF Code
<1> QED BY <1>1, <1>2, <1>4 DEF AtStart, Settled, AtLineStart

LEMMA CappedLines ==
  \A n \in 0 .. MaxLines, m \in 0 .. MaxLines : Capped(n + m) \in 0 .. MaxLines /\ 1 \in 0 .. MaxLines
BY DEF Capped, MaxLines

\* A newline settles whatever is pending.
LEMMA NewlineSettles == ASSUME NEW d \in Int, NEW c, InLine(c, d) PROVE AtStart(Newline(c), d)
<1>1. /\ c \in Code /\ c.level \in Int /\ c.indent \in Int /\ c.pending \in Int
      /\ c.indent = c.level + c.pending /\ c.indent = d
  BY DEF InLine, Kept, Code
<1>2. CASE c.pending = 0
  <2>1. PICK lines \in 0 .. MaxLines : lines = Capped(c.lines + 1)
    BY <1>1, CappedLines DEF Code
  <2>2. Newline(c) = [c EXCEPT !.tail = AfterNewline(c.tail), !.lines = lines]
    BY <1>1, <1>2, <2>1 DEF Newline, RawNewline, Code
  <2>3. Newline(c) \in Code /\ AtLineStart(Newline(c))
    BY <1>1, <2>2 DEF AfterNewline, AtLineStart, Code
  <2>4. /\ Newline(c).level = c.level /\ Newline(c).indent = c.indent
        /\ Newline(c).pending = c.pending
    BY <1>1, <2>2 DEF Code
  <2> QED BY <1>1, <1>2, <2>3, <2>4 DEF AtStart, Settled
<1>3. CASE c.pending # 0
  <2>1. PICK level \in Int, none \in Int, lines \in 0 .. MaxLines :
          level = c.level + c.pending /\ none = 0 /\ lines = Capped(c.lines + 1)
    BY <1>1, CappedLines DEF Code
  <2>2. Newline(c) = [c EXCEPT !.tail = "mark", !.lines = lines, !.level = level, !.pending = none]
    BY <1>3, <2>1 DEF Newline
  <2>3. /\ Newline(c) \in Code /\ Newline(c).tail = "mark" /\ Newline(c).level = level
        /\ Newline(c).indent = c.indent /\ Newline(c).pending = none
    BY <1>1, <2>2 DEF Code
  <2> QED BY <1>1, <2>1, <2>3 DEF AtStart, Settled, AtLineStart
<1> QED BY <1>2, <1>3

\* Formatted writes do not, so they need a line on which nothing is pending.
LEMMA RawWlnAtStart == ASSUME NEW d \in Int, NEW c, AtStart(c, d) PROVE AtStart(RawWln(c), d)
<1>1. /\ c.level = d /\ c.indent = d /\ c.pending = 0 /\ c \in Code
  BY DEF AtStart, Settled
<1>2. PICK lines \in 0 .. MaxLines : lines = Capped(c.lines + 1)
  BY <1>1, CappedLines DEF Code
<1>3. RawWln(c) = [c EXCEPT !.tail = "line", !.lines = lines]
  BY <1>1, <1>2 DEF RawWln, Text, RawNewline, AfterNewline, Code
<1>4. RawWln(c) \in Code /\ AtLineStart(RawWln(c))
  BY <1>1, <1>3 DEF AtLineStart, Code
<1>5. RawWln(c).level = d /\ RawWln(c).indent = d /\ RawWln(c).pending = 0
  BY <1>1, <1>3 DEF Code
<1> QED BY <1>4, <1>5 DEF AtStart, Settled

LEMMA WlnSettles == ASSUME NEW d \in Int, NEW c, InLine(c, d) PROVE AtStart(Wln(c), d)
BY TextInLine, NewlineSettles DEF Wln

LEMMA WlnAtStart == ASSUME NEW d \in Int, NEW c, AtStart(c, d) PROVE AtStart(Wln(c), d)
BY AtStartInLine, WlnSettles

LEMMA IndentAtStart == ASSUME NEW d \in Int, NEW c, AtStart(c, d) PROVE AtStart(Indent(c), d + 1)
BY MarkAtStart DEF Indent

LEMMA DedentAtStart == ASSUME NEW d \in Int, NEW c, AtStart(c, d) PROVE AtStart(Dedent(c), d - 1)
BY MarkAtStart, d + (-1) = d - 1 DEF Dedent

LEMMA BlankLineAtStart == ASSUME NEW d \in Int, NEW c, AtStart(c, d) PROVE AtStart(BlankLine(c), d)
BY AtStartInLine, NewlineSettles DEF BlankLine

LEMMA OpenBraceAtStart == ASSUME NEW d \in Int, NEW c, InLine(c, d) PROVE AtStart(OpenBrace(c), d + 1)
BY WlnSettles, IndentAtStart DEF OpenBrace

LEMMA CloseBraceAtStart == ASSUME NEW d \in Int, NEW c, AtStart(c, d) PROVE AtStart(CloseBrace(c), d - 1)
BY DedentAtStart, WlnAtStart DEF CloseBrace

\* A signature ends in the middle of a line, its indentation taken back.
LEMMA SignatureInLine ==
  ASSUME NEW d \in Int, NEW c, NEW where, AtStart(c, d)
  PROVE  InLine(Signature(c, where), d)
<1>1. InLine(Indent(Text(c)), d + 1)
  BY AtStartInLine, TextInLine, MarkInLine DEF Indent
<1>2. InLine(Text(Newline(Indent(Text(c)))), d + 1)
  BY <1>1, NewlineSettles, AtStartInLine, TextInLine
<1>3. \A x : InLine(x, d + 1) => InLine(Dedent(x), d)
  <2> SUFFICES ASSUME NEW x, InLine(x, d + 1) PROVE InLine(Dedent(x), d)
    OBVIOUS
  <2>1. InLine(Mark(x, -1), (d + 1) + (-1))
    BY MarkInLine
  <2> QED BY <2>1, (d + 1) + (-1) = d DEF Dedent
<1> QED BY <1>1, <1>2, <1>3 DEF Signature

\* A buffer of its own that is balanced leaves the output balanced.
LEMMA AppendAtStart ==
  ASSUME NEW d \in Int, NEW c, NEW inner, AtStart(c, d), AtStart(inner, 0)
  PROVE  AtStart(Append_(c, inner), d)
<1>1. /\ c \in Code /\ c.level = d /\ c.indent = d /\ c.pending = 0
      /\ inner.level = 0 /\ inner.tail # "empty" /\ AtLineStart(inner)
  BY DEF AtStart, Settled, AtLineStart
<1>2. PICK tail \in {"line", "blank", "mark"}, lines \in 0 .. MaxLines :
        tail = inner.tail /\ lines = Capped(c.lines + inner.lines)
  <2>1. inner \in Code
    BY DEF AtStart
  <2>2. Capped(c.lines + inner.lines) \in 0 .. MaxLines
    BY <1>1, <2>1, CappedLines DEF Code
  <2> QED BY <1>1, <2>2 DEF AtLineStart
<1>3. Append_(c, inner) = [c EXCEPT !.tail = tail, !.lines = lines, !.level = d]
  BY <1>1, <1>2, d + 0 = d DEF Append_
<1>4. /\ Append_(c, inner) \in Code /\ Append_(c, inner).tail = tail
      /\ Append_(c, inner).level = d /\ Append_(c, inner).indent = c.indent
      /\ Append_(c, inner).pending = c.pending
  BY <1>1, <1>3 DEF Code
<1> QED BY <1>1, <1>4 DEF AtStart, Settled, AtLineStart

LEMMA NewCodeInLine == InLine(NewCode, 0)
<1>1. 0 \in 0 .. MaxLines
  BY DEF MaxLines
<1> QED BY <1>1 DEF InLine, NewCode, Code, Kept

LEMMA CtorCodeAtStart == ASSUME NEW fields PROVE AtStart(CtorCode(fields), 0)
<1> DEFINE opened == Indent(Newline(Text(NewCode)))
<1>1. AtStart(opened, 1)
  BY NewCodeInLine, TextInLine, NewlineSettles, IndentAtStart, 0 + 1 = 1
<1>2. AtStart(Wln(opened), 1)
  BY <1>1, WlnAtStart
<1>3. \A x : AtStart(x, 1) => AtStart(Wln(Dedent(x)), 0)
  BY DedentAtStart, WlnAtStart, 1 - 1 = 0
<1> HIDE DEF opened
<1>4. CASE fields
  BY <1>4, <1>2, <1>3 DEF CtorCode, opened
<1>5. CASE ~fields
  BY <1>5, <1>1, <1>3 DEF CtorCode, opened
<1> QED BY <1>4, <1>5

--------------------------------------------------------------------------------
(* The stack of open classes. *)

StackOK == Len(stack) \in Nat \ {0} /\ \E S : stack \in Seq(S)
LayoutInv == StackOK /\ AtStart(out, Len(stack) - 1)

LEMMA ContinueStack ==
  ASSUME StackOK, NEW more, Continue(more)
  PROVE  StackOK' /\ Len(stack') = Len(stack)
<1>1. PICK S : stack \in Seq(S)
  BY DEF StackOK
<1> DEFINE top == [stack[Len(stack)] EXCEPT !.todo = more \o Tail(@)]
<1>2. stack' = [stack EXCEPT ![Len(stack)] = top]
  BY DEF Continue
<1>3. stack' \in Seq(S \cup {top}) /\ Len(stack') = Len(stack)
  <2> HIDE DEF top
  <2> QED BY <1>1, <1>2 DEF StackOK
<1> QED BY <1>3 DEF StackOK

LEMMA EnterStack ==
  ASSUME StackOK, NEW name, NEW todo, NEW blank, Enter(name, todo, blank)
  PROVE  StackOK' /\ Len(stack') = Len(stack) + 1
<1>1. PICK S : stack \in Seq(S)
  BY DEF StackOK
<1> DEFINE top == [stack[Len(stack)] EXCEPT !.todo = Tail(@)]
           new == Frame(Append(Here, name), todo, blank)
           below == [stack EXCEPT ![Len(stack)] = top]
<1>2. stack' = Append(below, new)
  BY DEF Enter
<1>3. below \in Seq(S \cup {top}) /\ Len(below) = Len(stack)
  <2> HIDE DEF top
  <2> QED BY <1>1 DEF StackOK
<1>4. stack' \in Seq(S \cup {top, new}) /\ Len(stack') = Len(stack) + 1
  <2> HIDE DEF top, new, below
  <2>1. below \in Seq(S \cup {top, new})
    BY <1>3
  <2> QED BY <2>1, <1>2, <1>3 DEF StackOK
<1> QED BY <1>4 DEF StackOK

\* The two ways a step that keeps the balance ends.
LEMMA Continues ==
  ASSUME LayoutInv, NEW more, Continue(more), AtStart(out', Len(stack) - 1)
  PROVE  LayoutInv'
BY ContinueStack DEF LayoutInv

LEMMA Enters ==
  ASSUME LayoutInv, NEW name, NEW todo, NEW blank, Enter(name, todo, blank),
         AtStart(out', (Len(stack) - 1) + 1)
  PROVE  LayoutInv'
<1>1. StackOK' /\ Len(stack') = Len(stack) + 1
  BY EnterStack DEF LayoutInv
<1>2. (Len(stack) - 1) + 1 = Len(stack') - 1
  BY <1>1 DEF LayoutInv, StackOK
<1> QED BY <1>1, <1>2 DEF LayoutInv

--------------------------------------------------------------------------------
(* The steps. *)

\* What LayoutInv says of the depth, as a number.
LEMMA Depth ==
  ASSUME LayoutInv
  PROVE  Len(stack) - 1 \in Int /\ AtStart(out, Len(stack) - 1)
BY DEF LayoutInv, StackOK

\* From here on the depth is a number of its own.
LEMMA ModuleLayout == ASSUME LayoutInv, EmitModule PROVE LayoutInv'
<1>. DEFINE d == Len(stack) - 1
<1>1. d \in Int /\ AtStart(out, d)
  BY Depth
<1>. HIDE DEF d
<1>2. CASE out' = out /\ Continue(Nothing)
  BY <1>1, <1>2, Continues DEF d
<1>3. CASE out' = Wln(Wln(out)) /\ Continue(Nothing)
  <2>1. AtStart(out', d)
    BY <1>1, <1>3, WlnAtStart
  <2> QED BY <2>1, <1>3, Continues DEF d
<1>4. CASE /\ out' = OpenBrace(Text(out))
           /\ \E name, todo : Enter(name, todo, FALSE)
  <2>1. AtStart(out', d + 1)
    BY <1>1, <1>4, AtStartInLine, TextInLine, OpenBraceAtStart
  <2> QED BY <2>1, <1>4, Enters DEF d
<1> QED BY <1>2, <1>3, <1>4 DEF EmitModule

LEMMA CloseLayout == ASSUME LayoutInv, CloseClass PROVE LayoutInv'
<1>. DEFINE d == Len(stack) - 1
<1>1. d \in Int /\ AtStart(out, d)
  BY Depth
<1>2. Len(stack) \in Nat /\ Len(stack) > 1 /\ stack' = SubSeq(stack, 1, Len(stack) - 1)
  BY DEF CloseClass, LayoutInv, StackOK
<1>3. PICK S : stack \in Seq(S)
  BY DEF LayoutInv, StackOK
<1>4. stack' \in Seq(S) /\ Len(stack') = d
  BY <1>2, <1>3
<1>5. StackOK'
  <2>0. \A n \in Nat : n > 1 => n - 1 \in Nat \ {0}
    OBVIOUS
  <2>1. d \in Nat \ {0}
    BY <1>2, <2>0
  <2>2. \E T : stack' \in Seq(T)
    BY <1>4
  <2> QED BY <2>1, <2>2, <1>4 DEF StackOK
<1>6. Len(stack') - 1 = d - 1
  BY <1>4
<1>. HIDE DEF d
<1>7. AtStart(out', d - 1)
  <2>1. AtStart(CloseBrace(out), d - 1) /\ d - 1 \in Int
    BY <1>1, CloseBraceAtStart
  <2>2. AtStart(BlankLine(CloseBrace(out)), d - 1)
    BY <2>1, BlankLineAtStart
  <2>3. out' = BlankLine(CloseBrace(out)) \/ out' = CloseBrace(out)
    BY DEF CloseClass
  <2> QED BY <2>1, <2>2, <2>3
<1> QED BY <1>5, <1>6, <1>7 DEF LayoutInv

LEMMA BlankLayout == ASSUME LayoutInv, EmitBlank PROVE LayoutInv'
<1>1. AtStart(out', Len(stack) - 1)
  BY Depth, BlankLineAtStart DEF EmitBlank
<1> QED BY <1>1, Continues DEF EmitBlank

LEMMA BlockLayout == ASSUME LayoutInv, EmitBlock PROVE LayoutInv'
<1>1. AtStart(out', (Len(stack) - 1) + 1)
  BY Depth, WlnAtStart, IndentAtStart DEF EmitBlock
<1>2. \E name, todo : Enter(name, todo, FALSE)
  BY DEF EmitBlock
<1> QED BY <1>1, <1>2, Enters

LEMMA FunctionLayout == ASSUME LayoutInv, EmitFunction PROVE LayoutInv'
<1>. DEFINE d == Len(stack) - 1
            before == IF ThisJob.place = "free" THEN Wln(out) ELSE out
            signature == Signature(RawWln(before), crate[ThisJob.i].where)
<1>1. d \in Int /\ AtStart(out, d)
  BY Depth
<1>2. /\ \E more : Continue(more)
      /\ \/ out' = before
         \/ out' = Wln(signature)
         \/ out' = CloseBrace(Wln(OpenBrace(Newline(signature))))
  BY DEF EmitFunction
<1>. HIDE DEF d
<1>3. AtStart(before, d)
  BY <1>1, WlnAtStart
<1>. HIDE DEF before
<1>4. InLine(signature, d)
  BY <1>1, <1>3, RawWlnAtStart, SignatureInLine
<1>. HIDE DEF signature
<1>5. AtStart(Wln(signature), d)
  BY <1>1, <1>4, WlnSettles
<1>6. AtStart(CloseBrace(Wln(OpenBrace(Newline(signature)))), d)
  <2>1. AtStart(Newline(signature), d)
    BY <1>1, <1>4, NewlineSettles
  <2>2. AtStart(OpenBrace(Newline(signature)), d + 1)
    BY <1>1, <2>1, AtStartInLine, OpenBraceAtStart
  <2>3. d + 1 \in Int /\ (d + 1) - 1 = d
    BY <1>1
  <2>4. AtStart(Wln(OpenBrace(Newline(signature))), d + 1)
    BY <2>2, <2>3, WlnAtStart
  <2> QED BY <2>3, <2>4, CloseBraceAtStart
<1>7. AtStart(out', d)
  BY <1>2, <1>3, <1>5, <1>6
<1> QED BY <1>2, <1>7, Continues DEF d

LEMMA FieldLayout == ASSUME LayoutInv, EmitField PROVE LayoutInv'
<1>1. AtStart(out', Len(stack) - 1)
  BY Depth, WlnAtStart DEF EmitField
<1>2. \E more : Continue(more)
  BY DEF EmitField
<1> QED BY <1>1, <1>2, Continues

LEMMA TraitLayout == ASSUME LayoutInv, EmitTrait PROVE LayoutInv'
<1>. DEFINE d == Len(stack) - 1
            header == Indent(RawNewline(Text(Wln(out))))
<1>1. d \in Int /\ d + 1 \in Int /\ (d + 1) - 1 = d /\ AtStart(out, d)
  BY Depth
<1>2. /\ \E name, todo : Enter(name, todo, TRUE)
      /\ out' = OpenBrace(Dedent(header)) \/ out' = OpenBrace(Dedent(Wln(header)))
  BY DEF EmitTrait
<1>. HIDE DEF d
<1>3. AtStart(header, d + 1)
  BY <1>1, WlnAtStart, RawWlnAtStart, IndentAtStart DEF RawWln
<1>. HIDE DEF header
<1>4. AtStart(Dedent(header), d) /\ AtStart(Dedent(Wln(header)), d)
  BY <1>1, <1>3, WlnAtStart, DedentAtStart
<1>5. AtStart(out', d + 1)
  BY <1>1, <1>2, <1>4, AtStartInLine, OpenBraceAtStart
<1> QED BY <1>2, <1>5, Enters DEF d

LEMMA SlotLayout == ASSUME LayoutInv, EmitSlot PROVE LayoutInv'
<1>. DEFINE d == Len(stack) - 1
<1>1. d \in Int /\ AtStart(out, d)
  BY Depth
<1>2. /\ Continue(Nothing)
      /\ out' = Wln(Signature(out, crate[ThisJob.i].where)) \/ out' = Wln(out)
  BY DEF EmitSlot
<1>. HIDE DEF d
<1>3. AtStart(out', d)
  BY <1>1, <1>2, SignatureInLine, WlnSettles, WlnAtStart
<1> QED BY <1>2, <1>3, Continues DEF d

LEMMA StaticsLayout == ASSUME LayoutInv, EmitStaticsInterface PROVE LayoutInv'
<1>1. AtStart(out', (Len(stack) - 1) + 1)
  BY Depth, AtStartInLine, TextInLine, OpenBraceAtStart DEF EmitStaticsInterface
<1>2. \E name, todo : Enter(name, todo, FALSE)
  BY DEF EmitStaticsInterface
<1> QED BY <1>1, <1>2, Enters

LEMMA DefaultsLayout == ASSUME LayoutInv, EmitDefaults PROVE LayoutInv'
<1>1. AtStart(out', (Len(stack) - 1) + 1)
  BY Depth, WlnAtStart, AtStartInLine, OpenBraceAtStart DEF EmitDefaults
<1>2. \E name, todo : Enter(name, todo, FALSE)
  BY DEF EmitDefaults
<1> QED BY <1>1, <1>2, Enters

LEMMA AdtLayout == ASSUME LayoutInv, EmitAdt PROVE LayoutInv'
<1>. DEFINE d == Len(stack) - 1
            Constrained(c) == Dedent(IF crate[ThisJob.i].where THEN Wln(Indent(c)) ELSE Indent(c))
<1>1. d \in Int /\ d + 1 \in Int /\ (d + 1) - 1 = d /\ AtStart(out, d)
  BY Depth
<1>2. \/ Continue(Nothing) /\ out' = Wln(out)
      \/ Continue(Nothing) /\ out' = BlankLine(Wln(Wln(out)))
      \/ Continue(Nothing) /\ out' = out
      \/ /\ \E name, todo : Enter(name, todo, TRUE)
         /\ out' = OpenBrace(Constrained(Wln(out)))
      \/ /\ \E name, todo : Enter(name, todo, TRUE)
         /\ out' = BlankLine(Wln(OpenBrace(Constrained(Wln(Wln(out))))))
  BY DEF EmitAdt
<1>. HIDE DEF d
<1>3. AtStart(Wln(out), d) /\ AtStart(Wln(Wln(out)), d)
  BY <1>1, WlnAtStart
<1>4. AtStart(BlankLine(Wln(Wln(out))), d)
  BY <1>1, <1>3, BlankLineAtStart
<1>5. ASSUME NEW c, AtStart(c, d) PROVE AtStart(OpenBrace(Constrained(c)), d + 1)
  <2>1. AtStart(Indent(c), d + 1) /\ AtStart(Wln(Indent(c)), d + 1)
    BY <1>1, <1>5, IndentAtStart, WlnAtStart
  <2>2. AtStart(Constrained(c), d)
    BY <1>1, <2>1, DedentAtStart
  <2> QED BY <1>1, <2>2, AtStartInLine, OpenBraceAtStart
<1>. HIDE DEF Constrained
<1>6. AtStart(BlankLine(Wln(OpenBrace(Constrained(Wln(Wln(out)))))), d + 1)
  BY <1>1, <1>3, <1>5, WlnAtStart, BlankLineAtStart
<1>7. CASE Continue(Nothing) /\ AtStart(out', d)
  BY <1>7, Continues DEF d
<1>8. CASE (\E name, todo : Enter(name, todo, TRUE)) /\ AtStart(out', d + 1)
  BY <1>8, Enters DEF d
<1> QED BY <1>1, <1>2, <1>3, <1>4, <1>5, <1>6, <1>7, <1>8

LEMMA VariantLayout == ASSUME LayoutInv, EmitVariant PROVE LayoutInv'
<1>1. AtStart(out', (Len(stack) - 1) + 1)
  BY Depth, WlnAtStart, AtStartInLine, OpenBraceAtStart DEF EmitVariant
<1>2. \E name, todo : Enter(name, todo, TRUE)
  BY DEF EmitVariant
<1> QED BY <1>1, <1>2, Enters

LEMMA ConstructableLayout == ASSUME LayoutInv, EmitConstructable PROVE LayoutInv'
<1>. DEFINE d == Len(stack) - 1
<1>1. d \in Int /\ AtStart(out, d)
  BY Depth
<1>2. PICK after, some :
        /\ Continue(Nothing)
        /\ after = Wln(out) \/ after = out
        /\ \/ out' = after
           \/ out' = Append_(BlankLine(after), CtorCode(some))
           \/ out' = Append_(after, CtorCode(some))
           \/ out' = Wln(Wln(after))
  BY DEF EmitConstructable
<1>. HIDE DEF d
<1>3. AtStart(after, d)
  BY <1>1, <1>2, WlnAtStart
<1>4. AtStart(BlankLine(after), d) /\ AtStart(Wln(Wln(after)), d)
  BY <1>1, <1>3, BlankLineAtStart, WlnAtStart
<1>5. AtStart(out', d)
  BY <1>1, <1>2, <1>3, <1>4, CtorCodeAtStart, AppendAtStart
<1> QED BY <1>2, <1>5, Continues DEF d

LEMMA ImplItemsLayout == ASSUME LayoutInv, EmitImpl PROVE LayoutInv'
<1>1. out' = out /\ \E more : Continue(more)
  BY DEF EmitImpl
<1> QED BY <1>1, Depth, Continues

LEMMA WrapperLayout == ASSUME LayoutInv, EmitWrapper PROVE LayoutInv'
<1>. DEFINE d == Len(stack) - 1
            signature == Signature(out, crate[ThisJob.i].where)
<1>1. d \in Int /\ d + 1 \in Int /\ (d + 1) - 1 = d /\ AtStart(out, d)
  BY Depth
<1>2. Continue(Nothing) /\ out' = Dedent(Wln(Indent(Newline(signature))))
  BY DEF EmitWrapper
<1>. HIDE DEF d
<1>3. InLine(signature, d)
  BY <1>1, SignatureInLine
<1>. HIDE DEF signature
<1>4. AtStart(Indent(Newline(signature)), d + 1)
  BY <1>1, <1>3, NewlineSettles, IndentAtStart
<1>5. AtStart(out', d)
  BY <1>1, <1>2, <1>4, WlnAtStart, DedentAtStart
<1> QED BY <1>2, <1>5, Continues DEF d

LEMMA OperatorsLayout == ASSUME LayoutInv, EmitOperators PROVE LayoutInv'
<1>1. AtStart(out', Len(stack) - 1)
  BY Depth, WlnAtStart DEF EmitOperators
<1> QED BY <1>1, Continues DEF EmitOperators

LEMMA StaticsStructLayout == ASSUME LayoutInv, EmitStaticsStruct PROVE LayoutInv'
<1>1. AtStart(out', (Len(stack) - 1) + 1)
  BY Depth, WlnAtStart, IndentAtStart DEF EmitStaticsStruct
<1>2. \E name, todo : Enter(name, todo, FALSE)
  BY DEF EmitStaticsStruct
<1> QED BY <1>1, <1>2, Enters

--------------------------------------------------------------------------------
\* The header of the file leaves the output balanced, with no class open.
LEMMA LayoutInit == CrateInit => LayoutInv
<1> SUFFICES ASSUME CrateInit PROVE LayoutInv
  OBVIOUS
<1>. DEFINE bottom == Frame(<<>>, <<Job("module", 0)>>, FALSE)
<1>1. stack = <<bottom>>
  BY DEF CrateInit
<1>. HIDE DEF bottom
<1>2. stack \in Seq({bottom}) /\ Len(stack) = 1
  BY <1>1
<1>3. AtStart(Header, 0)
  BY NewCodeInLine, WlnSettles, WlnAtStart, BlankLineAtStart DEF Header
<1>4. StackOK /\ Len(stack) - 1 = 0
  BY <1>2 DEF StackOK
<1>5. out = Header
  BY DEF CrateInit
<1> QED BY <1>3, <1>4, <1>5 DEF LayoutInv

LEMMA LayoutStep == LayoutInv /\ [CrateNext]_cvars => LayoutInv'
<1> SUFFICES ASSUME LayoutInv, [CrateNext]_cvars PROVE LayoutInv'
  OBVIOUS
<1>1. CASE UNCHANGED cvars
  BY <1>1 DEF cvars, LayoutInv, StackOK
<1>2. CASE CrateNext
  BY <1>2, ModuleLayout, BlockLayout, BlankLayout, CloseLayout, FunctionLayout, FieldLayout, TraitLayout,
     SlotLayout, StaticsLayout, DefaultsLayout, AdtLayout, VariantLayout, ConstructableLayout, ImplItemsLayout,
     WrapperLayout, OperatorsLayout, StaticsStructLayout DEF CrateNext
<1> QED BY <1>1, <1>2

\* Whatever crate is compiled, the output is at the start of a line between two
\* items and indented once per open class: output.rs loses no mark.
THEOREM CrateIsBalanced == CrateSpec => []LayoutBalanced
<1>1. LayoutInv => LayoutBalanced
  BY DEF LayoutInv, LayoutBalanced, AtStart
<1> QED BY <1>1, LayoutInit, LayoutStep, PTL DEF CrateSpec
================================================================================
