----------------------------- MODULE MCLowering -----------------------------
(***************************************************************************)
(* The functions that TLC compiles: every value of small shape in the      *)
(* places where a function can have one, and every jump out of small loops *)
(* and matches.                                                            *)
(***************************************************************************)
EXTENDS Lowering

p == Ask("p")
q == Ask("q")
u == Do("u")
w == Do("w")

BlockOf(ss) == Block(MapSeq(Stmt, ss), <<>>)

(* Values. *)

Conditions == {p, And(p, q), Or(p, q), Try(p)}

ValueBlocks ==
  {Block(<<>>, <<q>>), Block(<<Stmt(u)>>, <<q>>), Block(<<Stmt(u)>>, <<Ret(<<q>>)>>),
   BlockOf(<<Ret(<<q>>)>>), BlockOf(<<Panic>>)}

ValueIfs ==
  {If(p, a, <<b>>) : a, b \in ValueBlocks}
  \cup {If(p, a, <<If(q, b, <<c>>)>>) :
          a, b, c \in {Block(<<>>, <<q>>), Block(<<Stmt(u)>>, <<Lit(False)>>)}}

TwoArms(bodies) ==
  {Match(p, <<Arm(True, g, a), Arm("_", <<>>, b)>>) :
     g \in {<<>>, <<q>>}, a, b \in bodies}

ValueMatches == TwoArms(ValueBlocks \cup {q, Lit(True), Ret(<<q>>), Panic})

Nested ==
  {Block(<<Stmt(u)>>, <<v>>) : v \in TwoArms({q, Block(<<Stmt(w)>>, <<q>>)})}
  \cup {If(q, Block(<<>>, <<v>>), <<Block(<<Stmt(u)>>, <<q>>)>>) : v \in TwoArms({q, Lit(False)})}

Values == Conditions \cup ValueBlocks \cup ValueIfs \cup ValueMatches \cup Nested

Bool(async) == [ret |-> "bool", async |-> async]

ValueBodies ==
  {Block(<<>>, <<v>>) : v \in Values}
  \cup {BlockOf(<<Ret(<<v>>)>>) : v \in Values}
  \cup {Block(<<Let("x", <<v>>, <<>>), Stmt(w)>>, <<Var("x")>>) : v \in Values}
  \cup {Block(<<Let("x", <<v>>, <<BlockOf(<<u, Ret(<<q>>)>>)>>)>>, <<Var("x")>>) :
          v \in Conditions}

(* Units. *)

UnitBlocks ==
  {Block(<<>>, <<>>), Block(<<>>, <<u>>), BlockOf(<<w>>), BlockOf(<<Ret(<<>>)>>),
   BlockOf(<<Ret(<<u>>)>>), BlockOf(<<u, Panic>>)}

UnitIfs == {If(p, a, e) : a \in UnitBlocks, e \in {<<>>} \cup {<<b>> : b \in UnitBlocks}}

UnitMatches == TwoArms(UnitBlocks \cup {u, Unit, Ret(<<>>), Panic})

Units == UnitIfs \cup UnitMatches

Void(async) == [ret |-> "unit", async |-> async]

\* Values of type (): no C# function has one.
UnitValues ==
  LET blocks == {Block(<<>>, <<>>), BlockOf(<<w>>), BlockOf(<<w, Ret(<<>>)>>)}
      ifs    == {If(p, b, <<>>) : b \in blocks}
                \cup {If(p, a, <<If(q, b, <<>>)>>) : a, b \in blocks}
  IN  ifs \cup TwoArms(ifs)

UnitBodies ==
  {Block(<<>>, <<e>>) : e \in Units} \cup {BlockOf(<<e, w>>) : e \in Units}
  \cup {Block(<<Let("x", <<v>>, <<>>), Stmt(w)>>, <<>>) : v \in UnitValues}

(* Loops. *)

Jumps == {Break(l) : l \in {NoLabel, "a"}} \cup {Continue(l) : l \in {NoLabel, "a"}}
         \cup {Ret(<<>>)}

\* What may stand in a loop with label "a".
LoopSteps ==
  {u} \cup {If(q, BlockOf(<<j>>), <<>>) : j \in Jumps}
  \cup {If(q, BlockOf(<<j>>), <<Block(<<>>, <<w>>)>>) : j \in Jumps}
  \cup {Match(q, <<Arm(True, <<>>, e), Arm("_", <<>>, Block(<<>>, <<w>>))>>) :
          e \in Jumps \cup {BlockOf(<<w, j>>) : j \in Jumps}}

Inner ==
  {While(NoLabel, q, BlockOf(<<If(p, BlockOf(<<j>>), <<>>), u>>)) : j \in Jumps}
  \cup {Loop("b", BlockOf(<<If(p, BlockOf(<<j>>), <<BlockOf(<<Break("b")>>)>>), u>>)) :
          j \in Jumps}

OuterLoops ==
  UNION {{Loop("a", BlockOf(<<If(p, BlockOf(<<Break(l)>>), <<>>), s, u>>)) :
            l \in {NoLabel, "a"}, s \in LoopSteps \cup Inner},
         {While("a", p, BlockOf(<<s, u>>)) : s \in LoopSteps \cup Inner},
         {For("a", p, Block(<<Stmt(s)>>, <<u>>)) : s \in LoopSteps},
         {Loop(NoLabel, BlockOf(<<If(p, Block(<<>>, <<Ret(<<>>)>>), <<>>), u>>))}}

TwoLoops ==
  {BlockOf(<<While("a", p, BlockOf(<<If(q, BlockOf(<<Break("a")>>), <<>>)>>)),
             While(l, p, BlockOf(<<u>>))>>) : l \in {"a", "b"}}

LoopInArm ==
  {BlockOf(<<Match(p, <<Arm(True, <<>>, l), Arm("_", <<>>, Block(<<>>, <<w>>))>>), u>>) :
     l \in {Loop(NoLabel, BlockOf(<<If(q, BlockOf(<<Break(NoLabel)>>), <<>>)>>)),
            While(NoLabel, q, BlockOf(<<u>>))}}

LoopBodies ==
  {Block(<<>>, <<l>>) : l \in OuterLoops} \cup {BlockOf(<<l, w>>) : l \in OuterLoops}
  \cup TwoLoops \cup LoopInArm

MCPrograms ==
  {[fn |-> Bool(async), body |-> b] : async \in BOOLEAN, b \in ValueBodies}
  \cup {[fn |-> Void(async), body |-> b] : async \in BOOLEAN, b \in UnitBodies \cup LoopBodies}

AllGaps == {"or", "try", "return in value", "else if", "if without else", "break in match",
            "labelled for", "unit arm", "loop with break", "same label"}

GapsButBreak == AllGaps \ {"break in match"}
=============================================================================
