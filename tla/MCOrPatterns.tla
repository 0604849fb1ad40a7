---------------------------- MODULE MCOrPatterns ----------------------------
(***************************************************************************)
(* Matches on a pair of pairs of bits.  Or-patterns overlap, are nested    *)
(* below constructors, below each other and below bindings.                *)
(***************************************************************************)
EXTENDS OrPatterns

Zero == Data("0", <<>>)
One  == Data("1", <<>>)
Bits == {Zero, One}
Twos == {Data("two", <<a, b>>) : a, b \in Bits}

MCValues == {Data("pair", <<a, b>>) : a, b \in Twos}

MCArity == [c \in {"0", "1", "two", "pair"} |-> IF c \in {"0", "1"} THEN 0 ELSE 2]

Is0 == Ctor("0", <<>>)
Is1 == Ctor("1", <<>>)
Two(a, b)  == Ctor("two", <<a, b>>)
Pair(a, b) == Ctor("pair", <<a, b>>)

Binding(x) ==
  LET id == Ident(x, <<>>) IN
  {Two(id, Wild), Ctor("two", <<Rest, id>>),
   OrPat(<<Ctor("two", <<id, Rest>>), Ctor("two", <<Rest, id>>)>>),
   OrPat(<<Two(Is0, id), Two(id, Is1)>>),
   Two(Ident(x, <<Is1>>), OrPat(<<Is0, Is1>>)),
   Two(OrPat(<<Ident(x, <<Is1>>), Ident(x, <<Is0>>)>>), Wild),
   OrPat(<<Two(OrPat(<<Ident(x, <<Is1>>), Ident(x, <<Is0>>)>>), Is0), Two(Wild, id)>>)}

NotBinding == {Wild, Ctor("two", <<Is0, Rest>>), OrPat(<<Two(Is0, Wild), Two(Wild, Is0)>>)}

ArmPatterns ==
  {Pair(a, b) : a \in Binding("x"), b \in Binding("y") \cup NotBinding}
  \cup {OrPat(<<Pair(a, Wild), Ctor("pair", <<Rest, a>>)>>) : a \in Binding("x")}
  \cup {Pair(Ident("x", <<a>>), b) : a \in Binding("y"), b \in NotBinding}

SecondPatterns ==
  {Pair(OrPat(<<Two(Ident("x", <<>>), Is1), Two(Is1, Ident("x", <<>>))>>), Wild),
   Pair(Wild, Two(Wild, Is0))}

MCMatchExprs ==
  {<<Arm(p, g, 1), Arm(r, <<>>, 2), Arm(Wild, <<>>, 3)>> :
     p \in ArmPatterns, g \in {<<>>, <<"guard">>}, r \in SecondPatterns}

\* Guards that look at x, at x and y, and one that compares the two.
MCGuards ==
  LET both == [{"x", "y"} -> Bits] IN
  {{}} \cup {[{"x"} -> {a}] \cup {env \in both : env["x"] = a} : a \in Bits}
  \cup {{env \in both : env["x"] = a /\ env["y"] = b} : a, b \in Bits}
  \cup {{env \in both : env["x"] # env["y"]}}
=============================================================================
