------------------------------ MODULE MCFragments ------------------------------
(***************************************************************************)
(* The fragments of MCLiterals, and the nodes that expressions are built   *)
(* of: each with the sorts of its children and its own, so that only       *)
(* expressions of some Rust type are built.                                *)
(***************************************************************************)
EXTENDS Fragments, MCLiterals

n == "num"
b == "bool"
f == "fn"
o == "obj"
t == "task"
p == "place"
Sorts == {n, b, f, o, t}

K(k, sorts, s) == [k |-> k, how |-> "", adj |-> FALSE, sorts |-> sorts, is |-> s]
H(k, how, sorts, s) == [K(k, sorts, s) EXCEPT !.how = how]
Adj(c) == [c EXCEPT !.adj = TRUE]
Ways == {"path", "method", "omit", "replaced"}

Atoms ==
  {K("name", <<>>, s) : s \in Sorts} \cup {H("function", way, <<>>, f) : way \in Ways}
  \cup {K("literal", <<>>, n), K("tuple", <<>>, o), K("async", <<>>, t), H("closure", "block", <<>>, f)}
AroundOne ==
  {K("neg", <<n>>, n), K("not", <<b>>, b), K("await", <<t>>, n), K("try", <<o>>, n),
   K("let", <<o>>, b), K("let", <<n>>, b), K("tuple", <<n>>, o), K("record", <<n>>, o),
   K("format", <<n>>, o), K("closure", <<n>>, f), K("closure", <<f>>, f), K("closure", <<b>>, f)}
  \cup {H("cast", "keyword", <<n>>, n), H("cast", "named", <<n>>, n),
        H("cast", "keyword", <<b>>, n), H("cast", "named", <<f>>, f)}
  \cup {K(k, <<s>>, s) : k \in {"deref", "ref", "block"}, s \in Sorts}
  \cup {K("deref", <<o>>, p), K("field", <<o>>, p), K("index", <<o, n>>, p), Adj(K("field", <<o>>, n))}
  \cup {K("field", <<o>>, s) : s \in {n, f, o}}
  \cup UNION {{H("call", way, <<s>>, o), Adj(H("call", way, <<s>>, n))} : way \in Ways, s \in {n, b, o}}
  \cup {H("call", way, <<f>>, f) : way \in Ways \ {"replaced"}} \cup {H("call", "method", <<t>>, t)}
AroundMore ==
  {K("apply", <<f>>, n), K("apply", <<f, n>>, o), K("index", <<o, n>>, n), K("range", <<n, n>>, o),
   K("binary", <<n, n>>, n), K("binary", <<n, n>>, b), K("binary", <<b, b>>, b),
   K("assign", <<p, n>>, o), K("assign", <<p, f>>, o), K("tuple", <<n, f>>, o),
   K("list", <<n, n>>, o), K("repeat", <<n, n>>, o), K("record", <<o, b>>, o), K("format", <<n, o>>, o),
   H("call", "path", <<n, f>>, n), H("call", "method", <<o, n>>, n), K("if", <<b, o>>, o)}
  \cup {K("if", <<b, s, s>>, s) : s \in {n, f, o}}
  \cup {K("match", <<o, s>>, s) : s \in Sorts} \cup {K("match", <<n, b, s>>, s) : s \in {n, f}}

MCConstructors == Atoms \cup AroundOne \cup AroundMore
================================================================================
