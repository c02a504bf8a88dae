------------------------------- MODULE MCTree -------------------------------
(* Instances of Tree for TLC: trees of two names at the top, each of which
   may be a directory with one entry.  `a-' comes before `a/' and `a/x', but
   after `a'. *)
EXTENDS Tree

TwoNames == [n \in {"a", "a-", "x"} |-> CASE n = "a" -> <<1>> [] n = "a-" -> <<1, -1>> [] n = "x" -> <<3>>]

Tops == {<<"a">>, <<"a-">>}

St(type, p, data, ugm, ctime, mtime) == Node(type, <<0>> \o p, data, ugm, ctime, mtime)

Old(p) == St("reg", p, <<"old">>, <<1, 1, 6>>, 5, 5)
Newer(p) == St("reg", p, <<"new">>, <<2, 2, 6>>, 8, 7)
Dir(p) == St("dir", p, <<>>, <<1, 1, 7>>, 4, 3)
Sym(p, to) == St("sym", p, to, <<1, 1, 7>>, 2, 2)

Device(p) == St("dev", p, <<"tty">>, <<1, 1, 4>>, 6, 6)

Other(p) == CHOOSE q \in Tops : q # p

\* What a name can be, with what is below it.
Subtrees(p) ==
  LET x == Append(p, "x")
      two(n, m) == [q \in {p, x} |-> IF q = p THEN n ELSE m]
  IN  {two(n, Absent) : n \in {Absent, Old(p), Newer(p), Device(p), Sym(p, Other(p)), Dir(p)}}
        \cup {two(Dir(p), m) : m \in {Old(x), Newer(x)}}

Join(f, g) == [p \in DOMAIN f \cup DOMAIN g |-> IF p \in DOMAIN f THEN f[p] ELSE g[p]]

\* Two names of one file.
Linked(tree, p, q) == [tree EXCEPT ![q] = tree[p]]

SmallTrees ==
  LET plain == {Join(f, g) : f \in Subtrees(<<"a">>), g \in Subtrees(<<"a-">>)}
      linked(p, q, types) == {Linked(t, p, q) : t \in {u \in plain : u[p].type \in types /\ Present(u, q)
                                                                      /\ u[q].type \notin {"dir"}}}
  IN  plain \cup linked(<<"a">>, <<"a-">>, {"reg", "sym"})
            \cup linked(<<"a", "x">>, <<"a-", "x">>, {"reg"})

Both == BOOLEAN
Same == {TRUE}
=============================================================================
