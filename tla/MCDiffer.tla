------------------------------ MODULE MCDiffer ------------------------------
(* Instances of Differ for TLC: files of two different bytes, whose seeds of
   three share buckets and in part checksums. *)
EXTENDS Differ

Files(n) == [1..n -> {0, 1}]

Short == {<<>>, <<1>>, <<1, 0>>}

Whole(r, v) == [kind |-> "bucket", ref |-> r, ver |-> v, gaps |-> <<<<0, Len(v)>>>>]

\* A match takes over another and part of one before it, or two.
TakenOver == {Whole(<<0, 1, 1, 1, 1, 1, 0, 0, 1>>, <<1, 1, 1, 1, 1, 1, 1, 0, 0, 1>>),
              Whole(<<1, 0, 0, 1, 1, 1, 1, 0, 0>>, <<1, 0, 0, 1, 1, 1, 1, 0, 0, 1>>)}

First == {Whole(r, v) : r \in Files(6) \cup Short, v \in Files(6)}
           \cup {Whole(<<1, 0, 1, 1, 0>>, v) : v \in Short} \cup TakenOver

\* A match of an earlier pass lies before the only gap, or between two.
Later == [kind : {"rbucket"}, ref : {r \in Files(5) : 0 \in ToSet(r)},
          ver : {<<0>> \o v : v \in Files(5)}, gaps : {<<<<1, 6>>>>}]
           \cup [kind : {"rbucket"}, ref : {r \in Files(5) : 1 \in ToSet(r)},
                 ver : {v \in Files(7) : v[4] = 1}, gaps : {<<<<0, 3>>, <<4, 7>>>>}]

AllCases == First \cup Later
=============================================================================
