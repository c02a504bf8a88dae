----------------------------- MODULE MCFormats -----------------------------
(* Instances of Formats for TLC: lengths and offsets at each border between
   two encodings that some format has, and lists that mix adds and copies. *)
EXTENDS Formats

Add(len)       == [type |-> "ADD", len |-> len, pos |-> 0]
Copy(len, pos) == [type |-> "COPY", len |-> len, pos |-> pos]

Around(borders) == UNION {{b - 1, b} : b \in borders}

AddLens  == {1, 5} \cup Around({6, 64, 69, 247, 16448, 65536, 4210752})
CopyLens == {1, 5} \cup Around({6, 16, 69, 256, 4112, 65536, 1052688})
Offsets  == {0} \cup Around({128, 256, 32768, 32896, 65536, 8421504})

AnyLength == {<<Add(n)>> : n \in AddLens} \cup {<<Copy(n, 300)>> : n \in CopyLens}
               \cup {<<Add(n), Copy(m, 7)>> : n \in AddLens, m \in CopyLens}
AnyOffset == {<<Copy(8, p), Copy(8, q)>> : p \in Offsets, q \in Offsets}
Few       == {Add(2), Add(300), Copy(5, 0), Copy(20, 40000)}
Mixed     == UNION {[1..n -> Few] : n \in 0..4}

AllKinds == {"gdiff4", "gdiff5", "switching", "bdiff", "bdelta"}
AllLists == AnyLength \cup AnyOffset \cup Mixed
=============================================================================
