-------------------------- MODULE MatchListProofs --------------------------
(***************************************************************************)
(* Proofs about MatchList, for every size of the version file and all seed *)
(* lengths: the invariants, that a walk returns no gap twice, and that the *)
(* match list implements Delta.                                            *)
(*                                                                         *)
(* None of the invariants is inductive alone.  That linking matches in     *)
(* keeps the list in order rests on WindowAtMain, this on where a walk can *)
(* stand (WalkPlace), and both on the list being in order; that no gap is  *)
(* missed rests on an exact account of the gaps returned so far            *)
(* (GivenGaps).  IInv collects these facts.                                *)
(***************************************************************************)
EXTENDS MatchList, SetInduction, FiniteSetTheorems, TLAPS

\* The matches in s follow each other, stated for any two of them: what
\* InOrder says of neighbours.
Pairs(s) ==
  /\ \A i, j \in DOMAIN s : i < j => Vend(s[i]) <= s[j].ver
  /\ \A i \in DOMAIN s : Vend(s[i]) <= VerSize

Walking == phase \in {"count", "hash", "fill"}

\* TypeOK, with the count the walk relies on: main_count is the nodes there are.
Types ==
  /\ list \in Seq(Nodes) /\ buff \in Seq(Nodes)
  /\ main \in 0..Len(list)
  /\ main_count = Len(list)
  /\ gap_pos \in 0..VerSize /\ reconstruct_pos \in 0..VerSize
  /\ finalized \in BOOLEAN /\ differencing \in BOOLEAN
  /\ phase \in {"archive", "count", "hash", "fill", "emit"}
  /\ seed_len \in Nat /\ gap_total_len \in 0..VerSize
  /\ window \in (0..VerSize) \X (0..VerSize) /\ vs \in 0..VerSize
  /\ given \subseteq Bytes

\* Which parts of the state are in use in which loop.
Phases ==
  /\ phase = "archive" =>
       list = <<>> /\ gap_pos = 0 /\ given = {}
         /\ (finalized => buff = <<>> /\ ~differencing)
  /\ phase \in {"count", "hash", "emit"} =>
       finalized /\ ~differencing /\ buff = <<>>
  /\ phase = "fill" =>
       (finalized <=> ~differencing) /\ (~differencing => buff = <<>>)
  /\ Walking => seed_len >= MinSeed

\* Where a walk stands: gap_pos is the beginning, the end or the place of a
\* node, `main` is no further, and what was given lies behind.
WalkPlace ==
  Walking =>
    /\ list # <<>> => main # 0
    /\ \/ gap_pos = 0 \/ gap_pos = VerSize
       \/ \E i \in DOMAIN list : list[i].ver = gap_pos
    /\ \A i \in DOMAIN list : i < main => list[i].ver < gap_pos
    /\ given \subseteq 0..(gap_pos - 1)

\* Where the matches of the buffer lie: before vs, and in a window that the
\* list leaves free.
BuffPlace ==
  /\ differencing => window[1] <= vs /\ vs <= window[2]
  /\ phase = "archive" =>
       \A i \in DOMAIN buff :
          Vend(buff[i]) <= IF differencing THEN vs ELSE window[2]
  /\ phase = "fill" /\ differencing =>
       /\ \A i \in DOMAIN buff : window[1] <= buff[i].ver /\ Vend(buff[i]) <= vs
       /\ gap_pos = window[2] /\ window[1] < window[2]
       /\ Span(window) \cap Covered(list) = {}
       /\ list = <<>> => window = <<0, VerSize>>

\* What a walk has given are the gaps of seed_len bytes behind it; in "fill",
\* where matches are linked in behind it, at least those that are left.
GivenGaps ==
  /\ phase \in {"count", "hash"} => given = {p \in BigGaps(seed_len) : p < gap_pos}
  /\ phase = "fill" => {p \in BigGaps(seed_len) : p < gap_pos} \subseteq given

\* The encoders are between the node before `main` and `main`, or at the
\* beginning of `main`; behind the last node once `main` is NULL.
EmitPlace ==
  phase = "emit" =>
    \A i \in DOMAIN list :
      IF main # 0 /\ i >= main THEN reconstruct_pos <= list[i].ver
                               ELSE Vend(list[i]) <= reconstruct_pos

\* The inductive invariant.
IInv ==
  /\ Types
  /\ Pairs(list) /\ Pairs(buff)
  /\ Phases
  /\ WalkPlace
  /\ BuffPlace /\ BuffReachesVs
  /\ WindowAtMain
  /\ GivenGaps
  /\ TotalIsExact
  /\ EmitPlace

USE VerSizeAssumption, SeedAssumption

-----------------------------------------------------------------------------
(* Numbers *)

\* An interval has as many numbers as its ends are apart.
LEMMA Size ==
  ASSUME NEW a \in Int, NEW b \in Int, a <= b
  PROVE  /\ IsFiniteSet(a..(b - 1))
         /\ Cardinality(a..(b - 1)) = b - a
<1>1. b - 1 \in Int
  OBVIOUS
<1>2. /\ IsFiniteSet(a..(b - 1))
      /\ Cardinality(a..(b - 1)) = IF a > b - 1 THEN 0 ELSE (b - 1) - a + 1
  BY ONLY <1>1, FS_Interval
<1> QED BY <1>2

-----------------------------------------------------------------------------
(* Sequences of matches *)

\* A node lies at or after its place and is not empty.
LEMMA NodeType ==
  ASSUME NEW s \in Seq(Nodes), NEW i \in DOMAIN s
  PROVE  /\ i \in 1..Len(s) /\ Len(s) \in Nat
         /\ s[i] \in Nodes
         /\ s[i].ver \in 0..VerSize /\ s[i].len \in 1..VerSize
         /\ Vend(s[i]) \in Nat /\ s[i].ver < Vend(s[i])
<1>1. s[i] \in Nodes /\ i \in 1..Len(s) /\ Len(s) \in Nat
  OBVIOUS
<1> QED BY <1>1 DEF Nodes, Vend

\* Sorted for any two is sorted for neighbours.
LEMMA PairsInOrder ==
  ASSUME NEW s \in Seq(Nodes), Pairs(s)
  PROVE  InOrder(s)
BY NodeType DEF Pairs, InOrder

\* In a sorted list, index, begin and end grow together.
LEMMA InTurn ==
  ASSUME NEW s \in Seq(Nodes), Pairs(s), NEW i \in DOMAIN s, NEW j \in DOMAIN s
  PROVE  /\ i <= j <=> s[i].ver <= s[j].ver
         /\ i <= j <=> Vend(s[i]) <= Vend(s[j])
         /\ i < j <=> Vend(s[i]) <= s[j].ver
<1>1. /\ i \in Int /\ j \in Int
      /\ s[i].ver \in Nat /\ Vend(s[i]) \in Nat /\ s[i].ver < Vend(s[i])
      /\ s[j].ver \in Nat /\ Vend(s[j]) \in Nat /\ s[j].ver < Vend(s[j])
  BY NodeType
<1>2. i < j => Vend(s[i]) <= s[j].ver
  BY DEF Pairs
<1>3. j < i => Vend(s[j]) <= s[i].ver
  BY DEF Pairs
<1> QED BY <1>1, <1>2, <1>3

\* Sorted nodes that are not empty are at most as many as the bytes.
LEMMA ListFits ==
  ASSUME NEW s \in Seq(Nodes), Pairs(s)
  PROVE  Len(s) <= VerSize
<1> DEFINE f == [i \in 1..Len(s) |-> s[i].ver]
           D == 1..Len(s)
           B == 0..(VerSize - 1)
<1>1. \A i \in 1..Len(s) : s[i].ver \in B
  BY NodeType DEF Pairs
<1>2. \A i, j \in 1..Len(s) : s[i].ver = s[j].ver => i = j
  <2> SUFFICES ASSUME NEW i \in 1..Len(s), NEW j \in 1..Len(s), i < j
               PROVE  s[i].ver # s[j].ver
    OBVIOUS
  <2>1. i \in DOMAIN s /\ j \in DOMAIN s /\ ~(j <= i)
    OBVIOUS
  <2>2. j <= i <=> s[j].ver <= s[i].ver
    BY <2>1, InTurn
  <2> QED BY <2>1, <2>2, NodeType
<1>3. f \in Injection(D, B)
  BY <1>1, <1>2 DEF Injection, IsInjective
<1>4. IsFiniteSet(B)
  BY FS_Interval
<1>5. Cardinality(D) = Len(s)
  <2>1. Len(s) \in Nat
    OBVIOUS
  <2> DEFINE n == Len(s)
  <2> HIDE DEF n
  <2>2. n \in Int /\ 1 \in Int /\ n >= 0
    BY <2>1 DEF n
  <2>3. Cardinality(1..n) = n
    BY <2>2, FS_Interval
  <2> QED BY <2>3 DEF n
<1>7. Cardinality(B) = VerSize
  <2>1. 0 \in Int /\ VerSize \in Int /\ 0 <= VerSize
    OBVIOUS
  <2>2. Cardinality(0..(VerSize - 1)) = VerSize - 0
    BY ONLY <2>1, Size
  <2> QED BY <2>2
<1>6. Cardinality(D) <= Cardinality(B)
  BY <1>3, <1>4, FS_Injection
<1> QED BY <1>5, <1>6, <1>7

\* The nodes before a position are the first k of them.
LEMMA FirstNodes ==
  ASSUME NEW s \in Seq(Nodes), Pairs(s), NEW t \in Nat
  PROVE  \E k \in 0..Len(s) : /\ {i \in DOMAIN s : s[i].ver < t} = 1..k
                              /\ Cardinality(1..k) = k
<1> DEFINE T == {k \in Nat : \A i \in DOMAIN s : k < i => t <= s[i].ver}
<1>1. Len(s) \in T
  OBVIOUS
<1>2. PICK k \in T : \A y \in T : k <= y
  BY <1>1, Least
<1>3. k \in 0..Len(s)
  BY <1>1, <1>2
<1>4. \A i \in 1..k : s[i].ver < t
  <2> SUFFICES ASSUME NEW i \in 1..k, t <= s[i].ver
               PROVE  FALSE
    BY <1>3, NodeType
  <2>1. \A j \in DOMAIN s : i - 1 < j => t <= s[j].ver
    BY <1>3, NodeType DEF Pairs
  <2>2. i - 1 \in T
    BY <2>1
  <2> QED BY <1>2, <2>2
<1>5. {i \in DOMAIN s : s[i].ver < t} = 1..k
  BY <1>2, <1>3, <1>4, NodeType
<1>6. Cardinality(1..k) = k
  BY <1>3, FS_Interval
<1> QED BY <1>3, <1>5, <1>6

\* A byte is covered when a node holds it.
LEMMA CoveredByNode ==
  ASSUME NEW s \in Seq(Nodes), NEW p \in Int
  PROVE  p \in Covered(s) <=> \E i \in DOMAIN s : s[i].ver <= p /\ p < Vend(s[i])
<1>1. \A i \in 1..Len(s) :
        p \in s[i].ver..(Vend(s[i]) - 1) <=> s[i].ver <= p /\ p < Vend(s[i])
  BY NodeType
<1>2. p \in Covered(s) <=> \E i \in 1..Len(s) : p \in s[i].ver..(Vend(s[i]) - 1)
  BY Zenon DEF Covered
<1> QED BY <1>1, <1>2

\* What sorted nodes cover is in the version file.
LEMMA CoveredInFile ==
  ASSUME NEW s \in Seq(Nodes), Pairs(s)
  PROVE  Covered(s) \subseteq Bytes
<1> SUFFICES ASSUME NEW p \in Covered(s)
             PROVE  p \in Bytes
  OBVIOUS
<1>1. PICK i \in 1..Len(s) : p \in s[i].ver..(Vend(s[i]) - 1)
  BY Zenon DEF Covered
<1> QED BY <1>1, NodeType DEF Bytes, Pairs

\* The matches t linked into s after its k-th node.
Splice(s, k, t) == SubSeq(s, 1, k) \o t \o SubSeq(s, k + 1, Len(s))

\* The nodes of two sequences one after the other.
LEMMA Concatenated ==
  ASSUME NEW a \in Seq(Nodes), NEW b \in Seq(Nodes)
  PROVE  /\ a \o b \in Seq(Nodes)
         /\ Len(a \o b) = Len(a) + Len(b)
         /\ \A j \in 1..Len(a) : (a \o b)[j] = a[j]
         /\ \A j \in 1..Len(b) : (a \o b)[Len(a) + j] = b[j]
OBVIOUS

\* The nodes of the spliced list.
LEMMA SpliceNodes ==
  ASSUME NEW s \in Seq(Nodes), NEW t \in Seq(Nodes), NEW k \in 0..Len(s)
  PROVE  LET r == Splice(s, k, t)
         IN  /\ r \in Seq(Nodes)
             /\ Len(r) = Len(s) + Len(t)
             /\ \A j \in 1..k : r[j] = s[j]
             /\ \A j \in 1..Len(t) : r[k + j] = t[j]
             /\ \A j \in (k + 1)..Len(s) : r[Len(t) + j] = s[j]
<1> DEFINE a == SubSeq(s, 1, k)
           b == SubSeq(s, k + 1, Len(s))
           c == a \o t
           r == Splice(s, k, t)
<1>1. Len(s) \in Nat /\ Len(t) \in Nat /\ k \in Nat /\ k <= Len(s)
  OBVIOUS
<1>2. /\ a \in Seq(Nodes) /\ Len(a) = k
      /\ \A j \in 1..k : a[j] = s[j]
  BY <1>1
<1>3. /\ b \in Seq(Nodes) /\ Len(b) = Len(s) - k
      /\ \A j \in 1..(Len(s) - k) : b[j] = s[k + j]
  BY <1>1
<1>4. r = c \o b
  BY DEF Splice
<1> HIDE DEF a, b
<1>5. /\ c \in Seq(Nodes) /\ Len(c) = k + Len(t)
      /\ \A j \in 1..k : c[j] = a[j]
      /\ \A j \in 1..Len(t) : c[k + j] = t[j]
  BY <1>1, <1>2
<1> HIDE DEF c
<1>6. /\ c \o b \in Seq(Nodes)
      /\ Len(c \o b) = Len(c) + Len(b)
      /\ \A j \in 1..Len(c) : (c \o b)[j] = c[j]
      /\ \A j \in 1..Len(b) : (c \o b)[Len(c) + j] = b[j]
  <2>1. c \in Seq(Nodes) /\ b \in Seq(Nodes)
    BY <1>3, <1>5
  <2> QED BY <2>1, Concatenated
<1> HIDE DEF r
<1>7. \A j \in 1..k : r[j] = s[j]
  BY <1>1, <1>2, <1>4, <1>5, <1>6
<1>8. \A j \in 1..Len(t) : r[k + j] = t[j]
  BY <1>1, <1>4, <1>5, <1>6
<1>9. ASSUME NEW j \in (k + 1)..Len(s)
      PROVE  r[Len(t) + j] = s[j]
  <2>1. j - k \in 1..Len(b)
    BY <1>1, <1>3
  <2>2. r[Len(c) + (j - k)] = b[j - k] /\ b[j - k] = s[k + (j - k)]
    BY <1>3, <1>4, <1>6, <2>1
  <2>3. Len(c) + (j - k) = Len(t) + j /\ k + (j - k) = j
    BY <1>1, <1>5
  <2> QED BY <2>2, <2>3
<1>10. Len(r) = Len(s) + Len(t)
  <2>1. Len(r) = Len(c) + Len(b)
    BY <1>4, <1>6
  <2>2. Len(c) = k + Len(t) /\ Len(b) = Len(s) - k
    BY <1>3, <1>5
  <2> QED BY <1>1, <2>1, <2>2
<1> QED BY <1>4, <1>6, <1>7, <1>8, <1>9, <1>10 DEF r

\* Where a node of the spliced list comes from.
LEMMA SpliceFrom ==
  ASSUME NEW s \in Seq(Nodes), NEW t \in Seq(Nodes), NEW k \in 0..Len(s),
         NEW r, r = Splice(s, k, t), NEW j \in DOMAIN r
  PROVE  \/ j \in 1..k /\ r[j] = s[j]
         \/ \E h \in DOMAIN t : j = k + h /\ r[j] = t[h]
         \/ \E h \in (k + 1)..Len(s) : j = Len(t) + h /\ r[j] = s[h]
<1>a. /\ r \in Seq(Nodes) /\ Len(r) = Len(s) + Len(t)
      /\ \A i \in 1..k : r[i] = s[i]
      /\ \A i \in 1..Len(t) : r[k + i] = t[i]
      /\ \A i \in (k + 1)..Len(s) : r[Len(t) + i] = s[i]
  BY SpliceNodes, Zenon
<1>1. j \in 1..Len(r)
  BY <1>a
<1>2. Len(s) \in Nat /\ Len(t) \in Nat /\ k \in Nat /\ k <= Len(s)
  OBVIOUS
<1>3. CASE j <= k
  BY <1>1, <1>a, <1>2, <1>3
<1>4. CASE k < j /\ j <= k + Len(t)
  <2> DEFINE h == j - k
  <2>1. h \in 1..Len(t) /\ j = k + h
    BY <1>1, <1>a, <1>2, <1>4
  <2> HIDE DEF h
  <2>2. r[k + h] = t[h]
    BY <1>a, <2>1
  <2> QED BY <2>1, <2>2
<1>5. CASE k + Len(t) < j
  <2>1. j - Len(t) \in (k + 1)..Len(s) /\ j = Len(t) + (j - Len(t))
    BY <1>1, <1>a, <1>2, <1>5
  <2>2. r[Len(t) + (j - Len(t))] = s[j - Len(t)]
    BY <1>1, <1>a, <2>1
  <2> QED BY <2>1, <2>2
<1> QED BY <1>1, <1>a, <1>2, <1>3, <1>4, <1>5

\* Matches that lie between two nodes can be linked in there.
LEMMA SpliceInOrder ==
  ASSUME NEW s \in Seq(Nodes), NEW t \in Seq(Nodes), NEW k \in 0..Len(s),
         Pairs(s), Pairs(t),
         \A i \in 1..k : \A h \in DOMAIN t : Vend(s[i]) <= t[h].ver,
         \A i \in (k + 1)..Len(s) : \A h \in DOMAIN t : Vend(t[h]) <= s[i].ver,
         NEW r, r = Splice(s, k, t)
  PROVE  /\ Pairs(r)
         /\ Covered(r) = Covered(s) \cup Covered(t)
<1>1. /\ r \in Seq(Nodes) /\ Len(r) = Len(s) + Len(t)
      /\ \A i \in 1..k : r[i] = s[i]
      /\ \A i \in 1..Len(t) : r[k + i] = t[i]
      /\ \A i \in (k + 1)..Len(s) : r[Len(t) + i] = s[i]
  BY SpliceNodes, Zenon
<1>2. Len(s) \in Nat /\ Len(t) \in Nat /\ k \in Nat /\ k <= Len(s)
  OBVIOUS
<1>3. \A j \in DOMAIN r :
         \/ j \in 1..k /\ r[j] = s[j]
         \/ \E h \in DOMAIN t : j = k + h /\ r[j] = t[h]
         \/ \E h \in (k + 1)..Len(s) : j = Len(t) + h /\ r[j] = s[h]
  BY SpliceFrom
<1>4. ASSUME NEW i \in DOMAIN r, NEW j \in DOMAIN r, i < j
      PROVE  Vend(r[i]) <= r[j].ver
  <2>1. CASE i \in 1..k /\ r[i] = s[i]
    BY <1>2, <1>3, <1>4, <2>1 DEF Pairs
  <2>2. ASSUME NEW h \in DOMAIN t, i = k + h, r[i] = t[h]
        PROVE  Vend(r[i]) <= r[j].ver
    <3>1. ~(j \in 1..k)
      BY <1>2, <1>4, <2>2
    <3>2. CASE \E g \in DOMAIN t : j = k + g /\ r[j] = t[g]
      BY <1>2, <1>4, <2>2, <3>2 DEF Pairs
    <3>3. CASE \E g \in (k + 1)..Len(s) : j = Len(t) + g /\ r[j] = s[g]
      BY <2>2, <3>3
    <3> QED BY <1>3, <3>1, <3>2, <3>3
  <2>3. ASSUME NEW h \in (k + 1)..Len(s), i = Len(t) + h, r[i] = s[h]
        PROVE  Vend(r[i]) <= r[j].ver
    <3>1. ~(j \in 1..k) /\ ~\E g \in DOMAIN t : j = k + g
      BY <1>2, <1>4, <2>3
    <3>2. PICK g \in (k + 1)..Len(s) : j = Len(t) + g /\ r[j] = s[g]
      BY <1>3, <3>1
    <3>3. h < g /\ h \in DOMAIN s /\ g \in DOMAIN s
      BY <1>2, <1>4, <2>3, <3>2
    <3> QED BY <2>3, <3>2, <3>3 DEF Pairs
  <2> QED BY <1>3, <2>1, <2>2, <2>3
<1>5. ASSUME NEW i \in DOMAIN r
      PROVE  Vend(r[i]) <= VerSize
  BY <1>2, <1>3 DEF Pairs
<1>6. ASSUME NEW p \in Int
      PROVE  p \in Covered(r) <=> p \in Covered(s) \/ p \in Covered(t)
  <2>1. ASSUME NEW i \in DOMAIN r, r[i].ver <= p, p < Vend(r[i])
        PROVE  \/ \E h \in DOMAIN s : s[h].ver <= p /\ p < Vend(s[h])
               \/ \E h \in DOMAIN t : t[h].ver <= p /\ p < Vend(t[h])
    BY <1>2, <1>3, <2>1
  <2>2. ASSUME NEW h \in DOMAIN s, s[h].ver <= p, p < Vend(s[h])
        PROVE  \E i \in DOMAIN r : r[i].ver <= p /\ p < Vend(r[i])
    <3>1. CASE h <= k
      <4>1. h \in DOMAIN r /\ r[h] = s[h]
        BY <1>1, <1>2, <3>1
      <4> QED BY <2>2, <4>1
    <3>2. CASE h > k
      <4>1. Len(t) + h \in DOMAIN r /\ r[Len(t) + h] = s[h]
        BY <1>1, <1>2, <3>2
      <4> QED BY <2>2, <4>1
    <3> QED BY <1>2, <3>1, <3>2
  <2>3. ASSUME NEW h \in DOMAIN t, t[h].ver <= p, p < Vend(t[h])
        PROVE  \E i \in DOMAIN r : r[i].ver <= p /\ p < Vend(r[i])
    <3>1. k + h \in DOMAIN r /\ r[k + h] = t[h]
      BY <1>1, <1>2
    <3> QED BY <2>3, <3>1
  <2> QED BY <1>1, <2>1, <2>2, <2>3, CoveredByNode
<1>7. Pairs(r)
  BY <1>4, <1>5 DEF Pairs
<1>8. Covered(r) \subseteq Int /\ Covered(s) \subseteq Int /\ Covered(t) \subseteq Int
  BY <1>1, <1>7, CoveredInFile DEF Bytes
<1> QED BY <1>6, <1>7, <1>8

\* DCB_llm_truncate leaves matches in order, none of which reaches further
\* than the place they were truncated at, and moves none.
LEMMA TruncateKeeps ==
  ASSUME NEW s \in Seq(Nodes), Pairs(s), s # <<>>,
         NEW len \in Nat, Vend(s[Len(s)]) - len \in Nat
  PROVE  LET r == Truncate(s, len)
         IN  /\ r \in Seq(Nodes)
             /\ Pairs(r)
             /\ \A i \in DOMAIN r : /\ i \in DOMAIN s
                                    /\ r[i].ver = s[i].ver
                                    /\ Vend(r[i]) <= Vend(s[Len(s)]) - len
<1> DEFINE r == Truncate(s, len)
           t == Vend(s[Len(s)]) - len
           T == {i \in DOMAIN s : s[i].ver < t}
<1>1. PICK k \in 0..Len(s) : T = 1..k /\ Cardinality(1..k) = k
  BY FirstNodes
<1>3. t \in Nat
  OBVIOUS
<1>4. r = [i \in 1..k |-> IF Vend(s[i]) > t
                          THEN [s[i] EXCEPT !.len = t - s[i].ver]
                          ELSE s[i]]
  BY <1>1 DEF Truncate
<1> HIDE DEF r, t
<1>5. ASSUME NEW i \in 1..k
      PROVE  /\ i \in DOMAIN s
             /\ r[i] \in Nodes
             /\ r[i].ver = s[i].ver
             /\ Vend(r[i]) <= t /\ Vend(r[i]) <= Vend(s[i])
  <2>1. i \in DOMAIN s /\ s[i].ver < t
    BY <1>1
  <2>2. /\ s[i] \in Nodes /\ s[i].ver \in 0..VerSize /\ s[i].len \in 1..VerSize
        /\ Vend(s[i]) = s[i].ver + s[i].len /\ Vend(s[i]) <= VerSize
    BY <2>1, NodeType DEF Pairs, Vend
  <2>3. CASE Vend(s[i]) > t
    <3>1. r[i] = [s[i] EXCEPT !.len = t - s[i].ver]
      BY <1>4, <2>3
    <3>2. t - s[i].ver \in 1..VerSize
      <4>1. /\ Vend(s[i]) \in Int /\ Vend(s[i]) <= VerSize
            /\ s[i].ver \in Int /\ s[i].ver >= 0
        BY <2>2
      <4> QED BY <1>3, <2>1, <2>3, <4>1
    <3>3. /\ r[i] \in Nodes /\ r[i].ver = s[i].ver
          /\ r[i].len = t - s[i].ver
      <4> DEFINE d == t - s[i].ver
      <4>1. d \in 1..VerSize /\ r[i] = [s[i] EXCEPT !.len = d]
        BY <3>1, <3>2
      <4> HIDE DEF d
      <4>2. r[i] \in Nodes /\ r[i].ver = s[i].ver /\ r[i].len = d
        BY <2>2, <4>1 DEF Nodes
      <4> QED BY <4>2 DEF d
    <3>4. Vend(r[i]) = t
      BY <1>3, <2>2, <3>3 DEF Vend
    <3> QED BY <1>3, <2>1, <2>2, <2>3, <3>3, <3>4
  <2>4. CASE ~(Vend(s[i]) > t)
    <3>1. r[i] = s[i]
      BY <1>4, <2>4
    <3> QED BY <1>3, <2>1, <2>2, <2>4, <3>1
  <2> QED BY <2>3, <2>4
<1>6. k \in Nat
  BY <1>1
<1>7. r \in Seq(Nodes) /\ Len(r) = k /\ DOMAIN r = 1..k
  <2>1. r \in [1..k -> Nodes]
    BY <1>4, <1>5
  <2> QED BY <1>6, <2>1
<1>8. Pairs(r)
  <2>1. ASSUME NEW i \in DOMAIN r, NEW j \in DOMAIN r, i < j
        PROVE  Vend(r[i]) <= r[j].ver
    <3>1. Vend(s[i]) <= s[j].ver /\ i \in DOMAIN s /\ j \in DOMAIN s
      BY <1>5, <1>7, <2>1 DEF Pairs
    <3>2. Vend(r[i]) <= Vend(s[i]) /\ r[j].ver = s[j].ver
      BY <1>5, <1>7
    <3>3. Vend(r[i]) \in Nat /\ Vend(s[i]) \in Nat /\ s[j].ver \in Nat
      BY <1>7, <3>1, NodeType
    <3> QED BY <3>1, <3>2, <3>3
  <2>2. ASSUME NEW i \in DOMAIN r
        PROVE  Vend(r[i]) <= VerSize
    <3>1. Vend(r[i]) <= Vend(s[i]) /\ Vend(s[i]) <= VerSize /\ i \in DOMAIN s
      BY <1>5, <1>7 DEF Pairs
    <3>2. Vend(r[i]) \in Nat /\ Vend(s[i]) \in Nat
      BY <1>7, <3>1, NodeType
    <3> QED BY <3>1, <3>2
  <2> QED BY <2>1, <2>2 DEF Pairs
<1> QED BY <1>5, <1>7, <1>8 DEF r, t

-----------------------------------------------------------------------------
(* Free bytes *)

\* No match in s has a byte between lo and hi.
Clear(s, lo, hi) == \A i \in DOMAIN s : Vend(s[i]) <= lo \/ hi <= s[i].ver

\* Clear, said of bytes: none of them is covered.
LEMMA ClearIsFree ==
  ASSUME NEW s \in Seq(Nodes),
         NEW lo \in 0..VerSize, NEW hi \in 0..VerSize, lo < hi
  PROVE  Clear(s, lo, hi) <=> lo..(hi - 1) \subseteq Bytes \ Covered(s)
<1>1. ASSUME Clear(s, lo, hi), NEW p \in lo..(hi - 1)
      PROVE  p \in Bytes \ Covered(s)
  <2>1. p \in Bytes /\ p \in Int
    BY DEF Bytes
  <2>2. ASSUME NEW i \in DOMAIN s, s[i].ver <= p, p < Vend(s[i])
        PROVE  FALSE
    <3>1. s[i].ver \in Int /\ Vend(s[i]) \in Int
      BY NodeType
    <3>2. Vend(s[i]) <= lo \/ hi <= s[i].ver
      BY <1>1 DEF Clear
    <3> QED BY <2>2, <3>1, <3>2
  <2>3. p \notin Covered(s)
    BY <2>1, <2>2, CoveredByNode
  <2> QED BY <2>1, <2>3
<1>2. ASSUME lo..(hi - 1) \subseteq Bytes \ Covered(s), NEW i \in DOMAIN s,
             lo < Vend(s[i]), s[i].ver < hi
      PROVE  FALSE
  <2>1. /\ s[i].ver \in Nat /\ Vend(s[i]) \in Nat /\ s[i].ver < Vend(s[i])
    BY NodeType
  <2>2. PICK p \in lo..(hi - 1) : s[i].ver <= p /\ p < Vend(s[i])
    <3>1. CASE s[i].ver <= lo
      BY <1>2, <2>1, <3>1
    <3>2. CASE lo < s[i].ver
      BY <1>2, <2>1, <3>2
    <3> QED BY <2>1, <3>1, <3>2
  <2>3. p \in Int /\ p \in Covered(s)
    BY <2>2, CoveredByNode
  <2> QED BY <1>2, <2>3
<1>3. \A i \in DOMAIN s : s[i].ver \in Int /\ Vend(s[i]) \in Int
  BY NodeType
<1> QED BY <1>1, <1>2, <1>3 DEF Clear

\* The bytes of BigGaps are those in a clear stretch of req bytes.
LEMMA InBigGaps ==
  ASSUME list \in Seq(Nodes), NEW req \in Nat, NEW p
  PROVE  p \in BigGaps(req) <=>
           /\ p \in Bytes
           /\ \E lo \in 0..p, hi \in (p + 1)..VerSize :
                hi - lo >= req /\ Clear(list, lo, hi)
<1>1. ASSUME NEW q \in Bytes, NEW lo \in 0..q, NEW hi \in (q + 1)..VerSize
      PROVE  /\ lo \in 0..VerSize /\ hi \in 0..VerSize /\ lo < hi
             /\ q \in lo..(hi - 1)
  BY DEF Bytes
<1>2. ASSUME NEW q \in Bytes, NEW lo \in 0..q, NEW hi \in (q + 1)..VerSize
      PROVE  Clear(list, lo, hi) <=> lo..(hi - 1) \subseteq Bytes \ Covered(list)
  BY <1>1, ClearIsFree
<1> QED BY <1>1, <1>2 DEF BigGaps

\* A run of free bytes lies in one gap of the list.
LEMMA RunInGap ==
  ASSUME list \in Seq(Nodes), NEW lo \in 0..VerSize, NEW hi \in 0..VerSize,
         lo < hi, Clear(list, lo, hi), list # <<>>
  PROVE  \/ hi <= list[1].ver
         \/ \E i \in DOMAIN list : Vend(list[i]) <= lo /\ hi <= GapEnd(i)
<1> DEFINE T == {k \in Nat : \A i \in DOMAIN list : k < i => hi <= list[i].ver}
<1>1. Len(list) \in T
  OBVIOUS
<1>2. PICK k \in T : \A y \in T : k <= y
  BY <1>1, Least
<1>3. k \in 0..Len(list) /\ Len(list) \in Nat
  BY <1>1, <1>2
<1>4. CASE k = 0
  BY <1>2, <1>4
<1>5. CASE k # 0
  <2>1. k \in DOMAIN list /\ k - 1 \in Nat
    BY <1>3, <1>5
  <2>2. ~(hi <= list[k].ver)
    <3> SUFFICES ASSUME hi <= list[k].ver
                 PROVE  k - 1 \in T
      BY <1>2, <1>3, <2>1
    <3> QED BY <1>2, <1>3, <2>1
  <2>3. Vend(list[k]) <= lo
    BY <2>1, <2>2 DEF Clear
  <2>4. hi <= GapEnd(k)
    BY <1>2, <1>3, <2>1 DEF GapEnd
  <2> QED BY <2>1, <2>3, <2>4
<1> QED BY <1>4, <1>5

-----------------------------------------------------------------------------
(* DCB_get_next_gap *)

\* FirstFrom gives the first node of S from `from` on, or NULL when there is none.
LEMMA FirstFromIsFirst ==
  ASSUME list \in Seq(Nodes), NEW from \in 0..Len(list),
         NEW S \in SUBSET DOMAIN list, NEW m, m = FirstFrom(from, S)
  PROVE  \/ m = 0 /\ (from = 0 \/ \A i \in S : i < from)
         \/ /\ from # 0 /\ m \in S /\ from <= m
            /\ \A i \in S : from <= i => m <= i
<1> DEFINE met == S \cap (from..Len(list))
<1>1. CASE from = 0 \/ met = {}
  <2>1. m = 0
    BY <1>1 DEF FirstFrom
  <2> QED BY <1>1, <2>1
<1>2. CASE from # 0 /\ met # {}
  <2>1. m = CHOOSE i \in met : \A j \in met : i <= j
    BY <1>2 DEF FirstFrom
  <2>2. met \in SUBSET Nat
    OBVIOUS
  <2>3. \E i \in met : \A j \in met : i <= j
    <3> HIDE DEF met
    <3> QED BY <1>2, <2>2, Least
  <2>4. m \in met /\ \A j \in met : m <= j
    <3> HIDE DEF met
    <3> QED BY <2>1, <2>3
  <2> QED BY <1>2, <2>4
<1> QED BY <1>1, <1>2

\* What NextGap comes to: nothing is left; the whole file; the gap before the
\* list; the gap after the first node not skipped that has a long enough one;
\* none has.
LEMMA NextGapCases ==
  ASSUME Types, NEW req \in Nat \ {0}, NEW r, r = NextGap(req),
         NEW from, from = FirstFrom(main, NotSkipped),
         NEW m, m = FirstFrom(from, BeforeGap(req))
  PROVE  \/ gap_pos = VerSize /\ r.gap = NoGap
         \/ /\ gap_pos = 0 /\ gap_pos # VerSize /\ list = <<>>
            /\ r.main = main /\ r.gap_pos = VerSize
            /\ r.gap = IF req <= VerSize THEN <<0, VerSize>> ELSE NoGap
         \/ /\ gap_pos = 0 /\ gap_pos # VerSize
            /\ list # <<>> /\ list[1].ver >= req
            /\ r.main = main /\ r.gap_pos = list[1].ver
            /\ r.gap = <<0, list[1].ver>>
         \/ /\ gap_pos # VerSize
            /\ gap_pos = 0 => list # <<>> /\ ~(list[1].ver >= req)
            /\ m # 0
            /\ r.main = m /\ r.gap_pos = GapEnd(m)
            /\ r.gap = <<Vend(list[m]), GapEnd(m)>>
         \/ /\ gap_pos # VerSize
            /\ gap_pos = 0 => list # <<>> /\ ~(list[1].ver >= req)
            /\ m = 0 /\ r.gap = NoGap
<1>1. main_count = 0 <=> list = <<>>
  BY DEF Types
<1> QED BY <1>1 DEF NextGap

\* A byte ahead of the walk and in a gap that is long enough is found: the walk
\* meets the node before that gap, unless it is the one before the list.
LEMMA NotMissed ==
  ASSUME Types, Pairs(list), WalkPlace, Walking, NEW req \in Nat \ {0},
         gap_pos # VerSize,
         gap_pos = 0 => list # <<>> /\ ~(list[1].ver >= req),
         NEW p \in BigGaps(req), gap_pos <= p,
         NEW from, from = FirstFrom(main, NotSkipped)
  PROVE  /\ from # 0
         /\ \E i \in BeforeGap(req) : from <= i /\ Vend(list[i]) <= p
<1>1. /\ list \in Seq(Nodes) /\ main \in 0..Len(list) /\ gap_pos \in 0..VerSize
      /\ list # <<>> => main # 0
      /\ \A i \in DOMAIN list : i < main => list[i].ver < gap_pos
  BY DEF Types, WalkPlace
<1>2. gap_pos # 0 => \E i \in DOMAIN list : list[i].ver = gap_pos
  BY DEF WalkPlace
<1>3. list # <<>>
  BY <1>2
<1>4. p \in Bytes /\ p \in Int
  BY <1>1, InBigGaps DEF Bytes
<1>5. PICK lo \in 0..p, hi \in (p + 1)..VerSize :
         hi - lo >= req /\ Clear(list, lo, hi)
  BY <1>1, InBigGaps
<1>6. lo \in 0..VerSize /\ hi \in 0..VerSize /\ lo < hi /\ lo <= p /\ p < hi
  BY <1>4, <1>5 DEF Bytes
<1>7. \A i \in DOMAIN list : /\ list[i].ver \in Nat /\ Vend(list[i]) \in Nat
                             /\ list[i].ver < Vend(list[i])
                             /\ GapEnd(i) \in Nat
  BY <1>1, NodeType DEF GapEnd
<1>8. ~(hi <= list[1].ver)
  <2> SUFFICES ASSUME hi <= list[1].ver
               PROVE  FALSE
    OBVIOUS
  <2>1. 1 \in DOMAIN list
    BY <1>1, <1>3
  <2>2. list[1].ver >= req
    BY <1>5, <1>6, <1>7, <2>1
  <2>3. PICK k \in DOMAIN list : list[k].ver = gap_pos
    BY <1>2, <2>2
  <2>4. list[1].ver <= list[k].ver
    <3>1. 1 <= k
      BY <1>1, <2>3
    <3>2. list \in Seq(Nodes)
      BY <1>1
    <3>3. 1 <= k <=> list[1].ver <= list[k].ver
      BY <2>1, <2>3, <3>2, InTurn
    <3> QED BY <3>1, <3>3
  <2> QED BY <1>1, <1>4, <1>6, <1>7, <2>1, <2>3, <2>4
<1>9. PICK i \in DOMAIN list : Vend(list[i]) <= lo /\ hi <= GapEnd(i)
  BY <1>1, <1>3, <1>5, <1>6, <1>8, RunInGap
<1>10. i \in BeforeGap(req) /\ Vend(list[i]) <= p
  <2>1. GapEnd(i) - Vend(list[i]) >= req
    BY <1>5, <1>6, <1>7, <1>9
  <2> QED BY <1>4, <1>6, <1>7, <1>9, <2>1 DEF BeforeGap
<1>11. ASSUME list[i].ver < gap_pos
       PROVE  FALSE
  <2>1. PICK k \in DOMAIN list : list[k].ver = gap_pos
    BY <1>1, <1>2, <1>7, <1>11
  <2>2. i < k
    <3>1. i <= k <=> list[i].ver <= list[k].ver
      BY <1>1, InTurn
    <3>2. i # k
      BY <1>7, <1>11, <2>1
    <3> QED BY <1>1, <1>7, <1>11, <2>1, <3>1, <3>2
  <2>3. i + 1 \in DOMAIN list /\ i # Len(list)
    BY <1>1, <2>2
  <2>4. GapEnd(i) = list[i + 1].ver
    BY <2>3 DEF GapEnd
  <2>5. list[i + 1].ver <= list[k].ver
    <3>1. i + 1 <= k
      BY <2>2
    <3> QED BY <1>1, <2>3, <3>1, InTurn
  <2> QED BY <1>1, <1>4, <1>6, <1>7, <1>9, <2>1, <2>3, <2>4, <2>5
<1>12. i \in NotSkipped /\ main <= i
  BY <1>1, <1>7, <1>11 DEF NotSkipped
<1>13. from # 0 /\ from <= i
  <2>1. NotSkipped \in SUBSET DOMAIN list
    BY DEF NotSkipped
  <2>2. \/ from = 0 /\ (main = 0 \/ \A j \in NotSkipped : j < main)
        \/ /\ main # 0 /\ from \in NotSkipped /\ main <= from
           /\ \A j \in NotSkipped : main <= j => from <= j
    BY <1>1, <2>1, FirstFromIsFirst
  <2> QED BY <1>1, <1>3, <1>12, <2>1, <2>2
<1> QED BY <1>10, <1>13

\* A walk that finds nothing more has passed every gap that is long enough.
LEMMA GapsExhausted ==
  ASSUME Types, Pairs(list), WalkPlace, Walking, NEW req \in Nat \ {0},
         NextGap(req).gap = NoGap, NEW p \in BigGaps(req)
  PROVE  p < gap_pos
<1> DEFINE r == NextGap(req)
           from == FirstFrom(main, NotSkipped)
           m == FirstFrom(from, BeforeGap(req))
<1>1. /\ list \in Seq(Nodes) /\ main \in 0..Len(list) /\ gap_pos \in 0..VerSize
  BY DEF Types
<1>2. p \in Bytes /\ p \in Int
  BY <1>1, InBigGaps DEF Bytes
<1>3. \E lo \in 0..p, hi \in (p + 1)..VerSize : hi - lo >= req
  BY <1>1, InBigGaps
<1>4. req <= VerSize
  BY <1>2, <1>3 DEF Bytes
<1>5. CASE gap_pos = VerSize
  BY <1>2, <1>5 DEF Bytes
<1>6. CASE gap_pos # VerSize
  <2> SUFFICES ASSUME gap_pos <= p
               PROVE  FALSE
    BY <1>1, <1>2
  <2>1. /\ gap_pos = 0 => list # <<>> /\ ~(list[1].ver >= req)
        /\ m = 0
    <3>1. r.gap = NoGap
      OBVIOUS
    <3> HIDE DEF r, from, m
    <3>2. \A i \in DOMAIN list : Vend(list[i]) \in Nat /\ Vend(list[i]) # 0
      BY <1>1, NodeType
    <3>3. FirstFrom(from, BeforeGap(req)) # 0 =>
            FirstFrom(from, BeforeGap(req)) \in DOMAIN list
      <4>1. BeforeGap(req) \in SUBSET DOMAIN list /\ NotSkipped \in SUBSET DOMAIN list
        BY DEF BeforeGap, NotSkipped
      <4>2. from \in 0..Len(list)
        BY <1>1, <4>1, FirstFromIsFirst DEF from
      <4> QED BY <1>1, <4>1, <4>2, FirstFromIsFirst
    <3> QED BY <1>1, <1>4, <1>6, <3>1, <3>2, <3>3, NextGapCases DEF NoGap, r, from, m
  <2>2. /\ from # 0
        /\ \E i \in BeforeGap(req) : from <= i /\ Vend(list[i]) <= p
    BY <1>6, <2>1, NotMissed
  <2>3. BeforeGap(req) \in SUBSET DOMAIN list /\ NotSkipped \in SUBSET DOMAIN list
    BY DEF BeforeGap, NotSkipped
  <2> HIDE DEF m
  <2>4. from \in 0..Len(list)
    BY <1>1, <2>3, FirstFromIsFirst
  <2> HIDE DEF from
  <2>5. from = 0 \/ \A i \in BeforeGap(req) : i < from
    BY <1>1, <2>1, <2>3, <2>4, FirstFromIsFirst DEF m
  <2> QED BY <1>1, <2>2, <2>3, <2>4, <2>5
<1> QED BY <1>5, <1>6

\* The gap a walk returns is free, long enough and ahead of the walk; the walk
\* stands at its end then, and has passed no other gap that is long enough.
LEMMA GapFound ==
  ASSUME Types, Pairs(list), WalkPlace, Walking, NEW req \in Nat \ {0},
         NEW r, r = NextGap(req), r.gap # NoGap
  PROVE  /\ \E lo, hi \in 0..VerSize : /\ r.gap = <<lo, hi>>
                                       /\ lo < hi /\ hi - lo >= req
                                       /\ gap_pos <= lo /\ r.gap_pos = hi
                                       /\ Clear(list, lo, hi)
                                       /\ \A p \in BigGaps(req) :
                                            p < gap_pos \/ lo <= p
                                       /\ \A i \in DOMAIN list :
                                            i < r.main => list[i].ver < hi
                                       /\ \/ hi = VerSize
                                          \/ \E i \in DOMAIN list : list[i].ver = hi
         /\ r.main \in 0..Len(list)
         /\ list # <<>> => r.main # 0
         /\ list = <<>> => r.gap = <<0, VerSize>>
         /\ list # <<>> =>
              \/ r.gap = <<0, list[1].ver>> /\ r.main = 1
              \/ r.gap = <<Vend(list[r.main]), GapEnd(r.main)>>
<1> DEFINE from == FirstFrom(main, NotSkipped)
           m == FirstFrom(from, BeforeGap(req))
<1>1. /\ list \in Seq(Nodes) /\ main \in 0..Len(list) /\ gap_pos \in 0..VerSize
      /\ list # <<>> => main # 0
      /\ \A i \in DOMAIN list : i < main => list[i].ver < gap_pos
  BY DEF Types, WalkPlace
<1>2. \A p \in BigGaps(req) : p \in Nat
  BY <1>1, InBigGaps DEF Bytes
<1>3. \A i \in DOMAIN list : /\ list[i].ver \in Nat /\ Vend(list[i]) \in Nat
                             /\ list[i].ver < Vend(list[i])
                             /\ Vend(list[i]) <= VerSize
  BY <1>1, NodeType DEF Pairs
<1>4. CASE /\ gap_pos = 0 /\ gap_pos # VerSize /\ list = <<>>
           /\ r.main = main /\ r.gap_pos = VerSize
           /\ r.gap = IF req <= VerSize THEN <<0, VerSize>> ELSE NoGap
  <2>1. req <= VerSize /\ r.gap = <<0, VerSize>>
    BY <1>4
  <2>2. Clear(list, 0, VerSize)
    BY <1>4 DEF Clear
  <2>3. /\ r.gap = <<0, VerSize>> /\ 0 < VerSize /\ VerSize - 0 >= req
        /\ gap_pos <= 0 /\ r.gap_pos = VerSize
        /\ \A p \in BigGaps(req) : p < gap_pos \/ 0 <= p
        /\ \A i \in DOMAIN list : i < r.main => list[i].ver < VerSize
    BY <1>2, <1>4, <2>1
  <2>4. 0 \in 0..VerSize /\ VerSize \in 0..VerSize
    OBVIOUS
  <2> QED BY <1>1, <1>4, <2>2, <2>3, <2>4
<1>5. CASE /\ gap_pos = 0 /\ gap_pos # VerSize
           /\ list # <<>> /\ list[1].ver >= req
           /\ r.main = main /\ r.gap_pos = list[1].ver
           /\ r.gap = <<0, list[1].ver>>
  <2>1. 1 \in DOMAIN list /\ main \in DOMAIN list
    BY <1>1, <1>5
  <2>2. main = 1
    <3>1. ~(1 < main)
      BY <1>1, <1>3, <1>5, <2>1
    <3> QED BY <1>1, <2>1, <3>1
  <2> DEFINE hi == list[1].ver
  <2>3. hi \in 0..VerSize /\ 0 \in 0..VerSize /\ 0 < hi /\ hi - 0 >= req
    BY <1>3, <1>5, <2>1
  <2>4. Clear(list, 0, hi)
    <3> SUFFICES ASSUME NEW i \in DOMAIN list
                 PROVE  hi <= list[i].ver
      BY DEF Clear
    <3>1. list \in Seq(Nodes) /\ 1 <= i
      BY <1>1
    <3>2. 1 <= i <=> list[1].ver <= list[i].ver
      BY <2>1, <3>1, InTurn
    <3> QED BY <3>1, <3>2
  <2>5. /\ \A p \in BigGaps(req) : p < gap_pos \/ 0 <= p
        /\ \A i \in DOMAIN list : i < r.main => list[i].ver < hi
        /\ r.gap = <<0, hi>> /\ gap_pos <= 0 /\ r.gap_pos = hi
        /\ \E i \in DOMAIN list : list[i].ver = hi
    BY <1>1, <1>2, <1>5, <2>1, <2>2
  <2>6. r.main = 1 /\ r.main \in 0..Len(list)
    BY <1>1, <1>5, <2>2
  <2> QED BY <1>5, <2>3, <2>4, <2>5, <2>6
<1>6. CASE /\ gap_pos # VerSize
           /\ gap_pos = 0 => list # <<>> /\ ~(list[1].ver >= req)
           /\ m # 0
           /\ r.main = m /\ r.gap_pos = GapEnd(m)
           /\ r.gap = <<Vend(list[m]), GapEnd(m)>>
  <2>1. BeforeGap(req) \in SUBSET DOMAIN list /\ NotSkipped \in SUBSET DOMAIN list
    BY DEF BeforeGap, NotSkipped
  <2> HIDE DEF m
  <2>2. \/ from = 0
        \/ from # 0 /\ from \in NotSkipped /\ main <= from
    BY <1>1, <2>1, FirstFromIsFirst
  <2>3. from \in 0..Len(list)
    BY <1>1, <2>1, <2>2
  <2> HIDE DEF from
  <2>4. /\ from # 0 /\ m \in BeforeGap(req) /\ from <= m
        /\ \A i \in BeforeGap(req) : from <= i => m <= i
    BY <1>1, <1>6, <2>1, <2>3, FirstFromIsFirst DEF m
  <2>5. /\ m \in DOMAIN list /\ GapEnd(m) - Vend(list[m]) >= req
        /\ from \in DOMAIN list /\ gap_pos <= list[from].ver
    BY <2>1, <2>2, <2>4 DEF BeforeGap, NotSkipped
  <2> DEFINE lo == Vend(list[m])
             hi == GapEnd(m)
  <2>6. /\ list \in Seq(Nodes) /\ Len(list) \in Nat /\ m \in 1..Len(list)
        /\ m # Len(list) => m + 1 \in DOMAIN list
    BY <1>1, <2>5
  <2>7. lo \in 0..VerSize /\ hi \in 0..VerSize /\ hi - lo >= req /\ lo < hi
    BY <1>3, <2>5, <2>6 DEF GapEnd
  <2>8. gap_pos <= lo
    <3>1. from <= m <=> Vend(list[from]) <= Vend(list[m])
      BY <2>5, <2>6, InTurn
    <3> QED BY <1>1, <1>3, <2>4, <2>5, <3>1
  <2>9. Clear(list, lo, hi)
    <3> SUFFICES ASSUME NEW i \in DOMAIN list
                 PROVE  Vend(list[i]) <= lo \/ hi <= list[i].ver
      BY DEF Clear
    <3>1. CASE i <= m
      <4>1. i <= m <=> Vend(list[i]) <= Vend(list[m])
        BY <2>5, <2>6, InTurn
      <4> QED BY <3>1, <4>1
    <3>2. CASE m < i
      <4>1. m # Len(list) /\ m + 1 <= i
        BY <2>6, <3>2
      <4>2. m + 1 <= i <=> list[m + 1].ver <= list[i].ver
        BY <2>6, <4>1, InTurn
      <4> QED BY <4>1, <4>2 DEF GapEnd
    <3> QED BY <2>6, <3>1, <3>2
  <2>10. ASSUME NEW p \in BigGaps(req)
         PROVE  p < gap_pos \/ lo <= p
    <3> SUFFICES ASSUME gap_pos <= p
                 PROVE  lo <= p
      BY <1>1, <1>2
    <3>1. PICK i \in BeforeGap(req) : from <= i /\ Vend(list[i]) <= p
      BY <1>6, NotMissed DEF from
    <3>2. m <= i /\ i \in DOMAIN list
      BY <2>1, <2>4, <3>1
    <3>3. m <= i <=> Vend(list[m]) <= Vend(list[i])
      BY <2>5, <2>6, <3>2, InTurn
    <3> QED BY <1>2, <1>3, <2>5, <3>1, <3>2, <3>3
  <2>11. ASSUME NEW i \in DOMAIN list, i < r.main
         PROVE  list[i].ver < hi
    <3>1. i < m <=> Vend(list[i]) <= list[m].ver
      BY <2>5, <2>6, InTurn
    <3> QED BY <1>3, <1>6, <2>5, <2>7, <2>11, <3>1
  <2>12. hi = VerSize \/ \E i \in DOMAIN list : list[i].ver = hi
    BY <2>6 DEF GapEnd
  <2>13. /\ r.main \in 0..Len(list) /\ r.main # 0 /\ list # <<>>
         /\ r.gap = <<lo, hi>> /\ r.gap_pos = hi
         /\ r.gap = <<Vend(list[r.main]), GapEnd(r.main)>>
    BY <1>6, <2>6
  <2> HIDE DEF lo, hi
  <2> QED BY <2>7, <2>8, <2>9, <2>10, <2>11, <2>12, <2>13
<1>7. \/ gap_pos = VerSize /\ r.gap = NoGap
      \/ /\ gap_pos # VerSize
         /\ gap_pos = 0 => list # <<>> /\ ~(list[1].ver >= req)
         /\ m = 0 /\ r.gap = NoGap
      \/ <1>4!1 \/ <1>5!1 \/ <1>6!1
  BY NextGapCases
<1> QED BY <1>4, <1>5, <1>6, <1>7

\* One call of DCB_get_next_gap that returns a gap.
LEMMA Taken ==
  ASSUME Types, Pairs(list), WalkPlace, Walking, seed_len >= MinSeed,
         NEW g, Take(g)
  PROVE  /\ \E lo, hi \in 0..VerSize :
              /\ g = <<lo, hi>> /\ lo < hi
              /\ gap_pos <= lo /\ gap_pos' = hi
              /\ Clear(list, lo, hi)
              /\ given' = given \cup lo..(hi - 1)
              /\ given \cap lo..(hi - 1) = {}
              /\ {p \in BigGaps(seed_len) : p < hi} =
                   {p \in BigGaps(seed_len) : p < gap_pos} \cup lo..(hi - 1)
              /\ \A i \in DOMAIN list : i < main' => list[i].ver < hi
              /\ hi = VerSize \/ \E i \in DOMAIN list : list[i].ver = hi
         /\ main' \in 0..Len(list)
         /\ list # <<>> => main' # 0
         /\ list = <<>> => g = <<0, VerSize>>
         /\ list # <<>> =>
              \/ g = <<0, list[1].ver>> /\ main' = 1
              \/ g = <<Vend(list[main']), GapEnd(main')>>
<1> DEFINE r == NextGap(seed_len)
<1>1. /\ r.gap = g /\ r.gap # NoGap /\ main' = r.main /\ gap_pos' = r.gap_pos
      /\ given' = given \cup Span(g)
  BY DEF Take
<1>2. seed_len \in Nat \ {0} /\ list \in Seq(Nodes) /\ gap_pos \in 0..VerSize
  BY DEF Types
<1> HIDE DEF r
<1>3. /\ \E lo, hi \in 0..VerSize : /\ r.gap = <<lo, hi>>
                                    /\ lo < hi /\ hi - lo >= seed_len
                                    /\ gap_pos <= lo /\ r.gap_pos = hi
                                    /\ Clear(list, lo, hi)
                                    /\ \A p \in BigGaps(seed_len) :
                                         p < gap_pos \/ lo <= p
                                    /\ \A i \in DOMAIN list :
                                         i < r.main => list[i].ver < hi
                                    /\ \/ hi = VerSize
                                       \/ \E i \in DOMAIN list : list[i].ver = hi
      /\ r.main \in 0..Len(list)
      /\ list # <<>> => r.main # 0
      /\ list = <<>> => r.gap = <<0, VerSize>>
      /\ list # <<>> =>
           \/ r.gap = <<0, list[1].ver>> /\ r.main = 1
           \/ r.gap = <<Vend(list[r.main]), GapEnd(r.main)>>
  <2>1. r = NextGap(seed_len)
    BY DEF r
  <2> QED BY <1>1, <1>2, <2>1, GapFound
<1>4. PICK lo \in 0..VerSize, hi \in 0..VerSize :
           /\ r.gap = <<lo, hi>>
           /\ lo < hi /\ hi - lo >= seed_len
           /\ gap_pos <= lo /\ r.gap_pos = hi
           /\ Clear(list, lo, hi)
           /\ \A p \in BigGaps(seed_len) : p < gap_pos \/ lo <= p
           /\ \A i \in DOMAIN list : i < r.main => list[i].ver < hi
           /\ hi = VerSize \/ \E i \in DOMAIN list : list[i].ver = hi
  BY <1>3
<1>5. given' = given \cup lo..(hi - 1)
  BY <1>1, <1>4 DEF Span
<1>6. given \cap lo..(hi - 1) = {}
  <2>1. given \subseteq 0..(gap_pos - 1)
    BY DEF WalkPlace
  <2> QED BY <1>2, <1>4, <2>1
<1>7. ASSUME NEW p \in lo..(hi - 1)
      PROVE  p \in BigGaps(seed_len) /\ p < hi
  <2>1. p \in Bytes /\ lo \in 0..p /\ hi \in (p + 1)..VerSize /\ p < hi
    BY <1>4 DEF Bytes
  <2> QED BY <1>2, <1>4, <2>1, InBigGaps
<1>8. \A p \in BigGaps(seed_len) : p \in Nat
  BY <1>2, InBigGaps DEF Bytes
<1>9. {p \in BigGaps(seed_len) : p < hi} =
        {p \in BigGaps(seed_len) : p < gap_pos} \cup lo..(hi - 1)
  <2>1. ASSUME NEW p \in BigGaps(seed_len), p < hi, ~(p < gap_pos)
        PROVE  p \in lo..(hi - 1)
    BY <1>4, <1>8, <2>1
  <2>2. ASSUME NEW p \in BigGaps(seed_len), p < gap_pos
        PROVE  p < hi
    BY <1>2, <1>4, <1>8, <2>2
  <2> QED BY <1>7, <2>1, <2>2
<1>10. gap_pos' = hi /\ main' = r.main /\ g = <<lo, hi>>
  BY <1>1, <1>4
<1>11. \A i \in DOMAIN list : i < main' => list[i].ver < hi
  BY <1>4, <1>10
<1> QED BY <1>1, <1>3, <1>4, <1>5, <1>6, <1>9, <1>10, <1>11

-----------------------------------------------------------------------------
(* DCB_llm_finalize *)

\* An empty sequence of nodes covers nothing.
LEMMA EmptySeq ==
  ASSUME NEW s \in Seq(Nodes)
  PROVE  /\ s = <<>> <=> Len(s) = 0
         /\ s = <<>> => Covered(s) = {} /\ Pairs(s)
BY DEF Covered, Pairs

\* What the matches of the archive become when the list is still empty.
LEMMA LinkedToNothing ==
  ASSUME Types, list = <<>>
  PROVE  Linked.list = buff
<1>1. buff \in Seq(Nodes)
  BY DEF Types
<1> QED BY <1>1, EmptySeq DEF Linked

\* The matches found in a gap are linked in where the gap is: the list stays in
\* order, and the walk stands behind them and at the end of the gap.
LEMMA LinkedInGap ==
  ASSUME Types, Pairs(list), Pairs(buff), WalkPlace, BuffPlace, WindowAtMain,
         phase = "fill", differencing,
         NEW l, l = Linked.list, NEW m, m = Linked.main
  PROVE  /\ l \in Seq(Nodes) /\ Len(l) = Len(list) + Len(buff)
         /\ Pairs(l)
         /\ Covered(l) = Covered(list) \cup Covered(buff)
         /\ m \in 0..Len(l)
         /\ l # <<>> => m # 0
         /\ \A i \in DOMAIN l : i < m => l[i].ver < gap_pos
         /\ \/ gap_pos = 0 \/ gap_pos = VerSize
            \/ \E i \in DOMAIN l : l[i].ver = gap_pos
<1> DEFINE n == Len(buff)
<1>1. /\ list \in Seq(Nodes) /\ buff \in Seq(Nodes) /\ main \in 0..Len(list)
      /\ vs \in 0..VerSize /\ gap_pos \in 0..VerSize
      /\ window[1] \in 0..VerSize /\ window[2] \in 0..VerSize
      /\ n \in Nat /\ Len(list) \in Nat
  BY DEF Types
<1>2. /\ list # <<>> => main # 0
      /\ \/ gap_pos = 0 \/ gap_pos = VerSize
         \/ \E i \in DOMAIN list : list[i].ver = gap_pos
      /\ \A i \in DOMAIN list : i < main => list[i].ver < gap_pos
  BY DEF WalkPlace, Walking
<1>3. /\ vs <= window[2] /\ gap_pos = window[2] /\ window[1] < window[2]
      /\ \A i \in DOMAIN buff : window[1] <= buff[i].ver /\ Vend(buff[i]) <= vs
      /\ list = <<>> => window = <<0, VerSize>>
  BY DEF BuffPlace
<1>4. \A i \in DOMAIN buff :
         /\ buff[i].ver \in Nat /\ Vend(buff[i]) \in Nat
         /\ buff[i].ver < Vend(buff[i])
         /\ buff[i].ver < gap_pos /\ Vend(buff[i]) <= gap_pos
  BY <1>1, <1>3, NodeType
<1>5. \A i \in DOMAIN list :
         /\ list[i].ver \in Nat /\ Vend(list[i]) \in Nat
         /\ list[i].ver < Vend(list[i])
  BY <1>1, NodeType
<1>6. CASE buff = <<>>
  <2>1. l = list /\ m = main /\ n = 0
    BY <1>6 DEF Linked
  <2>2. Covered(buff) = {}
    BY <1>1, <1>6, EmptySeq
  <2> QED BY <1>1, <1>2, <2>1, <2>2
<1>7. CASE buff # <<>> /\ list = <<>>
  <2>1. l = buff /\ m = n /\ n # 0
    BY <1>1, <1>7, EmptySeq DEF Linked
  <2>2. Covered(list) = {} /\ Len(list) = 0
    BY <1>1, <1>7, EmptySeq
  <2>3. gap_pos = VerSize
    BY <1>3, <1>7
  <2> QED BY <1>1, <1>4, <2>1, <2>2, <2>3
<1>8. CASE buff # <<>> /\ list # <<>> /\ window = <<0, list[1].ver>> /\ main = 1
  <2>1. n # 0 /\ n \in DOMAIN buff /\ 1 \in DOMAIN list
    BY <1>1, <1>8, EmptySeq
  <2>2. InFront
    <3>1. gap_pos = list[1].ver
      BY <1>3, <1>8
    <3> QED BY <1>4, <1>5, <2>1, <3>1 DEF InFront
  <2>3. l = buff \o SubSeq(list, main, Len(list)) /\ m = n + 1
    BY <1>8, <2>1, <2>2 DEF Linked
  <2>4. l = Splice(list, 0, buff)
    <3>1. SubSeq(list, 1, 0) = <<>>
      BY <1>1
    <3>2. <<>> \o buff = buff
      BY <1>1
    <3> QED BY <1>8, <2>3, <3>1, <3>2 DEF Splice
  <2>5. \A i \in (0 + 1)..Len(list) : \A h \in DOMAIN buff :
            Vend(buff[h]) <= list[i].ver
    <3> SUFFICES ASSUME NEW i \in 1..Len(list), NEW h \in DOMAIN buff
                 PROVE  Vend(buff[h]) <= list[i].ver
      OBVIOUS
    <3>1. 1 <= i <=> list[1].ver <= list[i].ver
      BY <1>1, <2>1, InTurn
    <3>2. Vend(buff[h]) <= list[1].ver
      BY <1>3, <1>4, <1>8
    <3> QED BY <1>1, <1>4, <1>5, <2>1, <3>1, <3>2
  <2>6. 0 \in 0..Len(list) /\ \A i \in 1..0 : \A h \in DOMAIN buff :
            Vend(list[i]) <= buff[h].ver
    BY <1>1
  <2>7. Pairs(l) /\ Covered(l) = Covered(list) \cup Covered(buff)
    BY <1>1, <2>4, <2>5, <2>6, SpliceInOrder
  <2>8. /\ l \in Seq(Nodes) /\ Len(l) = Len(list) + n
        /\ \A j \in 1..n : l[0 + j] = buff[j]
        /\ \A j \in (0 + 1)..Len(list) : l[n + j] = list[j]
    <3> DEFINE r == Splice(list, 0, buff)
    <3>1. list \in Seq(Nodes) /\ buff \in Seq(Nodes) /\ 0 \in 0..Len(list)
      BY <1>1
    <3>2. /\ r \in Seq(Nodes) /\ Len(r) = Len(list) + Len(buff)
          /\ \A j \in 1..0 : r[j] = list[j]
          /\ \A j \in 1..Len(buff) : r[0 + j] = buff[j]
          /\ \A j \in (0 + 1)..Len(list) : r[Len(buff) + j] = list[j]
      BY <3>1, SpliceNodes
    <3> HIDE DEF r
    <3>3. l = r
      BY <2>4 DEF r
    <3> QED BY <3>2, <3>3
  <2>9. /\ n + 1 \in 0..Len(l) /\ n + 1 \in DOMAIN l /\ n + 1 # 0
        /\ l[n + 1] = list[1]
    BY <1>1, <2>1, <2>8
  <2>10. ASSUME NEW i \in DOMAIN l, i < m
         PROVE  l[i].ver < gap_pos
    <3>1. i \in DOMAIN buff /\ l[i] = buff[i]
      <4>1. i \in 1..n
        BY <1>1, <2>3, <2>8, <2>10
      <4>2. l[0 + i] = buff[i]
        BY <2>8, <4>1
      <4> QED BY <4>1, <4>2
    <3> QED BY <1>4, <3>1
  <2>11. gap_pos = l[n + 1].ver
    BY <1>3, <1>8, <2>9
  <2> QED BY <2>3, <2>7, <2>8, <2>9, <2>10, <2>11
<1>9. CASE /\ buff # <<>> /\ list # <<>> /\ main # 0
           /\ window = <<Vend(list[main]), GapEnd(main)>>
  <2>1. n # 0 /\ n \in DOMAIN buff /\ 1 \in DOMAIN list /\ main \in DOMAIN list
    BY <1>1, <1>9, EmptySeq
  <2>2. window[1] = Vend(list[main]) /\ window[2] = GapEnd(main)
    BY <1>9
  <2>3. ~InFront
    <3>1. 1 <= main <=> list[1].ver <= list[main].ver
      BY <1>1, <2>1, InTurn
    <3>2. window[1] <= buff[n].ver
      BY <1>3, <2>1
    <3> QED BY <1>1, <1>4, <1>5, <2>1, <2>2, <3>1, <3>2 DEF InFront
  <2>4. l = Splice(list, main, buff) /\ m = main + n
    BY <1>9, <2>1, <2>3 DEF Linked, LinkAfterMain, Splice
  <2>5. ASSUME NEW i \in 1..main, NEW h \in DOMAIN buff
        PROVE  Vend(list[i]) <= buff[h].ver
    <3>1. i \in DOMAIN list /\ i <= main
      BY <1>1
    <3>2. i <= main <=> Vend(list[i]) <= Vend(list[main])
      BY <1>1, <2>1, <3>1, InTurn
    <3>3. window[1] <= buff[h].ver
      BY <1>3
    <3> QED BY <1>4, <1>5, <2>1, <2>2, <3>1, <3>2, <3>3
  <2>6. ASSUME NEW i \in (main + 1)..Len(list), NEW h \in DOMAIN buff
        PROVE  Vend(buff[h]) <= list[i].ver
    <3>1. /\ i \in DOMAIN list /\ main + 1 \in DOMAIN list /\ main + 1 <= i
          /\ main # Len(list)
      BY <1>1
    <3>2. main + 1 <= i <=> list[main + 1].ver <= list[i].ver
      BY <1>1, <3>1, InTurn
    <3>3. gap_pos = list[main + 1].ver
      BY <1>3, <2>2, <3>1 DEF GapEnd
    <3> QED BY <1>4, <1>5, <3>1, <3>2, <3>3
  <2>7. Pairs(l) /\ Covered(l) = Covered(list) \cup Covered(buff)
    BY <1>1, <2>4, <2>5, <2>6, SpliceInOrder
  <2>8. /\ l \in Seq(Nodes) /\ Len(l) = Len(list) + n
        /\ \A j \in (main + 1)..Len(list) : l[n + j] = list[j]
    <3> DEFINE r == Splice(list, main, buff)
    <3>1. list \in Seq(Nodes) /\ buff \in Seq(Nodes) /\ main \in 0..Len(list)
      BY <1>1
    <3>2. /\ r \in Seq(Nodes) /\ Len(r) = Len(list) + Len(buff)
          /\ \A j \in 1..main : r[j] = list[j]
          /\ \A j \in 1..Len(buff) : r[main + j] = buff[j]
          /\ \A j \in (main + 1)..Len(list) : r[Len(buff) + j] = list[j]
      BY <3>1, SpliceNodes
    <3> HIDE DEF r
    <3>3. l = r
      BY <2>4 DEF r
    <3> QED BY <3>2, <3>3
  <2>9. m \in 0..Len(l) /\ m # 0
    BY <1>1, <2>1, <2>4, <2>8
  <2>10. ASSUME NEW i \in DOMAIN l, i < m
         PROVE  l[i].ver < gap_pos
    <3>1. \/ i \in 1..main /\ l[i] = list[i]
          \/ \E h \in DOMAIN buff : i = main + h /\ l[i] = buff[h]
          \/ \E h \in (main + 1)..Len(list) : i = n + h /\ l[i] = list[h]
      BY <1>1, <2>4, SpliceFrom
    <3>2. CASE i \in 1..main /\ l[i] = list[i]
      <4>1. i \in DOMAIN list /\ i <= main
        BY <1>1, <3>2
      <4>2. i <= main <=> list[i].ver <= list[main].ver
        BY <1>1, <2>1, <4>1, InTurn
      <4>3. list[main].ver < gap_pos
        BY <1>1, <1>3, <1>5, <2>1, <2>2
      <4> QED BY <1>1, <1>5, <2>1, <3>2, <4>1, <4>2, <4>3
    <3>3. CASE \E h \in DOMAIN buff : i = main + h /\ l[i] = buff[h]
      BY <1>4, <3>3
    <3>4. ~\E h \in (main + 1)..Len(list) : i = n + h
      BY <1>1, <2>4, <2>10
    <3> QED BY <3>1, <3>2, <3>3, <3>4
  <2>11. gap_pos = VerSize \/ \E i \in DOMAIN l : l[i].ver = gap_pos
    <3>1. CASE main = Len(list)
      BY <1>3, <2>2, <3>1 DEF GapEnd
    <3>2. CASE main # Len(list)
      <4>1. main + 1 \in (main + 1)..Len(list) /\ n + (main + 1) \in DOMAIN l
        BY <1>1, <2>8, <3>2
      <4>2. l[n + (main + 1)] = list[main + 1]
        BY <2>8, <4>1
      <4>3. gap_pos = list[main + 1].ver
        BY <1>3, <2>2, <3>2 DEF GapEnd
      <4> QED BY <4>1, <4>2, <4>3
    <3> QED BY <3>1, <3>2
  <2> QED BY <2>7, <2>8, <2>9, <2>10, <2>11
<1>10. \/ list = <<>>
       \/ window = <<0, list[1].ver>> /\ main = 1
       \/ main # 0 /\ window = <<Vend(list[main]), GapEnd(main)>>
  BY DEF WindowAtMain
<1> QED BY <1>6, <1>7, <1>8, <1>9, <1>10

-----------------------------------------------------------------------------
(* The invariant *)

\* The invariant holds when diffball.c has set up its buffers.
LEMMA InitInv == ASSUME Init PROVE IInv
<1>1. Types
  <2>1. /\ list = <<>> /\ buff = <<>> /\ main = 0 /\ main_count = 0
        /\ gap_pos = 0 /\ reconstruct_pos = 0 /\ gap_total_len = 0 /\ vs = 0
        /\ finalized \in BOOLEAN /\ differencing = FALSE
        /\ phase = "archive" /\ seed_len = FirstSeed /\ given = {}
        /\ window = <<0, 0>>
    BY DEF Init, NoGap
  <2>2. <<>> \in Seq(Nodes) /\ Len(<<>>) = 0
    OBVIOUS
  <2>3. window \in (0..VerSize) \X (0..VerSize)
    BY <2>1
  <2>4. list \in Seq(Nodes) /\ buff \in Seq(Nodes) /\ Len(list) = 0
    BY <2>1, <2>2
  <2>5. main \in 0..Len(list) /\ main_count = Len(list)
    BY <2>1, <2>4
  <2>6. /\ gap_pos \in 0..VerSize /\ reconstruct_pos \in 0..VerSize
        /\ gap_total_len \in 0..VerSize /\ vs \in 0..VerSize
        /\ seed_len \in Nat
    BY <2>1
  <2>7. differencing \in BOOLEAN /\ given \subseteq Bytes
    BY <2>1
  <2> QED BY <2>1, <2>3, <2>4, <2>5, <2>6, <2>7, Zenon DEF Types
<1>2. Pairs(list) /\ Pairs(buff)
  BY DEF Init, Pairs
<1>3. Phases
  BY DEF Init, Phases, Walking
<1>4. WalkPlace /\ BuffPlace /\ BuffReachesVs /\ WindowAtMain
  BY DEF Init, WalkPlace, Walking, BuffPlace, BuffReachesVs, WindowAtMain
<1>5. GivenGaps /\ TotalIsExact /\ EmitPlace
  BY DEF Init, GivenGaps, TotalIsExact, EmitPlace
<1> QED BY <1>1, <1>2, <1>3, <1>4, <1>5 DEF IInv

\* The buffer stays sorted where it is left alone.
LEMMA SameBuff ==
  ASSUME Pairs(buff), buff' = buff
  PROVE  Pairs(buff)'
BY DEF Pairs, Vend

\* So do the list and what is read off it.
LEMMA SameList ==
  ASSUME list' = list
  PROVE  /\ Pairs(list) => Pairs(list)'
         /\ Covered(list)' = Covered(list)
         /\ BigGaps(seed_len)' = BigGaps(seed_len')
BY DEF Pairs, Vend, Covered, BigGaps, Bytes

\* A new walk has given nothing, and is at the beginning of the list.
LEMMA ResetPlace ==
  ASSUME Reset, list' \in Seq(Nodes)
  PROVE  /\ main' \in 0..Len(list') /\ gap_pos' \in 0..VerSize
         /\ given' \subseteq Bytes
         /\ reconstruct_pos' \in 0..VerSize
         /\ WalkPlace'
         /\ GivenGaps'
         /\ gap_total_len' = 0 => TotalIsExact'
         /\ EmitPlace'
<1>1. /\ main' = IF list' = <<>> THEN 0 ELSE 1
      /\ gap_pos' = 0 /\ reconstruct_pos' = 0 /\ given' = {}
  BY DEF Reset
<1>2. main' \in 0..Len(list') /\ (list' # <<>> => main' # 0)
  BY <1>1
<1>3. \A i \in DOMAIN list' : list'[i].ver \in Nat /\ 1 <= i /\ 1 \in DOMAIN list'
  BY NodeType
<1>4. WalkPlace'
  BY <1>1, <1>2, <1>3 DEF WalkPlace
<1>5. BigGaps(seed_len)' \subseteq Nat
  BY DEF BigGaps, Bytes
<1>6. {p \in BigGaps(seed_len)' : p < gap_pos'} = {}
  BY <1>1, <1>5
<1>7. GivenGaps'
  BY <1>1, <1>6 DEF GivenGaps
<1>8. gap_total_len' = 0 => TotalIsExact'
  BY <1>1, FS_EmptySet DEF TotalIsExact
<1>9. EmitPlace'
  BY <1>1, <1>3 DEF EmitPlace
<1> QED BY <1>1, <1>2, <1>4, <1>7, <1>8, <1>9

\* A pass over a file of the archive keeps what earlier files left.
LEMMA ArchiveFileInv ==
  ASSUME IInv, NEW lo \in 0..VerSize, NEW hi \in 0..VerSize, lo < hi,
         ArchiveFile(<<lo, hi>>)
  PROVE  IInv'
<1>1. /\ phase = "archive" /\ ~differencing /\ ~finalized /\ window[2] <= lo
      /\ differencing' = TRUE /\ window' = <<lo, hi>> /\ vs' = lo
      /\ main' = main /\ gap_pos' = gap_pos /\ list' = list
      /\ main_count' = main_count /\ buff' = buff /\ finalized' = finalized
      /\ reconstruct_pos' = reconstruct_pos /\ phase' = phase
      /\ seed_len' = seed_len /\ gap_total_len' = gap_total_len
      /\ given' = given
  BY DEF ArchiveFile, StartPass, walk, mem, ctl
<1>2. /\ Types /\ Pairs(list) /\ Pairs(buff) /\ Phases /\ BuffPlace
  BY DEF IInv
<1>3. Types'
  BY <1>1, <1>2 DEF Types
<1>4. Pairs(list)' /\ Pairs(buff)'
  BY <1>1, <1>2, SameList, SameBuff
<1>5. Phases'
  BY <1>1, <1>2 DEF Phases, Walking
<1>6. BuffPlace'
  <2>1. ASSUME NEW i \in DOMAIN buff
        PROVE  Vend(buff[i]) <= lo
    <3>1. Vend(buff[i]) <= window[2] /\ window[2] \in Int
      BY <1>1, <1>2 DEF BuffPlace, Types
    <3>2. Vend(buff[i]) \in Int
      BY <1>2, NodeType DEF Types
    <3> QED BY <1>1, <3>1, <3>2
  <2> QED BY <1>1, <2>1 DEF BuffPlace, Vend
<1>7. WalkPlace' /\ BuffReachesVs' /\ WindowAtMain'
  BY <1>1 DEF WalkPlace, Walking, BuffReachesVs, WindowAtMain
<1>8. GivenGaps' /\ TotalIsExact' /\ EmitPlace'
  BY <1>1 DEF GivenGaps, TotalIsExact, EmitPlace
<1> QED BY <1>3, <1>4, <1>5, <1>6, <1>7, <1>8 DEF IInv

\* A match leaves the buffer in order and reaching to vs, even if it takes back
\* several matches.
LEMMA MatchInv ==
  ASSUME IInv, NEW vm \in window[1]..window[2],
         NEW vc \in (IF vs > vm THEN vs ELSE vm)..window[2],
         NEW e \in vs..window[2], Match(vm, vc, e)
  PROVE  IInv'
<1> DEFINE kept == IF vs > vm THEN Truncate(buff, vs - vm) ELSE buff
           new == [ver |-> vm, len |-> e - vm]
<1>1. /\ differencing
      /\ vc + (IF phase = "archive" THEN ArchiveSeed ELSE seed_len) <= e
      /\ buff' = Append(kept, new)
      /\ reconstruct_pos' = e /\ vs' = e
      /\ main' = main /\ gap_pos' = gap_pos /\ list' = list
      /\ main_count' = main_count /\ finalized' = finalized
      /\ phase' = phase /\ seed_len' = seed_len
      /\ gap_total_len' = gap_total_len
      /\ differencing' = differencing /\ window' = window /\ given' = given
  BY DEF Match, walk, mem, ctl
<1>2. /\ Types /\ Pairs(list) /\ Pairs(buff) /\ Phases /\ WalkPlace
      /\ BuffPlace /\ BuffReachesVs /\ WindowAtMain /\ GivenGaps
  BY DEF IInv
<1>3. /\ list \in Seq(Nodes) /\ buff \in Seq(Nodes)
      /\ window[1] \in 0..VerSize /\ window[2] \in 0..VerSize
      /\ vs \in 0..VerSize
  BY <1>2 DEF Types
<1>4. phase \in {"archive", "fill"} /\ window[1] <= vs /\ vs <= window[2]
  BY <1>1, <1>2 DEF Types, Phases, BuffPlace
<1>5. /\ vm \in 0..VerSize /\ e \in 0..VerSize /\ vm < e
      /\ window[1] <= vm /\ vs <= e /\ e <= window[2]
  <2>1. /\ ArchiveSeed \in Nat /\ ArchiveSeed >= 1
        /\ phase = "fill" => seed_len \in Nat /\ seed_len >= 1
    BY <1>2 DEF Types, Phases, Walking
  <2>2. vm \in Int /\ window[1] <= vm
    BY <1>3
  <2>3. vc \in Int /\ vm <= vc
    BY <1>3, <2>2
  <2>4. e \in Int /\ vs <= e /\ e <= window[2]
    BY <1>3
  <2>5. vm < e
    <3>1. CASE phase = "archive"
      BY <1>1, <2>1, <2>2, <2>3, <2>4, <3>1
    <3>2. CASE phase = "fill"
      BY <1>1, <2>1, <2>2, <2>3, <2>4, <3>2
    <3> QED BY <1>4, <3>1, <3>2
  <2> QED BY <1>3, <2>2, <2>4, <2>5
<1>6. new \in Nodes /\ new.ver = vm /\ Vend(new) = e
  BY <1>5 DEF Nodes, Vend
<1>7. /\ kept \in Seq(Nodes) /\ Pairs(kept)
      /\ \A i \in DOMAIN kept : /\ Vend(kept[i]) <= vm
                                /\ phase = "fill" => window[1] <= kept[i].ver
  <2>1. CASE vs > vm
    <3>1. buff # <<>> /\ Vend(buff[Len(buff)]) = vs
      BY <1>1, <1>2, <1>3, <1>5, <2>1 DEF BuffReachesVs
    <3> DEFINE n == vs - vm
    <3>2. kept = Truncate(buff, n) /\ n \in Nat /\ Vend(buff[Len(buff)]) - n = vm
      BY <1>3, <1>5, <2>1, <3>1
    <3>3. vm \in Nat
      BY <1>5
    <3> HIDE DEF kept, n
    <3>4. /\ kept \in Seq(Nodes) /\ Pairs(kept)
          /\ \A i \in DOMAIN kept : /\ i \in DOMAIN buff
                                    /\ kept[i].ver = buff[i].ver
                                    /\ Vend(kept[i]) <= vm
      <4>1. buff # <<>> /\ Pairs(buff) /\ buff \in Seq(Nodes)
        BY <1>2, <1>3, <3>1
      <4>2. Vend(buff[Len(buff)]) - n \in Nat
        BY <3>2, <3>3
      <4>3. LET r == Truncate(buff, n)
            IN  /\ r \in Seq(Nodes)
                /\ Pairs(r)
                /\ \A i \in DOMAIN r :
                      /\ i \in DOMAIN buff
                      /\ r[i].ver = buff[i].ver
                      /\ Vend(r[i]) <= Vend(buff[Len(buff)]) - n
        BY <3>2, <4>1, <4>2, TruncateKeeps
      <4> QED BY <3>2, <4>3
    <3>5. phase = "fill" => \A i \in DOMAIN buff : window[1] <= buff[i].ver
      BY <1>1, <1>2 DEF BuffPlace
    <3> QED BY <3>4, <3>5
  <2>2. CASE ~(vs > vm)
    <3>1. kept = buff
      BY <2>2
    <3> HIDE DEF kept
    <3>2. \A i \in DOMAIN buff : Vend(buff[i]) <= vs /\ Vend(buff[i]) \in Nat
      BY <1>1, <1>2, <1>3, <1>4, NodeType DEF BuffPlace
    <3>3. phase = "fill" => \A i \in DOMAIN buff : window[1] <= buff[i].ver
      BY <1>1, <1>2 DEF BuffPlace
    <3> QED BY <1>2, <1>3, <1>5, <2>2, <3>1, <3>2, <3>3
  <2> QED BY <2>1, <2>2
<1> HIDE DEF kept, new
<1>8. /\ buff' \in Seq(Nodes) /\ Len(buff') = Len(kept) + 1
      /\ Len(kept) \in Nat
      /\ \A i \in 1..Len(kept) : buff'[i] = kept[i]
      /\ buff'[Len(kept) + 1] = new
  BY <1>1, <1>6, <1>7
<1>9. \A i \in DOMAIN buff' : \/ i \in DOMAIN kept /\ buff'[i] = kept[i]
                              \/ i = Len(kept) + 1 /\ buff'[i] = new
  BY <1>8
<1>10. \A i \in DOMAIN kept : Vend(kept[i]) \in Nat /\ kept[i].ver \in Nat
  BY <1>7, NodeType
<1>11. Types'
  BY <1>1, <1>2, <1>5, <1>8 DEF Types
<1>12. Pairs(list)'
  BY <1>1, <1>2, SameList
<1>13. Pairs(buff')
  <2>1. ASSUME NEW i \in DOMAIN buff', NEW j \in DOMAIN buff', i < j
        PROVE  Vend(buff'[i]) <= buff'[j].ver
    <3>1. i \in DOMAIN kept /\ buff'[i] = kept[i]
      BY <1>8, <1>9, <2>1
    <3>2. CASE j \in DOMAIN kept /\ buff'[j] = kept[j]
      BY <1>7, <2>1, <3>1, <3>2 DEF Pairs
    <3>3. CASE buff'[j] = new
      BY <1>6, <1>7, <3>1, <3>3
    <3> QED BY <1>9, <3>2, <3>3
  <2>2. ASSUME NEW i \in DOMAIN buff'
        PROVE  Vend(buff'[i]) <= VerSize
    BY <1>5, <1>6, <1>7, <1>9 DEF Pairs
  <2> QED BY <2>1, <2>2 DEF Pairs
<1>14. \A i \in DOMAIN buff' : /\ Vend(buff'[i]) <= e
                               /\ phase = "fill" => window[1] <= buff'[i].ver
  BY <1>5, <1>6, <1>7, <1>9, <1>10
<1>15. Phases' /\ WalkPlace'
  BY <1>1, <1>2 DEF Phases, WalkPlace, Walking
<1>16. BuffPlace'
  <2>1. window'[1] <= vs' /\ vs' <= window'[2]
    BY <1>1, <1>3, <1>4, <1>5
  <2>2. Covered(list') = Covered(list) /\ Span(window') = Span(window)
    BY <1>1
  <2>3. phase = "fill" =>
          /\ gap_pos = window[2] /\ window[1] < window[2]
          /\ Span(window) \cap Covered(list) = {}
          /\ list = <<>> => window = <<0, VerSize>>
    BY <1>1, <1>2 DEF BuffPlace
  <2> QED BY <1>1, <1>14, <2>1, <2>2, <2>3 DEF BuffPlace
<1>17. BuffReachesVs'
  <2>1. buff' # <<>> /\ Vend(buff'[Len(buff')]) = vs'
    BY <1>1, <1>6, <1>8
  <2> QED BY <2>1 DEF BuffReachesVs
<1>18. WindowAtMain'
  BY <1>1, <1>2 DEF WindowAtMain, GapEnd, Vend
<1>19. GivenGaps'
  BY <1>1, <1>2, SameList DEF GivenGaps
<1>20. TotalIsExact' /\ EmitPlace'
  BY <1>1, <1>4 DEF TotalIsExact, EmitPlace
<1> QED BY <1>11, <1>12, <1>13, <1>15, <1>16, <1>17, <1>18, <1>19, <1>20 DEF IInv

\* The end of a pass: in "fill" its matches go into the list.
LEMMA PassEndsInv ==
  ASSUME IInv, PassEnds
  PROVE  IInv'
<1>1. /\ differencing /\ differencing' = FALSE
      /\ gap_pos' = gap_pos /\ reconstruct_pos' = reconstruct_pos
      /\ phase' = phase /\ seed_len' = seed_len
      /\ gap_total_len' = gap_total_len
      /\ window' = window /\ vs' = vs /\ given' = given
  BY DEF PassEnds, ctl
<1>2. /\ Types /\ Pairs(list) /\ Pairs(buff) /\ Phases /\ WalkPlace
      /\ BuffPlace /\ BuffReachesVs /\ WindowAtMain /\ GivenGaps
  BY DEF IInv
<1>3. /\ list \in Seq(Nodes) /\ buff \in Seq(Nodes)
      /\ window[2] \in 0..VerSize /\ vs \in 0..VerSize
  BY <1>2 DEF Types
<1>4. phase \in {"archive", "fill"}
  BY <1>1, <1>2 DEF Types, Phases
<1>5. WindowAtMain' /\ BuffReachesVs' /\ TotalIsExact' /\ EmitPlace'
  BY <1>1, <1>4 DEF WindowAtMain, BuffReachesVs, TotalIsExact, EmitPlace
<1>6. CASE phase = "archive"
  <2>1. /\ list' = list /\ main_count' = main_count /\ main' = main
        /\ buff' = buff /\ finalized' = finalized
    BY <1>6 DEF PassEnds, mem
  <2>2. Types'
    BY <1>1, <1>2, <2>1 DEF Types
  <2>3. Pairs(list)' /\ Pairs(buff)'
    BY <1>2, <2>1, SameList, SameBuff
  <2>4. Phases' /\ WalkPlace' /\ GivenGaps'
    BY <1>1, <1>2, <1>6, <2>1 DEF Phases, WalkPlace, Walking, GivenGaps
  <2>5. BuffPlace'
    <3>1. ASSUME NEW i \in DOMAIN buff
          PROVE  Vend(buff[i]) <= window[2]
      <4>1. Vend(buff[i]) <= vs /\ vs <= window[2]
        BY <1>1, <1>2, <1>6 DEF BuffPlace
      <4>2. Vend(buff[i]) \in Int
        BY <1>3, NodeType
      <4> QED BY <1>3, <4>1, <4>2
    <3> QED BY <1>1, <1>6, <2>1, <3>1 DEF BuffPlace, Vend
  <2> QED BY <1>5, <2>2, <2>3, <2>4, <2>5 DEF IInv
<1>7. CASE phase = "fill"
  <2>1. /\ list' = Linked.list /\ main' = Linked.main
        /\ main_count' = main_count + Len(buff)
        /\ buff' = <<>> /\ finalized' = TRUE
    BY <1>7 DEF PassEnds, Finalize
  <2>2. /\ list' \in Seq(Nodes) /\ Len(list') = Len(list) + Len(buff)
        /\ Pairs(list')
        /\ Covered(list') = Covered(list) \cup Covered(buff)
        /\ main' \in 0..Len(list')
        /\ list' # <<>> => main' # 0
        /\ \A i \in DOMAIN list' : i < main' => list'[i].ver < gap_pos
        /\ \/ gap_pos = 0 \/ gap_pos = VerSize
           \/ \E i \in DOMAIN list' : list'[i].ver = gap_pos
    BY <1>1, <1>2, <1>7, <2>1, LinkedInGap
  <2>3. Types'
    <3>1. main_count' = Len(list') /\ buff' \in Seq(Nodes)
      BY <1>2, <2>1, <2>2 DEF Types
    <3> QED BY <1>1, <1>2, <2>1, <2>2, <3>1 DEF Types
  <2>4. Pairs(list)' /\ Pairs(buff)'
    BY <2>1, <2>2 DEF Pairs
  <2>5. Phases'
    BY <1>1, <1>2, <1>7, <2>1 DEF Phases, Walking
  <2>6. WalkPlace'
    <3>1. given \subseteq 0..(gap_pos - 1)
      BY <1>2, <1>7 DEF WalkPlace, Walking
    <3> QED BY <1>1, <2>2, <3>1 DEF WalkPlace
  <2>7. BuffPlace'
    BY <1>1, <1>7, <2>1 DEF BuffPlace
  <2>8. GivenGaps'
    <3>1. Bytes \ Covered(list') \subseteq Bytes \ Covered(list)
      BY <2>2
    <3>2. BigGaps(seed_len)' \subseteq BigGaps(seed_len)
      BY <1>1, <3>1 DEF BigGaps, Bytes
    <3>3. {p \in BigGaps(seed_len) : p < gap_pos} \subseteq given
      BY <1>2, <1>7 DEF GivenGaps
    <3> QED BY <1>1, <1>7, <3>2, <3>3 DEF GivenGaps
  <2> QED BY <1>5, <2>3, <2>4, <2>5, <2>6, <2>7, <2>8 DEF IInv
<1> QED BY <1>4, <1>6, <1>7

\* The matches of the archive become the list.
LEMMA MultiPassInv ==
  ASSUME IInv, MultiPass
  PROVE  IInv'
<1>1. /\ phase = "archive" /\ ~differencing
      /\ list' = Linked.list /\ main_count' = main_count + Len(buff)
      /\ buff' = <<>> /\ finalized' = TRUE
      /\ seed_len' = FirstSeed
      /\ phase' = IF FirstSeed >= MinSeed THEN "count" ELSE "emit"
      /\ gap_total_len' = 0 /\ Reset
      /\ window' = NoGap /\ vs' = 0 /\ differencing' = differencing
  BY DEF MultiPass, Finalize, BeginSeed
<1>2. /\ Types /\ Pairs(list) /\ Pairs(buff) /\ Phases /\ list = <<>>
  BY <1>1 DEF IInv, Phases
<1>3. list' = buff /\ main_count' = Len(buff) /\ buff \in Seq(Nodes)
  BY <1>1, <1>2, LinkedToNothing DEF Types
<1>4. /\ main' \in 0..Len(list') /\ gap_pos' \in 0..VerSize
      /\ given' \subseteq Bytes /\ reconstruct_pos' \in 0..VerSize
      /\ WalkPlace' /\ GivenGaps' /\ TotalIsExact' /\ EmitPlace'
  BY <1>1, <1>3, ResetPlace
<1>5. Types'
  <2>1. buff' \in Seq(Nodes) /\ seed_len' \in Nat /\ gap_total_len' \in 0..VerSize
    BY <1>1
  <2>2. window' \in (0..VerSize) \X (0..VerSize) /\ vs' \in 0..VerSize
    BY <1>1 DEF NoGap
  <2>3. phase' \in {"archive", "count", "hash", "fill", "emit"}
    BY <1>1
  <2>4. finalized' \in BOOLEAN /\ differencing' \in BOOLEAN
    BY <1>1, <1>2 DEF Types
  <2> QED BY <1>3, <1>4, <2>1, <2>2, <2>3, <2>4 DEF Types
<1>6. Pairs(list)' /\ Pairs(buff)'
  BY <1>1, <1>2, <1>3 DEF Pairs, Vend
<1>7. Phases'
  BY <1>1 DEF Phases, Walking
<1>8. BuffPlace' /\ BuffReachesVs' /\ WindowAtMain'
  BY <1>1 DEF BuffPlace, BuffReachesVs, WindowAtMain
<1> QED BY <1>4, <1>5, <1>6, <1>7, <1>8 DEF IInv

\* The end of a walk: another walk begins, over the same list.
LEMMA WalkAgainInv ==
  ASSUME IInv, Walking, ~differencing, Reset,
         UNCHANGED <<mem, buff, finalized, pass>>,
         phase' \in {"count", "hash", "fill", "emit"},
         seed_len' \in Nat, gap_total_len' \in 0..VerSize,
         phase' # "emit" => seed_len' >= MinSeed,
         phase' = "count" => gap_total_len' = 0
  PROVE  IInv'
<1>1. /\ list' = list /\ main_count' = main_count /\ buff' = buff
      /\ finalized' = finalized /\ differencing' = differencing
      /\ window' = window /\ vs' = vs
  BY DEF mem, pass
<1>2. /\ Types /\ Pairs(list) /\ Pairs(buff) /\ Phases
      /\ finalized /\ buff = <<>>
  BY DEF IInv, Phases, Walking, Types
<1>3. /\ main' \in 0..Len(list') /\ gap_pos' \in 0..VerSize
      /\ given' \subseteq Bytes /\ reconstruct_pos' \in 0..VerSize
      /\ WalkPlace' /\ GivenGaps' /\ EmitPlace'
      /\ gap_total_len' = 0 => TotalIsExact'
  BY <1>1, <1>2, ResetPlace DEF Types
<1>4. TotalIsExact'
  BY <1>3 DEF TotalIsExact
<1>5. Types'
  BY <1>1, <1>2, <1>3 DEF Types
<1>6. Pairs(list)' /\ Pairs(buff)'
  BY <1>1, <1>2, SameList, SameBuff
<1>7. Phases'
  BY <1>1, <1>2 DEF Phases, Walking
<1>8. BuffPlace' /\ BuffReachesVs' /\ WindowAtMain'
  BY <1>1 DEF BuffPlace, BuffReachesVs, WindowAtMain
<1> QED BY <1>3, <1>4, <1>5, <1>6, <1>7, <1>8 DEF IInv

\* The gaps are counted.
LEMMA CountedInv ==
  ASSUME IInv, Counted
  PROVE  IInv'
<1>1. /\ phase = "count" /\ UNCHANGED <<mem, buff, finalized, pass>> /\ Reset
  BY DEF Counted, BeginSeed
<1>2. Walking /\ ~differencing /\ seed_len \in Nat /\ seed_len >= MinSeed
      /\ gap_total_len \in 0..VerSize
  BY <1>1 DEF IInv, Types, Phases, Walking
<1>3. CASE gap_total_len = 0
  <2>1. /\ seed_len' = seed_len \div 2 /\ gap_total_len' = 0
        /\ phase' = IF seed_len \div 2 >= MinSeed THEN "count" ELSE "emit"
    BY <1>3 DEF Counted, BeginSeed
  <2>2. seed_len' \in Nat
    BY <1>2, <2>1
  <2> QED BY <1>1, <1>2, <2>1, <2>2, WalkAgainInv
<1>4. CASE gap_total_len # 0
  <2>1. /\ phase' = IF list = <<>> THEN "fill" ELSE "hash"
        /\ seed_len' = seed_len /\ gap_total_len' = gap_total_len
    BY <1>4 DEF Counted
  <2> QED BY <1>1, <1>2, <2>1, WalkAgainInv
<1> QED BY <1>3, <1>4

\* The gaps are hashed.
LEMMA HashedInv ==
  ASSUME IInv, Hashed
  PROVE  IInv'
<1>1. /\ phase = "hash" /\ UNCHANGED <<mem, buff, finalized, pass>> /\ Reset
      /\ phase' = "fill" /\ seed_len' = seed_len
      /\ gap_total_len' = gap_total_len
  BY DEF Hashed
<1>2. Walking /\ ~differencing /\ seed_len \in Nat /\ seed_len >= MinSeed
      /\ gap_total_len \in 0..VerSize
  BY <1>1 DEF IInv, Types, Phases, Walking
<1> QED BY <1>1, <1>2, WalkAgainInv

\* The gaps are filled.
LEMMA FilledInv ==
  ASSUME IInv, Filled
  PROVE  IInv'
<1>1. /\ phase = "fill" /\ ~differencing
      /\ UNCHANGED <<mem, buff, finalized, pass>> /\ Reset
      /\ seed_len' = seed_len \div 2 /\ gap_total_len' = 0
      /\ phase' = IF seed_len \div 2 >= MinSeed THEN "count" ELSE "emit"
  BY DEF Filled, BeginSeed
<1>2. Walking /\ seed_len \in Nat
  BY <1>1 DEF IInv, Types, Walking
<1>3. seed_len' \in Nat
  BY <1>1, <1>2
<1> QED BY <1>1, <1>2, <1>3, WalkAgainInv

\* A walk that has been given a gap stands at its end, and has been given all
\* that lies behind it.
LEMMA WalkedOn ==
  ASSUME IInv, Walking, NEW g, Take(g), list' = list,
         phase' = phase, seed_len' = seed_len
  PROVE  /\ main' \in 0..Len(list) /\ gap_pos' \in 0..VerSize
         /\ given' \subseteq Bytes
         /\ WalkPlace' /\ GivenGaps'
<1>1. /\ Types /\ Pairs(list) /\ WalkPlace /\ GivenGaps /\ seed_len >= MinSeed
  BY DEF IInv, Phases
<1>2. PICK lo \in 0..VerSize, hi \in 0..VerSize :
              /\ g = <<lo, hi>> /\ lo < hi
              /\ gap_pos <= lo /\ gap_pos' = hi
              /\ given' = given \cup lo..(hi - 1)
              /\ {p \in BigGaps(seed_len) : p < hi} =
                   {p \in BigGaps(seed_len) : p < gap_pos} \cup lo..(hi - 1)
              /\ \A i \in DOMAIN list : i < main' => list[i].ver < hi
              /\ hi = VerSize \/ \E i \in DOMAIN list : list[i].ver = hi
  BY <1>1, Taken
<1>3. main' \in 0..Len(list) /\ (list # <<>> => main' # 0)
  BY <1>1, Taken
<1>4. given \subseteq Bytes /\ given \subseteq 0..(gap_pos - 1)
      /\ gap_pos \in 0..VerSize
  BY <1>1 DEF Types, WalkPlace
<1>5. given' \subseteq Bytes /\ given' \subseteq 0..(gap_pos' - 1)
  <2>1. \A p \in given : p \in 0..(hi - 1)
    BY <1>2, <1>4
  <2>2. \A p \in lo..(hi - 1) : p \in 0..(hi - 1) /\ p \in Bytes
    BY <1>2 DEF Bytes
  <2> QED BY <1>2, <1>4, <2>1, <2>2
<1>6. WalkPlace'
  BY <1>2, <1>3, <1>5 DEF WalkPlace
<1>7. BigGaps(seed_len)' = BigGaps(seed_len)
  BY SameList
<1>8. GivenGaps'
  <2>1. CASE phase \in {"count", "hash"}
    <3>1. given = {p \in BigGaps(seed_len) : p < gap_pos}
      BY <1>1, <2>1 DEF GivenGaps
    <3>2. given' = {p \in BigGaps(seed_len) : p < gap_pos'}
      BY <1>2, <3>1
    <3> QED BY <1>7, <2>1, <3>2 DEF GivenGaps
  <2>2. CASE phase = "fill"
    <3>1. {p \in BigGaps(seed_len) : p < gap_pos} \subseteq given
      BY <1>1, <2>2 DEF GivenGaps
    <3>2. {p \in BigGaps(seed_len) : p < gap_pos'} \subseteq given'
      BY <1>2, <3>1
    <3> QED BY <1>7, <2>2, <3>2 DEF GivenGaps
  <2> QED BY <2>1, <2>2 DEF Walking
<1> QED BY <1>2, <1>3, <1>5, <1>6, <1>8

\* The total grows by what the given bytes grow by.
LEMMA CountGapInv ==
  ASSUME IInv, CountGap
  PROVE  IInv'
<1> DEFINE g == NextGap(seed_len).gap
<1>1. /\ phase = "count" /\ Take(g)
      /\ gap_total_len' = gap_total_len + (g[2] - g[1])
      /\ list' = list /\ main_count' = main_count /\ buff' = buff
      /\ finalized' = finalized /\ reconstruct_pos' = reconstruct_pos
      /\ phase' = phase /\ seed_len' = seed_len
      /\ differencing' = differencing /\ window' = window /\ vs' = vs
  BY DEF CountGap, mem, pass
<1> HIDE DEF g
<1>2. /\ Types /\ Pairs(list) /\ Pairs(buff) /\ Phases /\ WalkPlace
      /\ TotalIsExact /\ Walking /\ seed_len >= MinSeed /\ ~differencing
  BY <1>1 DEF IInv, Phases, Walking
<1>3. /\ main' \in 0..Len(list) /\ gap_pos' \in 0..VerSize
      /\ given' \subseteq Bytes /\ WalkPlace' /\ GivenGaps'
  BY <1>1, <1>2, WalkedOn
<1>4. gap_total_len' = Cardinality(given') /\ gap_total_len' \in 0..VerSize
  <2>1. PICK lo \in 0..VerSize, hi \in 0..VerSize :
                /\ g = <<lo, hi>> /\ lo < hi
                /\ given' = given \cup lo..(hi - 1)
                /\ given \cap lo..(hi - 1) = {}
    BY <1>1, <1>2, Taken
  <2> DEFINE new == lo..(hi - 1)
  <2>2. IsFiniteSet(new)
    BY Size
  <2>3. Cardinality(new) = hi - lo
    <3>1. lo \in Int /\ hi \in Int /\ lo <= hi
      BY <2>1
    <3> QED BY <3>1, Size
  <2>4. IsFiniteSet(Bytes)
    BY FS_Interval DEF Bytes
  <2>5. Cardinality(Bytes) = VerSize
    <3>1. 0 \in Int /\ VerSize \in Int /\ 0 <= VerSize
      OBVIOUS
    <3>2. Cardinality(0..(VerSize - 1)) = VerSize - 0
      BY ONLY <3>1, Size
    <3> QED BY <3>2 DEF Bytes
  <2>6. IsFiniteSet(given)
    <3>1. given \in SUBSET Bytes
      BY <1>2 DEF Types
    <3> QED BY <2>4, <3>1, FS_Subset
  <2>7. Cardinality(given) = gap_total_len
    BY <1>1, <1>2 DEF TotalIsExact
  <2> HIDE DEF new
  <2>8. Cardinality(given \cup new) =
          Cardinality(given) + Cardinality(new) - Cardinality(given \cap new)
    BY <2>2, <2>6, FS_Union
  <2>9. Cardinality(given \cap new) = 0
    BY <2>1, FS_EmptySet DEF new
  <2>10. gap_total_len' = gap_total_len + (hi - lo) /\ given' = given \cup new
    BY <1>1, <2>1 DEF new
  <2>11. gap_total_len \in Nat
    BY <1>2 DEF Types
  <2>12. gap_total_len' = Cardinality(given') /\ gap_total_len' \in Nat
    BY <2>1, <2>3, <2>7, <2>8, <2>9, <2>10, <2>11
  <2>13. Cardinality(given') <= Cardinality(Bytes)
    <3>1. given' \in SUBSET Bytes
      BY <1>3
    <3> QED BY <2>4, <3>1, FS_Subset
  <2> QED BY <2>5, <2>12, <2>13
<1>5. Types'
  BY <1>1, <1>2, <1>3, <1>4 DEF Types
<1>6. Pairs(list)' /\ Pairs(buff)'
  BY <1>1, <1>2, SameList, SameBuff
<1>7. Phases'
  BY <1>1, <1>2 DEF Phases, Walking
<1>8. BuffPlace' /\ BuffReachesVs' /\ WindowAtMain' /\ EmitPlace'
  BY <1>1, <1>2 DEF BuffPlace, BuffReachesVs, WindowAtMain, EmitPlace
<1>9. TotalIsExact'
  BY <1>4 DEF TotalIsExact
<1> QED BY <1>3, <1>5, <1>6, <1>7, <1>8, <1>9 DEF IInv

\* Hashing a gap moves the walk only.
LEMMA HashGapInv ==
  ASSUME IInv, HashGap
  PROVE  IInv'
<1> DEFINE g == NextGap(seed_len).gap
<1>1. /\ phase = "hash" /\ Take(g)
      /\ gap_total_len' = gap_total_len
      /\ list' = list /\ main_count' = main_count /\ buff' = buff
      /\ finalized' = finalized /\ reconstruct_pos' = reconstruct_pos
      /\ phase' = phase /\ seed_len' = seed_len
      /\ differencing' = differencing /\ window' = window /\ vs' = vs
  BY DEF HashGap, mem, pass, ctl
<1> HIDE DEF g
<1>2. /\ Types /\ Pairs(list) /\ Pairs(buff) /\ Phases
      /\ Walking /\ ~differencing
  BY <1>1 DEF IInv, Phases, Walking
<1>3. /\ main' \in 0..Len(list) /\ gap_pos' \in 0..VerSize
      /\ given' \subseteq Bytes /\ WalkPlace' /\ GivenGaps'
  BY <1>1, <1>2, WalkedOn
<1>4. Types'
  BY <1>1, <1>2, <1>3 DEF Types
<1>5. Pairs(list)' /\ Pairs(buff)'
  BY <1>1, <1>2, SameList, SameBuff
<1>6. Phases'
  BY <1>1, <1>2 DEF Phases, Walking
<1>7. BuffPlace' /\ BuffReachesVs' /\ WindowAtMain' /\ EmitPlace' /\ TotalIsExact'
  BY <1>1, <1>2 DEF BuffPlace, BuffReachesVs, WindowAtMain, EmitPlace, TotalIsExact
<1> QED BY <1>3, <1>4, <1>5, <1>6, <1>7 DEF IInv

\* The window of the new pass is the gap the walk stands behind.
LEMMA FillGapInv ==
  ASSUME IInv, FillGap
  PROVE  IInv'
<1> DEFINE g == NextGap(seed_len).gap
<1>1. /\ phase = "fill" /\ ~differencing /\ Take(g)
      /\ differencing' = TRUE /\ window' = g /\ vs' = g[1]
      /\ buff' = <<>> /\ finalized' = FALSE
      /\ list' = list /\ main_count' = main_count
      /\ reconstruct_pos' = reconstruct_pos
      /\ phase' = phase /\ seed_len' = seed_len
      /\ gap_total_len' = gap_total_len
  BY DEF FillGap, StartPass, mem, ctl
<1> HIDE DEF g
<1>2. /\ Types /\ Pairs(list) /\ Pairs(buff) /\ Phases /\ WalkPlace
      /\ Walking /\ seed_len >= MinSeed
  BY <1>1 DEF IInv, Phases, Walking
<1>3. /\ main' \in 0..Len(list) /\ gap_pos' \in 0..VerSize
      /\ given' \subseteq Bytes /\ WalkPlace' /\ GivenGaps'
  BY <1>1, <1>2, WalkedOn
<1>4. PICK lo \in 0..VerSize, hi \in 0..VerSize :
              /\ g = <<lo, hi>> /\ lo < hi /\ gap_pos' = hi
              /\ Clear(list, lo, hi)
  BY <1>1, <1>2, Taken
<1>5. /\ list # <<>> => main' # 0
      /\ list = <<>> => g = <<0, VerSize>>
      /\ list # <<>> =>
           \/ g = <<0, list[1].ver>> /\ main' = 1
           \/ g = <<Vend(list[main']), GapEnd(main')>>
  BY <1>1, <1>2, Taken
<1>6. Types'
  <2>1. buff' \in Seq(Nodes) /\ window' \in (0..VerSize) \X (0..VerSize)
        /\ vs' \in 0..VerSize
    BY <1>1, <1>4
  <2> QED BY <1>1, <1>2, <1>3, <2>1 DEF Types
<1>7. Pairs(list)' /\ Pairs(buff)'
  <2>1. Pairs(buff')
    BY <1>1 DEF Pairs
  <2> QED BY <1>1, <1>2, <2>1, SameList
<1>8. Phases'
  BY <1>1, <1>2 DEF Phases, Walking
<1>9. BuffPlace'
  <2>1. window'[1] = lo /\ window'[2] = hi /\ vs' = lo
    BY <1>1, <1>4
  <2>2. Span(window') \cap Covered(list') = {}
    <3>1. lo..(hi - 1) \subseteq Bytes \ Covered(list)
      BY <1>2, <1>4, ClearIsFree DEF Types
    <3> QED BY <1>1, <2>1, <3>1 DEF Span
  <2>3. list' = <<>> => window' = <<0, VerSize>>
    BY <1>1, <1>5
  <2>4. \A i \in DOMAIN buff' : FALSE
    BY <1>1
  <2> QED BY <1>1, <1>4, <2>1, <2>2, <2>3, <2>4 DEF BuffPlace
<1>10. BuffReachesVs'
  BY <1>1, <1>4 DEF BuffReachesVs
<1>11. WindowAtMain'
  BY <1>1, <1>5 DEF WindowAtMain, GapEnd, Vend
<1>12. EmitPlace' /\ TotalIsExact'
  BY <1>1 DEF EmitPlace, TotalIsExact
<1> QED BY <1>3, <1>6, <1>7, <1>8, <1>9, <1>10, <1>11, <1>12 DEF IInv

\* A command ends where a node begins, where one ends, or with the file.
LEMMA GetNextInv ==
  ASSUME IInv, GetNext
  PROVE  IInv'
<1>1. /\ phase = "emit" /\ reconstruct_pos # VerSize
      /\ reconstruct_pos' = CommandEnd
      /\ main' = IF main = 0 \/ reconstruct_pos # list[main].ver THEN main
                 ELSE Incr(main)
      /\ list' = list /\ main_count' = main_count /\ buff' = buff
      /\ finalized' = finalized /\ gap_pos' = gap_pos
      /\ phase' = phase /\ seed_len' = seed_len
      /\ gap_total_len' = gap_total_len /\ differencing' = differencing
      /\ window' = window /\ vs' = vs /\ given' = given
  BY DEF GetNext, mem, ctl, pass
<1>2. /\ Types /\ Pairs(list) /\ Pairs(buff) /\ Phases /\ EmitPlace
      /\ ~differencing
  BY <1>1 DEF IInv, Phases
<1>3. /\ list \in Seq(Nodes) /\ main \in 0..Len(list) /\ Len(list) \in Nat
      /\ reconstruct_pos \in 0..VerSize
  BY <1>2 DEF Types
<1>4. \A i \in DOMAIN list :
         /\ list[i].ver \in Nat /\ Vend(list[i]) \in Nat
         /\ list[i].ver < Vend(list[i]) /\ Vend(list[i]) <= VerSize
  BY <1>2, <1>3, NodeType DEF Pairs
<1>5. \A i \in DOMAIN list :
         IF main # 0 /\ i >= main THEN reconstruct_pos <= list[i].ver
                                  ELSE Vend(list[i]) <= reconstruct_pos
  BY <1>1, <1>2 DEF EmitPlace
<1>6. /\ main' \in 0..Len(list) /\ reconstruct_pos' \in 0..VerSize
      /\ EmitPlace'
  <2>1. CASE main = 0
    BY <1>1, <1>3, <1>4, <1>5, <2>1 DEF CommandEnd, EmitPlace, Vend
  <2>2. CASE main # 0 /\ reconstruct_pos # list[main].ver
    <3>1. main \in DOMAIN list /\ main' = main /\ reconstruct_pos' = list[main].ver
      BY <1>1, <1>3, <2>2 DEF CommandEnd
    <3>2. reconstruct_pos <= list[main].ver
      BY <1>3, <1>5, <3>1
    <3>3. ASSUME NEW i \in DOMAIN list, i >= main
          PROVE  reconstruct_pos' <= list[i].ver
      <4>1. main <= i <=> list[main].ver <= list[i].ver
        BY <1>2, <1>3, <3>1, InTurn
      <4> QED BY <1>3, <3>1, <3>3, <4>1
    <3>4. ASSUME NEW i \in DOMAIN list, ~(i >= main)
          PROVE  Vend(list[i]) <= reconstruct_pos'
      BY <1>3, <1>4, <1>5, <3>1, <3>2, <3>4
    <3>5. EmitPlace'
      BY <1>1, <2>2, <3>1, <3>3, <3>4 DEF EmitPlace, Vend
    <3> QED BY <1>3, <1>4, <3>1, <3>5
  <2>3. CASE main # 0 /\ reconstruct_pos = list[main].ver
    <3>1. /\ main \in DOMAIN list /\ reconstruct_pos' = Vend(list[main])
          /\ main' = IF main = Len(list) THEN 0 ELSE main + 1
      BY <1>1, <1>3, <2>3 DEF CommandEnd, Incr
    <3>2. ASSUME NEW i \in DOMAIN list, i <= main
          PROVE  Vend(list[i]) <= reconstruct_pos'
      <4>1. i <= main <=> Vend(list[i]) <= Vend(list[main])
        BY <1>2, <1>3, <3>1, InTurn
      <4> QED BY <3>1, <3>2, <4>1
    <3>3. ASSUME NEW i \in DOMAIN list, main < i
          PROVE  reconstruct_pos' <= list[i].ver
      <4>1. main < i <=> Vend(list[main]) <= list[i].ver
        BY <1>2, <1>3, <3>1, InTurn
      <4> QED BY <3>1, <3>3, <4>1
    <3>4. ASSUME NEW i \in DOMAIN list
          PROVE  main' # 0 /\ i >= main' <=> main < i
      BY <1>3, <3>1
    <3>5. EmitPlace'
      <4>1. \A i \in DOMAIN list :
               IF main' # 0 /\ i >= main' THEN reconstruct_pos' <= list[i].ver
                                          ELSE Vend(list[i]) <= reconstruct_pos'
        BY <1>3, <3>1, <3>2, <3>3, <3>4
      <4> QED BY <1>1, <4>1 DEF EmitPlace, Vend
    <3> QED BY <1>3, <1>4, <3>1, <3>5
  <2> QED BY <2>1, <2>2, <2>3
<1>7. Types'
  BY <1>1, <1>2, <1>6 DEF Types
<1>8. Pairs(list)' /\ Pairs(buff)'
  BY <1>1, <1>2, SameList, SameBuff
<1>9. Phases'
  BY <1>1, <1>2 DEF Phases, Walking
<1>10. BuffPlace' /\ BuffReachesVs' /\ WindowAtMain'
  BY <1>1, <1>2 DEF BuffPlace, BuffReachesVs, WindowAtMain
<1>11. WalkPlace' /\ GivenGaps' /\ TotalIsExact'
  BY <1>1 DEF WalkPlace, Walking, GivenGaps, TotalIsExact
<1> QED BY <1>6, <1>7, <1>8, <1>9, <1>10, <1>11 DEF IInv

\* Every step keeps the invariant.
LEMMA NextInv ==
  ASSUME IInv, [Next]_vars
  PROVE  IInv'
<1>1. ASSUME NEW lo \in 0..VerSize, NEW hi \in 0..VerSize,
             lo < hi, ArchiveFile(<<lo, hi>>)
      PROVE  IInv'
  BY <1>1, ArchiveFileInv
<1>2. ASSUME NEW vm \in window[1]..window[2],
             NEW vc \in (IF vs > vm THEN vs ELSE vm)..window[2],
             NEW e \in vs..window[2], Match(vm, vc, e)
      PROVE  IInv'
  BY <1>2, MatchInv
<1>3. CASE UNCHANGED vars
  <2>1. /\ list' = list /\ main' = main /\ main_count' = main_count
        /\ gap_pos' = gap_pos /\ buff' = buff /\ finalized' = finalized
        /\ reconstruct_pos' = reconstruct_pos /\ phase' = phase
        /\ seed_len' = seed_len /\ gap_total_len' = gap_total_len
        /\ differencing' = differencing /\ window' = window /\ vs' = vs
        /\ given' = given
    BY <1>3 DEF vars, walk, mem, ctl, pass
  <2>2. BigGaps(seed_len)' = BigGaps(seed_len) /\ Covered(list)' = Covered(list)
    BY <2>1, SameList
  <2>3. Types' /\ Pairs(list)' /\ Pairs(buff)'
    BY <2>1, SameList, SameBuff DEF IInv, Types
  <2>4. Phases' /\ WalkPlace'
    BY <2>1 DEF IInv, Phases, WalkPlace, Walking
  <2>5. BuffPlace' /\ BuffReachesVs'
    BY <2>1, <2>2 DEF IInv, BuffPlace, BuffReachesVs, Vend, Span
  <2>6. WindowAtMain' /\ EmitPlace'
    BY <2>1 DEF IInv, WindowAtMain, EmitPlace, GapEnd, Vend
  <2>7. GivenGaps' /\ TotalIsExact'
    BY <2>1, <2>2 DEF IInv, GivenGaps, TotalIsExact
  <2> QED BY <2>3, <2>4, <2>5, <2>6, <2>7 DEF IInv
<1> QED BY <1>1, <1>2, <1>3, PassEndsInv, MultiPassInv, CountGapInv, CountedInv,
           HashGapInv, HashedInv, FillGapInv, FilledInv, GetNextInv DEF Next

\* IInv holds in every state of every run, for every size of the version file
\* and all seed lengths.
THEOREM Invariance == Spec => []IInv
<1>1. Init => IInv
  BY InitInv
<1>2. IInv /\ [Next]_vars => IInv'
  BY NextInv
<1> QED BY <1>1, <1>2, PTL DEF Spec

-----------------------------------------------------------------------------
(* The properties the runs check *)

\* Types, and `main` is NULL or a node of the list; main_count does not exceed
\* the bytes of the version file, since no node is empty.
THEOREM TypeCorrect == Spec => []TypeOK
<1>1. IInv => TypeOK
  <2> SUFFICES ASSUME IInv
               PROVE  TypeOK
    OBVIOUS
  <2>1. Types /\ list \in Seq(Nodes) /\ Pairs(list)
    BY DEF IInv, Types
  <2>2. Len(list) <= VerSize /\ Len(list) \in Nat
    BY <2>1, ListFits
  <2> QED BY <2>1, <2>2 DEF Types, TypeOK
<1> QED BY <1>1, Invariance, PTL

\* The list and the buffer stay sorted and disjoint: matches are only linked in
\* where the walk stands, and truncation takes from the end (dcbuffer.c).
THEOREM Ordered == Spec => []ListInOrder
<1>1. IInv => ListInOrder
  BY PairsInOrder DEF IInv, Types, ListInOrder
<1> QED BY <1>1, Invariance, PTL

\* The gap a pass works on is the one its matches will be linked into.
THEOREM PassWhereLinked == Spec => []WindowAtMain
<1>1. IInv => WindowAtMain
  BY DEF IInv
<1> QED BY <1>1, Invariance, PTL

\* DCB_llm_truncate starts from the end of what this window has added.
THEOREM TruncatesOwn == Spec => []BuffReachesVs
<1>1. IInv => BuffReachesVs
  BY DEF IInv
<1> QED BY <1>1, Invariance, PTL

\* A finished walk of DCB_get_next_gap has returned every gap there is.
THEOREM WalksReturnAll == Spec => []NoGapMissed
<1>1. IInv => NoGapMissed
  <2> SUFFICES ASSUME IInv, Walking, ~differencing, NoMoreGaps
               PROVE  /\ BigGaps(seed_len) \subseteq given
                      /\ phase # "fill" => given = BigGaps(seed_len)
    BY DEF NoGapMissed, Walking
  <2>1. /\ Types /\ Pairs(list) /\ WalkPlace /\ GivenGaps
        /\ seed_len \in Nat \ {0}
    BY DEF IInv, Types, Phases
  <2>2. \A p \in BigGaps(seed_len) : p < gap_pos
    BY <2>1, GapsExhausted DEF NoMoreGaps
  <2>3. BigGaps(seed_len) = {p \in BigGaps(seed_len) : p < gap_pos}
    BY <2>2
  <2> QED BY <2>1, <2>3 DEF GivenGaps, Walking
<1> QED BY <1>1, Invariance, PTL

\* The sizes of the gaps counted add up to the bytes they have.
THEOREM TotalExact == Spec => []TotalIsExact
<1>1. IInv => TotalIsExact
  BY DEF IInv
<1> QED BY <1>1, Invariance, PTL

\* No byte is in two gaps of one walk, though the list grows during it.
THEOREM EachGapOnce == Spec => GapsOnce
<1>1. ASSUME IInv, CountGap \/ HashGap \/ FillGap
      PROVE  Span(NextGap(seed_len).gap) \cap given = {}
  <2> DEFINE g == NextGap(seed_len).gap
  <2>1. Take(g) /\ Walking
    BY <1>1 DEF CountGap, HashGap, FillGap, Walking
  <2> HIDE DEF g
  <2>2. Types /\ Pairs(list) /\ WalkPlace /\ seed_len >= MinSeed
    BY <1>1, <2>1 DEF IInv, Phases
  <2>3. \E lo, hi \in 0..VerSize : g = <<lo, hi>> /\ given \cap lo..(hi - 1) = {}
    BY <2>1, <2>2, Taken
  <2>4. Span(g) \cap given = {}
    BY <2>3 DEF Span
  <2> QED BY <2>4 DEF g
<1>2. IInv /\ [Next]_vars =>
        [CountGap \/ HashGap \/ FillGap =>
           Span(NextGap(seed_len).gap) \cap given = {}]_vars
  BY <1>1
<1> QED BY <1>2, Invariance, PTL DEF Spec, GapsOnce

-----------------------------------------------------------------------------
(* The match list implements Delta *)

\* The initial states are initial states of Delta.
LEMMA RefinesInit ==
  ASSUME Init
  PROVE  Promise!Init
<1>1. Covered(list) = {}
  <2>1. list = <<>> /\ <<>> \in Seq(Nodes)
    BY DEF Init
  <2> QED BY <2>1, EmptySeq
<1>2. OpenBytes \in {{}, Bytes} /\ Emitted = 0
  BY DEF Init, OpenBytes, Emitted
<1> QED BY <1>1, <1>2 DEF Promise!Init, Promise!Bytes, CoveredByList, Bytes

\* What a step does that touches neither the list nor the window on offer.
LEMMA Stutters ==
  ASSUME list' = list, OpenBytes' = OpenBytes, Emitted' = Emitted
  PROVE  UNCHANGED Promise!dvars
BY SameList DEF Promise!dvars, CoveredByList

\* The matches of a window, linked in.
LEMMA RefinesPassEnds ==
  ASSUME IInv, PassEnds
  PROVE  [Promise!Next]_(Promise!dvars)
<1>1. /\ differencing /\ phase' = phase /\ window' = window
  BY DEF PassEnds, ctl
<1>2. /\ Types /\ Pairs(list) /\ Pairs(buff) /\ Phases /\ WalkPlace
      /\ BuffPlace /\ WindowAtMain
  BY DEF IInv
<1>3. phase \in {"archive", "fill"} /\ Emitted = 0 /\ Emitted' = 0
  BY <1>1, <1>2 DEF Types, Phases, Emitted
<1>4. CASE phase = "archive"
  <2>1. list' = list /\ finalized' = finalized
    BY <1>4 DEF PassEnds, mem
  <2>2. OpenBytes' = OpenBytes
    BY <1>1, <1>4, <2>1 DEF OpenBytes
  <2> QED BY <1>3, <2>1, <2>2, Stutters
<1>5. CASE phase = "fill"
  <2>1. list' = Linked.list /\ finalized' = TRUE /\ ~finalized
    BY <1>1, <1>2, <1>5 DEF PassEnds, Finalize, Phases
  <2>2. Covered(list') = Covered(list) \cup Covered(buff)
    BY <1>1, <1>2, <1>5, <2>1, LinkedInGap
  <2>3. Covered(buff) \subseteq Span(window)
    <3> SUFFICES ASSUME NEW p \in Covered(buff)
                 PROVE  p \in Span(window)
      OBVIOUS
    <3>1. buff \in Seq(Nodes) /\ window[1] \in Int /\ window[2] \in Int
          /\ vs \in Int
      BY <1>2 DEF Types
    <3>2. p \in Int
      BY <1>2, <3>1, CoveredInFile DEF Bytes
    <3>3. PICK i \in DOMAIN buff : buff[i].ver <= p /\ p < Vend(buff[i])
      BY <3>1, <3>2, CoveredByNode
    <3>4. window[1] <= buff[i].ver /\ Vend(buff[i]) <= vs /\ vs <= window[2]
      BY <1>1, <1>2, <1>5 DEF BuffPlace
    <3>5. buff[i].ver \in Int /\ Vend(buff[i]) \in Int
      BY <3>1, NodeType
    <3> QED BY <3>1, <3>2, <3>3, <3>4, <3>5 DEF Span
  <2>4. OpenBytes = Span(window) /\ OpenBytes' = {}
    BY <1>1, <1>5, <2>1 DEF OpenBytes
  <2>5. CoveredByList' = CoveredByList \cup Covered(buff)
    BY <2>2 DEF CoveredByList
  <2>6. Promise!Cover
    BY <1>3, <2>3, <2>4, <2>5 DEF Promise!Cover
  <2> QED BY <2>6 DEF Promise!Next
<1> QED BY <1>3, <1>4, <1>5

\* The matches of the archive, when the list is empty.
LEMMA RefinesMultiPass ==
  ASSUME IInv, MultiPass
  PROVE  Promise!Next
<1>1. /\ phase = "archive" /\ ~differencing
      /\ list' = Linked.list /\ finalized' = TRUE
      /\ Reset
  BY DEF MultiPass, Finalize, BeginSeed
<1>2. /\ Types /\ Pairs(buff) /\ list = <<>>
      /\ finalized => buff = <<>>
  BY <1>1 DEF IInv, Phases
<1>3. Emitted = 0 /\ Emitted' = 0
  BY <1>1 DEF Emitted, Reset
<1>4. list' = buff /\ buff \in Seq(Nodes)
  BY <1>1, <1>2, LinkedToNothing DEF Types
<1>5. CoveredByList = {} /\ CoveredByList' = Covered(buff)
  BY <1>2, <1>4, EmptySeq DEF CoveredByList, Types
<1>6. Covered(buff) \subseteq OpenBytes
  <2>1. CASE finalized
    BY <1>2, <1>4, <2>1, EmptySeq
  <2>2. CASE ~finalized
    <3>1. OpenBytes = Bytes
      BY <1>1, <2>2 DEF OpenBytes
    <3> QED BY <1>2, <1>4, <3>1, CoveredInFile
  <2> QED BY <2>1, <2>2
<1>7. OpenBytes' = {}
  BY <1>1 DEF OpenBytes
<1>8. Promise!Cover
  BY <1>3, <1>5, <1>6, <1>7 DEF Promise!Cover
<1> QED BY <1>8 DEF Promise!Next

\* A gap is free, and no other window is open.
LEMMA RefinesFillGap ==
  ASSUME IInv, FillGap
  PROVE  Promise!Next
<1> DEFINE g == NextGap(seed_len).gap
<1>1. /\ phase = "fill" /\ ~differencing /\ Take(g)
      /\ window' = g /\ finalized' = FALSE
      /\ list' = list /\ phase' = phase
  BY DEF FillGap, StartPass, mem, ctl
<1> HIDE DEF g
<1>2. /\ Types /\ Pairs(list) /\ WalkPlace /\ Walking /\ seed_len >= MinSeed
      /\ finalized
  BY <1>1 DEF IInv, Phases, Walking
<1>3. \E lo, hi \in 0..VerSize : g = <<lo, hi>> /\ lo < hi /\ Clear(list, lo, hi)
  BY <1>1, <1>2, Taken
<1>4. Span(g) \subseteq Bytes \ Covered(list)
  BY <1>2, <1>3, ClearIsFree DEF Types, Span
<1>5. OpenBytes = {} /\ OpenBytes' = Span(g)
  BY <1>1, <1>2 DEF OpenBytes, Span
<1>6. CoveredByList' = CoveredByList /\ Emitted' = Emitted
  BY <1>1, SameList DEF CoveredByList, Emitted
<1>7. Promise!Bytes = Bytes
  BY DEF Promise!Bytes, Bytes
<1>8. Promise!Offer
  BY <1>4, <1>5, <1>6, <1>7 DEF Promise!Offer, CoveredByList
<1> QED BY <1>8 DEF Promise!Next

\* A command of the encoders' loop is one match, or bytes that none covers.
LEMMA RefinesGetNext ==
  ASSUME IInv, GetNext
  PROVE  Promise!Next
<1>1. /\ phase = "emit" /\ reconstruct_pos # VerSize
      /\ reconstruct_pos' = CommandEnd
      /\ list' = list /\ finalized' = finalized /\ phase' = phase
      /\ window' = window
  BY DEF GetNext, mem, ctl, pass
<1>2. /\ Types /\ Pairs(list) /\ EmitPlace /\ finalized
  BY <1>1 DEF IInv, Phases
<1>3. /\ list \in Seq(Nodes) /\ main \in 0..Len(list) /\ Len(list) \in Nat
      /\ reconstruct_pos \in 0..VerSize
  BY <1>2 DEF Types
<1>4. \A i \in DOMAIN list :
         /\ list[i].ver \in Nat /\ Vend(list[i]) \in Nat
         /\ list[i].ver < Vend(list[i]) /\ Vend(list[i]) <= VerSize
  BY <1>2, <1>3, NodeType DEF Pairs
<1>5. \A i \in DOMAIN list :
         IF main # 0 /\ i >= main THEN reconstruct_pos <= list[i].ver
                                  ELSE Vend(list[i]) <= reconstruct_pos
  BY <1>1, <1>2 DEF EmitPlace
<1> DEFINE to == CommandEnd
           new == reconstruct_pos..(to - 1)
<1>6. /\ to \in 0..VerSize /\ reconstruct_pos < to
      /\ new \subseteq Covered(list) \/ new \cap Covered(list) = {}
  <2>1. CASE main = 0
    <3>1. to = VerSize
      BY <2>1 DEF CommandEnd
    <3>2. Clear(list, reconstruct_pos, VerSize)
      BY <1>5, <2>1 DEF Clear
    <3>3. reconstruct_pos < VerSize /\ VerSize \in 0..VerSize
      BY <1>1, <1>3
    <3>4. reconstruct_pos..(VerSize - 1) \subseteq Bytes \ Covered(list)
      BY <1>3, <3>2, <3>3, ClearIsFree
    <3> QED BY <3>1, <3>3, <3>4
  <2>2. CASE main # 0 /\ reconstruct_pos # list[main].ver
    <3>1. to = list[main].ver /\ main \in DOMAIN list
      BY <1>3, <2>2 DEF CommandEnd
    <3> HIDE DEF to
    <3>2. to \in 0..VerSize /\ reconstruct_pos < to
      BY <1>3, <1>4, <1>5, <2>2, <3>1
    <3>3. Clear(list, reconstruct_pos, to)
      <4> SUFFICES ASSUME NEW i \in DOMAIN list, i >= main
                   PROVE  to <= list[i].ver
        BY <1>5 DEF Clear
      <4>1. main <= i <=> list[main].ver <= list[i].ver
        BY <1>2, <1>3, <3>1, InTurn
      <4> QED BY <1>3, <3>1, <4>1
    <3>4. reconstruct_pos..(to - 1) \subseteq Bytes \ Covered(list)
      BY <1>3, <3>2, <3>3, ClearIsFree
    <3> QED BY <3>2, <3>4
  <2>3. CASE main # 0 /\ reconstruct_pos = list[main].ver
    <3>1. to = Vend(list[main]) /\ main \in DOMAIN list
      BY <1>3, <2>3 DEF CommandEnd
    <3> HIDE DEF to
    <3>2. to \in 0..VerSize /\ reconstruct_pos < to
      BY <1>4, <2>3, <3>1
    <3>3. ASSUME NEW p \in reconstruct_pos..(to - 1)
          PROVE  p \in Covered(list)
      <4>1. p \in Int /\ list[main].ver <= p /\ p < Vend(list[main])
        BY <1>3, <2>3, <3>1, <3>2
      <4> QED BY <1>3, <3>1, <4>1, CoveredByNode
    <3> QED BY <3>2, <3>3
  <2> QED BY <2>1, <2>2, <2>3
<1>7. OpenBytes = {} /\ OpenBytes' = {}
  BY <1>1, <1>2 DEF OpenBytes
<1>8. Emitted = reconstruct_pos /\ Emitted' = to
  BY <1>1 DEF Emitted
<1>9. CoveredByList' = CoveredByList
  BY <1>1, SameList DEF CoveredByList
<1> DEFINE n == to - reconstruct_pos
<1> HIDE DEF to
<1>10. /\ n \in 1..(VerSize - Emitted)
       /\ Emitted + n = to
  BY <1>3, <1>6, <1>8
<1>11. Emitted..(Emitted + n - 1) = new
  <2>1. Emitted + n - 1 = to - 1
    BY <1>3, <1>6, <1>8
  <2> QED BY <1>8, <2>1
<1> HIDE DEF n, new
<1>12. Promise!Command(n)
  BY <1>6, <1>7, <1>8, <1>9, <1>10, <1>11 DEF Promise!Command, CoveredByList
<1> QED BY <1>10, <1>12 DEF Promise!Next

\* Every step is a step of Delta or changes nothing there.
LEMMA RefinesNext ==
  ASSUME IInv, [Next]_vars
  PROVE  [Promise!Next]_(Promise!dvars)
<1>1. ASSUME NEW lo \in 0..VerSize, NEW hi \in 0..VerSize,
             ArchiveFile(<<lo, hi>>)
      PROVE  UNCHANGED Promise!dvars
  <2>1. /\ list' = list /\ finalized' = finalized /\ phase' = phase
        /\ phase = "archive"
    BY <1>1 DEF ArchiveFile, mem, ctl
  <2>2. OpenBytes' = OpenBytes /\ Emitted' = Emitted
    BY <2>1 DEF OpenBytes, Emitted
  <2> QED BY <2>1, <2>2, Stutters
<1>2. ASSUME NEW vm, NEW vc, NEW e, Match(vm, vc, e)
      PROVE  UNCHANGED Promise!dvars
  <2>1. /\ list' = list /\ finalized' = finalized /\ phase' = phase
        /\ window' = window /\ differencing
    BY <1>2 DEF Match, mem, ctl
  <2>2. phase # "emit"
    BY <2>1 DEF IInv, Phases
  <2>3. OpenBytes' = OpenBytes /\ Emitted' = Emitted
    BY <2>1, <2>2 DEF OpenBytes, Emitted, Span
  <2> QED BY <2>1, <2>3, Stutters
<1>3. CASE CountGap \/ HashGap \/ UNCHANGED vars
  <2>1. /\ list' = list /\ finalized' = finalized /\ phase' = phase
        /\ window' = window /\ reconstruct_pos' = reconstruct_pos
    BY <1>3 DEF CountGap, HashGap, vars, mem, ctl, pass
  <2>2. OpenBytes' = OpenBytes /\ Emitted' = Emitted
    BY <2>1 DEF OpenBytes, Emitted, Span
  <2> QED BY <2>1, <2>2, Stutters
<1>4. CASE Counted \/ Hashed \/ Filled
  <2>1. /\ list' = list /\ finalized' = finalized /\ reconstruct_pos' = 0
        /\ phase # "emit" /\ finalized
    BY <1>4 DEF IInv, Phases, Counted, Hashed, Filled, BeginSeed, Reset, mem
  <2>2. OpenBytes' = OpenBytes /\ Emitted' = Emitted
    BY <2>1 DEF OpenBytes, Emitted
  <2> QED BY <2>1, <2>2, Stutters
<1> QED BY <1>1, <1>2, <1>3, <1>4, RefinesPassEnds, RefinesMultiPass,
           RefinesFillGap, RefinesGetNext DEF Next

\* Every run of the match list is a run of Delta: no match is lost, none
\* overlaps another, and the commands tile the version file.
THEOREM Refinement == Spec => KeepsPromise
<1>1. Init => Promise!Init
  BY RefinesInit
<1>2. IInv /\ [Next]_vars => [Promise!Next]_(Promise!dvars)
  BY RefinesNext
<1> QED BY <1>1, <1>2, Invariance, PTL DEF Spec, KeepsPromise, Promise!Spec

=============================================================================
