----------------------------- MODULE TreeProofs -----------------------------
(***************************************************************************)
(* Proofs about Tree, for all pairs of trees.                              *)
(***************************************************************************)
EXTENDS Tree, SetInduction, FiniteSetTheorems

\* Paths, and names.
Strs == Seq(DOMAIN NameKey)
FNames == [path : Strs, slash : BOOLEAN]

AllNames(t) == {[path |-> p, slash |-> s] : p \in DOMAIN t, s \in BOOLEAN}

\* strcmp orders the names N.
StrictOrder(N) ==
  /\ \A f, g \in N : (Before(f, g) \/ Before(g, f) <=> f # g) /\ ~ (Before(f, g) /\ Before(g, f))
  /\ \A f, g, h \in N : Before(f, g) /\ Before(g, h) => Before(f, h)

\* What a listing says of a name.
Entries(t) == {[name |-> f, st |-> t[f.path], link_target |-> LinkTarget(t, f)] : f \in Names(t)}

\* A listing has all names of the tree, in order.
Listed(files, t) ==
  /\ files \in Seq(Entries(t))
  /\ \A i, j \in 1..Len(files) : i < j => Before(files[i].name, files[j].name)
  /\ \A f \in Names(t) : \E i \in 1..Len(files) : files[i].name = f

-----------------------------------------------------------------------------
(* Names and times, written and read *)

\* r has the first n elements of f.
IsHead(S, f, n, r) == r \in Seq(S) /\ Len(r) = n /\ \A x \in 1..n : r[x] = f[x]

\* What SubSeq gives from the start on, for any elements.
LEMMA HeadOf ==
  ASSUME NEW S, NEW f \in Seq(S), NEW n \in 0..Len(f)
  PROVE  IsHead(S, f, n, SubSeq(f, 1, n))
<1>1. CASE n = 0
  <2>1. SubSeq(f, 1, n) = << >>
    BY <1>1
  <2> QED BY <1>1, <2>1 DEF IsHead
<1>2. CASE n # 0
  <2>1. 1 \in 1..Len(f) /\ n \in 1..Len(f)
    BY <1>2
  <2>2. /\ SubSeq(f, 1, n) \in Seq(S) /\ Len(SubSeq(f, 1, n)) = n - 1 + 1
        /\ \A x \in 1..(n - 1 + 1) : SubSeq(f, 1, n)[x] = f[1 + x - 1]
    BY <2>1
  <2>3. \A x \in 1..n : x \in 1..(n - 1 + 1) /\ 1 + x - 1 = x
    BY <2>1
  <2> QED BY <2>1, <2>2, <2>3 DEF IsHead
<1> QED BY <1>1, <1>2

\* r has the elements of f behind the first n.
IsTail(S, f, n, r) == r \in Seq(S) /\ Len(r) = Len(f) - n /\ \A x \in 1..(Len(f) - n) : r[x] = f[n + x]

\* What SubSeq gives up to the end, for any elements.
LEMMA TailOf ==
  ASSUME NEW S, NEW f \in Seq(S), NEW n \in 0..Len(f)
  PROVE  IsTail(S, f, n, SubSeq(f, n + 1, Len(f)))
<1>1. CASE n = Len(f)
  <2>1. SubSeq(f, n + 1, Len(f)) = << >>
    BY <1>1
  <2> QED BY <1>1, <2>1 DEF IsTail
<1>2. CASE n # Len(f)
  <2> DEFINE l == n + 1
             u == Len(f)
  <2>1. l \in 1..Len(f) /\ u \in l..Len(f) /\ u - l + 1 = Len(f) - n
    BY <1>2
  <2>2. \A x \in 1..(Len(f) - n) : x \in 1..(u - l + 1) /\ l + x - 1 = n + x
    BY <2>1
  <2> HIDE DEF l, u
  <2>3. SubSeq(f, l, u) \in Seq(S) /\ Len(SubSeq(f, l, u)) = u - l + 1
    BY <2>1
  <2>4. \A x \in 1..(u - l + 1) : SubSeq(f, l, u)[x] = f[l + x - 1]
    BY <2>1
  <2> QED BY <2>1, <2>2, <2>3, <2>4 DEF IsTail, l, u
<1> QED BY <1>1, <1>2

\* The path without its last part.
LEMMA FrontOf ==
  ASSUME NEW S, NEW f \in Seq(S)
  PROVE  IsHead(S, f, IF Len(f) = 0 THEN 0 ELSE Len(f) - 1, Front(f))
<1>1. CASE Len(f) = 0
  <2>1. Front(f) = << >>
    BY <1>1 DEF Front
  <2> QED BY <1>1, <2>1 DEF IsHead
<1>2. CASE Len(f) # 0
  <2>1. Len(f) - 1 \in 0..Len(f)
    BY <1>2
  <2>2. IsHead(S, f, Len(f) - 1, SubSeq(f, 1, Len(f) - 1))
    BY <2>1, HeadOf
  <2> QED BY <1>2, <2>2 DEF Front
<1> QED BY <1>1, <1>2

\* Two sequences of the same length with the same elements.
LEMMA SameSeq ==
  ASSUME NEW S, NEW f \in Seq(S), NEW g \in Seq(S), Len(f) = Len(g),
         \A x \in 1..Len(f) : f[x] = g[x]
  PROVE  f = g
<1>1. f = [x \in 1..Len(f) |-> f[x]] /\ g = [x \in 1..Len(g) |-> g[x]]
  OBVIOUS
<1> QED BY <1>1

\* n is how far f and g go together, if no further.
Together(f, g, n) == n \in 0..Len(f) /\ n \in 0..Len(g) /\ \A x \in 1..n : f[x] = g[x]

\* The longest common prefix is one.
LEMMA Prefixed ==
  ASSUME NEW S, NEW f \in Seq(S), NEW g \in Seq(S)
  PROVE  Together(f, g, Len(LongestCommonPrefix({f, g})))
<1> DEFINE C == CommonPrefixes({f, g})
           L == {Len(s) : s \in C}
<1>1. ASSUME NEW s \in C
      PROVE  s \in Seq(S) /\ Together(f, g, Len(s))
  <2>1. s \in Prefixes(f) \/ s \in Prefixes(g)
    BY DEF CommonPrefixes
  <2>2. IsPrefix(s, f) /\ IsPrefix(s, g)
    BY DEF CommonPrefixes
  <2>3. s \in Seq(S)
    <3>1. CASE s \in Prefixes(f)
      <4>1. PICK l \in 0..Len(f) : s = SubSeq(f, 1, l)
        BY <3>1 DEF Prefixes
      <4> QED BY <4>1, HeadOf DEF IsHead
    <3>2. CASE s \in Prefixes(g)
      <4>1. PICK l \in 0..Len(g) : s = SubSeq(g, 1, l)
        BY <3>2 DEF Prefixes
      <4> QED BY <4>1, HeadOf DEF IsHead
    <3> QED BY <2>1, <3>1, <3>2
  <2>4. Len(s) \in 0..Len(f) /\ Len(s) \in 0..Len(g)
    BY <2>2, <2>3 DEF IsPrefix
  <2>5. IsHead(S, s, Len(s), SubSeq(s, 1, Len(s)))
    BY <2>3, HeadOf
  <2>6. IsHead(S, f, Len(s), SubSeq(f, 1, Len(s))) /\ IsHead(S, g, Len(s), SubSeq(g, 1, Len(s)))
    BY <2>4, HeadOf
  <2>7. SubSeq(s, 1, Len(s)) = SubSeq(f, 1, Len(s)) /\ SubSeq(s, 1, Len(s)) = SubSeq(g, 1, Len(s))
    BY <2>2 DEF IsPrefix
  <2>8. \A x \in 1..Len(s) : f[x] = g[x]
    BY <2>5, <2>6, <2>7 DEF IsHead
  <2> QED BY <2>3, <2>4, <2>8 DEF Together
<1>2. << >> \in C
  <2>1. << >> = SubSeq(f, 1, 0)
    OBVIOUS
  <2>2. << >> \in Prefixes(f)
    BY <2>1 DEF Prefixes
  <2>3. SubSeq(<< >>, 1, 0) = << >> /\ SubSeq(g, 1, 0) = << >> /\ SubSeq(f, 1, 0) = << >>
    OBVIOUS
  <2>4. IsPrefix(<< >>, f) /\ IsPrefix(<< >>, g)
    BY <2>3 DEF IsPrefix
  <2> QED BY <2>2, <2>4 DEF CommonPrefixes
<1> HIDE DEF C
<1>3. L \in SUBSET Nat /\ \A x \in L : x <= Len(f)
  BY <1>1 DEF Together
<1>4. PICK m \in L : \A x \in L : x <= m
  <2>1. Len(<< >>) \in L /\ Len(f) \in Nat
    BY <1>2
  <2> HIDE DEF L
  <2> QED BY <1>3, <2>1, Greatest
<1>5. PICK longest \in C : Len(longest) = m
  OBVIOUS
<1>6. \A other \in C : Len(other) <= Len(longest)
  BY <1>4, <1>5
<1>7. LongestCommonPrefix({f, g}) \in C
  <2>1. LongestCommonPrefix({f, g})
          = CHOOSE s \in C : \A other \in C : Len(other) <= Len(s)
    BY DEF LongestCommonPrefix, C
  <2> QED BY <1>6, <2>1
<1> QED BY <1>1, <1>7

\* The directories of a name are where its path begins.
LEMMA DirsOfName ==
  ASSUME NEW f \in FNames
  PROVE  /\ DirsOf(f) \in Strs /\ Len(DirsOf(f)) <= Len(f.path)
         /\ \A x \in 1..Len(DirsOf(f)) : DirsOf(f)[x] = f.path[x]
<1>1. f.path \in Seq(DOMAIN NameKey) /\ Len(f.path) \in Nat
  BY DEF FNames, Strs
<1>2. CASE f.slash
  BY <1>1, <1>2 DEF DirsOf, Strs
<1>3. CASE ~ f.slash
  <2>1. IsHead(DOMAIN NameKey, f.path, IF Len(f.path) = 0 THEN 0 ELSE Len(f.path) - 1, Front(f.path))
    BY <1>1, FrontOf
  <2>2. DirsOf(f) = Front(f.path)
    BY <1>3 DEF DirsOf
  <2> QED BY <1>1, <2>1, <2>2 DEF IsHead, Strs
<1> QED BY <1>2, <1>3

\* decode_path gives back what encode_path was given, when both start from the
\* same directory.
LEMMA PathBack ==
  ASSUME NEW dir \in Strs, NEW f \in FNames
  PROVE  DecodePath(dir, EncodePath(dir, f)) = f
<1> DEFINE d == DirsOf(f)
           n == Len(LongestCommonPrefix({dir, d}))
           e == EncodePath(dir, f)
           N == DOMAIN NameKey
           p == f.path
<1>1. /\ dir \in Seq(N) /\ d \in Seq(N) /\ p \in Seq(N) /\ f.slash \in BOOLEAN
      /\ f = [path |-> p, slash |-> f.slash]
      /\ Len(d) <= Len(p) /\ \A x \in 1..Len(d) : d[x] = p[x]
  BY DirsOfName DEF Strs, FNames
<1>2. Together(dir, d, n)
  <2>1. dir \in Seq(N) /\ d \in Seq(N)
    BY <1>1
  <2> HIDE DEF d, N
  <2> QED BY <2>1, Prefixed
<1>3. e = [up |-> Len(dir) - n, rest |-> SubSeq(p, n + 1, Len(p)), slash |-> f.slash]
  BY DEF EncodePath
<1> HIDE DEF n, d, N, e, p
<1>4. Len(dir) \in Nat /\ Len(d) \in Nat /\ Len(p) \in Nat /\ n \in 0..Len(dir) /\ n \in 0..Len(p)
  BY <1>1, <1>2 DEF Together
<1>5. Len(dir) - (Len(dir) - n) = n
  BY <1>4
<1> DEFINE head == SubSeq(dir, 1, n)
           tail == SubSeq(p, n + 1, Len(p))
<1>6. IsHead(N, dir, n, head) /\ IsTail(N, p, n, tail)
  BY <1>1, <1>4, HeadOf, TailOf
<1>7. DecodePath(dir, e) = [path |-> head \o tail, slash |-> f.slash]
  BY <1>3, <1>5 DEF DecodePath
<1> HIDE DEF head, tail
<1>8. head \o tail \in Seq(N) /\ Len(head \o tail) = Len(p)
  BY <1>4, <1>6 DEF IsHead, IsTail
<1>9. ASSUME NEW x \in 1..Len(p)
      PROVE  (head \o tail)[x] = p[x]
  <2>1. CASE x <= n
    <3>1. (head \o tail)[x] = head[x] /\ x \in 1..n
      BY <1>4, <1>6, <2>1 DEF IsHead, IsTail
    <3>2. x \in 1..Len(d) /\ dir[x] = d[x]
      BY <1>2, <1>4, <3>1 DEF Together
    <3> QED BY <1>1, <1>6, <3>1, <3>2 DEF IsHead
  <2>2. CASE n < x
    <3>1. (head \o tail)[x] = tail[x - n] /\ x - n \in 1..(Len(p) - n) /\ n + (x - n) = x
      BY <1>4, <1>6, <2>2 DEF IsHead, IsTail
    <3> QED BY <1>6, <3>1 DEF IsTail
  <2>3. x <= n \/ n < x
    BY <1>4
  <2> QED BY <2>1, <2>2, <2>3
<1>10. head \o tail = p
  BY <1>1, <1>8, <1>9, SameSeq
<1> QED BY <1>1, <1>7, <1>10 DEF e, p

\* decode_time gives back what encode_time was given.
LEMMA TimeBack ==
  ASSUME NEW last \in Int, NEW t \in Int
  PROVE  DecodeTime(last, EncodeTime(last, t)) = t
<1>1. CASE t < last
  <2> DEFINE n == last - t
  <2>1. n \in Nat /\ t = last - n
    BY <1>1
  <2> HIDE DEF n
  <2>2. (2 * n + 1) % 2 = 1 /\ (2 * n + 1) \div 2 = n
    BY <2>1
  <2>3. EncodeTime(last, t) = 2 * n + 1
    BY <1>1 DEF EncodeTime, n
  <2> QED BY <2>1, <2>2, <2>3 DEF DecodeTime
<1>2. CASE ~ (t < last)
  <2> DEFINE n == t - last
  <2>1. n \in Nat /\ t = last + n
    BY <1>2
  <2> HIDE DEF n
  <2>2. (2 * n) % 2 = 0 /\ (2 * n) \div 2 = n
    BY <2>1
  <2>3. EncodeTime(last, t) = 2 * n
    BY <1>2 DEF EncodeTime, n
  <2> QED BY <2>1, <2>2, <2>3 DEF DecodeTime
<1> QED BY <1>1, <1>2

-----------------------------------------------------------------------------
(* Listings *)

\* The order of names, of one tree and so of all.
LEMMA NameOrder ==
  ASSUME NEW t \in Trees
  PROVE  StrictOrder(AllNames(t))
<1> DEFINE N == {[path |-> p, slash |-> s] : p \in UNION {DOMAIN u : u \in Trees}, s \in BOOLEAN}
<1>1. AllNames(t) \subseteq N
  BY DEF AllNames
<1>2. StrictOrder(N)
  BY OrderAssumption DEF OrderAssumption, StrictOrder
<1> HIDE DEF N
<1> QED BY <1>1, <1>2 DEF StrictOrder

\* The names of a tree: as many as there are entries, all of its paths.
LEMMA NamesOfTree ==
  ASSUME NEW t \in Trees
  PROVE  /\ IsFiniteSet(Names(t)) /\ Names(t) \subseteq AllNames(t)
         /\ \A f \in Names(t) : /\ f \in FNames /\ f.path \in DOMAIN t /\ Present(t, f.path)
                                 /\ f = Name(t, f.path) /\ f.slash = Is(t, f.path, "dir")
<1> DEFINE P == {q \in DOMAIN t : Present(t, q)}
           F == [p \in P |-> Name(t, p)]
<1>1. IsFiniteSet(P)
  <2>1. IsFiniteSet(DOMAIN t)
    BY TreeAssumption DEF TreeAssumption
  <2>2. P \in SUBSET (DOMAIN t)
    OBVIOUS
  <2> HIDE DEF P
  <2> QED BY <2>1, <2>2, FS_Subset
<1>2. Names(t) = {Name(t, p) : p \in P}
  BY DEF Names
<1>3. F \in Surjection(P, Names(t))
  BY <1>2 DEF Surjection
<1>4. IsFiniteSet(Names(t))
  <2> HIDE DEF F, P
  <2> QED BY <1>1, <1>3, FS_Surjection
<1>5. ASSUME NEW p \in P
      PROVE  LET f == Name(t, p)
             IN  /\ f \in FNames /\ f \in AllNames(t) /\ f.path = p
                 /\ f.slash = Is(t, p, "dir")
  <2>1. p \in Strs
    BY TreeAssumption DEF TreeAssumption, Strs
  <2>2. Is(t, p, "dir") \in BOOLEAN
    BY DEF Is
  <2> QED BY <2>1, <2>2 DEF Name, FNames, AllNames
<1> QED BY <1>2, <1>4, <1>5

Rank(t, f) == Cardinality({g \in Names(t) : Before(g, f)})
Nth(t, i) == CHOOSE f \in Names(t) : Rank(t, f) = i - 1

\* Each place of a listing is that of one name, and the places are in order.
LEMMA Ranked ==
  ASSUME NEW t \in Trees
  PROVE  LET n == Cardinality(Names(t))
         IN  /\ n \in Nat
             /\ \A i \in 1..n : Nth(t, i) \in Names(t)
             /\ \A i, j \in 1..n : i < j => Before(Nth(t, i), Nth(t, j))
             /\ \A f \in Names(t) : \E i \in 1..n : Nth(t, i) = f
<1> DEFINE N == Names(t)
           n == Cardinality(N)
           R == [f \in N |-> Rank(t, f)]
<1>1. IsFiniteSet(N) /\ n \in Nat
  BY NamesOfTree, FS_CardinalityType
<1>2. StrictOrder(N)
  BY NamesOfTree, NameOrder DEF StrictOrder
<1>3. ASSUME NEW f \in N
      PROVE  Rank(t, f) \in 0..(n - 1)
  <2> DEFINE L == {g \in N : Before(g, f)}
  <2>1. L \in SUBSET N /\ f \notin L
    BY <1>2 DEF StrictOrder
  <2>2. Rank(t, f) = Cardinality(L)
    BY DEF Rank
  <2> HIDE DEF L, N
  <2>3. IsFiniteSet(L) /\ Cardinality(L) <= n /\ (n = Cardinality(L) => N = L)
    BY <1>1, <2>1, FS_Subset
  <2>4. Cardinality(L) \in Nat
    BY <2>3, FS_CardinalityType
  <2> QED BY <1>1, <1>3, <2>1, <2>2, <2>3, <2>4
<1>4. ASSUME NEW f \in N, NEW g \in N, Before(f, g)
      PROVE  Rank(t, f) < Rank(t, g)
  <2> DEFINE L == {h \in N : Before(h, f)}
             M == {h \in N : Before(h, g)}
  <2>1. L \in SUBSET M /\ f \in M /\ f \notin L /\ M \in SUBSET N
    BY <1>2, <1>4 DEF StrictOrder
  <2>2. Rank(t, f) = Cardinality(L) /\ Rank(t, g) = Cardinality(M)
    BY DEF Rank
  <2> HIDE DEF L, M, N
  <2>3. IsFiniteSet(M)
    BY <1>1, <2>1, FS_Subset
  <2>4. IsFiniteSet(L) /\ Cardinality(L) <= Cardinality(M) /\ (Cardinality(M) = Cardinality(L) => M = L)
    BY <2>1, <2>3, FS_Subset
  <2>5. Cardinality(L) \in Nat /\ Cardinality(M) \in Nat
    BY <2>3, <2>4, FS_CardinalityType
  <2> QED BY <2>1, <2>2, <2>4, <2>5
<1>5. R \in Injection(N, 0..(n - 1))
  <2>1. R \in [N -> 0..(n - 1)]
    BY <1>3
  <2>2. ASSUME NEW f \in N, NEW g \in N, R[f] = R[g]
        PROVE  f = g
    <3>1. Rank(t, f) = Rank(t, g) /\ Rank(t, f) \in 0..(n - 1)
      BY <1>3, <2>2
    <3>2. ~ Before(f, g) /\ ~ Before(g, f)
      BY <1>4, <3>1
    <3> QED BY <1>2, <3>2 DEF StrictOrder
  <2> HIDE DEF R, N
  <2> QED BY <2>1, <2>2 DEF Injection, IsInjective
<1>6. R \in Surjection(N, 0..(n - 1))
  <2>1. IsFiniteSet(0..(n - 1)) /\ Cardinality(0..(n - 1)) = n
    <3> HIDE DEF n
    <3>1. 0 \in Int /\ n - 1 \in Int
      BY <1>1
    <3>2. IsFiniteSet(0..(n - 1)) /\ Cardinality(0..(n - 1)) = IF 0 > n - 1 THEN 0 ELSE (n - 1) - 0 + 1
      BY <3>1, FS_Interval
    <3> QED BY <1>1, <3>2
  <2> HIDE DEF R, N
  <2> QED BY <1>1, <1>5, <2>1, FS_Injection
<1> HIDE DEF n
<1>7. ASSUME NEW i \in 1..n
      PROVE  Nth(t, i) \in N /\ Rank(t, Nth(t, i)) = i - 1
  <2>1. i - 1 \in 0..(n - 1)
    BY <1>1
  <2>2. PICK f \in N : R[f] = i - 1
    <3> HIDE DEF R, N
    <3> QED BY <1>6, <2>1 DEF Surjection
  <2>3. Rank(t, f) = i - 1
    BY <2>2
  <2> QED BY <2>3 DEF Nth
<1>8. ASSUME NEW i \in 1..n, NEW j \in 1..n, i < j
      PROVE  Before(Nth(t, i), Nth(t, j))
  <2> DEFINE f == Nth(t, i)
             g == Nth(t, j)
  <2>1. f \in N /\ g \in N /\ Rank(t, f) = i - 1 /\ Rank(t, g) = j - 1
    BY <1>7
  <2> HIDE DEF f, g
  <2>2. ~ (Rank(t, g) < Rank(t, f)) /\ f # g
    BY <1>1, <1>8, <2>1
  <2>3. Before(f, g)
    BY <1>2, <1>4, <2>1, <2>2 DEF StrictOrder
  <2> QED BY <2>3 DEF f, g
<1>9. ASSUME NEW f \in N
      PROVE  \E i \in 1..n : Nth(t, i) = f
  <2> DEFINE i == Rank(t, f) + 1
  <2>1. i \in 1..n /\ i - 1 = Rank(t, f)
    BY <1>1, <1>3
  <2> HIDE DEF i
  <2>2. Nth(t, i) \in N /\ Rank(t, Nth(t, i)) = Rank(t, f)
    BY <1>7, <2>1
  <2>3. Nth(t, i) = f
    <3> DEFINE g == Nth(t, i)
    <3>1. g \in N /\ Rank(t, g) = Rank(t, f) /\ Rank(t, f) \in 0..(n - 1)
      BY <1>3, <2>2
    <3> HIDE DEF g
    <3> DEFINE r == Rank(t, f)
               q == Rank(t, g)
    <3>2. q = r /\ r \in Int
      BY <1>1, <3>1
    <3>3. (Before(f, g) => r < q) /\ (Before(g, f) => q < r)
      BY <1>4, <3>1
    <3> HIDE DEF r, q
    <3>4. ~ Before(f, g) /\ ~ Before(g, f)
      BY <3>2, <3>3
    <3>5. f = g
      BY <1>2, <3>1, <3>4 DEF StrictOrder
    <3> QED BY <3>5 DEF g
  <2> QED BY <2>1, <2>3
<1> QED BY <1>1, <1>7, <1>8, <1>9 DEF n

\* copen_multifile_directory lists each name once, in order.
LEMMA ListingSorted ==
  ASSUME NEW t \in Trees
  PROVE  Listed(Listing(t), t)
<1> DEFINE n == Cardinality(Names(t))
           entry(f) == [name |-> f, st |-> t[f.path], link_target |-> LinkTarget(t, f)]
           files == Listing(t)
<1>1. files = [i \in 1..n |-> entry(Nth(t, i))]
  BY DEF Listing, Nth, Rank
<1>2. n \in Nat /\ \A i \in 1..n : Nth(t, i) \in Names(t)
  BY Ranked
<1> HIDE DEF n, files
<1>3. ASSUME NEW i \in 1..n
      PROVE  files[i] \in Entries(t) /\ files[i].name = Nth(t, i)
  <2>1. files[i] = entry(Nth(t, i))
    BY <1>1
  <2> QED BY <1>2, <2>1 DEF Entries
<1>4. files \in Seq(Entries(t)) /\ Len(files) = n
  <2>1. files \in [1..n -> Entries(t)]
    <3>1. DOMAIN files = 1..n /\ files = [i \in 1..n |-> files[i]]
      BY <1>1
    <3> QED BY <1>3, <3>1
  <2> QED BY <1>2, <2>1
<1>5. /\ \A i, j \in 1..n : i < j => Before(Nth(t, i), Nth(t, j))
      /\ \A f \in Names(t) : \E i \in 1..n : Nth(t, i) = f
  BY Ranked DEF n
<1> QED BY <1>3, <1>4, <1>5 DEF Listed, files

\* A link is to a name of the inode before it; without one, the target is what
\* the symlink holds.
LEMMA LinkedTo ==
  ASSUME NEW t \in Trees, NEW f \in Names(t)
  PROVE  LET first == {g \in Names(t) : t[g.path].ino = t[f.path].ino /\ Before(g, f)}
         IN  /\ first # {} => \E g \in first : LinkTarget(t, f) = g.path
             /\ first = {} => LinkTarget(t, f) = IF t[f.path].type = "sym" THEN t[f.path].data ELSE << >>
<1> DEFINE first == {g \in Names(t) : t[g.path].ino = t[f.path].ino /\ Before(g, f)}
           n == Cardinality(Names(t))
           I == {i \in 1..n : Nth(t, i) \in first}
<1>1. ASSUME first # {}
      PROVE  \E g \in first : LinkTarget(t, f) = g.path
  <2>1. PICK some \in first : TRUE
    BY <1>1
  <2>2. /\ n \in Nat /\ \A i, j \in 1..n : i < j => Before(Nth(t, i), Nth(t, j))
        /\ \A g \in Names(t) : \E i \in 1..n : Nth(t, i) = g
    BY Ranked
  <2> HIDE DEF n
  <2>3. I \in SUBSET Nat /\ I # {} /\ \A i \in I : i <= n
    BY <2>1, <2>2
  <2>4. PICK m \in I : \A i \in I : i <= m
    <3> HIDE DEF I
    <3> QED BY <2>2, <2>3, Greatest
  <2>5. \A g \in first : g = Nth(t, m) \/ Before(g, Nth(t, m))
    <3> SUFFICES ASSUME NEW g \in first
                 PROVE  g = Nth(t, m) \/ Before(g, Nth(t, m))
      OBVIOUS
    <3>1. PICK i \in 1..n : Nth(t, i) = g
      BY <2>2
    <3>2. i \in I /\ m \in 1..n
      BY <3>1
    <3>3. i <= m
      BY <2>4, <3>2
    <3>4. i = m \/ i < m
      BY <2>2, <3>2, <3>3
    <3> QED BY <2>2, <3>1, <3>2, <3>4
  <2>6. Nth(t, m) \in first
    BY <2>4
  <2> DEFINE g0 == CHOOSE g \in first : \A h \in first : h = g \/ Before(h, g)
  <2>7. g0 \in first
    <3> HIDE DEF first
    <3> QED BY <2>5, <2>6
  <2>8. LinkTarget(t, f) = IF first # {} THEN g0.path
                           ELSE IF t[f.path].type = "sym" THEN t[f.path].data ELSE << >>
    BY DEF LinkTarget
  <2> HIDE DEF g0
  <2> QED BY <1>1, <2>7, <2>8
<1>2. first = {} => LinkTarget(t, f) = IF t[f.path].type = "sym" THEN t[f.path].data ELSE << >>
  BY DEF LinkTarget
<1> QED BY <1>1, <1>2

\* The target of a link is a path: of the name of the inode before it, or
\* what the symlink holds.
LEMMA LinkTargets ==
  ASSUME NEW t \in Trees, NEW f \in Names(t)
  PROVE  LinkTarget(t, f) \in Strs
<1> DEFINE first == {g \in Names(t) : t[g.path].ino = t[f.path].ino /\ Before(g, f)}
<1>1. CASE first # {}
  <2>1. PICK g \in first : LinkTarget(t, f) = g.path
    BY <1>1, LinkedTo
  <2>2. g \in Names(t)
    OBVIOUS
  <2> QED BY <2>1, <2>2, NamesOfTree DEF FNames
<1>2. CASE first = {}
  <2>1. LinkTarget(t, f) = IF t[f.path].type = "sym" THEN t[f.path].data ELSE << >>
    BY <1>2, LinkedTo
  <2>2. f.path \in DOMAIN t /\ Present(t, f.path)
    BY NamesOfTree
  <2>3. t[f.path].type = "sym" => t[f.path].data \in Strs
    BY <2>2, TreeAssumption DEF TreeAssumption, Strs
  <2>4. << >> \in Strs
    BY DEF Strs
  <2> QED BY <2>1, <2>3, <2>4
<1> QED BY <1>1, <1>2

\* What a listing says of a name is what stands there.
LEMMA EntryFacts ==
  ASSUME NEW t \in Trees, NEW e \in Entries(t)
  PROVE  /\ e.name \in Names(t) /\ e.name \in FNames /\ e.name \in AllNames(t)
         /\ e.name.path \in DOMAIN t /\ e.st = t[e.name.path] /\ Present(t, e.name.path)
         /\ e.st.type \in {"reg", "dir", "sym", "fifo", "sock", "dev"}
         /\ e.st.ctime \in Int /\ e.st.mtime \in Int
         /\ e.link_target \in Strs
<1>1. PICK f \in Names(t) : e = [name |-> f, st |-> t[f.path], link_target |-> LinkTarget(t, f)]
  BY DEF Entries
<1>2. e.name = f /\ e.st = t[f.path] /\ e.link_target = LinkTarget(t, f)
  BY <1>1
<1>3. f \in FNames /\ f \in AllNames(t) /\ f.path \in DOMAIN t /\ Present(t, f.path)
  BY NamesOfTree
<1>4. /\ t[f.path].type \in {"reg", "dir", "sym", "fifo", "sock", "dev"}
      /\ t[f.path].ctime \in Int /\ t[f.path].mtime \in Int
  BY <1>3, TreeAssumption DEF TreeAssumption
<1> QED BY <1>2, <1>3, <1>4, LinkTargets

\* The names in a command are names.
LEMMA EntryNamesType ==
  ASSUME NEW t \in Trees, NEW e \in Entries(t)
  PROVE  EntryNames(e) \in Seq(FNames)
<1> DEFINE g == [path |-> e.link_target, slash |-> FALSE]
           f == e.name
<1>1. f \in FNames /\ g \in FNames
  BY EntryFacts DEF FNames
<1>2. << >> \in Seq(FNames) /\ <<f, g>> \in Seq(FNames) /\ <<f>> \in Seq(FNames)
  <2> HIDE DEF f, g
  <2>1. << >> \in Seq(FNames)
    OBVIOUS
  <2>2. <<f>> \in Seq(FNames)
    BY <1>1
  <2>3. <<f, g>> \in Seq(FNames)
    BY <1>1
  <2> QED BY <2>1, <2>2, <2>3
<1>3. CASE IsFile(e)
  <2>1. EntryNames(e) = << >>
    BY <1>3 DEF EntryNames
  <2> QED BY <1>2, <2>1
<1>4. CASE ~ IsFile(e) /\ IsLink(e)
  <2>1. EntryNames(e) = <<f, g>>
    BY <1>4 DEF EntryNames
  <2> QED BY <1>2, <2>1
<1>5. CASE ~ IsFile(e) /\ ~ IsLink(e)
  <2>1. EntryNames(e) = <<f>>
    BY <1>5 DEF EntryNames
  <2> QED BY <1>2, <2>1
<1> QED BY <1>3, <1>4, <1>5

-----------------------------------------------------------------------------
(* Names one after the other *)

\* The directory reached after some names.
LEMMA LastDirType ==
  ASSUME NEW dir \in Strs, NEW names \in Seq(FNames)
  PROVE  LastDir(dir, names) \in Strs
<1>1. CASE names = << >>
  BY <1>1 DEF LastDir
<1>2. CASE names # << >>
  <2> DEFINE f == names[Len(names)]
  <2>1. f \in FNames
    BY <1>2
  <2>2. LastDir(dir, names) = DirsOf(f)
    BY <1>2 DEF LastDir, Last
  <2> HIDE DEF f
  <2> QED BY <2>1, <2>2, DirsOfName
<1> QED BY <1>1, <1>2

\* The directory a name is written relative to.
DirBefore(dir, names, i) == IF i = 1 THEN dir ELSE DirsOf(names[i - 1])

\* cread_path gives back what cwrite_path was given.
LEMMA NamesBack ==
  ASSUME NEW dir \in Strs, NEW names \in Seq(FNames)
  PROVE  DecodePaths(dir, EncodePaths(dir, names)) = names
<1> DEFINE n == Len(names)
           enc == EncodePaths(dir, names)
           E == {EncodePath(DirBefore(dir, names, i), names[i]) : i \in 1..n}
<1>1. n \in Nat /\ names = [i \in 1..n |-> names[i]] /\ \A i \in 1..n : names[i] \in FNames
  OBVIOUS
<1>2. enc = [i \in 1..n |-> EncodePath(DirBefore(dir, names, i), names[i])]
  BY <1>1 DEF EncodePaths, DirBefore
<1>3. Len(enc) = n /\ \A i \in 1..n : enc[i] = EncodePath(DirBefore(dir, names, i), names[i])
  <2>1. enc \in [1..n -> E]
    BY <1>2
  <2> HIDE DEF E, enc, n
  <2>2. enc \in Seq(E)
    BY <1>1, <2>1
  <2> QED BY <1>1, <1>2, <2>1, <2>2
<1> HIDE DEF enc
<1>4. ASSUME NEW i \in 1..n
      PROVE  DecodePath(DirBefore(dir, names, i), enc[i]) = names[i]
  <2> DEFINE d == DirBefore(dir, names, i)
             f == names[i]
  <2>1. d \in Strs
    <3>1. CASE i = 1
      BY <3>1 DEF DirBefore
    <3>2. CASE i # 1
      <4>1. i - 1 \in 1..n
        BY <1>1, <3>2
      <4>2. names[i - 1] \in FNames
        BY <1>1, <4>1
      <4> QED BY <3>2, <4>2, DirsOfName DEF DirBefore
    <3> QED BY <3>1, <3>2
  <2>2. f \in FNames /\ enc[i] = EncodePath(d, f)
    BY <1>1, <1>3
  <2> HIDE DEF d, f
  <2>3. DecodePath(d, EncodePath(d, f)) = f
    BY <2>1, <2>2, PathBack
  <2> QED BY <2>2, <2>3 DEF d, f
<1> DEFINE Is0(h) == h = [i \in 1..Len(enc) |->
                            DecodePath(IF i = 1 THEN dir ELSE DirsOf(h[i - 1]), enc[i])]
           g == CHOOSE h : Is0(h)
<1>5. Is0(names)
  <2>1. \A i \in 1..n : names[i] = DecodePath(IF i = 1 THEN dir ELSE DirsOf(names[i - 1]), enc[i])
    BY <1>4 DEF DirBefore
  <2> HIDE DEF n
  <2> QED BY <1>1, <1>3, <2>1
<1>6. Is0(g)
  <2> HIDE DEF Is0
  <2> QED BY <1>5
<1>7. DecodePaths(dir, enc) = g
  BY DEF DecodePaths
<1> HIDE DEF g, n
<1>8. /\ g = [i \in 1..n |-> g[i]]
      /\ \A i \in 1..n : g[i] = DecodePath(IF i = 1 THEN dir ELSE DirsOf(g[i - 1]), enc[i])
  BY <1>3, <1>6
<1> HIDE DEF Is0
<1> DEFINE S == {i \in 0..n : i \in 1..n => g[i] = names[i]}
<1>9. 0 \in S
  BY <1>1
<1>10. \A i \in 0..(n - 1) : i \in S => i + 1 \in S
  <2> SUFFICES ASSUME NEW i \in 0..(n - 1), i \in 1..n => g[i] = names[i]
               PROVE  i + 1 \in S
    OBVIOUS
  <2>1. i + 1 \in 1..n /\ i + 1 \in 0..n /\ (i + 1) - 1 = i
    BY <1>1
  <2>2. (IF i + 1 = 1 THEN dir ELSE DirsOf(g[i])) = DirBefore(dir, names, i + 1)
    <3>1. CASE i = 0
      BY <3>1 DEF DirBefore
    <3>2. CASE i # 0
      <4>1. i \in 1..n /\ i + 1 # 1
        BY <1>1, <3>2
      <4> QED BY <2>1, <4>1 DEF DirBefore
    <3> QED BY <3>1, <3>2
  <2>3. g[i + 1] = DecodePath(DirBefore(dir, names, i + 1), enc[i + 1])
    BY <1>8, <2>1, <2>2
  <2>4. g[i + 1] = names[i + 1]
    BY <1>4, <2>1, <2>3
  <2> QED BY <2>1, <2>4
<1>11. \A i \in 0..n : i \in S
  <2> HIDE DEF S
  <2> QED BY <1>1, <1>9, <1>10, UpTo
<1>12. \A i \in 1..n : g[i] = names[i]
  <2>1. \A i \in 1..n : i \in 0..n
    BY <1>1
  <2> QED BY <1>11, <2>1
<1>13. g = names
  BY <1>1, <1>8, <1>12 DEF n
<1> QED BY <1>7, <1>13 DEF enc

\* One name alone.
LEMMA OneName ==
  ASSUME NEW dir \in Strs, NEW f \in FNames
  PROVE  /\ EncodePaths(dir, <<f>>) = <<EncodePath(dir, f)>>
         /\ LastDir(dir, <<f>>) = DirsOf(f)
<1>1. DOMAIN <<f>> = 1..1 /\ <<f>>[1] = f
  OBVIOUS
<1>2. \A i \in 1..1 : i = 1
  OBVIOUS
<1> DEFINE names == <<f>>
           e == EncodePath(dir, f)
           enc == EncodePaths(dir, names)
<1>3. enc = <<e>>
  <2>1. names[1] = f /\ DOMAIN names = {1}
    BY <1>1, <1>2
  <2> HIDE DEF names
  <2>2. enc = [i \in {1} |-> EncodePath(IF i = 1 THEN dir ELSE DirsOf(names[i - 1]), names[i])]
    BY <2>1 DEF EncodePaths
  <2>3. enc[1] = e /\ DOMAIN enc = {1} /\ enc = [i \in {1} |-> enc[i]]
    BY <2>1, <2>2
  <2> HIDE DEF enc, e
  <2>4. <<e>> = [i \in {1} |-> e]
    OBVIOUS
  <2>5. enc = [i \in {1} |-> e]
    BY <2>3
  <2> QED BY <2>4, <2>5
<1>4. LastDir(dir, <<f>>) = DirsOf(f)
  BY DEF LastDir, Last
<1> QED BY <1>3, <1>4

-----------------------------------------------------------------------------
(* The walk for the unlinks *)

\* Where the walk of generate_unlinks stops.
StopsAt(files, pos, f, s) ==
  /\ s \in pos..(Len(files) + 1)
  /\ \A i \in pos..(s - 1) : Before(files[i].name, f)
  /\ s <= Len(files) => ~ Before(files[s].name, f)

\* So does Stop; Passed is there or one further.
LEMMA StopPlace ==
  ASSUME NEW files, Len(files) \in Nat, NEW pos \in 1..(Len(files) + 1), NEW f
  PROVE  /\ StopsAt(files, pos, f, Stop(files, pos, f))
         /\ Passed(files, pos, f) \in {Stop(files, pos, f), Stop(files, pos, f) + 1}
         /\ Passed(files, pos, f) \in pos..(Len(files) + 1)
<1> DEFINE later == {i \in pos..Len(files) : ~ Before(files[i].name, f)}
           n == Len(files)
           s == Stop(files, pos, f)
<1>1. s = IF later = {} THEN n + 1 ELSE CHOOSE i \in later : \A j \in later : i <= j
  BY DEF Stop
<1>2. StopsAt(files, pos, f, s)
  <2>1. CASE later = {}
    <3>1. s = n + 1 /\ s \in pos..(n + 1)
      BY <1>1, <2>1
    <3>2. \A i \in pos..n : Before(files[i].name, f)
      BY <2>1
    <3> HIDE DEF s
    <3>3. \A i \in pos..(s - 1) : i \in pos..n
      BY <3>1
    <3> QED BY <3>1, <3>2, <3>3 DEF StopsAt
  <2>2. CASE later # {}
    <3>1. later \in SUBSET Nat
      OBVIOUS
    <3>2. \E i \in later : \A j \in later : i <= j
      <4> HIDE DEF later
      <4> QED BY <2>2, <3>1, Least
    <3>3. s \in later /\ \A j \in later : s <= j
      <4> HIDE DEF later, s
      <4> QED BY <1>1, <2>2, <3>2
    <3> HIDE DEF s
    <3>4. s \in pos..n /\ ~ Before(files[s].name, f)
      BY <3>3
    <3>5. ASSUME NEW i \in pos..(s - 1)
          PROVE  Before(files[i].name, f)
      <4>1. i \in pos..n /\ ~ (s <= i)
        BY <3>4
      <4> QED BY <3>3, <4>1
    <3> QED BY <3>4, <3>5 DEF StopsAt
  <2> QED BY <2>1, <2>2
<1> HIDE DEF s, later
<1>3. s \in pos..(n + 1)
  BY <1>2 DEF StopsAt
<1>4. Passed(files, pos, f) = IF s <= n /\ files[s].name = f THEN s + 1 ELSE s
  BY DEF Passed, s
<1>5. Passed(files, pos, f) \in {s, s + 1} /\ Passed(files, pos, f) \in pos..(n + 1)
  BY <1>3, <1>4
<1> QED BY <1>2, <1>5 DEF s

\* The walk as a table: where it is after each entry, and what it came past.
IsWalk(srcs, refs, w) ==
  /\ w \in [0..Len(refs) -> [pos : 1..(Len(srcs) + 1), n : Nat]]
  /\ w[0].pos = 1 /\ w[0].n = 0
  /\ \A i \in 1..Len(refs) :
       /\ w[i].pos = Passed(srcs, w[i - 1].pos, refs[i].name)
       /\ w[i].n = w[i - 1].n + Stop(srcs, w[i - 1].pos, refs[i].name) - w[i - 1].pos

\* The dry walk is one.
LEMMA Walks ==
  ASSUME NEW srcs, NEW refs, Len(srcs) \in Nat, Len(refs) \in Nat
  PROVE  IsWalk(srcs, refs, DryWalk(srcs, refs))
<1> DEFINE N == Len(refs)
           X == [pos : 1..(Len(srcs) + 1), n : Nat]
           a == [pos |-> 1, n |-> 0]
           Turn(x, i) == [pos |-> Passed(srcs, x.pos, refs[i].name),
                          n |-> x.n + Stop(srcs, x.pos, refs[i].name) - x.pos]
           G == [p \in X \X (1..N) |-> Turn(p[1], p[2])]
           Is0(h) == h = [i \in 0..N |->
                            IF i = 0 THEN [pos |-> 1, n |-> 0]
                            ELSE [pos |-> Passed(srcs, h[i - 1].pos, refs[i].name),
                                  n |-> h[i - 1].n + Stop(srcs, h[i - 1].pos, refs[i].name)
                                          - h[i - 1].pos]]
<1>1. N \in Nat /\ a \in X
  OBVIOUS
<1>2. ASSUME NEW x \in X, NEW i \in 1..N
      PROVE  Turn(x, i) \in X
  <2> DEFINE st == Stop(srcs, x.pos, refs[i].name)
             ps == Passed(srcs, x.pos, refs[i].name)
  <2>1. x.pos \in 1..(Len(srcs) + 1) /\ x.n \in Nat
    OBVIOUS
  <2>2. StopsAt(srcs, x.pos, refs[i].name, st) /\ ps \in x.pos..(Len(srcs) + 1)
    BY <2>1, StopPlace
  <2> HIDE DEF st, ps
  <2>3. st \in x.pos..(Len(srcs) + 1)
    BY <2>2 DEF StopsAt
  <2>4. x.n + st - x.pos \in Nat /\ ps \in 1..(Len(srcs) + 1)
    BY <2>1, <2>2, <2>3
  <2> QED BY <2>4 DEF st, ps
<1>3. G \in [X \X (1..N) -> X]
  <2> HIDE DEF Turn, X
  <2> QED BY <1>2
<1>4. PICK f0 \in [0..N -> X] : Iterates(f0, a, N, G)
  <2> HIDE DEF G, N, X, a
  <2> QED BY <1>1, <1>3, Recursion
<1>5. ASSUME NEW i \in 1..N
      PROVE  i \in 0..N /\ i - 1 \in 0..N /\ i # 0
  BY <1>1
<1>6. Is0(f0)
  <2>1. ASSUME NEW i \in 1..N
        PROVE  f0[i] = Turn(f0[i - 1], i)
    <3>1. f0[i - 1] \in X
      BY <1>5
    <3>2. G[<<f0[i - 1], i>>] = Turn(f0[i - 1], i)
      <4> HIDE DEF X, Turn
      <4> QED BY <3>1
    <3>3. f0[i] = G[<<f0[i - 1], i>>]
      <4> HIDE DEF G
      <4> QED BY <1>4 DEF Iterates
    <3> QED BY <3>2, <3>3
  <2>2. f0[0] = [pos |-> 1, n |-> 0]
    BY <1>4 DEF Iterates
  <2>3. ASSUME NEW i \in 0..N
        PROVE  f0[i] = IF i = 0 THEN [pos |-> 1, n |-> 0] ELSE Turn(f0[i - 1], i)
    <3>1. i = 0 \/ i \in 1..N
      BY <1>1
    <3> HIDE DEF Turn
    <3> QED BY <2>1, <2>2, <3>1, <1>5
  <2>4. f0 = [i \in 0..N |-> f0[i]]
    OBVIOUS
  <2> HIDE DEF N
  <2> QED BY <2>3, <2>4
<1> DEFINE w == CHOOSE h : Is0(h)
<1>7. Is0(w)
  <2> HIDE DEF Is0
  <2> QED BY <1>6
<1>8. DryWalk(srcs, refs) = w
  BY DEF DryWalk
<1> HIDE DEF w
<1>9. /\ w = [i \in 0..N |-> w[i]] /\ w[0] = a
      /\ \A i \in 1..N : w[i] = Turn(w[i - 1], i)
  <2> HIDE DEF N
  <2> QED BY <1>1, <1>5, <1>7
<1> HIDE DEF Is0
<1>10. \A i \in 0..N : w[i] \in X
  <2> DEFINE S == {i \in 0..N : w[i] \in X}
  <2>1. 0 \in S
    BY <1>1, <1>9
  <2>2. \A i \in 0..(N - 1) : i \in S => i + 1 \in S
    <3> SUFFICES ASSUME NEW i \in 0..(N - 1), w[i] \in X
                 PROVE  i + 1 \in S
      OBVIOUS
    <3>1. i + 1 \in 1..N /\ i + 1 \in 0..N /\ (i + 1) - 1 = i
      BY <1>1
    <3> HIDE DEF Turn, X
    <3>2. w[i + 1] = Turn(w[i], i + 1)
      BY <1>9, <3>1
    <3> QED BY <1>2, <3>1, <3>2
  <2> HIDE DEF S
  <2>3. \A i \in 0..N : i \in S
    BY <1>1, <2>1, <2>2, UpTo
  <2> QED BY <2>3 DEF S
<1>11. w \in [0..N -> X]
  <2> HIDE DEF X, N
  <2> QED BY <1>9, <1>10
<1>12. \A i \in 1..N : /\ w[i].pos = Passed(srcs, w[i - 1].pos, refs[i].name)
                        /\ w[i].n = w[i - 1].n + Stop(srcs, w[i - 1].pos, refs[i].name) - w[i - 1].pos
  <2> SUFFICES ASSUME NEW i \in 1..N
               PROVE  /\ w[i].pos = Passed(srcs, w[i - 1].pos, refs[i].name)
                      /\ w[i].n = w[i - 1].n + Stop(srcs, w[i - 1].pos, refs[i].name) - w[i - 1].pos
    OBVIOUS
  <2>1. w[i] = Turn(w[i - 1], i)
    BY <1>9
  <2> QED BY <2>1
<1>13. w[0].pos = 1 /\ w[0].n = 0
  BY <1>9
<1> QED BY <1>8, <1>11, <1>12, <1>13 DEF IsWalk

\* What one entry adds to the walk.
LEMMA WalkTurn ==
  ASSUME NEW srcs, NEW refs, Len(srcs) \in Nat, Len(refs) \in Nat,
         NEW w, IsWalk(srcs, refs, w), NEW i \in 1..Len(refs)
  PROVE  /\ i - 1 \in 0..Len(refs) /\ i \in 0..Len(refs)
         /\ w[i - 1].pos \in 1..(Len(srcs) + 1) /\ w[i].pos \in 1..(Len(srcs) + 1)
         /\ w[i - 1].n \in Nat /\ w[i].n \in Nat
         /\ StopsAt(srcs, w[i - 1].pos, refs[i].name, Stop(srcs, w[i - 1].pos, refs[i].name))
         /\ Stop(srcs, w[i - 1].pos, refs[i].name) \in w[i - 1].pos..(Len(srcs) + 1)
         /\ w[i].pos = Passed(srcs, w[i - 1].pos, refs[i].name)
         /\ w[i].pos \in w[i - 1].pos..(Len(srcs) + 1)
         /\ w[i].n = w[i - 1].n + Stop(srcs, w[i - 1].pos, refs[i].name) - w[i - 1].pos
         /\ w[i].n >= w[i - 1].n
<1>1. i - 1 \in 0..Len(refs) /\ i \in 0..Len(refs)
  OBVIOUS
<1> DEFINE p == w[i - 1].pos
           m == w[i - 1].n
           q == w[i].pos
           l == w[i].n
           f == refs[i].name
           s == Stop(srcs, p, f)
           n == Len(srcs)
<1>2. p \in 1..(n + 1) /\ m \in Nat /\ q \in 1..(n + 1) /\ l \in Nat
  BY <1>1 DEF IsWalk
<1>3. q = Passed(srcs, p, f) /\ l = m + s - p
  BY DEF IsWalk
<1> HIDE DEF p, q, m, l, f
<1>4. StopsAt(srcs, p, f, s) /\ Passed(srcs, p, f) \in p..(n + 1)
  BY <1>2, StopPlace
<1> HIDE DEF s
<1>5. s \in p..(n + 1)
  BY <1>4 DEF StopsAt
<1>6. l >= m
  BY <1>2, <1>3, <1>5
<1>7. q \in p..(n + 1)
  BY <1>3, <1>4
<1> QED BY <1>1, <1>2, <1>3, <1>4, <1>5, <1>6, <1>7 DEF p, q, m, l, f, s

\* The number of the command of an entry: the walk has come past so many before it.
Ord(w, i) == i + w[i].n

\* It is a number.
LEMMA OrdNat ==
  ASSUME NEW srcs, NEW refs, Len(srcs) \in Nat, Len(refs) \in Nat, NEW w, IsWalk(srcs, refs, w),
         NEW i \in 0..Len(refs)
  PROVE  Ord(w, i) \in Nat /\ w[i].pos \in Nat /\ w[i].n \in Nat
<1>1. w[i].n \in Nat /\ w[i].pos \in 1..(Len(srcs) + 1)
  BY DEF IsWalk
<1> DEFINE n == w[i].n
           p == w[i].pos
<1>2. n \in Nat /\ p \in 1..(Len(srcs) + 1)
  BY <1>1
<1> HIDE DEF n, p
<1>3. i + n \in Nat /\ p \in Nat
  BY <1>2
<1> QED BY <1>1, <1>3 DEF Ord, n, p

\* Commands are written one behind the other.
LEMMA Ascending ==
  ASSUME NEW srcs, NEW refs, Len(srcs) \in Nat, Len(refs) \in Nat,
         NEW w, IsWalk(srcs, refs, w), NEW i \in 0..Len(refs), NEW j \in 0..Len(refs), i < j
  PROVE  Ord(w, i) < Ord(w, j) /\ w[i].pos <= w[j].pos /\ w[i].n <= w[j].n
<1> DEFINE N == Len(refs)
           Behind(k) == Ord(w, i) < Ord(w, k) /\ w[i].pos <= w[k].pos /\ w[i].n <= w[k].n
           S == {k \in 0..N : i < k => Behind(k)}
<1>1. \A k \in 0..N : w[k].pos \in Nat /\ w[k].n \in Nat
  BY DEF IsWalk
<1>2. 0 \in S
  OBVIOUS
<1>3. \A k \in 0..(N - 1) : k \in S => k + 1 \in S
  <2> SUFFICES ASSUME NEW k \in 0..(N - 1), i < k => Behind(k), i < k + 1
               PROVE  Behind(k + 1)
    OBVIOUS
  <2>1. k + 1 \in 1..N /\ (k + 1) - 1 = k
    OBVIOUS
  <2>2. w[k].pos <= w[k + 1].pos /\ w[k].n <= w[k + 1].n
    BY <2>1, WalkTurn
  <2>3. k \in 0..N /\ k + 1 \in 0..N
    OBVIOUS
  <2>4. /\ w[k].pos \in Nat /\ w[k].n \in Nat /\ w[k + 1].pos \in Nat /\ w[k + 1].n \in Nat
        /\ w[i].pos \in Nat /\ w[i].n \in Nat
    BY <1>1, <2>3
  <2>5. CASE i = k
    <3> DEFINE a == w[k].n
               b == w[k + 1].n
    <3>1. k \in Int /\ a \in Nat /\ b \in Nat /\ a <= b
      BY <2>2, <2>4
    <3> HIDE DEF a, b
    <3>2. k + a < k + 1 + b
      BY <3>1
    <3> QED BY <2>2, <2>5, <3>1, <3>2 DEF Ord, a, b
  <2>6. CASE i < k
    <3>1. i + w[i].n < k + w[k].n /\ w[i].pos <= w[k].pos /\ w[i].n <= w[k].n
      BY <2>6 DEF Ord
    <3> DEFINE a == w[i].n
               b == w[k].n
               c == w[k + 1].n
    <3>2. i + a < k + 1 + c /\ a <= c
      <4>1. /\ a \in Nat /\ b \in Nat /\ c \in Nat /\ i \in Int /\ k \in Int
            /\ b <= c /\ a <= b /\ i + a < k + b
        BY <2>2, <2>4, <3>1
      <4> HIDE DEF a, b, c
      <4> QED BY <4>1
    <3> HIDE DEF a, b, c
    <3>3. w[i].pos <= w[k + 1].pos
      <4> DEFINE x == w[i].pos
                 y == w[k].pos
                 z == w[k + 1].pos
      <4>1. x \in Nat /\ y \in Nat /\ z \in Nat /\ x <= y /\ y <= z
        BY <2>2, <2>4, <3>1
      <4> HIDE DEF x, y, z
      <4>2. x <= z
        BY <4>1
      <4> QED BY <4>2 DEF x, z
    <3> QED BY <3>2, <3>3 DEF Ord, a, c
  <2> QED BY <2>5, <2>6
<1>4. j \in S
  <2> HIDE DEF S
  <2> QED BY <1>2, <1>3, UpTo
<1> QED BY <1>4

\* What a listing has, at a place.
LEMMA ListedAt ==
  ASSUME NEW t \in Trees, NEW files, Listed(files, t), NEW i \in 1..Len(files)
  PROVE  files[i] \in Entries(t) /\ files[i].name \in Names(t) /\ files[i].name \in AllNames(t)
<1> DEFINE e == files[i]
<1>1. e \in Entries(t)
  BY DEF Listed
<1> HIDE DEF e
<1>2. e.name \in Names(t) /\ e.name \in AllNames(t)
  BY <1>1, EntryFacts
<1> QED BY <1>1, <1>2 DEF e

\* All trees have the same paths, and so the same names.
LEMMA SameNames ==
  ASSUME NEW s \in Trees, NEW t \in Trees
  PROVE  DOMAIN s = DOMAIN t /\ AllNames(s) = AllNames(t)
<1>1. DOMAIN s = DOMAIN t
  BY TreeAssumption DEF TreeAssumption
<1> QED BY <1>1 DEF AllNames

\* What the walk has not come to is behind the entries it was made for.
LEMMA AheadOfWalk ==
  ASSUME NEW s \in Trees, NEW t \in Trees, NEW srcs, NEW refs, Listed(srcs, s), Listed(refs, t),
         NEW w, IsWalk(srcs, refs, w), NEW i \in 1..Len(refs), NEW j \in w[i].pos..Len(srcs)
  PROVE  j \in 1..Len(srcs) /\ Before(refs[i].name, srcs[j].name)
<1>1. Len(srcs) \in Nat /\ Len(refs) \in Nat
  BY DEF Listed
<1> DEFINE f == refs[i].name
           p == w[i - 1].pos
           q == w[i].pos
           st == Stop(srcs, p, f)
           n == Len(srcs)
<1>2. /\ StopsAt(srcs, p, f, st) /\ q = Passed(srcs, p, f) /\ p \in 1..(n + 1) /\ q \in p..(n + 1)
      /\ st \in p..(n + 1)
  BY <1>1, WalkTurn
<1>3. j \in q..n
  OBVIOUS
<1>4. f \in AllNames(s)
  BY ListedAt, SameNames
<1>5. Passed(srcs, p, f) = IF st <= n /\ srcs[st].name = f THEN st + 1 ELSE st
  BY DEF Passed
<1> HIDE DEF f, p, q, st
<1>6. j \in 1..n /\ st <= j /\ st \in 1..n
  BY <1>1, <1>2, <1>3, <1>5
<1> DEFINE g == srcs[st].name
           h == srcs[j].name
<1>7. g \in AllNames(s) /\ h \in AllNames(s) /\ (st < j => Before(g, h))
  BY <1>6, ListedAt DEF Listed
<1>8. ~ Before(g, f)
  BY <1>2, <1>6 DEF StopsAt
<1>9. StrictOrder(AllNames(s))
  BY NameOrder
<1>10. st = j => g = h
  OBVIOUS
<1>11. g = f => st < j
  BY <1>1, <1>2, <1>3, <1>5, <1>6
<1>12. st = j \/ st < j
  BY <1>6
<1> HIDE DEF g, h
<1>13. Before(f, h)
  <2>1. CASE g = f
    BY <1>7, <1>11, <2>1
  <2>2. CASE g # f
    <3>1. Before(f, g)
      BY <1>4, <1>7, <1>8, <1>9, <2>2 DEF StrictOrder
    <3>2. CASE st = j
      BY <1>10, <3>1, <3>2
    <3>3. CASE st < j
      BY <1>4, <1>7, <1>9, <3>1, <3>3 DEF StrictOrder
    <3> QED BY <1>12, <3>2, <3>3
  <2> QED BY <2>1, <2>2
<1> QED BY <1>6, <1>13 DEF f, h

\* What the walk comes past before the next entry, only the old tree has.
LEMMA UnlinkedGone ==
  ASSUME NEW s \in Trees, NEW t \in Trees, NEW srcs, NEW refs, Listed(srcs, s), Listed(refs, t),
         NEW w, IsWalk(srcs, refs, w), NEW i \in 0..Len(refs), NEW j \in w[i].pos..Len(srcs),
         i < Len(refs) => j < Stop(srcs, w[i].pos, refs[i + 1].name)
  PROVE  j \in 1..Len(srcs) /\ srcs[j].name \in Names(s) \ Names(t)
<1>1. Len(srcs) \in Nat /\ Len(refs) \in Nat
  BY DEF Listed
<1>2. w[i].pos \in 1..(Len(srcs) + 1)
  BY DEF IsWalk
<1>3. j \in 1..Len(srcs)
  BY <1>1, <1>2
<1> DEFINE h == srcs[j].name
<1>4. h \in Names(s) /\ h \in AllNames(s)
  BY <1>3, ListedAt
<1>5. StrictOrder(AllNames(s))
  BY NameOrder
<1>6. ASSUME h \in Names(t)
      PROVE  FALSE
  <2>1. PICK k \in 1..Len(refs) : refs[k].name = h
    BY <1>6 DEF Listed
  <2>2. CASE k <= i
    <3>1. k \in 0..Len(refs) /\ w[k].pos \in 1..(Len(srcs) + 1) /\ w[k].pos <= w[i].pos
      <4>1. k \in 0..Len(refs)
        BY <1>1
      <4>2. CASE k = i
        BY <1>1, <1>2, <4>1, <4>2
      <4>3. CASE k # i
        <5>1. k < i
          BY <2>2, <4>3
        <5>2. w[k].pos <= w[i].pos
          BY <1>1, <4>1, <5>1, Ascending
        <5>3. w[k].pos \in 1..(Len(srcs) + 1)
          BY <4>1 DEF IsWalk
        <5> QED BY <4>1, <5>2, <5>3
      <4> QED BY <4>2, <4>3
    <3>2. j \in w[k].pos..Len(srcs)
      BY <1>1, <1>2, <3>1
    <3>3. Before(refs[k].name, h)
      BY <3>2, AheadOfWalk
    <3> QED BY <1>4, <1>5, <2>1, <3>3 DEF StrictOrder
  <2>3. CASE i < k
    <3>1. i + 1 \in 1..Len(refs) /\ i < Len(refs) /\ (i + 1) - 1 = i
      BY <1>1, <2>3
    <3> DEFINE f == refs[i + 1].name
               st == Stop(srcs, w[i].pos, f)
    <3>2. StopsAt(srcs, w[i].pos, f, st) /\ st \in w[i].pos..(Len(srcs) + 1)
      BY <1>1, <1>2, StopPlace DEF StopsAt
    <3>3. j < st
      BY <3>1
    <3> HIDE DEF st
    <3>4. j \in w[i].pos..(st - 1)
      BY <1>1, <1>2, <3>2, <3>3
    <3>5. Before(h, f)
      BY <3>2, <3>4 DEF StopsAt
    <3>6. f \in AllNames(s) /\ (i + 1 < k => Before(f, refs[k].name))
      BY <3>1, ListedAt, SameNames DEF Listed
    <3> HIDE DEF f
    <3>7. CASE i + 1 = k
      <4>1. f = h
        BY <2>1, <3>7 DEF f
      <4> QED BY <1>4, <1>5, <3>5, <4>1 DEF StrictOrder
    <3>8. CASE i + 1 < k
      <4>1. Before(f, h)
        BY <2>1, <3>6, <3>8
      <4> QED BY <1>4, <1>5, <3>5, <3>6, <4>1 DEF StrictOrder
    <3> QED BY <2>3, <3>1, <3>7, <3>8
  <2> QED BY <2>2, <2>3
<1> QED BY <1>3, <1>4, <1>6

-----------------------------------------------------------------------------
(* The files of a manifest *)

FileCount(files, i) == Cardinality({k \in 1..i : IsFile(files[k])})

\* The number of files up to an entry.
LEMMA Counting ==
  ASSUME NEW files, NEW i \in Nat
  PROVE  /\ FileCount(files, i) \in Nat
         /\ FileCount(files, 0) = 0
         /\ FileCount(files, i + 1) = IF IsFile(files[i + 1]) THEN FileCount(files, i) + 1
                                                              ELSE FileCount(files, i)
<1> DEFINE T == {k \in 1..i : IsFile(files[k])}
           U == {k \in 1..(i + 1) : IsFile(files[k])}
<1>1. IsFiniteSet(T) /\ Cardinality(T) \in Nat
  <2>1. IsFiniteSet(1..i)
    BY FS_Interval
  <2>2. T \in SUBSET (1..i)
    OBVIOUS
  <2> HIDE DEF T
  <2>3. IsFiniteSet(T)
    BY <2>1, <2>2, FS_Subset
  <2> QED BY <2>3, FS_CardinalityType
<1>2. FileCount(files, 0) = 0
  <2>1. {k \in 1..0 : IsFile(files[k])} = {}
    OBVIOUS
  <2> QED BY <2>1, FS_EmptySet DEF FileCount
<1>3. i + 1 \notin T
  OBVIOUS
<1>4. CASE IsFile(files[i + 1])
  <2>1. U = T \cup {i + 1}
    BY <1>4
  <2> HIDE DEF T, U
  <2>2. Cardinality(U) = Cardinality(T) + 1
    BY <1>1, <1>3, <2>1, FS_AddElement
  <2> QED BY <1>1, <1>2, <1>4, <2>2 DEF FileCount, T, U
<1>5. CASE ~ IsFile(files[i + 1])
  <2>1. U = T
    BY <1>5
  <2> QED BY <1>1, <1>2, <1>5, <2>1 DEF FileCount
<1> QED BY <1>4, <1>5

\* The files up to the n-th entry: how many, and each where its count says.
FilesUpTo(E, files, n, r) ==
  /\ r \in Seq(E) /\ Len(r) = FileCount(files, n)
  /\ \A i \in 1..n : IsFile(files[i]) => /\ FileCount(files, i) \in 1..FileCount(files, n)
                                         /\ r[FileCount(files, i)] = files[i]

\* One more entry.
LEMMA FilesTurn ==
  ASSUME NEW E, NEW files \in Seq(E), NEW n \in 0..(Len(files) - 1), NEW r, FilesUpTo(E, files, n, r)
  PROVE  FilesUpTo(E, files, n + 1, IF IsFile(files[n + 1]) THEN Append(r, files[n + 1]) ELSE r)
<1> DEFINE e == files[n + 1]
           C(i) == FileCount(files, i)
<1>1. n \in Nat /\ n + 1 \in Nat /\ e \in E
  OBVIOUS
<1>2. C(n) \in Nat /\ C(n + 1) = IF IsFile(e) THEN C(n) + 1 ELSE C(n)
  BY <1>1, Counting
<1>3. /\ r \in Seq(E) /\ Len(r) = C(n)
      /\ \A i \in 1..n : IsFile(files[i]) => C(i) \in 1..C(n) /\ r[C(i)] = files[i]
  BY DEF FilesUpTo
<1>4. \A i \in 1..(n + 1) : i \in 1..n \/ i = n + 1
  BY <1>1
<1>5. e = files[n + 1]
  OBVIOUS
<1> HIDE DEF C, e
<1>6. CASE IsFile(e)
  <2> DEFINE q == Append(r, e)
  <2>1. q \in Seq(E) /\ Len(q) = C(n) + 1 /\ q[C(n) + 1] = e /\ \A x \in 1..C(n) : q[x] = r[x]
    BY <1>1, <1>2, <1>3
  <2> HIDE DEF q
  <2>2. C(n + 1) = C(n) + 1
    BY <1>2, <1>6
  <2>3. ASSUME NEW i \in 1..(n + 1), IsFile(files[i])
        PROVE  C(i) \in 1..C(n + 1) /\ q[C(i)] = files[i]
    <3>1. CASE i \in 1..n
      <4>1. C(i) \in 1..C(n) /\ r[C(i)] = files[i]
        BY <1>3, <2>3, <3>1
      <4> QED BY <1>2, <2>1, <2>2, <4>1
    <3>2. CASE i = n + 1
      BY <1>2, <1>5, <2>1, <2>2, <3>2
    <3> QED BY <1>4, <3>1, <3>2
  <2>4. FilesUpTo(E, files, n + 1, q)
    BY <2>1, <2>2, <2>3 DEF FilesUpTo, C
  <2> QED BY <1>6, <2>4 DEF q, e
<1>7. CASE ~ IsFile(e)
  <2>1. C(n + 1) = C(n)
    BY <1>2, <1>7
  <2>2. \A i \in 1..(n + 1) : IsFile(files[i]) => i \in 1..n
    BY <1>4, <1>5, <1>7
  <2>3. FilesUpTo(E, files, n + 1, r)
    BY <1>3, <2>1, <2>2 DEF FilesUpTo, C
  <2> QED BY <1>7, <2>3 DEF e
<1> QED BY <1>6, <1>7

\* The manifest has the regular files, each at the place its count says.
LEMMA RegularOnes ==
  ASSUME NEW E, NEW files \in Seq(E)
  PROVE  FilesUpTo(E, files, Len(files), RegularFiles(files))
<1> DEFINE N == Len(files)
           X == Seq(E)
           Turn(r, i) == IF IsFile(files[i]) THEN Append(r, files[i]) ELSE r
           G == [p \in X \X (1..N) |-> Turn(p[1], p[2])]
           Is0(h) == h = [i \in 0..N |->
                            IF i = 0 THEN <<>>
                            ELSE IF IsFile(files[i]) THEN Append(h[i - 1], files[i]) ELSE h[i - 1]]
<1>1. N \in Nat /\ << >> \in X /\ \A i \in 1..N : files[i] \in E
  OBVIOUS
<1>2. ASSUME NEW x \in X, NEW i \in 1..N
      PROVE  Turn(x, i) \in X
  <2>1. files[i] \in E
    OBVIOUS
  <2> QED BY <2>1
<1>3. G \in [X \X (1..N) -> X]
  <2> HIDE DEF Turn, X
  <2> QED BY <1>2
<1>4. PICK f0 \in [0..N -> X] : Iterates(f0, << >>, N, G)
  <2> HIDE DEF G, N, X
  <2> QED BY <1>1, <1>3, Recursion
<1>5. ASSUME NEW i \in 1..N
      PROVE  i \in 0..N /\ i - 1 \in 0..N /\ i # 0
  BY <1>1
<1>6. Is0(f0)
  <2>1. ASSUME NEW i \in 1..N
        PROVE  f0[i] = Turn(f0[i - 1], i)
    <3>1. f0[i - 1] \in X
      BY <1>5
    <3>2. G[<<f0[i - 1], i>>] = Turn(f0[i - 1], i)
      <4> HIDE DEF X, Turn
      <4> QED BY <3>1
    <3>3. f0[i] = G[<<f0[i - 1], i>>]
      <4> HIDE DEF G
      <4> QED BY <1>4 DEF Iterates
    <3> QED BY <3>2, <3>3
  <2>2. f0[0] = << >>
    BY <1>4 DEF Iterates
  <2>3. ASSUME NEW i \in 0..N
        PROVE  f0[i] = IF i = 0 THEN << >> ELSE Turn(f0[i - 1], i)
    <3>1. i = 0 \/ i \in 1..N
      BY <1>1
    <3> HIDE DEF Turn
    <3> QED BY <2>1, <2>2, <3>1, <1>5
  <2>4. f0 = [i \in 0..N |-> f0[i]]
    OBVIOUS
  <2> HIDE DEF N
  <2> QED BY <2>3, <2>4
<1> DEFINE w == CHOOSE h : Is0(h)
<1>7. Is0(w)
  <2> HIDE DEF Is0
  <2> QED BY <1>6
<1>8. RegularFiles(files) = w[N]
  BY DEF RegularFiles
<1> HIDE DEF w
<1>9. w[0] = << >> /\ \A i \in 1..N : w[i] = Turn(w[i - 1], i)
  <2>1. 0 \in 0..N
    BY <1>1
  <2> HIDE DEF N
  <2>2. w[0] = << >>
    BY <1>7, <2>1
  <2>3. ASSUME NEW i \in 1..N
        PROVE  w[i] = Turn(w[i - 1], i)
    BY <1>5, <1>7
  <2> QED BY <2>2, <2>3
<1> HIDE DEF Is0
<1> DEFINE S == {i \in 0..N : FilesUpTo(E, files, i, w[i])}
<1>10. 0 \in S
  <2>1. FileCount(files, 0) = 0
    BY Counting
  <2>2. FilesUpTo(E, files, 0, << >>)
    BY <1>1, <2>1 DEF FilesUpTo
  <2>3. w[0] = << >> /\ 0 \in 0..N
    BY <1>1, <1>9
  <2>4. FilesUpTo(E, files, 0, w[0])
    BY <2>2, <2>3
  <2> QED BY <2>3, <2>4
<1>11. \A i \in 0..(N - 1) : i \in S => i + 1 \in S
  <2> SUFFICES ASSUME NEW i \in 0..(N - 1), FilesUpTo(E, files, i, w[i])
               PROVE  i + 1 \in S
    OBVIOUS
  <2>1. i + 1 \in 1..N /\ i + 1 \in 0..N /\ (i + 1) - 1 = i
    BY <1>1
  <2>2. w[i + 1] = Turn(w[i], i + 1)
    <3> HIDE DEF Turn
    <3> QED BY <1>9, <2>1
  <2>3. FilesUpTo(E, files, i + 1, Turn(w[i], i + 1))
    BY FilesTurn
  <2> HIDE DEF Turn
  <2> QED BY <2>1, <2>2, <2>3
<1>12. \A i \in 0..N : i \in S
  <2> HIDE DEF S
  <2> QED BY <1>1, <1>10, <1>11, UpTo
<1>13. N \in 0..N
  BY <1>1
<1> QED BY <1>8, <1>12, <1>13

\* As many files up to an entry as up to the last, or fewer.
LEMMA FewerFiles ==
  ASSUME NEW files, NEW n \in Nat, NEW i \in 0..n
  PROVE  FileCount(files, i) \in 0..FileCount(files, n)
<1> DEFINE T == {k \in 1..i : IsFile(files[k])}
           U == {k \in 1..n : IsFile(files[k])}
<1>1. IsFiniteSet(1..n)
  BY FS_Interval
<1>2. U \in SUBSET (1..n) /\ T \in SUBSET U
  OBVIOUS
<1> HIDE DEF T, U
<1>3. IsFiniteSet(U)
  BY <1>1, <1>2, FS_Subset
<1>4. IsFiniteSet(T) /\ Cardinality(T) <= Cardinality(U)
  BY <1>2, <1>3, FS_Subset
<1>5. Cardinality(T) \in Nat /\ Cardinality(U) \in Nat
  BY <1>3, <1>4, FS_CardinalityType
<1> QED BY <1>4, <1>5 DEF FileCount, T, U

\* The names in the manifest of a tree.
LEMMA FilesListed ==
  ASSUME NEW t \in Trees, NEW files, Listed(files, t)
  PROVE  /\ FileNames(files) \in Seq(FNames) /\ Len(FileNames(files)) = FileCount(files, Len(files))
         /\ \A i \in 1..Len(files) : IsFile(files[i]) =>
              /\ FileCount(files, i) \in 1..Len(FileNames(files))
              /\ FileNames(files)[FileCount(files, i)] = files[i].name
<1> DEFINE E == Entries(t)
           r == RegularFiles(files)
           n == FileCount(files, Len(files))
<1>1. files \in Seq(E)
  BY DEF Listed
<1>2. \A e \in E : e.name \in FNames
  BY EntryFacts
<1> HIDE DEF E
<1>3. FilesUpTo(E, files, Len(files), r)
  BY <1>1, RegularOnes
<1>4. FileNames(files) = [i \in DOMAIN r |-> r[i].name]
  BY DEF FileNames, NamesOf
<1> HIDE DEF r
<1>5. r \in Seq(E) /\ Len(r) = n /\ \A i \in 1..n : r[i] \in E
  BY <1>3 DEF FilesUpTo
<1>6. DOMAIN r = 1..n /\ n \in Nat
  BY <1>5
<1> DEFINE q == FileNames(files)
<1> HIDE DEF q, n
<1>7. q = [i \in 1..n |-> r[i].name]
  BY <1>4, <1>6 DEF q
<1>8. \A i \in 1..n : r[i].name \in FNames
  BY <1>2, <1>5
<1>9. q \in Seq(FNames) /\ Len(q) = n /\ \A i \in 1..n : q[i] = r[i].name
  BY <1>6, <1>7, <1>8
<1>10. \A i \in 1..Len(files) : IsFile(files[i]) =>
         FileCount(files, i) \in 1..n /\ r[FileCount(files, i)] = files[i]
  BY <1>3 DEF FilesUpTo, n
<1>11. \A i \in 1..Len(files) : IsFile(files[i]) =>
         FileCount(files, i) \in 1..Len(q) /\ q[FileCount(files, i)] = files[i].name
  BY <1>9, <1>10
<1> QED BY <1>9, <1>11 DEF q, n

-----------------------------------------------------------------------------
(* The chain of commands, and what the encoder is at after each *)

Coders == [dir : Strs, time : Int]

IsSeq(s) == \E S : s \in Seq(S)

\* One sequence behind the other.
LEMMA Joined ==
  ASSUME NEW a, IsSeq(a), NEW b, IsSeq(b)
  PROVE  /\ IsSeq(a \o b) /\ Len(a) \in Nat /\ Len(b) \in Nat /\ Len(a \o b) = Len(a) + Len(b)
         /\ \A k \in 1..Len(a) : (a \o b)[k] = a[k]
         /\ \A k \in 1..Len(b) : (a \o b)[Len(a) + k] = b[k]
<1>1. PICK S : a \in Seq(S)
  BY DEF IsSeq
<1>2. PICK T : b \in Seq(T)
  BY DEF IsSeq
<1> DEFINE U == S \cup T
<1>3. a \in Seq(U) /\ b \in Seq(U)
  BY <1>1, <1>2
<1> HIDE DEF U
<1>4. a \o b \in Seq(U)
  BY <1>3
<1>5. /\ Len(a) \in Nat /\ Len(b) \in Nat /\ Len(a \o b) = Len(a) + Len(b)
      /\ \A k \in 1..Len(a) : (a \o b)[k] = a[k]
      /\ \A k \in 1..Len(b) : (a \o b)[Len(a) + k] = b[k]
  BY <1>3
<1> QED BY <1>4, <1>5 DEF IsSeq

\* c is what encode_fs_entry writes of e when it is at coder.
IsEntry(refs, c, coder, e) ==
  /\ c.cmd = (IF IsLink(e) THEN "HARDLINK" ELSE e.st.type)
  /\ c.paths = EncodePaths(coder.dir, EntryNames(e))
  /\ ~ IsLink(e) => c.times = Times(coder.time, e.st) /\ c.ugm = IndexOf(refs, e.st.ugm)
  /\ e.st.type = "sym" => c.data = e.link_target
  /\ e.st.type \in {"fifo", "sock"} => c.data = << >>

Behind(coder, e) == [dir |-> LastDir(coder.dir, EntryNames(e)),
                     time |-> IF IsLink(e) THEN coder.time ELSE e.st.mtime]

\* The k-th command is that of the i-th entry.
OfEntry(refs, w, i, k, c, p, q) ==
  k = Ord(w, i) /\ IsEntry(refs, c, p, refs[i]) /\ q = Behind(p, refs[i])

\* The k-th command unlinks the j-th entry of the old tree, which comes before
\* the entry behind the i-th.
OfGone(srcs, refs, w, i, j, k, c, p, q) ==
  /\ w[i].pos <= j /\ (i < Len(refs) => j < Stop(srcs, w[i].pos, refs[i + 1].name))
  /\ k = Ord(w, i) + 1 + j - w[i].pos
  /\ c.cmd = "UNLINK" /\ c.paths = <<EncodePath(p.dir, srcs[j].name)>>
  /\ q = [dir |-> DirsOf(srcs[j].name), time |-> p.time]

\* The k-th command leads from p to q.
Turn(srcs, refs, w, k, c, p, q) ==
  \/ \E i \in 1..Len(refs) : OfEntry(refs, w, i, k, c, p, q)
  \/ \E i \in 0..Len(refs), j \in 1..Len(srcs) : OfGone(srcs, refs, w, i, j, k, c, p, q)

\* P is where the encoder is after each command.
Traced(srcs, refs, w, cmds, P, p0) ==
  /\ P \in [0..Len(cmds) -> Coders] /\ P[0] = p0
  /\ \A k \in 1..Len(cmds) : Turn(srcs, refs, w, k, cmds[k], P[k - 1], P[k])

\* The chain leads from p0 to p.
ChainTo(srcs, refs, w, cmds, p0, p) ==
  IsSeq(cmds) /\ \E P : Traced(srcs, refs, w, cmds, P, p0) /\ P[Len(cmds)] = p

\* The commands behind the k-th lead from p to q.
LeadsTo(srcs, refs, w, k, p, more, q) ==
  /\ IsSeq(more)
  /\ \E Q \in [0..Len(more) -> Coders] :
       /\ Q[0] = p /\ Q[Len(more)] = q
       /\ \A x \in 1..Len(more) : Turn(srcs, refs, w, k + x, more[x], Q[x - 1], Q[x])

\* More commands.
LEMMA Extend ==
  ASSUME NEW srcs, NEW refs, NEW w, NEW cmds, NEW p0, NEW p, ChainTo(srcs, refs, w, cmds, p0, p),
         NEW more, NEW q, LeadsTo(srcs, refs, w, Len(cmds), p, more, q)
  PROVE  /\ ChainTo(srcs, refs, w, cmds \o more, p0, q)
         /\ Len(cmds \o more) = Len(cmds) + Len(more) /\ Len(cmds) \in Nat /\ Len(more) \in Nat
<1>a. PICK P : Traced(srcs, refs, w, cmds, P, p0) /\ P[Len(cmds)] = p
  BY DEF ChainTo
<1>b. PICK Q \in [0..Len(more) -> Coders] :
        /\ Q[0] = p /\ Q[Len(more)] = q
        /\ \A x \in 1..Len(more) : Turn(srcs, refs, w, Len(cmds) + x, more[x], Q[x - 1], Q[x])
  BY DEF LeadsTo
<1>c. IsSeq(cmds) /\ IsSeq(more)
  BY DEF ChainTo, LeadsTo
<1> DEFINE m == Len(cmds)
           n == Len(more)
           all == cmds \o more
           R == [k \in 0..(m + n) |-> IF k <= m THEN P[k] ELSE Q[k - m]]
           T(k, c, x, y) == Turn(srcs, refs, w, k, c, x, y)
<1>1. /\ IsSeq(all) /\ m \in Nat /\ n \in Nat /\ Len(all) = m + n
      /\ \A k \in 1..m : all[k] = cmds[k]
      /\ \A k \in 1..n : all[m + k] = more[k]
  BY <1>c, Joined
<1>2. /\ P \in [0..m -> Coders] /\ P[0] = p0
      /\ \A k \in 1..m : T(k, cmds[k], P[k - 1], P[k])
  BY <1>a DEF Traced
<1>3. /\ Q \in [0..n -> Coders] /\ Q[0] = P[m] /\ Q[n] = q
      /\ \A x \in 1..n : T(m + x, more[x], Q[x - 1], Q[x])
  BY <1>a, <1>b
<1> HIDE DEF m, n, all, T
<1>4. R \in [0..(m + n) -> Coders]
  <2> SUFFICES ASSUME NEW k \in 0..(m + n)
               PROVE  (IF k <= m THEN P[k] ELSE Q[k - m]) \in Coders
    OBVIOUS
  <2>1. CASE k <= m
    <3>1. k \in 0..m
      BY <1>1, <2>1
    <3> QED BY <1>2, <2>1, <3>1
  <2>2. CASE ~ (k <= m)
    <3>1. k - m \in 0..n
      BY <1>1, <2>2
    <3> QED BY <1>3, <2>2, <3>1
  <2> QED BY <2>1, <2>2
<1>5. \A k \in 0..m : R[k] = P[k]
  BY <1>1
<1>6. \A x \in 0..n : R[m + x] = Q[x]
  <2> SUFFICES ASSUME NEW x \in 0..n
               PROVE  R[m + x] = Q[x]
    OBVIOUS
  <2>1. m + x \in 0..(m + n) /\ (m + x) - m = x /\ (m + x <= m <=> x = 0)
    BY <1>1
  <2>2. CASE x = 0
    <3>1. m + x = m /\ m \in 0..m
      BY <1>1, <2>2
    <3>2. R[m] = P[m]
      BY <1>5, <3>1
    <3> HIDE DEF R
    <3> QED BY <1>3, <2>2, <3>1, <3>2
  <2>3. CASE x # 0
    <3> DEFINE y == m + x
    <3>1. y \in 0..(m + n) /\ y - m = x /\ ~ (y <= m)
      BY <2>1, <2>3
    <3> HIDE DEF y
    <3>2. R[y] = Q[y - m]
      BY <3>1
    <3> HIDE DEF R
    <3> QED BY <3>1, <3>2 DEF y
  <2> QED BY <2>2, <2>3
<1> HIDE DEF R
<1>7. ASSUME NEW k \in 1..(m + n)
      PROVE  T(k, all[k], R[k - 1], R[k])
  <2>1. CASE k <= m
    <3>1. k \in 1..m /\ k \in 0..m /\ k - 1 \in 0..m
      BY <1>1, <2>1
    <3> QED BY <1>1, <1>2, <1>5, <3>1
  <2>2. CASE ~ (k <= m)
    <3> DEFINE x == k - m
    <3>1. x \in 1..n /\ x \in 0..n /\ x - 1 \in 0..n /\ m + x = k /\ m + (x - 1) = k - 1
      BY <1>1, <2>2
    <3> HIDE DEF x
    <3>2. all[k] = more[x] /\ R[k] = Q[x] /\ R[k - 1] = Q[x - 1]
      BY <1>1, <1>6, <3>1
    <3>3. T(k, more[x], Q[x - 1], Q[x])
      BY <1>3, <3>1
    <3> QED BY <3>2, <3>3
  <2> QED BY <2>1, <2>2
<1>8. R[0] = p0 /\ R[m + n] = q
  <2>1. 0 \in 0..m /\ n \in 0..n
    BY <1>1
  <2>2. R[0] = p0
    BY <1>2, <1>5, <2>1
  <2>3. R[m + n] = q
    BY <1>3, <1>6, <2>1
  <2> QED BY <2>2, <2>3
<1>9. Traced(srcs, refs, w, all, R, p0)
  BY <1>1, <1>4, <1>7, <1>8 DEF Traced, T
<1>10. ChainTo(srcs, refs, w, all, p0, q)
  BY <1>1, <1>8, <1>9 DEF ChainTo
<1> QED BY <1>1, <1>10 DEF all, m, n

\* A part of a sequence, from a on and up to before b.
LEMMA Slice ==
  ASSUME NEW S, NEW f \in Seq(S), NEW a \in 1..(Len(f) + 1), NEW b \in a..(Len(f) + 1)
  PROVE  /\ SubSeq(f, a, b - 1) \in Seq(S) /\ Len(SubSeq(f, a, b - 1)) = b - a
         /\ \A x \in 1..(b - a) : SubSeq(f, a, b - 1)[x] = f[a + x - 1]
<1>1. CASE a = b
  <2>1. SubSeq(f, a, b - 1) = << >> /\ b - a = 0
    BY <1>1
  <2> QED BY <2>1
<1>2. CASE a # b
  <2>1. a \in 1..Len(f) /\ b - 1 \in 1..Len(f) /\ a <= b - 1
    BY <1>2
  <2> DEFINE c == b - 1
  <2>2. c \in 1..Len(f) /\ a <= c /\ b - a = c - a + 1
    BY <2>1
  <2> HIDE DEF c
  <2>3. /\ SubSeq(f, a, c) \in Seq(S) /\ Len(SubSeq(f, a, c)) = c - a + 1
        /\ \A x \in 1..(c - a + 1) : SubSeq(f, a, c)[x] = f[a + x - 1]
    BY <2>1, <2>2
  <2> DEFINE q == SubSeq(f, a, c)
             n == c - a + 1
  <2>4. q \in Seq(S) /\ Len(q) = n /\ \A x \in 1..n : q[x] = f[a + x - 1]
    BY <2>3
  <2>5. b - a = n
    BY <2>2
  <2> HIDE DEF q, n
  <2>6. q \in Seq(S) /\ Len(q) = b - a /\ \A x \in 1..(b - a) : q[x] = f[a + x - 1]
    BY <2>4, <2>5
  <2> QED BY <2>6 DEF q, c
<1> QED BY <1>1, <1>2

\* The encoder once the names are written.
Onto(p, names) == [p EXCEPT !.dir = LastDir(p.dir, names)]

\* What generate_unlinks writes up to before st leads to the last of it.
LEMMA GoneTurns ==
  ASSUME NEW s \in Trees, NEW srcs, Listed(srcs, s), NEW refs, Len(refs) \in Nat,
         NEW w, IsWalk(srcs, refs, w), NEW i \in 0..Len(refs), NEW st \in w[i].pos..(Len(srcs) + 1),
         i < Len(refs) => st = Stop(srcs, w[i].pos, refs[i + 1].name), NEW p \in Coders,
         NEW names, names = NamesOf(SubSeq(srcs, w[i].pos, st - 1))
  PROVE  /\ LeadsTo(srcs, refs, w, Ord(w, i), p, UnlinkCommands(p.dir, names), Onto(p, names))
         /\ Len(UnlinkCommands(p.dir, names)) = st - w[i].pos
         /\ Onto(p, names) \in Coders
<1> DEFINE pos == w[i].pos
           n == st - pos
           cs == UnlinkCommands(p.dir, names)
           enc == EncodePaths(p.dir, names)
           f(x) == srcs[pos + x - 1].name
<1>1. /\ Len(srcs) \in Nat /\ pos \in 1..(Len(srcs) + 1) /\ st \in pos..(Len(srcs) + 1)
      /\ w[i].n \in Nat /\ i \in Nat
  <2>1. Len(srcs) \in Nat
    BY DEF Listed
  <2>2. w[i] \in [pos : 1..(Len(srcs) + 1), n : Nat]
    BY DEF IsWalk
  <2>3. i \in Nat
    OBVIOUS
  <2> QED BY <2>1, <2>2, <2>3
<1>0. n \in Nat
  <2> HIDE DEF pos
  <2> QED BY <1>1
<1>2. \A x \in 1..n : pos + x - 1 \in 1..Len(srcs)
  <2> HIDE DEF pos
  <2> QED BY <1>1
<1>3. \A x \in 1..n : f(x) \in FNames /\ DirsOf(f(x)) \in Strs
  <2> SUFFICES ASSUME NEW x \in 1..n
               PROVE  f(x) \in FNames /\ DirsOf(f(x)) \in Strs
    OBVIOUS
  <2> DEFINE g == srcs[pos + x - 1].name
  <2>1. g \in FNames
    BY <1>2, ListedAt, NamesOfTree
  <2> HIDE DEF g
  <2>2. DirsOf(g) \in Strs
    BY <2>1, DirsOfName
  <2> QED BY <2>1, <2>2 DEF g
<1> DEFINE part == SubSeq(srcs, pos, st - 1)
<1>4. part \in Seq(Entries(s)) /\ Len(part) = n /\ \A x \in 1..n : part[x] = srcs[pos + x - 1]
  <2>1. srcs \in Seq(Entries(s))
    BY DEF Listed
  <2> HIDE DEF pos
  <2> QED BY <1>1, <2>1, Slice
<1>5. names = [x \in 1..n |-> f(x)]
  <2>1. DOMAIN part = 1..n /\ \A x \in 1..n : part[x].name = f(x)
    <3> HIDE DEF part, pos, n
    <3> QED BY <1>4
  <2>2. names = [x \in DOMAIN part |-> part[x].name]
    BY DEF NamesOf
  <2> HIDE DEF part, f, n
  <2> QED BY <2>1, <2>2
<1> HIDE DEF part
<1>6. names \in Seq(FNames) /\ Len(names) = n /\ \A x \in 1..n : names[x] = f(x)
  <2> HIDE DEF f, n
  <2>1. \A x \in 1..n : f(x) \in FNames
    BY <1>3
  <2> QED BY <1>0, <1>5, <2>1
<1> DEFINE d(x) == IF x = 0 THEN p.dir ELSE DirsOf(f(x))
<1>7. p.dir \in Strs /\ p.time \in Int /\ \A x \in 0..n : d(x) \in Strs
  <2>1. p.dir \in Strs /\ p.time \in Int
    BY DEF Coders
  <2>2. \A x \in 0..n : x = 0 \/ x \in 1..n
    BY <1>0
  <2> HIDE DEF f, n
  <2> QED BY <1>3, <2>1, <2>2
<1>8. DOMAIN names = 1..n
  <2> HIDE DEF n, f
  <2> QED BY <1>5
<1>9. ASSUME NEW x \in 1..n
      PROVE  enc[x] = EncodePath(d(x - 1), f(x))
  <2>1. enc[x] = EncodePath(IF x = 1 THEN p.dir ELSE DirsOf(names[x - 1]), names[x])
    <3> HIDE DEF n
    <3> QED BY <1>8 DEF EncodePaths
  <2>2. CASE x = 1
    <3>1. x - 1 = 0
      BY <2>2
    <3> HIDE DEF f, n, enc
    <3> QED BY <1>6, <2>1, <2>2, <3>1
  <2>3. CASE x # 1
    <3>1. x - 1 \in 1..n /\ x - 1 # 0
      BY <1>0, <2>3
    <3>2. names[x - 1] = f(x - 1) /\ names[x] = f(x)
      BY <1>6, <3>1
    <3> HIDE DEF f, n, enc
    <3> QED BY <2>1, <2>3, <3>1, <3>2
  <2> QED BY <2>2, <2>3
<1> HIDE DEF enc
<1>10. cs = [x \in 1..n |-> Command("UNLINK", <<enc[x]>>)]
  <2> HIDE DEF n
  <2> QED BY <1>8 DEF UnlinkCommands, enc
<1>11. IsSeq(cs) /\ Len(cs) = n
  <2> DEFINE C == {Command("UNLINK", <<enc[x]>>) : x \in 1..n}
             c(x) == Command("UNLINK", <<enc[x]>>)
  <2>1. \A x \in 1..n : c(x) \in C
    OBVIOUS
  <2>2. cs = [x \in 1..n |-> c(x)]
    BY <1>10
  <2> HIDE DEF cs, c, C, n
  <2>3. cs \in Seq(C) /\ Len(cs) = n
    BY <1>0, <2>1, <2>2
  <2> QED BY <2>3 DEF IsSeq
<1> DEFINE Q == [x \in 0..n |-> [dir |-> d(x), time |-> p.time]]
<1>12. Q \in [0..n -> Coders]
  <2> HIDE DEF n, d
  <2> QED BY <1>7 DEF Coders
<1>13. Q[0] = p
  <2>1. 0 \in 0..n /\ d(0) = p.dir
    BY <1>0
  <2>2. Q[0] = [dir |-> p.dir, time |-> p.time]
    <3> HIDE DEF n, d
    <3> QED BY <2>1
  <2>3. p = [dir |-> p.dir, time |-> p.time]
    BY DEF Coders
  <2> HIDE DEF Q
  <2> QED BY <2>2, <2>3
<1>14. Q[n] = Onto(p, names)
  <2>1. LastDir(p.dir, names) = d(n)
    <3>1. CASE n = 0
      <4>1. names = << >>
        BY <1>6, <3>1
      <4> QED BY <3>1, <4>1 DEF LastDir
    <3>2. CASE n # 0
      <4>1. n \in 1..n /\ names # << >>
        <5> HIDE DEF f
        <5> QED BY <1>0, <1>6, <3>2
      <4>2. Last(names) = f(n)
        <5> HIDE DEF f, n
        <5> QED BY <1>6, <4>1 DEF Last
      <4> HIDE DEF f, n
      <4> QED BY <3>2, <4>1, <4>2 DEF LastDir
    <3> QED BY <3>1, <3>2
  <2>2. n \in 0..n
    BY <1>0
  <2>3. Q[n] = [dir |-> d(n), time |-> p.time]
    <3> HIDE DEF n, d
    <3> QED BY <2>2
  <2> DEFINE e == LastDir(p.dir, names)
  <2>4. [p EXCEPT !.dir = e] = [dir |-> e, time |-> p.time]
    <3> HIDE DEF e
    <3> QED BY DEF Coders
  <2> HIDE DEF Q, n, d
  <2> QED BY <2>1, <2>3, <2>4 DEF Onto
<1>15. ASSUME NEW x \in 1..n
       PROVE  Turn(srcs, refs, w, Ord(w, i) + x, cs[x], Q[x - 1], Q[x])
  <2> DEFINE j == pos + x - 1
             k == Ord(w, i) + x
  <2>1. j \in 1..Len(srcs) /\ pos <= j /\ k = Ord(w, i) + 1 + j - pos
    <3>1. j \in 1..Len(srcs)
      BY <1>2
    <3> DEFINE o == w[i].n
    <3>2. pos \in Int /\ x \in Nat /\ 1 <= x /\ i \in Int /\ o \in Int
      <4> HIDE DEF pos, n
      <4> QED BY <1>0, <1>1
    <3> HIDE DEF pos, o
    <3>3. pos <= pos + x - 1 /\ i + o + x = i + o + 1 + (pos + x - 1) - pos
      BY <3>2
    <3> QED BY <3>1, <3>3 DEF Ord, o
  <2>2. i < Len(refs) => j < Stop(srcs, pos, refs[i + 1].name)
    <3>1. j < st
      <4> HIDE DEF pos
      <4>1. pos \in Int /\ st \in Int
        BY <1>1
      <4>2. x \in Int /\ x <= st - pos
        <5>1. n \in Nat /\ x \in 1..n
          BY <1>0
        <5> HIDE DEF n
        <5>2. x \in Int /\ x <= n
          BY <5>1
        <5> QED BY <5>2 DEF n
      <4> QED BY <4>1, <4>2
    <3> QED BY <3>1
  <2>3. x \in 0..n /\ x - 1 \in 0..n /\ x # 0
    <3> HIDE DEF n
    <3> QED BY <1>0
  <2>4. Q[x - 1].dir = d(x - 1) /\ Q[x - 1].time = p.time /\ Q[x] = [dir |-> d(x), time |-> p.time]
    <3> HIDE DEF n, d
    <3> QED BY <2>3
  <2>5. d(x) = DirsOf(srcs[j].name) /\ f(x) = srcs[j].name
    BY <2>3
  <2>6. cs[x] = Command("UNLINK", <<EncodePath(d(x - 1), srcs[j].name)>>)
    <3>1. cs[x] = Command("UNLINK", <<enc[x]>>)
      <4> HIDE DEF cs, n
      <4> QED BY <1>10
    <3> HIDE DEF cs, d, f, n
    <3> QED BY <1>9, <2>5, <3>1
  <2> HIDE DEF cs, Q, d, f
  <2>7. cs[x].cmd = "UNLINK" /\ cs[x].paths = <<EncodePath(Q[x - 1].dir, srcs[j].name)>>
    <3> HIDE DEF j
    <3> QED BY <2>4, <2>6 DEF Command
  <2>8. Q[x] = [dir |-> DirsOf(srcs[j].name), time |-> Q[x - 1].time]
    <3> HIDE DEF j
    <3> QED BY <2>4, <2>5
  <2> HIDE DEF j, k
  <2>9. OfGone(srcs, refs, w, i, j, k, cs[x], Q[x - 1], Q[x])
    BY <2>1, <2>2, <2>7, <2>8 DEF OfGone
  <2>10. Turn(srcs, refs, w, k, cs[x], Q[x - 1], Q[x])
    BY <2>1, <2>9 DEF Turn
  <2> QED BY <2>10 DEF k
<1> HIDE DEF cs, Q
<1> DEFINE q == Onto(p, names)
<1>16. Q[n] = q /\ q \in Coders
  <2>1. n \in 0..n
    BY <1>0
  <2> HIDE DEF q, n
  <2> QED BY <1>12, <1>14, <2>1 DEF q
<1> HIDE DEF q, n
<1>17. LeadsTo(srcs, refs, w, Ord(w, i), p, cs, q)
  BY <1>11, <1>12, <1>13, <1>15, <1>16 DEF LeadsTo
<1> QED BY <1>11, <1>16, <1>17 DEF cs, q, n

\* What encode_fs_entry writes is the command of the entry, and leads behind it.
LEMMA EntryTurn ==
  ASSUME NEW t \in Trees, NEW e \in Entries(t), NEW coder \in Coders
  PROVE  /\ IsEntry(ref_files, EntryCommand(coder, e).cmd, coder, e)
         /\ EntryCommand(coder, e).pe = Behind(coder, e) /\ Behind(coder, e) \in Coders
<1> DEFINE type == IF IsLink(e) THEN "HARDLINK" ELSE e.st.type
           paths == EncodePaths(coder.dir, EntryNames(e))
           base == Command(type, paths)
           u == IndexOf(ref_files, e.st.ugm)
           ts == Times(coder.time, e.st)
           d == CASE e.st.type = "sym" -> e.link_target
                  [] e.st.type = "dev" -> <<"st_dev">>
                  [] OTHER -> <<>>
           c == IF IsLink(e) THEN base
                ELSE [base EXCEPT !.ugm = u, !.times = ts, !.data = d]
<1>1. EntryCommand(coder, e).cmd = c /\ EntryCommand(coder, e).pe = Behind(coder, e)
  <2>1. EntryCommand(coder, e) = [cmd |-> c, pe |-> Behind(coder, e)]
    BY DEF EntryCommand, Behind
  <2> HIDE DEF c
  <2> QED BY <2>1
<1>2. IsEntry(ref_files, c, coder, e)
  <2>1. /\ e.st.type \in {"sym", "fifo", "sock"} => ~ IsLink(e)
        /\ e.st.type = "sym" => d = e.link_target
        /\ e.st.type \in {"fifo", "sock"} => d = << >>
    BY DEF IsLink
  <2> HIDE DEF d, ts, u, type, paths
  <2>2. CASE IsLink(e)
    <3>1. c = base /\ type = "HARDLINK"
      BY <2>2 DEF type
    <3>2. c.cmd = type /\ c.paths = paths
      BY <3>1 DEF Command
    <3> QED BY <2>1, <2>2, <3>1, <3>2 DEF IsEntry, paths
  <2>3. CASE ~ IsLink(e)
    <3>1. c = [cmd |-> type, paths |-> paths, ugm |-> u, times |-> ts, data |-> d]
      BY <2>3 DEF Command
    <3>2. c.cmd = type /\ c.paths = paths /\ c.times = ts /\ c.data = d /\ c.ugm = u
      <4> HIDE DEF c
      <4> QED BY <3>1
    <3>3. type = e.st.type
      BY <2>3 DEF type
    <3> HIDE DEF c
    <3> QED BY <2>1, <2>3, <3>2, <3>3 DEF IsEntry, paths, ts, u
  <2> QED BY <2>2, <2>3
<1>3. Behind(coder, e) \in Coders
  <2> DEFINE names == EntryNames(e)
  <2>1. names \in Seq(FNames) /\ e.st.mtime \in Int
    BY EntryNamesType, EntryFacts
  <2>2. coder.dir \in Strs /\ coder.time \in Int
    BY DEF Coders
  <2> HIDE DEF names
  <2>3. LastDir(coder.dir, names) \in Strs
    BY <2>1, <2>2, LastDirType
  <2> QED BY <2>1, <2>2, <2>3 DEF Behind, Coders, names
<1> QED BY <1>1, <1>2, <1>3

\* The count of the dry walk is that of the commands behind the last entry.
LEMMA CountOfWalk ==
  ASSUME NEW srcs, NEW refs, Len(srcs) \in Nat, Len(refs) \in Nat,
         NEW w, w = DryWalk(srcs, refs), NEW i \in 0..Len(refs)
  PROVE  /\ IsWalk(srcs, refs, w) /\ Ord(w, i) \in Nat
         /\ Len(refs) + DryRun(srcs, refs) \in Nat
         /\ Ord(w, i) <= Len(refs) + DryRun(srcs, refs)
         /\ Len(refs) + DryRun(srcs, refs) = Ord(w, Len(refs)) + (Len(srcs) + 1 - w[Len(refs)].pos)
<1> DEFINE N == Len(refs)
           q == w[N].pos
           c == w[N].n
           m == w[i].n
           z == N + DryRun(srcs, refs)
<1>1. IsWalk(srcs, refs, w)
  BY Walks
<1>2. q \in 1..(Len(srcs) + 1) /\ c \in Nat /\ m \in Nat
  BY <1>1 DEF IsWalk
<1>3. DryRun(srcs, refs) = c + Len(srcs) + 1 - q
  BY DEF DryRun
<1>4. i = N \/ i + m < N + c
  <2>1. CASE i # N
    <3>1. i < N /\ N \in 0..N
      BY <2>1
    <3>2. Ord(w, i) < Ord(w, N)
      BY <1>1, <3>1, Ascending
    <3> QED BY <3>2 DEF Ord
  <2> QED BY <2>1
<1>5. i = N => m = c
  OBVIOUS
<1> HIDE DEF q, c, m
<1>6. z \in Nat /\ i + m <= z /\ z = N + c + (Len(srcs) + 1 - q) /\ i + m \in Nat
  BY <1>2, <1>3, <1>4, <1>5
<1> QED BY <1>1, <1>6 DEF Ord, q, c, m, z

-----------------------------------------------------------------------------
(* What stands in a directory that commands are executed in *)

\* fs has the paths D, and what stands there stands in directories.
Stands(fs, D) ==
  /\ DOMAIN fs = D
  /\ \A p \in D : Present(fs, p) => /\ Front(p) # <<>> => Is(fs, Front(p), "dir")
                                    /\ fs[p].type = "sym" => fs[p].data \in Strs

\* What is in front of an appended element.
LEMMA FrontAppend ==
  ASSUME NEW d, IsSeq(d), NEW x
  PROVE  Front(Append(d, x)) = d
<1>1. PICK S : d \in Seq(S)
  BY DEF IsSeq
<1> DEFINE T == S \cup {x}
           a == Append(d, x)
           n == Len(d)
<1>2. d \in Seq(T) /\ x \in T
  BY <1>1
<1> HIDE DEF T
<1>3. a \in Seq(T) /\ Len(a) = n + 1 /\ n \in Nat /\ \A k \in 1..n : a[k] = d[k]
  BY <1>2
<1> HIDE DEF a
<1>4. Len(a) - 1 = n /\ n \in 0..Len(a)
  BY <1>3
<1>5. SubSeq(a, 1, n) \in Seq(T) /\ Len(SubSeq(a, 1, n)) = n /\ \A k \in 1..n : SubSeq(a, 1, n)[k] = a[k]
  BY <1>3, <1>4, HeadOf DEF IsHead
<1>6. Front(a) = SubSeq(a, 1, n)
  BY <1>4 DEF Front
<1> DEFINE b == SubSeq(a, 1, n)
<1> HIDE DEF b
<1>7. b \in Seq(T) /\ Len(b) = n /\ \A k \in 1..n : b[k] = d[k]
  BY <1>3, <1>5 DEF b
<1>8. b = d
  BY <1>2, <1>7, SameSeq
<1> QED BY <1>6, <1>8 DEF a, b

\* The directory of a path, once a symlink is followed, is a path.
LEMMA DirOfType ==
  ASSUME NEW D \in SUBSET Strs, NEW fs, Stands(fs, D), NEW p \in Strs
  PROVE  DirOf(fs, p) \in Strs /\ Front(At(fs, p)) = DirOf(fs, p)
<1> DEFINE d == Front(p)
<1>1. d \in Strs
  BY FrontOf DEF IsHead, Strs
<1> HIDE DEF d
<1>2. Is(fs, d, "sym") => fs[d].data \in Strs
  BY DEF Stands, Is, Present
<1>3. DirOf(fs, p) = IF d # <<>> /\ Is(fs, d, "sym") THEN fs[d].data ELSE d
  BY DEF DirOf, d
<1>4. DirOf(fs, p) \in Strs
  BY <1>1, <1>2, <1>3
<1>5. IsSeq(DirOf(fs, p))
  BY <1>4 DEF IsSeq, Strs
<1>6. Front(At(fs, p)) = DirOf(fs, p)
  <2> DEFINE g == DirOf(fs, p)
             x == Last(p)
  <2>1. At(fs, p) = Append(g, x)
    BY DEF At
  <2> HIDE DEF g, x
  <2> QED BY <1>5, <2>1, FrontAppend DEF g
<1> QED BY <1>4, <1>6

\* Something put at a path that can be walked to.
LEMMA PlaceStands ==
  ASSUME NEW D \in SUBSET Strs, NEW fs, Stands(fs, D), NEW p \in Strs, Walk(fs, p) = "ok", NEW node,
         Is(fs, At(fs, p), "dir") => node.type = "dir", node.type = "sym" => node.data \in Strs
  PROVE  Stands(Place(fs, p, node).fs, D)
<1> DEFINE a == At(fs, p)
           d == DirOf(fs, p)
           g == [fs EXCEPT ![a] = node]
<1>1. Place(fs, p, node).fs = g
  BY DEF Place, Result
<1>2. Front(a) = d
  BY DirOfType
<1>3. d # <<>> => Is(fs, d, "dir")
  BY DEF Walk
<1> HIDE DEF a, d
<1>4. DOMAIN fs = D /\ DOMAIN g = D /\ \A q \in D : g[q] = IF q = a THEN node ELSE fs[q]
  BY DEF Stands
<1> HIDE DEF g
<1>5. ASSUME NEW q, Is(fs, q, "dir")
      PROVE  Is(g, q, "dir")
  <2>1. q \in D /\ fs[q].type = "dir"
    BY <1>4, <1>5 DEF Is
  <2>2. g[q].type = "dir"
    <3>1. CASE q = a
      BY <1>4, <1>5, <2>1, <3>1 DEF a
    <3>2. CASE q # a
      BY <1>4, <2>1, <3>2
    <3> QED BY <3>1, <3>2
  <2> QED BY <1>4, <2>1, <2>2 DEF Is
<1>6. ASSUME NEW q \in D, Present(g, q)
      PROVE  /\ Front(q) # <<>> => Is(g, Front(q), "dir")
             /\ g[q].type = "sym" => g[q].data \in Strs
  <2>1. CASE q = a
    BY <1>2, <1>3, <1>4, <1>5, <2>1
  <2>2. CASE q # a
    <3>1. g[q] = fs[q] /\ Present(fs, q)
      BY <1>4, <1>6, <2>2 DEF Present
    <3>2. /\ Front(q) # <<>> => Is(fs, Front(q), "dir")
          /\ fs[q].type = "sym" => fs[q].data \in Strs
      BY <3>1 DEF Stands
    <3> QED BY <1>5, <3>1, <3>2
  <2> QED BY <2>1, <2>2
<1>7. Stands(g, D)
  BY <1>4, <1>6 DEF Stands
<1> QED BY <1>1, <1>7

\* A path below the front of a path.
LEMMA BelowFront ==
  ASSUME NEW a \in Strs, NEW q \in Strs, Below(a, Front(q))
  PROVE  Below(a, q)
<1> DEFINE d == Front(q)
           n == IF Len(q) = 0 THEN 0 ELSE Len(q) - 1
<1>1. d \in Strs /\ Len(d) = n /\ \A x \in 1..n : d[x] = q[x]
  BY FrontOf DEF IsHead, Strs
<1>2. Len(q) \in Nat /\ Len(a) \in Nat
  BY DEF Strs
<1>3. n \in Nat /\ n <= Len(q)
  <2> DEFINE k == Len(q)
  <2>1. k \in Nat /\ n = IF k = 0 THEN 0 ELSE k - 1
    BY <1>2
  <2> HIDE DEF k, n
  <2>2. n \in Nat /\ n <= k
    BY <2>1
  <2> QED BY <2>2 DEF k
<1> HIDE DEF n
<1>4. Len(a) <= Len(d) /\ SubSeq(a, 1, Len(a)) = SubSeq(d, 1, Len(a))
  BY DEF Below, IsPrefix
<1> HIDE DEF d
<1> DEFINE m == Len(a)
           b == SubSeq(q, 1, m)
<1>5. m \in 0..Len(d) /\ m \in 0..Len(q)
  BY <1>1, <1>2, <1>3, <1>4
<1>6. \A x \in 1..m : a[x] = d[x]
  <2>1. \A x \in 1..m : SubSeq(d, 1, m)[x] = d[x]
    BY <1>1, <1>5, HeadOf DEF IsHead, Strs
  <2>2. \A x \in 1..m : SubSeq(a, 1, m)[x] = a[x]
    BY <1>2, HeadOf DEF IsHead, Strs
  <2> QED BY <1>4, <2>1, <2>2
<1>7. b \in Strs /\ Len(b) = m /\ \A x \in 1..m : b[x] = q[x]
  BY <1>5, HeadOf DEF IsHead, Strs
<1> HIDE DEF b
<1>8. \A x \in 1..m : x \in 1..n
  BY <1>1, <1>3, <1>5
<1>9. a = b
  BY <1>1, <1>6, <1>7, <1>8, SameSeq DEF Strs
<1>10. SubSeq(a, 1, m) = SubSeq(q, 1, m)
  <2>1. SubSeq(a, 1, m) \in Strs /\ Len(SubSeq(a, 1, m)) = m /\ \A x \in 1..m : SubSeq(a, 1, m)[x] = a[x]
    BY <1>2, HeadOf DEF IsHead, Strs
  <2> DEFINE c == SubSeq(a, 1, m)
  <2> HIDE DEF c
  <2>2. c = a
    BY <2>1, SameSeq DEF Strs, c
  <2> QED BY <1>9, <2>2 DEF b, c
<1> QED BY <1>5, <1>10 DEF Below, IsPrefix

\* A directory removed with what is in it.
LEMMA RemoveStands ==
  ASSUME NEW D \in SUBSET Strs, NEW fs, Stands(fs, D), NEW a \in Strs
  PROVE  Stands([p \in DOMAIN fs |-> IF Below(a, p) THEN Absent ELSE fs[p]], D)
<1> DEFINE g == [p \in DOMAIN fs |-> IF Below(a, p) THEN Absent ELSE fs[p]]
<1>1. DOMAIN fs = D /\ DOMAIN g = D /\ \A q \in D : g[q] = IF Below(a, q) THEN Absent ELSE fs[q]
  BY DEF Stands
<1> HIDE DEF g
<1>2. ASSUME NEW q \in D, Present(g, q)
      PROVE  /\ Front(q) # <<>> => Is(g, Front(q), "dir")
             /\ g[q].type = "sym" => g[q].data \in Strs
  <2>1. ~ Below(a, q)
    BY <1>1, <1>2 DEF Present, Absent
  <2>2. g[q] = fs[q] /\ Present(fs, q)
    BY <1>1, <1>2, <2>1 DEF Present
  <2>3. ~ Below(a, Front(q))
    BY <2>1, BelowFront
  <2>4. /\ Front(q) # <<>> => Is(fs, Front(q), "dir")
        /\ fs[q].type = "sym" => fs[q].data \in Strs
    BY <2>2 DEF Stands
  <2>5. Is(fs, Front(q), "dir") => Is(g, Front(q), "dir")
    BY <1>1, <2>3 DEF Is
  <2> QED BY <2>2, <2>4, <2>5
<1>3. Stands(g, D)
  BY <1>1, <1>2 DEF Stands
<1> QED BY <1>3 DEF g

\* The calls leave what stands in directories.
LEMMA MakeStands ==
  ASSUME NEW D \in SUBSET Strs, NEW fs, Stands(fs, D), NEW p \in Strs, NEW node,
         node.type = "sym" => node.data \in Strs
  PROVE  Stands(Make(fs, p, node).fs, D)
<1>1. CASE Walk(fs, p) # "ok"
  BY <1>1 DEF Make, Result
<1>2. CASE Walk(fs, p) = "ok" /\ Present(fs, At(fs, p))
  BY <1>2 DEF Make, Result
<1>3. CASE Walk(fs, p) = "ok" /\ ~ Present(fs, At(fs, p))
  <2>1. ~ Is(fs, At(fs, p), "dir")
    BY <1>3 DEF Is, Present
  <2>2. Stands(Place(fs, p, node).fs, D)
    BY <1>3, <2>1, PlaceStands
  <2> QED BY <1>3, <2>2 DEF Make
<1> QED BY <1>1, <1>2, <1>3

\* A link to what stands there.
LEMMA LinkStands ==
  ASSUME NEW D \in SUBSET Strs, NEW fs, Stands(fs, D), NEW old \in Strs, NEW new \in Strs
  PROVE  Stands(Link(fs, old, new).fs, D)
<1> DEFINE a == At(fs, old)
<1>1. CASE Walk(fs, old) # "ok" \/ ~ Present(fs, a)
  BY <1>1 DEF Link, Result
<1>2. CASE Walk(fs, old) = "ok" /\ Present(fs, a)
  <2>1. Link(fs, old, new) = Make(fs, new, fs[a])
    BY <1>2 DEF Link
  <2>2. fs[a].type = "sym" => fs[a].data \in Strs
    BY <1>2 DEF Stands, Present
  <2> HIDE DEF a
  <2> QED BY <2>1, <2>2, MakeStands
<1> QED BY <1>1, <1>2

\* A file renamed over what is there.
LEMMA RenameStands ==
  ASSUME NEW D \in SUBSET Strs, NEW fs, Stands(fs, D), NEW p \in Strs, NEW node, node.type = "reg"
  PROVE  Stands(Rename(fs, node, p).fs, D)
<1>1. CASE Walk(fs, p) # "ok" \/ Is(fs, At(fs, p), "dir")
  BY <1>1 DEF Rename, Result
<1>2. CASE Walk(fs, p) = "ok" /\ ~ Is(fs, At(fs, p), "dir")
  <2>1. Stands(Place(fs, p, node).fs, D)
    BY <1>2, PlaceStands
  <2> QED BY <1>2, <2>1 DEF Rename
<1> QED BY <1>1, <1>2

\* A name unlinked.
LEMMA UnlinkStands ==
  ASSUME NEW D \in SUBSET Strs, NEW fs, Stands(fs, D), NEW p \in Strs, NEW slash
  PROVE  Stands(Unlink(fs, p, slash).fs, D)
<1>1. CASE Walk(fs, p) # "ok" \/ ~ Present(fs, At(fs, p)) \/ Is(fs, At(fs, p), "dir") \/ slash
  BY <1>1 DEF Unlink, Result
<1>2. CASE Walk(fs, p) = "ok" /\ Present(fs, At(fs, p)) /\ ~ Is(fs, At(fs, p), "dir") /\ ~ slash
  <2>1. Absent.type # "sym"
    BY DEF Absent
  <2>2. Stands(Place(fs, p, Absent).fs, D)
    BY <1>2, <2>1, PlaceStands
  <2> QED BY <1>2, <2>2 DEF Unlink
<1> QED BY <1>1, <1>2

\* A name unlinked with all that is below it.
LEMMA EnforceUnlinkStands ==
  ASSUME NEW D \in SUBSET Strs, NEW fs, Stands(fs, D), NEW f, f.path \in Strs
  PROVE  Stands(EnforceUnlink(fs, f).fs, D)
<1> DEFINE r == Unlink(fs, f.path, f.slash)
           p == f.path
           g == [q \in DOMAIN fs |-> IF Below(At(fs, p), q) THEN Absent ELSE fs[q]]
<1>1. Stands(r.fs, D)
  BY UnlinkStands
<1>2. r.err = "EISDIR" => At(fs, p) \in Strs
  <2> SUFFICES ASSUME r.err = "EISDIR"
               PROVE  At(fs, p) \in D
    OBVIOUS
  <2>1. Walk(fs, p) # "EISDIR"
    BY DEF Walk
  <2>2. Is(fs, At(fs, p), "dir")
    BY <2>1 DEF Unlink, Result, Place
  <2> QED BY <2>2 DEF Is, Stands
<1>3. r.err = "EISDIR" => Stands(g, D)
  BY <1>2, RemoveStands
<1>4. EnforceUnlink(fs, f) = IF r.err = "ENOENT" THEN Result(fs, "ok")
                             ELSE IF r.err = "EISDIR" THEN Result(g, "ok")
                             ELSE r
  BY DEF EnforceUnlink
<1> HIDE DEF r, g
<1>5. CASE r.err = "ENOENT"
  BY <1>4, <1>5 DEF Result
<1>6. CASE r.err = "EISDIR"
  BY <1>3, <1>4, <1>6 DEF Result
<1>7. CASE r.err # "ENOENT" /\ r.err # "EISDIR"
  BY <1>1, <1>4, <1>7
<1> QED BY <1>5, <1>6, <1>7

\* A node made once what stands in the way is gone.
LEMMA EnforceNodeStands ==
  ASSUME NEW D \in SUBSET Strs, NEW fs, Stands(fs, D), NEW p \in Strs, NEW node,
         node.type = "sym" => node.data \in Strs
  PROVE  Stands(EnforceNode(fs, p, node).fs, D)
<1> DEFINE r == Make(fs, p, node)
           e == EnforceUnlink(fs, Plain(p))
           z == Make(e.fs, p, node)
<1>1. Stands(r.fs, D)
  BY MakeStands
<1>2. Stands(e.fs, D)
  <2>1. Plain(p).path \in Strs
    BY DEF Plain
  <2> QED BY <2>1, EnforceUnlinkStands
<1>3. Stands(z.fs, D)
  <2> HIDE DEF e
  <2> QED BY <1>2, MakeStands
<1>4. EnforceNode(fs, p, node) \in {r, e, z}
  <2>1. EnforceNode(fs, p, node) = IF r.err # "EEXIST" THEN r
                                   ELSE IF e.err # "ok" THEN e
                                   ELSE z
    BY DEF EnforceNode
  <2> HIDE DEF r, e, z
  <2> QED BY <2>1
<1> HIDE DEF r, e, z
<1> QED BY <1>1, <1>2, <1>3, <1>4

\* A directory, made or there.
LEMMA EnforceDirectoryStands ==
  ASSUME NEW D \in SUBSET Strs, NEW fs, Stands(fs, D), NEW p \in Strs, NEW node, node.type = "dir"
  PROVE  Stands(EnforceDirectory(fs, p, node).fs, D)
<1> DEFINE r == Make(fs, p, node)
           e == Unlink(fs, p, FALSE)
           z == Make(e.fs, p, node)
           y == Place(fs, p, node)
<1>1. Stands(r.fs, D) /\ Stands(e.fs, D)
  BY MakeStands, UnlinkStands
<1>2. Stands(z.fs, D)
  <2> HIDE DEF e
  <2> QED BY <1>1, MakeStands
<1>3. r.err = "EEXIST" => Stands(y.fs, D)
  <2> SUFFICES ASSUME r.err = "EEXIST"
               PROVE  Stands(y.fs, D)
    OBVIOUS
  <2>1. Walk(fs, p) # "EEXIST"
    BY DEF Walk
  <2>2. Walk(fs, p) = "ok"
    BY <2>1 DEF Make, Result
  <2> QED BY <2>2, PlaceStands
<1>4. \/ EnforceDirectory(fs, p, node) \in {r, e, z}
      \/ r.err = "EEXIST" /\ EnforceDirectory(fs, p, node) = y
  <2> DEFINE is == Is(fs, At(fs, p), "dir")
  <2>1. EnforceDirectory(fs, p, node) = IF r.err = "EEXIST" /\ is THEN y
                                        ELSE IF r.err \notin {"EEXIST", "ENOTDIR"} THEN r
                                        ELSE IF e.err # "ok" THEN e
                                        ELSE z
    BY DEF EnforceDirectory
  <2> HIDE DEF r, e, z, y, is
  <2> QED BY <2>1
<1> HIDE DEF r, e, z, y
<1> QED BY <1>1, <1>2, <1>3, <1>4

\* A hard link.
LEMMA EnforceHardlinkStands ==
  ASSUME NEW D \in SUBSET Strs, NEW fs, Stands(fs, D), NEW p \in Strs, NEW old \in Strs
  PROVE  Stands(EnforceHardlink(fs, p, old).fs, D)
<1> DEFINE r == Link(fs, old, p)
           e == EnforceUnlink(fs, Plain(p))
           z == Link(e.fs, p, old)
<1>1. Stands(r.fs, D)
  BY LinkStands
<1>2. Stands(e.fs, D)
  <2>1. Plain(p).path \in Strs
    BY DEF Plain
  <2> QED BY <2>1, EnforceUnlinkStands
<1>3. Stands(z.fs, D)
  <2> HIDE DEF e
  <2> QED BY <1>2, LinkStands
<1>4. EnforceHardlink(fs, p, old) \in {r, e, z}
  <2>1. EnforceHardlink(fs, p, old) = IF r.err # "EEXIST" THEN r
                                      ELSE IF e.err # "ok" THEN e
                                      ELSE z
    BY DEF EnforceHardlink
  <2> HIDE DEF r, e, z
  <2> QED BY <2>1
<1> HIDE DEF r, e, z
<1> QED BY <1>1, <1>2, <1>3, <1>4

-----------------------------------------------------------------------------
(* A turn of the writer, and of the reader *)

\* One command more.
LEMMA AppendIs ==
  ASSUME NEW a, IsSeq(a), NEW c
  PROVE  IsSeq(<<c>>) /\ Len(<<c>>) = 1 /\ <<c>>[1] = c /\ Append(a, c) = a \o <<c>>
<1>1. PICK S : a \in Seq(S)
  BY DEF IsSeq
<1> DEFINE T == S \cup {c}
<1>2. a \in Seq(T) /\ c \in T
  BY <1>1
<1> HIDE DEF T
<1>3. <<c>> \in Seq(T) /\ Append(a, c) = a \o <<c>> /\ Len(<<c>>) = 1
  BY <1>2
<1> QED BY <1>3 DEF IsSeq

\* The unlinks before an entry, and its command, go on with the chain.
LEMMA NextChain ==
  ASSUME NEW s \in Trees, NEW t \in Trees, NEW srcs, NEW refs, Listed(srcs, s), Listed(refs, t),
         NEW w, w = DryWalk(srcs, refs), NEW cmds, NEW p0, NEW p \in Coders,
         ChainTo(srcs, refs, w, cmds, p0, p),
         NEW i \in 1..Len(refs), Len(cmds) = Ord(w, i - 1), NEW names,
         names = NamesOf(SubSeq(srcs, w[i - 1].pos, Stop(srcs, w[i - 1].pos, refs[i].name) - 1)),
         NEW c, IsEntry(refs, c, Onto(p, names), refs[i])
  PROVE  LET all == Append(cmds \o UnlinkCommands(p.dir, names), c)
             q   == Behind(Onto(p, names), refs[i])
         IN  /\ ChainTo(srcs, refs, w, all, p0, q) /\ Len(all) = Ord(w, i)
             /\ Onto(p, names) \in Coders /\ q \in Coders
<1> DEFINE h == i - 1
           pos == w[h].pos
           st == Stop(srcs, pos, refs[i].name)
           more == UnlinkCommands(p.dir, names)
           mid == Onto(p, names)
           cmds1 == cmds \o more
           e == refs[i]
           one == <<c>>
           q == Behind(mid, e)
           all == Append(cmds1, c)
<1>1. Len(srcs) \in Nat /\ Len(refs) \in Nat
  BY DEF Listed
<1>2. IsWalk(srcs, refs, w)
  BY <1>1, Walks
<1>3. /\ h \in 0..Len(refs) /\ st \in pos..(Len(srcs) + 1) /\ pos \in 1..(Len(srcs) + 1)
      /\ w[i].n = w[h].n + st - pos /\ w[h].n \in Nat /\ i \in Nat /\ h + 1 = i /\ h < Len(refs)
  <2>1. h + 1 = i /\ h < Len(refs) /\ i \in Nat
    BY <1>1
  <2> QED BY <1>1, <1>2, <2>1, WalkTurn
<1>4. h < Len(refs) => st = Stop(srcs, w[h].pos, refs[h + 1].name)
  BY <1>3
<1>5. names = NamesOf(SubSeq(srcs, w[h].pos, st - 1)) /\ Len(cmds) = Ord(w, h)
  OBVIOUS
<1>6. e \in Entries(t)
  BY ListedAt
<1>7. IsEntry(refs, c, mid, e)
  OBVIOUS
<1> HIDE DEF h, st
<1>8. LeadsTo(srcs, refs, w, Ord(w, h), p, more, mid) /\ Len(more) = st - pos /\ mid \in Coders
  <2>1. Len(refs) \in Nat /\ h \in 0..Len(refs) /\ st \in w[h].pos..(Len(srcs) + 1)
    BY <1>1, <1>3
  <2>2. names = NamesOf(SubSeq(srcs, w[h].pos, st - 1))
    BY <1>5
  <2>3. /\ LeadsTo(srcs, refs, w, Ord(w, h), p, UnlinkCommands(p.dir, names), Onto(p, names))
        /\ Len(UnlinkCommands(p.dir, names)) = st - w[h].pos
        /\ Onto(p, names) \in Coders
    BY <1>2, <1>4, <2>1, <2>2, GoneTurns
  <2> QED BY <2>3
<1> HIDE DEF more, mid, e, pos
<1>9. LeadsTo(srcs, refs, w, Len(cmds), p, more, mid)
  BY <1>5, <1>8
<1>10. /\ ChainTo(srcs, refs, w, cmds1, p0, mid) /\ Len(cmds1) = Len(cmds) + Len(more)
       /\ Len(cmds) \in Nat /\ Len(more) \in Nat
  BY <1>9, Extend
<1>11. Len(cmds1) + 1 = Ord(w, i)
  <2> DEFINE l == Len(cmds)
             k == Len(more)
             o == w[h].n
             r == w[i].n
             a == Len(cmds1)
  <2>1. Len(srcs) \in Nat /\ pos \in Nat /\ st \in Nat /\ o \in Nat /\ h \in Nat /\ i \in Nat
    BY <1>1, <1>3
  <2>2. l = h + o /\ k = st - pos /\ r = o + st - pos /\ i = h + 1 /\ a = l + k
    BY <1>3, <1>5, <1>8, <1>10 DEF Ord
  <2> HIDE DEF l, k, o, r, a
  <2>3. a + 1 = i + r
    <3>1. l \in Int /\ k \in Int /\ r \in Int
      BY <2>1, <2>2
    <3>2. a = (h + o) + (st - pos)
      BY <2>2
    <3> QED BY <2>1, <2>2, <3>1, <3>2
  <2> QED BY <2>3 DEF a, r, Ord
<1> HIDE DEF cmds1
<1>12. IsSeq(one) /\ Len(one) = 1 /\ one[1] = c /\ all = cmds1 \o one
  <2>1. IsSeq(cmds1)
    BY <1>10 DEF ChainTo
  <2> QED BY <2>1, AppendIs
<1>13. q \in Coders
  BY <1>6, <1>8, EntryTurn
<1> HIDE DEF one, q, all
<1>14. Turn(srcs, refs, w, Len(cmds1) + 1, c, mid, q)
  <2>1. OfEntry(refs, w, i, Len(cmds1) + 1, c, mid, q)
    BY <1>7, <1>11 DEF OfEntry, q, e
  <2> QED BY <2>1 DEF Turn
<1>15. LeadsTo(srcs, refs, w, Len(cmds1), mid, one, q)
  <2> DEFINE Q == [x \in 0..1 |-> IF x = 0 THEN mid ELSE q]
  <2>1. Q \in [0..1 -> Coders] /\ Q[0] = mid /\ Q[1] = q
    BY <1>8, <1>13
  <2> HIDE DEF Q
  <2>2. ASSUME NEW x \in 1..1
        PROVE  Turn(srcs, refs, w, Len(cmds1) + x, one[x], Q[x - 1], Q[x])
    <3>1. x = 1 /\ x - 1 = 0
      OBVIOUS
    <3> QED BY <1>12, <1>14, <2>1, <3>1
  <2> QED BY <1>12, <2>1, <2>2 DEF LeadsTo
<1>16. ChainTo(srcs, refs, w, cmds1 \o one, p0, q) /\ Len(cmds1 \o one) = Len(cmds1) + Len(one)
  BY <1>10, <1>15, Extend
<1>17. ChainTo(srcs, refs, w, all, p0, q) /\ Len(all) = Ord(w, i)
  BY <1>11, <1>12, <1>16
<1> QED BY <1>8, <1>13, <1>17 DEF all, cmds1, more, mid, q, e

\* The unlinks of the rest end the chain.
LEMMA TailChain ==
  ASSUME NEW s \in Trees, NEW t \in Trees, NEW srcs, NEW refs, Listed(srcs, s), Listed(refs, t),
         NEW w, w = DryWalk(srcs, refs), NEW cmds, NEW p0, NEW p \in Coders,
         ChainTo(srcs, refs, w, cmds, p0, p), Len(cmds) = Ord(w, Len(refs)), NEW names,
         names = NamesOf(SubSeq(srcs, w[Len(refs)].pos, Len(srcs)))
  PROVE  LET all == cmds \o UnlinkCommands(p.dir, names)
         IN  /\ ChainTo(srcs, refs, w, all, p0, Onto(p, names))
             /\ Len(all) = Len(refs) + DryRun(srcs, refs)
<1> DEFINE N == Len(refs)
           pos == w[N].pos
           st == Len(srcs) + 1
           more == UnlinkCommands(p.dir, names)
           all == cmds \o more
           q == Onto(p, names)
<1>1. Len(srcs) \in Nat /\ N \in Nat /\ N \in 0..N /\ ~ (N < N)
  BY DEF Listed
<1>2. IsWalk(srcs, refs, w) /\ N + DryRun(srcs, refs) = Ord(w, N) + (Len(srcs) + 1 - pos) /\ Ord(w, N) \in Nat
  BY <1>1, CountOfWalk
<1>3. pos \in 1..(Len(srcs) + 1)
  BY <1>1, <1>2 DEF IsWalk
<1>4. st \in pos..(Len(srcs) + 1) /\ st - 1 = Len(srcs)
  <2> HIDE DEF pos
  <2> QED BY <1>1, <1>3
<1>5. names = NamesOf(SubSeq(srcs, w[N].pos, st - 1))
  BY <1>4
<1>6. N < N => st = Stop(srcs, w[N].pos, refs[N + 1].name)
  BY <1>1
<1>7. st = Len(srcs) + 1
  OBVIOUS
<1> HIDE DEF st
<1>8. LeadsTo(srcs, refs, w, Ord(w, N), p, more, q) /\ Len(more) = st - pos
  <2>1. Len(refs) \in Nat /\ N \in 0..Len(refs) /\ st \in w[N].pos..(Len(srcs) + 1)
    BY <1>1, <1>4
  <2>2. /\ LeadsTo(srcs, refs, w, Ord(w, N), p, UnlinkCommands(p.dir, names), Onto(p, names))
        /\ Len(UnlinkCommands(p.dir, names)) = st - w[N].pos
    BY <1>2, <1>5, <1>6, <2>1, GoneTurns
  <2> QED BY <2>2
<1> HIDE DEF more, q
<1>9. LeadsTo(srcs, refs, w, Len(cmds), p, more, q)
  BY <1>8
<1>10. ChainTo(srcs, refs, w, all, p0, q) /\ Len(all) = Len(cmds) + Len(more)
  BY <1>9, Extend
<1>11. Len(all) = N + DryRun(srcs, refs)
  <2> DEFINE l == Len(cmds)
             k == Len(more)
             z == N + DryRun(srcs, refs)
  <2>1. z = Ord(w, N) + (Len(srcs) + 1 - pos) /\ l = Ord(w, N) /\ st = Len(srcs) + 1
        /\ k = st - pos /\ Len(all) = l + k
    BY <1>2, <1>7, <1>8, <1>10
  <2> HIDE DEF l, k, z, all, pos
  <2>2. Len(all) = z
    BY <1>1, <1>2, <1>3, <2>1
  <2> QED BY <2>2 DEF z
<1> QED BY <1>10, <1>11 DEF q, more

\* Behind k commands the reader has come to the m-th entry.
Among(refs, w, m, k) ==
  m \in 0..Len(refs) /\ Ord(w, m) <= k /\ (m < Len(refs) => k < Ord(w, m + 1))

\* It is in one place only.
LEMMA AmongOne ==
  ASSUME NEW srcs, NEW refs, Len(srcs) \in Nat, Len(refs) \in Nat, NEW w, IsWalk(srcs, refs, w),
         NEW k \in Nat, NEW m, Among(refs, w, m, k), NEW i, Among(refs, w, i, k)
  PROVE  i = m
<1>1. ASSUME NEW a, Among(refs, w, a, k), NEW b, Among(refs, w, b, k), a < b
      PROVE  FALSE
  <2>1. a \in 0..Len(refs) /\ b \in 0..Len(refs) /\ a + 1 \in 0..Len(refs) /\ a < Len(refs)
    BY <1>1 DEF Among
  <2>2. \A x \in 0..Len(refs) : Ord(w, x) \in Nat
    BY OrdNat
  <2>3. a + 1 = b \/ a + 1 < b
    BY <1>1, <2>1
  <2>4. a + 1 < b => Ord(w, a + 1) < Ord(w, b)
    BY <2>1, Ascending
  <2> DEFINE oa == Ord(w, a + 1)
             ob == Ord(w, b)
  <2>5. oa \in Nat /\ ob \in Nat /\ k < oa /\ ob <= k
    BY <1>1, <2>1, <2>2 DEF Among
  <2>6. a + 1 = b => oa = ob
    OBVIOUS
  <2>7. oa <= ob
    <3> HIDE DEF oa, ob
    <3>1. a + 1 < b => oa < ob
      BY <2>4 DEF oa, ob
    <3> QED BY <2>3, <2>5, <2>6, <3>1
  <2> HIDE DEF oa, ob
  <2> QED BY <2>5, <2>7
<1>2. m \in Nat /\ i \in Nat
  BY DEF Among
<1>3. ~ (m < i) /\ ~ (i < m)
  BY <1>1
<1> QED BY <1>2, <1>3

\* The command read next is that of the next entry, or unlinks what only the
\* old tree has; the names are read as they were written.
Reads(s, t, refs, w, m, k, c, p, q) ==
  \/ /\ m < Len(refs) /\ OfEntry(refs, w, m + 1, k + 1, c, p, q)
     /\ DecodePaths(p.dir, c.paths) = EntryNames(refs[m + 1])
     /\ Among(refs, w, m + 1, k + 1)
  \/ /\ c.cmd = "UNLINK" /\ Among(refs, w, m, k + 1)
     /\ \E f \in Names(s) \ Names(t) : /\ DecodePaths(p.dir, c.paths) = <<f>>
                                       /\ q = [dir |-> DirsOf(f), time |-> p.time]

\* The chain is read as it was written.
LEMMA ReadTurn ==
  ASSUME NEW s \in Trees, NEW t \in Trees, NEW srcs, NEW refs, Listed(srcs, s), Listed(refs, t),
         NEW w, w = DryWalk(srcs, refs), NEW cmds, NEW P, NEW p0,
         Traced(srcs, refs, w, cmds, P, p0), NEW k \in Nat, k < Len(cmds), Len(cmds) \in Nat,
         NEW m, Among(refs, w, m, k)
  PROVE  /\ P[k] \in Coders /\ P[k + 1] \in Coders
         /\ Reads(s, t, refs, w, m, k, cmds[k + 1], P[k], P[k + 1])
<1> DEFINE c == cmds[k + 1]
           p == P[k]
           q == P[k + 1]
           N == Len(refs)
<1>1. Len(srcs) \in Nat /\ N \in Nat
  BY DEF Listed
<1>2. IsWalk(srcs, refs, w)
  BY <1>1, Walks
<1>3. p \in Coders /\ q \in Coders /\ Turn(srcs, refs, w, k + 1, c, p, q)
  <2>1. k \in 0..Len(cmds) /\ k + 1 \in 1..Len(cmds) /\ k + 1 \in 0..Len(cmds) /\ (k + 1) - 1 = k
    OBVIOUS
  <2> QED BY <2>1 DEF Traced
<1>4. p.dir \in Strs
  BY <1>3 DEF Coders
<1> HIDE DEF c, p, q, N
<1>5. \A x \in 0..N : Ord(w, x) \in Nat
  BY <1>1, <1>2 DEF IsWalk, Ord, N
<1>6. ASSUME NEW i \in 1..N, OfEntry(refs, w, i, k + 1, c, p, q)
      PROVE  Reads(s, t, refs, w, m, k, c, p, q)
  <2> DEFINE h == i - 1
  <2>1. h \in 0..N /\ i \in 0..N /\ h + 1 = i /\ h < N /\ h < i
    BY <1>1
  <2>2. Ord(w, i) = k + 1
    BY <1>6 DEF OfEntry
  <2>3. Ord(w, h) < Ord(w, i)
    BY <1>1, <1>2, <2>1, Ascending DEF N
  <2> HIDE DEF h
  <2>4. Among(refs, w, h, k)
    BY <1>5, <2>1, <2>2, <2>3 DEF Among, N
  <2>5. h = m
    BY <1>1, <1>2, <2>4, AmongOne DEF N
  <2>6. Among(refs, w, i, k + 1)
    <3>1. i < N => Ord(w, i) < Ord(w, i + 1)
      <4> SUFFICES ASSUME i < N
                   PROVE  Ord(w, i) < Ord(w, i + 1)
        OBVIOUS
      <4>1. i + 1 \in 0..N /\ i < i + 1
        BY <1>1
      <4> QED BY <1>1, <1>2, <2>1, <4>1, Ascending DEF N
    <3> QED BY <2>1, <2>2, <3>1 DEF Among, N
  <2>7. DecodePaths(p.dir, c.paths) = EntryNames(refs[i])
    <3> DEFINE e == refs[i]
    <3>1. e \in Entries(t)
      BY ListedAt DEF N
    <3>2. c.paths = EncodePaths(p.dir, EntryNames(e))
      BY <1>6 DEF OfEntry, IsEntry
    <3> HIDE DEF e
    <3>3. EntryNames(e) \in Seq(FNames)
      BY <3>1, EntryNamesType
    <3>4. DecodePaths(p.dir, EncodePaths(p.dir, EntryNames(e))) = EntryNames(e)
      BY <1>4, <3>3, NamesBack
    <3> QED BY <3>2, <3>4 DEF e
  <2>8. i = m + 1 /\ m < N
    BY <2>1, <2>5
  <2> QED BY <1>6, <2>6, <2>7, <2>8 DEF Reads, N
<1>7. ASSUME NEW i \in 0..N, NEW j \in 1..Len(srcs), OfGone(srcs, refs, w, i, j, k + 1, c, p, q)
      PROVE  Reads(s, t, refs, w, m, k, c, p, q)
  <2> DEFINE f == srcs[j].name
             pos == w[i].pos
             st == Stop(srcs, pos, refs[i + 1].name)
  <2>1. /\ pos <= j /\ (i < N => j < st) /\ k + 1 = Ord(w, i) + 1 + j - pos
        /\ c.cmd = "UNLINK" /\ c.paths = <<EncodePath(p.dir, f)>>
        /\ q = [dir |-> DirsOf(f), time |-> p.time]
    BY <1>7 DEF OfGone, N
  <2>2. pos \in 1..(Len(srcs) + 1) /\ w[i].n \in Nat /\ i \in Nat /\ j \in Nat
    BY <1>1, <1>2 DEF IsWalk, N
  <2>3. j \in w[i].pos..Len(srcs)
    BY <1>1, <2>1, <2>2
  <2>4. f \in Names(s) \ Names(t)
    <3>1. i < Len(refs) => j < Stop(srcs, w[i].pos, refs[i + 1].name)
      BY <2>1 DEF N
    <3> QED BY <1>2, <2>3, <3>1, UnlinkedGone DEF N
  <2> HIDE DEF f
  <2>5. Ord(w, i) <= k
    <3> HIDE DEF pos
    <3> QED BY <1>5, <2>1, <2>2
  <2>6. i < N => k + 1 < Ord(w, i + 1)
    <3> SUFFICES ASSUME i < N
                 PROVE  k + 1 < Ord(w, i + 1)
      OBVIOUS
    <3> DEFINE g == i + 1
    <3>1. g \in 1..N /\ g - 1 = i /\ g = i + 1
      BY <1>1, <2>2
    <3>2. st = Stop(srcs, w[g - 1].pos, refs[g].name) /\ pos = w[g - 1].pos
      BY <3>1
    <3> HIDE DEF g
    <3>3. w[g].n = w[g - 1].n + Stop(srcs, w[g - 1].pos, refs[g].name) - w[g - 1].pos
      BY <1>2, <3>1 DEF IsWalk, N
    <3>4. StopsAt(srcs, w[g - 1].pos, refs[g].name, Stop(srcs, w[g - 1].pos, refs[g].name))
      BY <1>1, <1>2, <3>1, WalkTurn DEF N
    <3>5. w[g].n = w[i].n + st - pos /\ st \in pos..(Len(srcs) + 1)
      BY <3>1, <3>2, <3>3, <3>4 DEF StopsAt
    <3> HIDE DEF st, pos
    <3> DEFINE o == w[i].n
               z == w[g].n
    <3>6. z = o + st - pos /\ pos \in Nat /\ st \in Nat /\ o \in Nat /\ j < st
      BY <1>1, <2>1, <2>2, <3>1, <3>5
    <3>7. k + 1 = i + o + 1 + j - pos
      BY <2>1 DEF Ord
    <3> HIDE DEF o, z
    <3>8. k + 1 < g + z
      BY <2>2, <3>1, <3>6, <3>7
    <3> QED BY <3>1, <3>8 DEF Ord, z
  <2>7. Among(refs, w, i, k) /\ Among(refs, w, i, k + 1)
    <3>1. \A x \in Nat : k + 1 < x => k < x
      OBVIOUS
    <3>2. i < N => i + 1 \in 0..N
      BY <1>1, <2>2
    <3>3. i < N => k < Ord(w, i + 1)
      BY <1>5, <2>6, <3>1, <3>2
    <3>4. Ord(w, i) <= k + 1
      BY <1>5, <2>5
    <3> QED BY <2>5, <2>6, <3>3, <3>4 DEF Among, N
  <2>8. i = m
    BY <1>1, <1>2, <2>7, AmongOne DEF N
  <2>9. DecodePaths(p.dir, c.paths) = <<f>>
    <3>1. f \in FNames
      BY <2>4, NamesOfTree
    <3>2. EncodePaths(p.dir, <<f>>) = <<EncodePath(p.dir, f)>>
      BY <1>4, <3>1, OneName
    <3>3. <<f>> \in Seq(FNames)
      BY <3>1
    <3> DEFINE one == <<f>>
    <3>4. DecodePaths(p.dir, EncodePaths(p.dir, one)) = one
      BY <1>4, <3>3, NamesBack
    <3> QED BY <2>1, <3>2, <3>4
  <2> QED BY <2>1, <2>4, <2>7, <2>8, <2>9 DEF Reads
<1>8. Reads(s, t, refs, w, m, k, c, p, q)
  BY <1>3, <1>6, <1>7 DEF Turn, N
<1> QED BY <1>3, <1>8 DEF c, p, q

-----------------------------------------------------------------------------
(* The invariant *)

Walked == DryWalk(src_files, ref_files)
Olds == FileNames(src_files)
News == FileNames(ref_files)
Writes == pc \notin {"list", "header"}

\* Where the encoder is behind the header.
Start == [dir |-> LastDir(LastDir(<<>>, Olds), News), time |-> 0]

\* What is listed, and what has not begun.
Lists ==
  /\ src \in Trees /\ ver \in Trees
  /\ pc \in {"list", "header", "encode", "read", "apply", "cleanup", "done", "crashed"}
  /\ src_files = (IF pc = "list" THEN <<>> ELSE Listing(src))
  /\ ref_files = (IF pc = "list" THEN <<>> ELSE Listing(ver))
  /\ ~ Writes => patch = NoPatch /\ src_pos = 1 /\ ref_pos = 1
  /\ pc \in {"list", "header", "encode", "read"} => file_pos = 0 /\ done = 0 /\ final_paths = <<>>
  /\ pc \in {"list", "header", "read"} => pe = NewEncoder

\* The header holds the manifests and the count of the dry walk.
Headed ==
  Writes =>
    /\ DOMAIN patch = {"src", "ref", "delta", "ugm", "count", "cmds"}
    /\ patch.src = EncodePaths(<<>>, Olds) /\ patch.ref = EncodePaths(LastDir(<<>>, Olds), News)
    /\ patch.delta = [i \in DOMAIN News |-> ver[News[i].path].data]
    /\ patch.ugm = WrittenUgms(ref_files)
    /\ patch.count = Len(ref_files) + DryRun(src_files, ref_files)

\* The walk that writes goes where the dry walk went.
Placed ==
  Writes =>
    \/ /\ pc = "encode" /\ ref_pos \in 1..(Len(ref_files) + 1)
       /\ src_pos = Walked[ref_pos - 1].pos /\ Len(patch.cmds) = Ord(Walked, ref_pos - 1)
    \/ /\ pc # "encode" /\ ref_pos = Len(ref_files) + 1 /\ src_pos = Len(src_files) + 1
       /\ Len(patch.cmds) = patch.count

\* The commands written lead from the header to where the encoder is; those
\* executed, to where the decoder is.
Chained ==
  Writes =>
    /\ IsSeq(patch.cmds)
    /\ \E P : /\ Traced(src_files, ref_files, Walked, patch.cmds, P, Start)
              /\ pc = "encode" => pe = P[Len(patch.cmds)]
              /\ pc = "apply" => pe = P[done]

\* As many files are moved in place as there are among the entries executed.
Moved ==
  pc = "apply" =>
    /\ final_paths = [i \in DOMAIN News |-> News[i].path]
    /\ \E m : Among(ref_files, Walked, m, done) /\ file_pos = FileCount(ref_files, m)

Bounds ==
  /\ done \in Nat /\ done <= patch.count /\ done <= Len(patch.cmds)
  /\ file_pos \in 0..Len(final_paths)

\* Of the commands a beginning comes to the disk, and of the rebuilt files.
OnDisk ==
  /\ kept \in NoHeader..Len(patch.cmds) /\ unflushed \in 0..Len(patch.delta)
  /\ pc \in {"list", "header", "encode"} => kept = NoHeader
  /\ pc \in {"list", "header", "encode", "read"} => unflushed = 0

IInv == Lists /\ Headed /\ Placed /\ Chained /\ Moved /\ Bounds /\ OnDisk /\ Stands(target, Paths)

\* What comes to the disk is of the chain.
LEMMA KeptRead ==
  ASSUME IInv, done < kept
  PROVE  done < Len(patch.cmds)
<1> DEFINE n == Len(patch.cmds)
<1>1. done \in Nat /\ kept \in NoHeader..n
  BY DEF IInv, Bounds, OnDisk
<1>2. n \in Int
  <2>1. CASE Writes
    BY <2>1 DEF IInv, Chained, IsSeq
  <2>2. CASE ~ Writes
    <3>1. patch.cmds = << >>
      BY <2>2 DEF IInv, Lists, NoPatch
    <3> QED BY <3>1
  <2> QED BY <2>1, <2>2
<1> HIDE DEF n
<1>3. done < n
  BY <1>1, <1>2 DEF NoHeader
<1> QED BY <1>3 DEF n

\* What follows of the lists.
LEMMA ListFacts ==
  ASSUME Lists
  PROVE  /\ Paths \in SUBSET Strs
         /\ pc # "list" => /\ Listed(src_files, src) /\ Listed(ref_files, ver)
                           /\ IsWalk(src_files, ref_files, Walked)
         /\ Len(src_files) \in Nat /\ Len(ref_files) \in Nat
<1>1. Paths \in SUBSET Strs
  BY TreeAssumption DEF Lists, Paths, Strs, TreeAssumption
<1>2. CASE pc = "list"
  <2>1. src_files = << >> /\ ref_files = << >>
    BY <1>2 DEF Lists
  <2> QED BY <1>1, <1>2, <2>1
<1>3. CASE pc # "list"
  <2>1. src_files = Listing(src) /\ ref_files = Listing(ver) /\ src \in Trees /\ ver \in Trees
    BY <1>3 DEF Lists
  <2>2. Listed(src_files, src) /\ Listed(ref_files, ver)
    <3>1. Listed(Listing(src), src) /\ Listed(Listing(ver), ver)
      BY <2>1, ListingSorted
    <3> QED BY <2>1, <3>1
  <2>3. Len(src_files) \in Nat /\ Len(ref_files) \in Nat
    BY <2>2 DEF Listed
  <2>4. IsWalk(src_files, ref_files, Walked)
    BY <2>3, Walks DEF Walked
  <2> QED BY <1>1, <2>2, <2>3, <2>4
<1> QED BY <1>2, <1>3

\* It holds in the beginning.
LEMMA InitInv ==
  ASSUME Init
  PROVE  IInv
<1>1. src \in Trees /\ ver \in Trees /\ pc = "list"
  BY DEF Init
<1>2. Lists /\ Headed /\ Placed /\ Chained /\ Moved
  BY DEF Init, Lists, Headed, Placed, Chained, Moved, Writes
<1>3. Bounds
  <2>1. patch.count = 0 /\ patch.cmds = << >> /\ done = 0 /\ file_pos = 0 /\ final_paths = << >>
    BY DEF Init, NoPatch
  <2> QED BY <2>1 DEF Bounds
<1>5. OnDisk
  <2>1. patch.cmds = << >> /\ patch.delta = << >> /\ kept = NoHeader /\ unflushed = 0
    BY DEF Init, NoPatch
  <2> QED BY <2>1 DEF OnDisk, NoHeader
<1>4. Stands(target, Paths)
  <2>1. CASE inPlace
    <3>1. target = src
      BY <2>1 DEF Init
    <3>2. \A p \in DOMAIN src : Present(src, p) =>
            /\ Front(p) # <<>> => Is(src, Front(p), "dir")
            /\ src[p].type = "sym" => src[p].data \in Strs
      BY <1>1, TreeAssumption DEF TreeAssumption, Strs
    <3>3. Stands(src, Paths)
      BY <3>2 DEF Stands, Paths
    <3> QED BY <3>1, <3>3
  <2>2. CASE ~ inPlace
    <3>1. target = [p \in Paths |-> Absent]
      BY <2>2 DEF Init, Nothing
    <3>2. DOMAIN target = Paths /\ \A p \in Paths : ~ Present(target, p)
      BY <3>1 DEF Present, Absent
    <3> QED BY <3>2 DEF Stands
  <2> QED BY <2>1, <2>2
<1> QED BY <1>2, <1>3, <1>4, <1>5 DEF IInv

-----------------------------------------------------------------------------
(* The next command *)

\* Both times of an entry are read back.
LEMMA TimesBack ==
  ASSUME NEW last \in Int, NEW st, st.ctime \in Int, st.mtime \in Int, NEW ts, ts = Times(last, st)
  PROVE  /\ DecodeTime(last, ts[1]) = st.ctime
         /\ (IF Len(ts) = 1 THEN st.ctime ELSE DecodeTime(st.ctime, ts[2])) = st.mtime
<1> DEFINE a == EncodeTime(last, st.ctime)
           b == EncodeTime(st.ctime, st.mtime)
<1>1. DecodeTime(last, a) = st.ctime /\ DecodeTime(st.ctime, b) = st.mtime
  BY TimeBack
<1>2. ts = <<a>> \o (IF st.ctime = st.mtime THEN << >> ELSE <<b>>)
  BY DEF Times
<1> HIDE DEF a, b
<1>3. CASE st.ctime = st.mtime
  <2>1. ts = <<a>>
    BY <1>2, <1>3
  <2> QED BY <1>1, <1>3, <2>1
<1>4. CASE st.ctime # st.mtime
  <2>1. ts = <<a>> \o <<b>>
    BY <1>2, <1>4
  <2> DEFINE S == {a, b}
             y == <<a>>
             z == <<b>>
  <2>2. y \in Seq(S) /\ z \in Seq(S) /\ Len(y) = 1 /\ Len(z) = 1 /\ y[1] = a /\ z[1] = b /\ ts = y \o z
    BY <2>1
  <2> HIDE DEF S, y, z
  <2>3. IsSeq(y) /\ IsSeq(z)
    BY <2>2 DEF IsSeq
  <2>4. /\ Len(y \o z) = Len(y) + Len(z)
        /\ \A k \in 1..Len(y) : (y \o z)[k] = y[k]
        /\ \A k \in 1..Len(z) : (y \o z)[Len(y) + k] = z[k]
    BY <2>3, Joined
  <2>5. Len(ts) = 2 /\ ts[1] = a
    BY <2>2, <2>4
  <2>6. ts[1 + 1] = b
    <3>1. 1 \in 1..Len(z)
      BY <2>2
    <3>2. (y \o z)[Len(y) + 1] = z[1]
      BY <2>4, <3>1
    <3> QED BY <2>2, <3>2
  <2>7. ts[2] = b
    BY <2>6
  <2> QED BY <1>1, <2>5, <2>7
<1> QED BY <1>3, <1>4

\* The command the reader is at, and where it leads.
AtTurn(P, m) ==
  /\ Traced(src_files, ref_files, Walked, patch.cmds, P, Start) /\ pe = P[done]
  /\ Among(ref_files, Walked, m, done) /\ file_pos = FileCount(ref_files, m)
  /\ pe \in Coders /\ P[done + 1] \in Coders
  /\ Reads(src, ver, ref_files, Walked, m, done, Cmd, pe, P[done + 1])

\* There is one.
LEMMA NextRead ==
  ASSUME IInv, pc = "apply", done < Len(patch.cmds)
  PROVE  \E P, m : AtTurn(P, m)
<1>1. /\ Listed(src_files, src) /\ Listed(ref_files, ver) /\ src \in Trees /\ ver \in Trees
      /\ Walked = DryWalk(src_files, ref_files)
  BY ListFacts DEF IInv, Lists, Walked
<1>2. PICK P : Traced(src_files, ref_files, Walked, patch.cmds, P, Start) /\ pe = P[done]
  BY DEF IInv, Chained, Writes
<1>3. PICK m : Among(ref_files, Walked, m, done) /\ file_pos = FileCount(ref_files, m)
  BY DEF IInv, Moved
<1>4. done \in Nat /\ Len(patch.cmds) \in Nat
  BY DEF IInv, Bounds, Chained, Writes, IsSeq
<1> DEFINE w == Walked
           cmds == patch.cmds
<1> HIDE DEF w, cmds
<1>5. w = DryWalk(src_files, ref_files) /\ Traced(src_files, ref_files, w, cmds, P, Start)
  BY <1>1, <1>2 DEF w, cmds
<1>6. Among(ref_files, w, m, done) /\ done < Len(cmds) /\ Len(cmds) \in Nat
  BY <1>3, <1>4 DEF w, cmds
<1>7. /\ P[done] \in Coders /\ P[done + 1] \in Coders
      /\ Reads(src, ver, ref_files, w, m, done, cmds[done + 1], P[done], P[done + 1])
  BY <1>1, <1>4, <1>5, <1>6, ReadTurn
<1>8. AtTurn(P, m)
  BY <1>2, <1>3, <1>7 DEF AtTurn, Cmd, w, cmds
<1> QED BY <1>8

\* What is read is what an entry says.
IsRead(e) ==
  /\ Read = EntryNames(e)
  /\ Cmd.cmd = (IF IsLink(e) THEN "HARDLINK" ELSE e.st.type)
  /\ ~ IsLink(e) => Ctime = e.st.ctime /\ Mtime = e.st.mtime /\ Cmd.ugm = IndexOf(ref_files, e.st.ugm)
  /\ e.st.type = "sym" => Cmd.data = e.link_target
  /\ e.st.type \in {"fifo", "sock"} => Cmd.data = << >>

\* So it is when the command is that of an entry.
LEMMA EntryRead ==
  ASSUME IInv, pc = "apply", NEW P, NEW m, AtTurn(P, m),
         NEW i \in 1..Len(ref_files), OfEntry(ref_files, Walked, i, done + 1, Cmd, pe, P[done + 1]),
         Read = EntryNames(ref_files[i])
  PROVE  IsRead(ref_files[i]) /\ ref_files[i] \in Entries(ver)
<1> DEFINE e == ref_files[i]
<1>1. e \in Entries(ver)
  BY ListFacts, ListedAt DEF IInv, Lists
<1>2. IsEntry(ref_files, Cmd, pe, e) /\ Read = EntryNames(e)
  BY DEF OfEntry
<1>3. ver \in Trees /\ pe.time \in Int
  BY DEF IInv, Lists, AtTurn, Coders
<1> HIDE DEF e
<1>4. e.st.ctime \in Int /\ e.st.mtime \in Int
  BY <1>1, <1>3, EntryFacts
<1>5. ~ IsLink(e) => Ctime = e.st.ctime /\ Mtime = e.st.mtime
  <2> SUFFICES ASSUME ~ IsLink(e)
               PROVE  Ctime = e.st.ctime /\ Mtime = e.st.mtime
    OBVIOUS
  <2> DEFINE ts == Cmd.times
             st == e.st
  <2>1. ts = Times(pe.time, st)
    BY <1>2 DEF IsEntry
  <2>2. /\ Ctime = DecodeTime(pe.time, ts[1])
        /\ Mtime = IF Len(ts) = 1 THEN Ctime ELSE DecodeTime(Ctime, ts[2])
    BY DEF Ctime, Mtime
  <2>3. st.ctime \in Int /\ st.mtime \in Int
    BY <1>4
  <2> HIDE DEF ts, st
  <2>4. /\ DecodeTime(pe.time, ts[1]) = st.ctime
        /\ (IF Len(ts) = 1 THEN st.ctime ELSE DecodeTime(st.ctime, ts[2])) = st.mtime
    BY <1>3, <2>1, <2>3, TimesBack
  <2>5. Ctime = st.ctime /\ Mtime = st.mtime
    BY <2>2, <2>4
  <2> QED BY <2>5 DEF st
<1>6. IsRead(e)
  BY <1>2, <1>5 DEF IsRead, IsEntry
<1> QED BY <1>1, <1>6 DEF e

\* The next rebuilt file holds that, if it is flushed.
Filled(data) ==
  \/ Content(file_pos + 1) = data
  \/ unflushed > 0 /\ Content(file_pos + 1) = Unflushed

\* The place of a file in the manifest is that of its command.
LEMMA FileRead ==
  ASSUME IInv, pc = "apply", NEW m \in 0..(Len(ref_files) - 1), file_pos = FileCount(ref_files, m)
  PROVE  /\ FileCount(ref_files, m + 1) =
              file_pos + (IF IsFile(ref_files[m + 1]) THEN 1 ELSE 0)
         /\ FileCount(ref_files, m + 1) \in 0..Len(final_paths)
         /\ IsFile(ref_files[m + 1]) =>
              /\ final_paths[file_pos + 1] = ref_files[m + 1].name.path
              /\ patch.delta[file_pos + 1] = ref_files[m + 1].st.data
              /\ Filled(ref_files[m + 1].st.data)
<1> DEFINE e == ref_files[m + 1]
           n == Len(ref_files)
           C(i) == FileCount(ref_files, i)
<1>1. ver \in Trees /\ Listed(ref_files, ver) /\ n \in Nat
  BY ListFacts DEF IInv, Lists
<1>2. m \in Nat /\ m + 1 \in 1..n /\ m + 1 \in 0..n
  BY <1>1
<1>3. C(m) \in Nat /\ C(m + 1) = IF IsFile(e) THEN C(m) + 1 ELSE C(m)
  BY <1>2, Counting
<1>4. C(m + 1) \in 0..C(n)
  BY <1>1, <1>2, FewerFiles
<1>5. /\ News \in Seq(FNames) /\ Len(News) = C(n)
      /\ IsFile(e) => C(m + 1) \in 1..Len(News) /\ News[C(m + 1)] = e.name
  BY <1>1, <1>2, FilesListed DEF News
<1>6. e \in Entries(ver)
  BY <1>1, <1>2, ListedAt
<1>7. e.st = ver[e.name.path]
  <2> HIDE DEF e
  <2> QED BY <1>1, <1>6, EntryFacts
<1>8. /\ final_paths = [i \in DOMAIN News |-> News[i].path]
      /\ patch.delta = [i \in DOMAIN News |-> ver[News[i].path].data]
  BY DEF IInv, Moved, Headed, Writes
<1>9. DOMAIN News = 1..C(n) /\ C(n) \in Nat
  <2> HIDE DEF n, C
  <2> QED BY <1>5
<1>10. Len(final_paths) = C(n)
  <2> DEFINE q(i) == News[i].path
  <2>1. final_paths = [i \in 1..C(n) |-> q(i)]
    BY <1>8, <1>9
  <2> HIDE DEF q, C, n
  <2> QED BY <1>9, <2>1
<1>14. Len(patch.delta) = C(n)
  <2> DEFINE q(i) == ver[News[i].path].data
  <2>1. patch.delta = [i \in 1..C(n) |-> q(i)]
    BY <1>8, <1>9
  <2> HIDE DEF q, C, n
  <2> QED BY <1>9, <2>1
<1> HIDE DEF C, n
<1>15. unflushed \in Nat
  <2>1. unflushed \in 0..C(n)
    BY <1>14 DEF IInv, OnDisk
  <2> QED BY <1>9, <2>1
<1>11. IsFile(e) => final_paths[file_pos + 1] = e.name.path /\ patch.delta[file_pos + 1] = e.st.data
  <2> SUFFICES ASSUME IsFile(e)
               PROVE  final_paths[file_pos + 1] = e.name.path /\ patch.delta[file_pos + 1] = e.st.data
    OBVIOUS
  <2> DEFINE k == file_pos + 1
  <2>1. C(m + 1) = k
    BY <1>3 DEF C
  <2> HIDE DEF k, e
  <2>2. k \in DOMAIN News /\ News[k] = e.name
    BY <1>5, <1>9, <2>1
  <2>3. final_paths[k] = e.name.path /\ patch.delta[k] = ver[e.name.path].data
    BY <1>8, <2>2
  <2> QED BY <1>7, <2>3 DEF k
<1>12. C(m + 1) = file_pos + (IF IsFile(e) THEN 1 ELSE 0) /\ file_pos \in Nat
  <2>1. C(m) = file_pos
    BY DEF C
  <2> HIDE DEF e
  <2> QED BY <1>3, <2>1
<1>16. IsFile(e) => Filled(e.st.data)
  <2> SUFFICES ASSUME IsFile(e)
               PROVE  Filled(e.st.data)
    OBVIOUS
  <2> DEFINE k == file_pos + 1
             d == e.st.data
  <2>1. patch.delta[k] = d
    BY <1>11
  <2>2. k \in Nat /\ k <= C(n)
    <3> HIDE DEF e
    <3> QED BY <1>4, <1>9, <1>12
  <2>3. Content(k) = d \/ (unflushed > 0 /\ Content(k) = Unflushed)
    <3> HIDE DEF k, d
    <3>1. CASE unflushed = 0
      <4>1. k + unflushed <= Len(patch.delta)
        BY <1>9, <1>14, <2>2, <3>1
      <4> QED BY <2>1, <4>1 DEF Content
    <3>2. CASE unflushed # 0
      <4>1. unflushed > 0
        BY <1>15, <3>2
      <4>2. Content(k) = patch.delta[k] \/ Content(k) = Unflushed
        BY DEF Content
      <4> QED BY <2>1, <4>1, <4>2
    <3> QED BY <3>1, <3>2
  <2> QED BY <2>3 DEF Filled
<1>13. C(m + 1) \in 0..Len(final_paths)
  BY <1>4, <1>10
<1> QED BY <1>11, <1>12, <1>13, <1>16 DEF C

-----------------------------------------------------------------------------
(* The steps of the writer *)

\* The lists are made.
LEMMA ListStep ==
  ASSUME IInv, List
  PROVE  IInv'
<1>1. Lists'
  BY DEF IInv, List, Lists, Writes, inputs, reader
<1>2. Headed' /\ Placed' /\ Chained' /\ Moved'
  BY DEF List, Headed, Placed, Chained, Moved, Writes
<1>3. Bounds' /\ Stands(target, Paths)'
  BY DEF IInv, List, Bounds, Stands, Paths, inputs, reader
<1>4. OnDisk'
  BY DEF IInv, List, OnDisk, reader
<1> QED BY <1>1, <1>2, <1>3, <1>4 DEF IInv

\* The header is written.
LEMMA WriteHeaderStep ==
  ASSUME IInv, WriteHeader
  PROVE  IInv'
<1>1. /\ pc = "header" /\ pc' = "encode" /\ pe = NewEncoder
      /\ patch.cmds = << >> /\ src_pos = 1 /\ ref_pos = 1 /\ done = 0 /\ file_pos = 0 /\ final_paths = << >>
  BY DEF IInv, Lists, WriteHeader, Writes, NoPatch
<1>2. UNCHANGED <<inputs, src_files, ref_files, src_pos, ref_pos, reader>>
  BY DEF WriteHeader
<1>3. UNCHANGED <<src, ver, Olds, News, Walked, Start>>
  BY <1>2 DEF inputs, Olds, News, Walked, Start
<1>4. /\ Listed(src_files, src) /\ Listed(ref_files, ver) /\ src \in Trees /\ ver \in Trees
      /\ IsWalk(src_files, ref_files, Walked) /\ Len(src_files) \in Nat /\ Len(ref_files) \in Nat
  BY <1>1, ListFacts DEF IInv, Lists
<1>5. patch' = [src   |-> EncodePaths(<<>>, Olds),
                ref   |-> EncodePaths(LastDir(<<>>, Olds), News),
                delta |-> [i \in DOMAIN News |-> ver[News[i].path].data],
                ugm   |-> WrittenUgms(ref_files),
                count |-> Len(ref_files) + DryRun(src_files, ref_files),
                cmds  |-> <<>>]
  BY <1>1 DEF WriteHeader, Olds, News, NewEncoder
<1>6. pe' = Start
  <2>1. pe' = [pe EXCEPT !.dir = LastDir(LastDir(<<>>, Olds), News)]
    BY <1>1 DEF WriteHeader, Olds, News, NewEncoder
  <2> QED BY <1>1, <2>1 DEF Start, NewEncoder
<1>7. Lists'
  BY <1>1, <1>2 DEF IInv, Lists, Writes, inputs, reader
<1>8. Headed'
  <2>1. /\ DOMAIN patch' = {"src", "ref", "delta", "ugm", "count", "cmds"}
        /\ patch'.src = EncodePaths(<<>>, Olds) /\ patch'.ref = EncodePaths(LastDir(<<>>, Olds), News)
        /\ patch'.delta = [i \in DOMAIN News |-> ver[News[i].path].data]
        /\ patch'.ugm = WrittenUgms(ref_files)
        /\ patch'.count = Len(ref_files) + DryRun(src_files, ref_files)
    BY <1>5
  <2> QED BY <1>2, <1>3, <2>1 DEF Headed
<1>9. patch'.cmds = << >>
  BY <1>5
<1>10. Placed'
  <2>1. Walked[0].pos = 1 /\ Walked[0].n = 0
    BY <1>4 DEF IsWalk
  <2>2. Ord(Walked, 0) = 0 /\ Len(patch'.cmds) = 0
    BY <1>9, <2>1 DEF Ord
  <2>3. 1 \in 1..(Len(ref_files) + 1) /\ 1 - 1 = 0
    BY <1>4
  <2>4. ref_pos' = 1 /\ src_pos' = 1 /\ ref_files' = ref_files /\ Walked' = Walked
    BY <1>1, <1>2, <1>3
  <2> QED BY <1>1, <2>1, <2>2, <2>3, <2>4 DEF Placed
<1>11. Chained'
  <2>1. Start \in Coders
    <3>1. Olds \in Seq(FNames) /\ News \in Seq(FNames) /\ << >> \in Strs
      BY <1>4, FilesListed DEF Olds, News, Strs
    <3>2. LastDir(<<>>, Olds) \in Strs
      BY <3>1, LastDirType
    <3> DEFINE d == LastDir(<<>>, Olds)
    <3> HIDE DEF d
    <3>3. LastDir(d, News) \in Strs
      BY <3>1, <3>2, LastDirType DEF d
    <3> QED BY <3>3 DEF Start, Coders, d
  <2> DEFINE P == [k \in 0..0 |-> Start]
  <2>2. P \in [0..0 -> Coders] /\ P[0] = Start
    BY <2>1
  <2> HIDE DEF P
  <2>3. Traced(src_files, ref_files, Walked, << >>, P, Start)
    <3>1. Len(<< >>) = 0
      OBVIOUS
    <3> QED BY <2>2, <3>1 DEF Traced
  <2>4. IsSeq(<< >>)
    BY DEF IsSeq
  <2>5. Len(patch'.cmds) = 0
    BY <1>9
  <2>6. Traced(src_files, ref_files, Walked, patch.cmds, P, Start)'
    BY <1>2, <1>3, <1>9, <2>3 DEF Traced
  <2> QED BY <1>1, <1>6, <1>9, <2>2, <2>4, <2>5, <2>6 DEF Chained
<1>12. Moved' /\ Stands(target, Paths)'
  BY <1>1, <1>2 DEF IInv, Moved, Stands, Paths, inputs, reader
<1>13. Bounds'
  <2>1. patch'.count \in Nat
    <3>1. 0 \in 0..Len(ref_files)
      BY <1>4
    <3>2. Len(ref_files) + DryRun(src_files, ref_files) \in Nat
      BY <1>4, <3>1, CountOfWalk DEF Walked
    <3> QED BY <1>5, <3>2
  <2>2. Len(patch'.cmds) = 0 /\ done' = 0 /\ file_pos' = 0 /\ final_paths' = << >>
    BY <1>1, <1>2, <1>9 DEF reader
  <2> QED BY <2>1, <2>2 DEF Bounds
<1>14. OnDisk'
  <2>1. kept' = NoHeader /\ unflushed' = 0 /\ Len(patch'.cmds) = 0
    BY <1>1, <1>2, <1>9 DEF IInv, OnDisk, WriteHeader, reader
  <2>2. Len(patch'.delta) \in Nat
    <3> DEFINE n == Len(News)
               q(i) == ver[News[i].path].data
    <3>1. News \in Seq(FNames)
      BY <1>4, FilesListed DEF News
    <3>2. patch'.delta = [i \in 1..n |-> q(i)] /\ n \in Nat
      BY <1>5, <3>1
    <3> HIDE DEF n, q
    <3> QED BY <3>2
  <2> DEFINE n == Len(patch'.delta)
  <2> HIDE DEF n
  <2>3. 0 \in 0..n
    BY <2>2 DEF n
  <2> QED BY <1>1, <2>1, <2>3 DEF OnDisk, NoHeader, n
<1> QED BY <1>7, <1>8, <1>10, <1>11, <1>12, <1>13, <1>14 DEF IInv

\* The chain as it is while it is written.
LEMMA Writing ==
  ASSUME IInv, pc = "encode"
  PROVE  /\ Listed(src_files, src) /\ Listed(ref_files, ver) /\ src \in Trees /\ ver \in Trees
         /\ Len(src_files) \in Nat /\ Len(ref_files) \in Nat
         /\ ref_pos \in 1..(Len(ref_files) + 1) /\ src_pos = Walked[ref_pos - 1].pos
         /\ Len(patch.cmds) = Ord(Walked, ref_pos - 1) /\ "cmds" \in DOMAIN patch
         /\ ChainTo(src_files, ref_files, Walked, patch.cmds, Start, pe) /\ pe \in Coders
<1>1. /\ Listed(src_files, src) /\ Listed(ref_files, ver) /\ src \in Trees /\ ver \in Trees
      /\ Len(src_files) \in Nat /\ Len(ref_files) \in Nat
  BY ListFacts DEF IInv, Lists
<1>2. /\ ref_pos \in 1..(Len(ref_files) + 1) /\ src_pos = Walked[ref_pos - 1].pos
      /\ Len(patch.cmds) = Ord(Walked, ref_pos - 1) /\ "cmds" \in DOMAIN patch
  BY DEF IInv, Placed, Headed, Writes
<1>3. IsSeq(patch.cmds)
  BY DEF IInv, Chained, Writes
<1>4. PICK P : Traced(src_files, ref_files, Walked, patch.cmds, P, Start) /\ pe = P[Len(patch.cmds)]
  BY DEF IInv, Chained, Writes
<1>5. pe \in Coders
  <2>1. P \in [0..Len(patch.cmds) -> Coders]
    BY <1>4 DEF Traced
  <2>2. Len(patch.cmds) \in 0..Len(patch.cmds)
    BY <1>3 DEF IsSeq
  <2> QED BY <1>4, <2>1, <2>2
<1>6. ChainTo(src_files, ref_files, Walked, patch.cmds, Start, pe)
  BY <1>3, <1>4 DEF ChainTo
<1> QED BY <1>1, <1>2, <1>5, <1>6

\* An entry is written.
LEMMA EncodeNextStep ==
  ASSUME IInv, EncodeNext
  PROVE  IInv'
<1>1. /\ pc = "encode" /\ pc' = "encode" /\ ref_pos <= Len(ref_files) /\ ref_pos' = ref_pos + 1
      /\ done = 0 /\ file_pos = 0 /\ final_paths = << >>
  BY DEF IInv, Lists, EncodeNext
<1>2. UNCHANGED <<inputs, pc, src_files, ref_files, reader>>
  BY DEF EncodeNext
<1>3. UNCHANGED <<src, ver, Olds, News, Walked, Start>>
  BY <1>2 DEF inputs, Olds, News, Walked, Start
<1>4. /\ Listed(src_files, src) /\ Listed(ref_files, ver) /\ src \in Trees /\ ver \in Trees
      /\ Len(src_files) \in Nat /\ Len(ref_files) \in Nat
      /\ ref_pos \in 1..(Len(ref_files) + 1) /\ src_pos = Walked[ref_pos - 1].pos
      /\ Len(patch.cmds) = Ord(Walked, ref_pos - 1) /\ "cmds" \in DOMAIN patch
      /\ ChainTo(src_files, ref_files, Walked, patch.cmds, Start, pe) /\ pe \in Coders
  BY <1>1, Writing
<1>5. ref_pos \in 1..Len(ref_files)
  BY <1>1, <1>4
<1> DEFINE w == Walked
           e == ref_files[ref_pos]
           gone == NamesOf(SubSeq(src_files, src_pos, Stop(src_files, src_pos, e.name) - 1))
           mid == Onto(pe, gone)
           entry == EntryCommand(mid, e)
           cs == patch.cmds \o UnlinkCommands(pe.dir, gone)
           all == Append(cs, entry.cmd)
<1>6. /\ patch' = [patch EXCEPT !.cmds = all] /\ pe' = entry.pe
      /\ src_pos' = Passed(src_files, src_pos, e.name)
  BY DEF EncodeNext, Onto
<1>7. e \in Entries(ver)
  BY <1>4, <1>5, ListedAt
<1>8. gone = NamesOf(SubSeq(src_files, w[ref_pos - 1].pos,
                            Stop(src_files, w[ref_pos - 1].pos, ref_files[ref_pos].name) - 1))
  BY <1>4
<1>9. w = DryWalk(src_files, ref_files)
  BY DEF Walked
<1>10. mid \in Coders
  <2>1. IsWalk(src_files, ref_files, w)
    BY <1>4, <1>9, Walks
  <2> DEFINE h == ref_pos - 1
             st == Stop(src_files, src_pos, e.name)
  <2>2. h \in 0..Len(ref_files) /\ h + 1 = ref_pos /\ src_pos = w[h].pos
    BY <1>4, <1>5
  <2>3. src_pos \in 1..(Len(src_files) + 1)
    BY <2>1, <2>2 DEF IsWalk
  <2>4. st \in w[h].pos..(Len(src_files) + 1)
    BY <1>4, <2>2, <2>3, StopPlace DEF StopsAt
  <2>5. h < Len(ref_files) => st = Stop(src_files, w[h].pos, ref_files[h + 1].name)
    BY <2>2
  <2>6. gone = NamesOf(SubSeq(src_files, w[h].pos, st - 1))
    BY <2>2
  <2> HIDE DEF h, st, w, gone, e
  <2>7. Onto(pe, gone) \in Coders
    BY <1>4, <2>1, <2>2, <2>4, <2>5, <2>6, GoneTurns
  <2> QED BY <2>7
<1>11. /\ IsEntry(ref_files, entry.cmd, mid, e) /\ entry.pe = Behind(mid, e)
  <2> HIDE DEF mid, e
  <2> QED BY <1>4, <1>7, <1>10, EntryTurn
<1>12. ChainTo(src_files, ref_files, w, all, Start, pe') /\ Len(all) = Ord(w, ref_pos)
  <2> DEFINE c == entry.cmd
             q == Behind(Onto(pe, gone), ref_files[ref_pos])
  <2>1. IsEntry(ref_files, c, Onto(pe, gone), ref_files[ref_pos])
    BY <1>11
  <2>2. pe' = q /\ all = Append(patch.cmds \o UnlinkCommands(pe.dir, gone), c)
    BY <1>6, <1>11
  <2> DEFINE cmds == patch.cmds
             p0 == Start
  <2>3. ChainTo(src_files, ref_files, w, cmds, p0, pe) /\ Len(cmds) = Ord(w, ref_pos - 1)
    BY <1>4
  <2> HIDE DEF gone, c, w, cmds, p0
  <2>4. /\ ChainTo(src_files, ref_files, w, Append(cmds \o UnlinkCommands(pe.dir, gone), c), p0,
                    Behind(Onto(pe, gone), ref_files[ref_pos]))
        /\ Len(Append(cmds \o UnlinkCommands(pe.dir, gone), c)) = Ord(w, ref_pos)
    <3>1. src \in Trees /\ ver \in Trees /\ Listed(src_files, src) /\ Listed(ref_files, ver) /\ pe \in Coders
      BY <1>4
    <3> QED BY <1>5, <1>8, <1>9, <2>1, <2>3, <3>1, NextChain
  <2> QED BY <2>2, <2>4 DEF cmds, p0
<1> HIDE DEF gone, mid, entry, cs, all, e, w
<1>13. patch'.cmds = all /\ DOMAIN patch' = DOMAIN patch
  BY <1>4, <1>6
<1>14. /\ patch'.src = patch.src /\ patch'.ref = patch.ref /\ patch'.delta = patch.delta /\ patch'.ugm = patch.ugm
       /\ patch'.count = patch.count
  <2>1. DOMAIN patch = {"src", "ref", "delta", "ugm", "count", "cmds"}
    BY <1>1 DEF IInv, Headed, Writes
  <2> QED BY <1>6, <2>1
<1>15. Lists'
  BY <1>1, <1>2 DEF IInv, Lists, Writes, inputs, reader
<1>16. Headed'
  BY <1>1, <1>2, <1>3, <1>13, <1>14 DEF IInv, Headed, Writes
<1>17. Placed'
  <2>1. (ref_pos + 1) - 1 = ref_pos /\ ref_pos + 1 \in 1..(Len(ref_files) + 1)
    BY <1>4, <1>5
  <2>2. Passed(src_files, src_pos, e.name) = w[ref_pos].pos
    <3>1. IsWalk(src_files, ref_files, w)
      BY <1>4, <1>9, Walks DEF w
    <3>2. w[ref_pos].pos = Passed(src_files, w[ref_pos - 1].pos, ref_files[ref_pos].name)
      BY <1>5, <3>1 DEF IsWalk
    <3> QED BY <1>4, <3>2 DEF e, w
  <2>3. /\ ref_pos' \in 1..(Len(ref_files) + 1) /\ ref_pos' - 1 = ref_pos
        /\ src_pos' = w[ref_pos].pos /\ Len(patch'.cmds) = Ord(w, ref_pos)
    BY <1>1, <1>6, <1>12, <1>13, <2>1, <2>2
  <2>4. ref_files' = ref_files /\ Walked' = w
    BY <1>2, <1>3 DEF w
  <2>5. /\ ref_pos' \in 1..(Len(ref_files') + 1) /\ src_pos' = Walked'[ref_pos' - 1].pos
        /\ Len(patch'.cmds) = Ord(Walked', ref_pos' - 1)
    BY <2>3, <2>4
  <2> QED BY <1>1, <2>5 DEF Placed
<1>18. Chained'
  <2>1. IsSeq(all)
    BY <1>12 DEF ChainTo
  <2>2. PICK P : Traced(src_files, ref_files, w, all, P, Start) /\ P[Len(all)] = pe'
    BY <1>12 DEF ChainTo
  <2>3. Traced(src_files, ref_files, Walked, patch.cmds, P, Start)'
    BY <1>2, <1>3, <1>13, <2>2 DEF Traced, w
  <2>4. pe' = P[Len(patch'.cmds)]
    BY <1>13, <2>2
  <2> QED BY <1>1, <1>13, <2>1, <2>3, <2>4 DEF Chained
<1>19. Moved' /\ Stands(target, Paths)'
  BY <1>1, <1>2 DEF IInv, Moved, Stands, Paths, inputs, reader
<1>20. Bounds'
  <2>1. patch'.count = patch.count /\ 0 <= patch.count
    BY <1>1, <1>14 DEF IInv, Bounds
  <2>2. Len(patch'.cmds) \in Nat
    BY <1>12, <1>13 DEF ChainTo, IsSeq
  <2>3. done' = 0 /\ file_pos' = 0 /\ final_paths' = << >>
    BY <1>1, <1>2 DEF reader
  <2> QED BY <2>1, <2>2, <2>3 DEF Bounds
<1>21. OnDisk'
  <2>1. kept' = NoHeader /\ unflushed' = 0 /\ unflushed \in 0..Len(patch.delta) /\ unflushed' = unflushed
    BY <1>1, <1>2 DEF IInv, OnDisk, EncodeNext, reader
  <2>2. Len(patch'.cmds) \in Nat
    BY <1>12, <1>13 DEF ChainTo, IsSeq
  <2> QED BY <1>1, <1>14, <2>1, <2>2 DEF OnDisk, NoHeader
<1> QED BY <1>15, <1>16, <1>17, <1>18, <1>19, <1>20, <1>21 DEF IInv

\* The rest is unlinked.
LEMMA LastUnlinksStep ==
  ASSUME IInv, LastUnlinks,
         kept' = Len(patch'.cmds) \/ kept' \in NoHeader..(Len(patch'.cmds) - 1)
  PROVE  IInv'
<1>1. /\ pc = "encode" /\ pc' = "read" /\ ref_pos > Len(ref_files) /\ pe' = NewEncoder
      /\ done = 0 /\ file_pos = 0 /\ final_paths = << >> /\ src_pos' = Len(src_files) + 1
  BY DEF IInv, Lists, LastUnlinks
<1>2. UNCHANGED <<inputs, src_files, ref_files, ref_pos, reader>>
  BY DEF LastUnlinks
<1>3. UNCHANGED <<src, ver, Olds, News, Walked, Start>>
  BY <1>2 DEF inputs, Olds, News, Walked, Start
<1>4. /\ Listed(src_files, src) /\ Listed(ref_files, ver) /\ src \in Trees /\ ver \in Trees
      /\ Len(src_files) \in Nat /\ Len(ref_files) \in Nat
      /\ ref_pos \in 1..(Len(ref_files) + 1) /\ src_pos = Walked[ref_pos - 1].pos
      /\ Len(patch.cmds) = Ord(Walked, ref_pos - 1) /\ "cmds" \in DOMAIN patch
      /\ ChainTo(src_files, ref_files, Walked, patch.cmds, Start, pe) /\ pe \in Coders
  BY <1>1, Writing
<1>5. ref_pos = Len(ref_files) + 1 /\ ref_pos - 1 = Len(ref_files)
  BY <1>1, <1>4
<1> DEFINE w == Walked
           cmds == patch.cmds
           p0 == Start
           gone == NamesOf(SubSeq(src_files, src_pos, Len(src_files)))
           all == cmds \o UnlinkCommands(pe.dir, gone)
<1>6. patch' = [patch EXCEPT !.cmds = all]
  BY DEF LastUnlinks
<1>7. /\ gone = NamesOf(SubSeq(src_files, w[Len(ref_files)].pos, Len(src_files)))
      /\ w = DryWalk(src_files, ref_files)
      /\ ChainTo(src_files, ref_files, w, cmds, p0, pe) /\ Len(cmds) = Ord(w, Len(ref_files))
  BY <1>4, <1>5 DEF Walked
<1> HIDE DEF w, cmds, p0, gone
<1>8. /\ ChainTo(src_files, ref_files, w, cmds \o UnlinkCommands(pe.dir, gone), p0, Onto(pe, gone))
      /\ Len(cmds \o UnlinkCommands(pe.dir, gone)) = Len(ref_files) + DryRun(src_files, ref_files)
  <2>1. src \in Trees /\ ver \in Trees /\ Listed(src_files, src) /\ Listed(ref_files, ver) /\ pe \in Coders
    BY <1>4
  <2> QED BY <1>7, <2>1, TailChain
<1>9. patch.count = Len(ref_files) + DryRun(src_files, ref_files)
  BY <1>1 DEF IInv, Headed, Writes
<1>10. ChainTo(src_files, ref_files, w, all, p0, Onto(pe, gone)) /\ Len(all) = patch.count
  BY <1>8, <1>9
<1> HIDE DEF all
<1>11. patch'.cmds = all /\ DOMAIN patch' = DOMAIN patch
  BY <1>4, <1>6
<1>12. /\ patch'.src = patch.src /\ patch'.ref = patch.ref /\ patch'.delta = patch.delta /\ patch'.ugm = patch.ugm
       /\ patch'.count = patch.count
  <2>1. DOMAIN patch = {"src", "ref", "delta", "ugm", "count", "cmds"}
    BY <1>1 DEF IInv, Headed, Writes
  <2> QED BY <1>6, <2>1
<1>13. Lists'
  BY <1>1, <1>2 DEF IInv, Lists, Writes, inputs, reader
<1>14. Headed'
  BY <1>1, <1>2, <1>3, <1>11, <1>12 DEF IInv, Headed, Writes
<1>15. Placed'
  BY <1>1, <1>2, <1>5, <1>10, <1>11, <1>12 DEF Placed
<1>16. Chained'
  <2>1. IsSeq(all)
    BY <1>10 DEF ChainTo
  <2>2. PICK P : Traced(src_files, ref_files, w, all, P, p0)
    BY <1>10 DEF ChainTo
  <2>3. Traced(src_files, ref_files, Walked, patch.cmds, P, Start)'
    BY <1>2, <1>3, <1>11, <2>2 DEF Traced, w, p0
  <2> QED BY <1>1, <1>11, <2>1, <2>3 DEF Chained
<1>17. Moved' /\ Stands(target, Paths)'
  BY <1>1, <1>2 DEF IInv, Moved, Stands, Paths, inputs, reader
<1>18. Bounds'
  <2>1. patch'.count = patch.count /\ 0 <= patch.count /\ Len(patch'.cmds) = patch.count
    BY <1>1, <1>10, <1>11, <1>12 DEF IInv, Bounds
  <2>2. done' = 0 /\ file_pos' = 0 /\ final_paths' = << >>
    BY <1>1, <1>2 DEF reader
  <2> QED BY <2>1, <2>2 DEF Bounds
<1>19. OnDisk'
  <2>1. unflushed' = 0 /\ unflushed \in 0..Len(patch.delta) /\ unflushed' = unflushed
    BY <1>1, <1>2 DEF IInv, OnDisk, reader
  <2> DEFINE n == Len(patch'.cmds)
  <2>2. n \in Nat
    BY <1>10, <1>11 DEF ChainTo, IsSeq
  <2>3. kept' = n \/ kept' \in NoHeader..(n - 1)
    OBVIOUS
  <2> HIDE DEF n
  <2>4. kept' \in NoHeader..n
    BY <2>2, <2>3 DEF NoHeader
  <2> QED BY <1>1, <1>12, <2>1, <2>4 DEF OnDisk, n
<1> QED BY <1>13, <1>14, <1>15, <1>16, <1>17, <1>18, <1>19 DEF IInv

-----------------------------------------------------------------------------
(* The steps of the reader *)

\* The reader stops: what is written and what stands in the target stay.
LEMMA StopStep ==
  ASSUME IInv, UNCHANGED <<inputs, writer, unflushed, target, final_paths, file_pos, done>>,
         pc \in {"read", "apply", "cleanup"}, pc' \in {"cleanup", "done", "crashed"}
  PROVE  IInv'
<1>1. UNCHANGED <<src, ver, src_files, ref_files, src_pos, ref_pos, patch, Olds, News, Walked, Start>>
  BY DEF inputs, writer, Olds, News, Walked, Start
<1>2. Writes /\ Writes' /\ pc' # "encode" /\ pc' # "apply" /\ pc' # "list"
  BY DEF Writes
<1>3. Lists'
  BY <1>1, <1>2 DEF IInv, Lists, Writes
<1>4. Headed' /\ Placed'
  <2>1. Headed'
    BY <1>1, <1>2 DEF IInv, Headed
  <2>2. Placed'
    BY <1>1, <1>2 DEF IInv, Placed
  <2> QED BY <2>1, <2>2
<1>5. Chained'
  <2>1. IsSeq(patch.cmds) /\ \E P : Traced(src_files, ref_files, Walked, patch.cmds, P, Start)
    BY <1>2 DEF IInv, Chained
  <2>2. PICK P : Traced(src_files, ref_files, Walked, patch.cmds, P, Start)
    BY <2>1
  <2>3. Traced(src_files, ref_files, Walked, patch.cmds, P, Start)'
    BY <1>1, <2>2 DEF Traced
  <2> QED BY <1>1, <1>2, <2>1, <2>3 DEF Chained
<1>6. Moved' /\ Bounds' /\ Stands(target, Paths)'
  BY <1>1, <1>2 DEF IInv, Moved, Bounds, Stands, Paths
<1>7. OnDisk'
  BY <1>1 DEF IInv, OnDisk, writer
<1> QED BY <1>3, <1>4, <1>5, <1>6, <1>7 DEF IInv

\* The manifests are read.
LEMMA ReadHeaderStep ==
  ASSUME IInv, ReadHeader
  PROVE  IInv'
<1>1. pc = "read" /\ pc' = "apply" /\ pe = NewEncoder /\ done = 0 /\ file_pos = 0
  BY DEF IInv, Lists, ReadHeader
<1>2. UNCHANGED <<inputs, writer, target, file_pos, done>>
  BY DEF ReadHeader
<1>3. UNCHANGED <<src, ver, src_files, ref_files, src_pos, ref_pos, patch, Olds, News, Walked, Start>>
  BY <1>2 DEF inputs, writer, Olds, News, Walked, Start
<1>4. Writes /\ Writes'
  BY <1>1 DEF Writes
<1>5. /\ Listed(src_files, src) /\ Listed(ref_files, ver) /\ src \in Trees /\ ver \in Trees
      /\ IsWalk(src_files, ref_files, Walked) /\ Len(src_files) \in Nat /\ Len(ref_files) \in Nat
  BY <1>1, ListFacts DEF IInv, Lists
<1>6. Olds \in Seq(FNames) /\ News \in Seq(FNames) /\ << >> \in Strs
  BY <1>5, FilesListed DEF Olds, News, Strs
<1>7. LastDir(<<>>, Olds) \in Strs
  BY <1>6, LastDirType
<1>8. DecodePaths(pe.dir, patch.src) = Olds
  <2>1. pe.dir = << >> /\ patch.src = EncodePaths(<<>>, Olds)
    BY <1>1, <1>4 DEF IInv, Headed, NewEncoder
  <2> QED BY <1>6, <2>1, NamesBack
<1>9. pe.dir = << >> /\ pe.time = 0
  BY <1>1 DEF NewEncoder
<1>10. DecodePaths(LastDir(pe.dir, Olds), patch.ref) = News
  <2> DEFINE d == LastDir(<<>>, Olds)
  <2>1. patch.ref = EncodePaths(d, News) /\ d \in Strs
    BY <1>4, <1>7 DEF IInv, Headed
  <2> HIDE DEF d
  <2>2. DecodePaths(d, EncodePaths(d, News)) = News
    BY <1>6, <2>1, NamesBack
  <2> QED BY <1>9, <2>1, <2>2 DEF d
<1>11. /\ pe' = [pe EXCEPT !.dir = LastDir(LastDir(<<>>, Olds), News)]
       /\ final_paths' = [i \in DOMAIN News |-> News[i].path]
  BY <1>8, <1>9, <1>10 DEF ReadHeader
<1>12. pe' = Start
  BY <1>1, <1>11 DEF Start, NewEncoder
<1>13. Lists'
  BY <1>1, <1>3, <1>4 DEF IInv, Lists, Writes
<1>14. Headed'
  BY <1>3, <1>4 DEF IInv, Headed
<1>15. Placed'
  BY <1>1, <1>3, <1>4 DEF IInv, Placed
<1>16. Chained'
  <2>1. IsSeq(patch.cmds) /\ \E P : Traced(src_files, ref_files, Walked, patch.cmds, P, Start)
    BY <1>4 DEF IInv, Chained
  <2>2. PICK P : Traced(src_files, ref_files, Walked, patch.cmds, P, Start)
    BY <2>1
  <2>3. Traced(src_files, ref_files, Walked, patch.cmds, P, Start)'
    BY <1>3, <2>2 DEF Traced
  <2>4. pe' = P[done']
    BY <1>1, <1>2, <1>12, <2>2 DEF Traced
  <2> QED BY <1>1, <1>3, <2>1, <2>3, <2>4 DEF Chained
<1>17. Moved'
  <2>1. 0 \in 0..Len(ref_files) /\ (0 < Len(ref_files) => 0 + 1 \in 0..Len(ref_files) /\ 0 < 0 + 1)
    BY <1>5
  <2>2. Ord(Walked, 0) = 0
    BY <1>5 DEF IsWalk, Ord
  <2>3. 0 < Len(ref_files) => 0 < Ord(Walked, 0 + 1)
    <3> SUFFICES ASSUME 0 < Len(ref_files)
                 PROVE  0 < Ord(Walked, 0 + 1)
      OBVIOUS
    <3>1. Ord(Walked, 0) < Ord(Walked, 0 + 1)
      BY <1>5, <2>1, Ascending
    <3> QED BY <2>2, <3>1
  <2>4. Among(ref_files, Walked, 0, 0)
    BY <2>1, <2>2, <2>3 DEF Among
  <2>5. FileCount(ref_files, 0) = 0
    BY Counting
  <2>6. Among(ref_files, Walked, 0, done)' /\ file_pos' = FileCount(ref_files, 0)'
    BY <1>1, <1>2, <1>3, <2>4, <2>5 DEF Among, FileCount
  <2> QED BY <1>3, <1>11, <2>6 DEF Moved
<1>18. Bounds'
  <2>1. Len(final_paths') \in Nat
    <3>1. DOMAIN News = 1..Len(News) /\ Len(News) \in Nat
      BY <1>6
    <3> DEFINE n == Len(News)
               q(i) == News[i].path
    <3>2. final_paths' = [i \in 1..n |-> q(i)] /\ n \in Nat
      BY <1>11, <3>1
    <3> HIDE DEF n, q
    <3> QED BY <3>2
  <2> QED BY <1>1, <1>2, <1>3, <2>1 DEF IInv, Bounds
<1>19. Stands(target, Paths)'
  BY <1>2, <1>3 DEF IInv, Stands, Paths
<1>20. OnDisk'
  <2>1. kept' = kept /\ unflushed' \in 0..Len(patch.delta)
    BY <1>2 DEF ReadHeader, writer
  <2> QED BY <1>1, <1>3, <2>1 DEF IInv, OnDisk
<1> QED BY <1>13, <1>14, <1>15, <1>16, <1>17, <1>18, <1>19, <1>20 DEF IInv

-----------------------------------------------------------------------------
(* Commands executed *)

\* The command is that of the next entry.
EntryNext(P, m) ==
  /\ m \in 0..(Len(ref_files) - 1) /\ Among(ref_files, Walked, m + 1, done + 1)
  /\ OfEntry(ref_files, Walked, m + 1, done + 1, Cmd, pe, P[done + 1])
  /\ IsRead(ref_files[m + 1]) /\ ref_files[m + 1] \in Entries(ver)

\* The command unlinks what only the old tree has.
GoneNext(P, m) ==
  /\ Cmd.cmd = "UNLINK" /\ Among(ref_files, Walked, m, done + 1)
  /\ \E f \in Names(src) \ Names(ver) : Read = <<f>> /\ P[done + 1] = [dir |-> DirsOf(f), time |-> pe.time]

\* It is one or the other.
LEMMA NextCases ==
  ASSUME IInv, pc = "apply", done < Len(patch.cmds)
  PROVE  \E P, m : AtTurn(P, m) /\ (EntryNext(P, m) \/ GoneNext(P, m))
<1>1. PICK P, m : AtTurn(P, m)
  BY NextRead
<1>2. Reads(src, ver, ref_files, Walked, m, done, Cmd, pe, P[done + 1])
  BY <1>1 DEF AtTurn
<1>3. Len(ref_files) \in Nat /\ m \in 0..Len(ref_files)
  BY <1>1, ListFacts DEF IInv, AtTurn, Among
<1>4. Read = DecodePaths(pe.dir, Cmd.paths)
  BY DEF Read
<1> DEFINE q == P[done + 1]
<1> HIDE DEF q
<1>5. ASSUME m < Len(ref_files), OfEntry(ref_files, Walked, m + 1, done + 1, Cmd, pe, q),
             DecodePaths(pe.dir, Cmd.paths) = EntryNames(ref_files[m + 1]),
             Among(ref_files, Walked, m + 1, done + 1)
      PROVE  EntryNext(P, m)
  <2>1. m \in 0..(Len(ref_files) - 1) /\ m + 1 \in 1..Len(ref_files)
    BY <1>3, <1>5
  <2>2. IsRead(ref_files[m + 1]) /\ ref_files[m + 1] \in Entries(ver)
    BY <1>1, <1>4, <1>5, <2>1, EntryRead DEF q
  <2> QED BY <1>5, <2>1, <2>2 DEF EntryNext, q
<1>6. ASSUME Cmd.cmd = "UNLINK", Among(ref_files, Walked, m, done + 1),
             \E f \in Names(src) \ Names(ver) : /\ DecodePaths(pe.dir, Cmd.paths) = <<f>>
                                                /\ q = [dir |-> DirsOf(f), time |-> pe.time]
      PROVE  GoneNext(P, m)
  BY <1>4, <1>6 DEF GoneNext, q
<1>7. EntryNext(P, m) \/ GoneNext(P, m)
  BY <1>2, <1>5, <1>6 DEF Reads, q
<1> QED BY <1>1, <1>7

\* The kind of a command says what the entry is.
LEMMA KindRead ==
  ASSUME IInv, NEW e \in Entries(ver), IsRead(e)
  PROVE  /\ Cmd.cmd # "UNLINK"
         /\ Cmd.cmd = "HARDLINK" <=> IsLink(e)
         /\ Cmd.cmd = "reg" <=> IsFile(e)
         /\ Cmd.cmd = "sym" => Cmd.data = e.link_target
<1>1. e.st.type \in {"reg", "dir", "sym", "fifo", "sock", "dev"}
  BY EntryFacts DEF IInv, Lists
<1> QED BY <1>1 DEF IsRead, IsLink, IsFile

\* The reader after a command.
LEMMA ExecuteStep ==
  ASSUME IInv, pc = "apply", done < patch.count, done < Len(patch.cmds),
         NEW timed \in BOOLEAN, timed <=> Cmd.cmd \notin {"HARDLINK", "UNLINK"},
         pe' = [dir |-> LastDir(pe.dir, Read), time |-> IF timed THEN Mtime ELSE pe.time],
         done' = done + 1, file_pos' = file_pos + (IF Cmd.cmd = "reg" THEN 1 ELSE 0),
         UNCHANGED <<inputs, writer, unflushed, final_paths>>, pc' \in {"apply", "cleanup"},
         Stands(target', Paths)
  PROVE  IInv'
<1>1. UNCHANGED <<src, ver, src_files, ref_files, src_pos, ref_pos, patch, Olds, News, Walked, Start>>
  BY DEF inputs, writer, Olds, News, Walked, Start
<1>2. Writes /\ Writes' /\ pc' # "encode"
  BY DEF Writes
<1>3. PICK P, m : AtTurn(P, m) /\ (EntryNext(P, m) \/ GoneNext(P, m))
  BY NextCases
<1>4. pe' = P[done + 1]
  <2>1. CASE EntryNext(P, m)
    <3> DEFINE e == ref_files[m + 1]
    <3>1. P[done + 1] = Behind(pe, e) /\ IsRead(e) /\ e \in Entries(ver)
      BY <2>1 DEF EntryNext, OfEntry
    <3> HIDE DEF e
    <3>2. timed <=> ~ IsLink(e)
      BY <3>1, KindRead
    <3>3. Read = EntryNames(e) /\ (~ IsLink(e) => Mtime = e.st.mtime)
      BY <3>1 DEF IsRead
    <3> QED BY <3>1, <3>2, <3>3 DEF Behind
  <2>2. CASE GoneNext(P, m)
    <3>1. PICK f \in Names(src) \ Names(ver) : Read = <<f>> /\ P[done + 1] = [dir |-> DirsOf(f), time |-> pe.time]
      BY <2>2 DEF GoneNext
    <3>2. ~ timed
      BY <2>2 DEF GoneNext
    <3>3. f \in FNames
      BY <3>1, NamesOfTree DEF IInv, Lists
    <3>4. LastDir(pe.dir, <<f>>) = DirsOf(f)
      BY <1>3, <3>3, OneName DEF AtTurn, Coders
    <3> QED BY <3>1, <3>2, <3>4
  <2> QED BY <1>3, <2>1, <2>2
<1>5. \E i : /\ Among(ref_files, Walked, i, done + 1) /\ file_pos' = FileCount(ref_files, i)
             /\ file_pos' \in 0..Len(final_paths)
  <2>1. CASE EntryNext(P, m)
    <3> DEFINE e == ref_files[m + 1]
    <3>1. /\ m \in 0..(Len(ref_files) - 1) /\ file_pos = FileCount(ref_files, m)
          /\ IsRead(e) /\ e \in Entries(ver) /\ Among(ref_files, Walked, m + 1, done + 1)
      BY <1>3, <2>1 DEF EntryNext, AtTurn
    <3>2. /\ FileCount(ref_files, m + 1) = file_pos + (IF IsFile(e) THEN 1 ELSE 0)
          /\ FileCount(ref_files, m + 1) \in 0..Len(final_paths)
      BY <3>1, FileRead
    <3> HIDE DEF e
    <3>3. Cmd.cmd = "reg" <=> IsFile(e)
      BY <3>1, KindRead
    <3>4. file_pos' = FileCount(ref_files, m + 1)
      BY <3>2, <3>3
    <3> QED BY <3>1, <3>2, <3>4
  <2>2. CASE GoneNext(P, m)
    <3>1. Among(ref_files, Walked, m, done + 1) /\ Cmd.cmd # "reg"
      BY <2>2 DEF GoneNext
    <3>2. file_pos \in 0..Len(final_paths) /\ file_pos \in Int
      <4> DEFINE n == Len(final_paths)
      <4>1. file_pos \in 0..n
        BY DEF IInv, Bounds
      <4> HIDE DEF n
      <4> QED BY <4>1 DEF n
    <3>3. file_pos' = file_pos
      BY <3>1, <3>2
    <3> QED BY <1>3, <3>1, <3>2, <3>3 DEF AtTurn
  <2> QED BY <1>3, <2>1, <2>2
<1>6. PICK i : /\ Among(ref_files, Walked, i, done + 1) /\ file_pos' = FileCount(ref_files, i)
               /\ file_pos' \in 0..Len(final_paths)
  BY <1>5
<1>7. Lists'
  BY <1>1, <1>2 DEF IInv, Lists, Writes
<1>8. Headed'
  BY <1>1, <1>2 DEF IInv, Headed
<1>9. Placed'
  BY <1>1, <1>2 DEF IInv, Placed
<1>10. Chained'
  <2>1. Traced(src_files, ref_files, Walked, patch.cmds, P, Start)'
    BY <1>1, <1>3 DEF AtTurn, Traced
  <2>2. IsSeq(patch.cmds)'
    BY <1>1, <1>2 DEF IInv, Chained
  <2>3. pe' = P[done']
    BY <1>4
  <2> QED BY <1>2, <2>1, <2>2, <2>3 DEF Chained
<1>11. Moved'
  <2>1. Among(ref_files, Walked, i, done)' /\ file_pos' = FileCount(ref_files, i)'
    BY <1>1, <1>6 DEF Among, FileCount
  <2> QED BY <1>1, <2>1 DEF IInv, Moved
<1>12. Bounds'
  <2>1. done \in Nat /\ patch.count \in Nat /\ Len(patch.cmds) \in Nat
    <3>1. Len(src_files) \in Nat /\ Len(ref_files) \in Nat /\ 0 \in 0..Len(ref_files)
      BY ListFacts DEF IInv
    <3>2. patch.count \in Nat
      BY <1>2, <3>1, CountOfWalk DEF IInv, Headed
    <3> QED BY <1>2, <3>2 DEF IInv, Bounds, Chained, IsSeq
  <2>2. done' \in Nat /\ done' <= patch.count /\ done' <= Len(patch.cmds)
    <3> DEFINE a == patch.count
               b == Len(patch.cmds)
    <3> HIDE DEF a, b
    <3>1. done < a /\ done < b /\ a \in Nat /\ b \in Nat
      BY <2>1 DEF a, b
    <3>2. done' \in Nat /\ done' <= a /\ done' <= b
      BY <2>1, <3>1
    <3> QED BY <3>2 DEF a, b
  <2> QED BY <1>1, <1>6, <2>2 DEF Bounds
<1>13. Stands(target, Paths)'
  BY <1>1 DEF Stands, Paths
<1>14. OnDisk'
  BY <1>1 DEF IInv, OnDisk, writer
<1> QED BY <1>7, <1>8, <1>9, <1>10, <1>11, <1>12, <1>13, <1>14 DEF IInv

\* What a command does when what it comes to stands in directories.
LEMMA Executed ==
  ASSUME IInv, NEW cmds, NEW r, NEW timed \in BOOLEAN, Execute(cmds, r, timed),
         timed <=> Cmd.cmd \notin {"HARDLINK", "UNLINK"},
         file_pos' = file_pos + (IF Cmd.cmd = "reg" THEN 1 ELSE 0), Stands(r.fs, Paths)
  PROVE  IInv'
<1>1. /\ pc = "apply" /\ done < patch.count /\ done < Len(patch.cmds) /\ target' = r.fs
      /\ pe' = [dir |-> LastDir(pe.dir, Read), time |-> IF timed THEN Mtime ELSE pe.time]
      /\ done' = done + 1 /\ UNCHANGED <<inputs, writer, unflushed, final_paths>>
  BY KeptRead DEF Execute
<1>2. pc' \in {"apply", "cleanup"}
  BY <1>1 DEF Execute, Leave
<1> QED BY <1>1, <1>2, ExecuteStep

\* The position in the manifest is a number.
LEMMA FilePos ==
  ASSUME IInv
  PROVE  file_pos \in Int /\ file_pos + 0 = file_pos
<1> DEFINE n == Len(final_paths)
<1>1. file_pos \in 0..n
  BY DEF IInv, Bounds
<1> HIDE DEF n
<1> QED BY <1>1

\* The names of a command are in the patch.
LEMMA NamesRead ==
  ASSUME IInv, NEW e \in Entries(ver), IsRead(e), ~ IsFile(e)
  PROVE  Read[1].path \in Strs /\ (IsLink(e) => Read[2].path \in Strs)
<1>1. e.name.path \in Strs /\ e.link_target \in Strs
  BY EntryFacts DEF IInv, Lists, FNames
<1>2. CASE IsLink(e)
  <2>1. Read = <<e.name, [path |-> e.link_target, slash |-> FALSE]>>
    BY <1>2 DEF IsRead, EntryNames
  <2>2. Read[1] = e.name /\ Read[2] = [path |-> e.link_target, slash |-> FALSE]
    BY <2>1
  <2> QED BY <1>1, <2>2
<1>3. CASE ~ IsLink(e)
  <2>1. Read = <<e.name>>
    BY <1>3 DEF IsRead, EntryNames
  <2>2. Read[1] = e.name
    BY <2>1
  <2> QED BY <1>1, <1>3, <2>2
<1> QED BY <1>2, <1>3

\* A command other than an unlink is that of an entry.
LEMMA EntryNextOf ==
  ASSUME IInv, pc = "apply", done < Len(patch.cmds), Cmd.cmd # "UNLINK"
  PROVE  \E e \in Entries(ver) : /\ IsRead(e)
                                 /\ IsFile(e) => final_paths[file_pos + 1] = e.name.path
<1>1. PICK P, m : AtTurn(P, m) /\ EntryNext(P, m)
  BY NextCases DEF GoneNext
<1>2. /\ m \in 0..(Len(ref_files) - 1) /\ file_pos = FileCount(ref_files, m)
      /\ IsRead(ref_files[m + 1]) /\ ref_files[m + 1] \in Entries(ver)
  BY <1>1 DEF EntryNext, AtTurn
<1>3. IsFile(ref_files[m + 1]) => final_paths[file_pos + 1] = ref_files[m + 1].name.path
  BY <1>2, FileRead
<1> QED BY <1>2, <1>3

\* A file is moved in place.
LEMMA ApplyRegStep ==
  ASSUME IInv, ApplyReg
  PROVE  IInv'
<1> DEFINE p == final_paths[file_pos + 1]
           node == New("reg", p, Content(file_pos + 1))
           r == EnforceMove(target, p, node)
<1>1. Execute({"reg"}, r, TRUE) /\ file_pos' = file_pos + 1
  BY DEF ApplyReg
<1>2. node.type = "reg"
  BY DEF New, Node
<1>3. pc = "apply" /\ done < Len(patch.cmds) /\ Cmd.cmd = "reg"
  BY <1>1, KeptRead DEF Execute
<1>4. PICK e \in Entries(ver) : IsRead(e) /\ (IsFile(e) => final_paths[file_pos + 1] = e.name.path)
  BY <1>3, EntryNextOf
<1>5. p \in Strs
  BY <1>3, <1>4, KindRead, EntryFacts DEF IInv, Lists, FNames
<1>6. Paths \in SUBSET Strs /\ Stands(target, Paths)
  BY ListFacts DEF IInv
<1> HIDE DEF p, node
<1>7. Stands(r.fs, Paths)
  <2>1. Stands(Rename(target, node, p).fs, Paths)
    BY <1>2, <1>5, <1>6, RenameStands
  <2>2. Stands(Result(target, "EXDEV").fs, Paths)
    BY <1>6 DEF Result
  <2> QED BY <2>1, <2>2 DEF EnforceMove
<1> HIDE DEF r
<1> QED BY <1>1, <1>3, <1>7, Executed

\* A hard link is made.
LEMMA ApplyHardlinkStep ==
  ASSUME IInv, ApplyHardlink
  PROVE  IInv'
<1> DEFINE r == EnforceHardlink(target, Read[1].path, Read[2].path)
<1>1. Execute({"HARDLINK"}, r, FALSE) /\ file_pos' = file_pos
  BY DEF ApplyHardlink
<1>2. pc = "apply" /\ done < Len(patch.cmds) /\ Cmd.cmd = "HARDLINK"
  BY <1>1, KeptRead DEF Execute
<1>3. PICK e \in Entries(ver) : IsRead(e)
  BY <1>2, EntryNextOf
<1>4. Read[1].path \in Strs /\ Read[2].path \in Strs
  BY <1>2, <1>3, KindRead, NamesRead
<1>5. Paths \in SUBSET Strs /\ Stands(target, Paths)
  BY ListFacts DEF IInv
<1>6. Stands(r.fs, Paths)
  BY <1>4, <1>5, EnforceHardlinkStands
<1> HIDE DEF r
<1> QED BY <1>1, <1>2, <1>6, Executed, FilePos

\* A directory is made.
LEMMA ApplyDirStep ==
  ASSUME IInv, ApplyDir
  PROVE  IInv'
<1> DEFINE node == New("dir", Read[1].path, <<>>)
           r == EnforceDirectory(target, Read[1].path, node)
<1>1. Execute({"dir"}, r, TRUE) /\ file_pos' = file_pos
  BY DEF ApplyDir
<1>2. pc = "apply" /\ done < Len(patch.cmds) /\ Cmd.cmd = "dir"
  BY <1>1, KeptRead DEF Execute
<1>3. PICK e \in Entries(ver) : IsRead(e)
  BY <1>2, EntryNextOf
<1>4. Read[1].path \in Strs
  BY <1>2, <1>3, KindRead, NamesRead
<1>5. Paths \in SUBSET Strs /\ Stands(target, Paths)
  BY ListFacts DEF IInv
<1>6. node.type = "dir"
  BY DEF New, Node
<1> HIDE DEF node
<1>7. Stands(r.fs, Paths)
  BY <1>4, <1>5, <1>6, EnforceDirectoryStands
<1> HIDE DEF r
<1> QED BY <1>1, <1>2, <1>7, Executed, FilePos

\* A symlink, a pipe, a socket or a device is made.
LEMMA ApplyNodeStep ==
  ASSUME IInv, ApplyNode
  PROVE  IInv'
<1> DEFINE node == New(Cmd.cmd, Read[1].path, Cmd.data)
           r == EnforceNode(target, Read[1].path, node)
<1>1. Execute({"sym", "fifo", "sock", "dev"}, r, TRUE) /\ file_pos' = file_pos
  BY DEF ApplyNode
<1>2. pc = "apply" /\ done < Len(patch.cmds) /\ Cmd.cmd \in {"sym", "fifo", "sock", "dev"}
  BY <1>1, KeptRead DEF Execute
<1>3. PICK e \in Entries(ver) : IsRead(e)
  BY <1>2, EntryNextOf
<1>4. Read[1].path \in Strs
  BY <1>2, <1>3, KindRead, NamesRead
<1>5. Paths \in SUBSET Strs /\ Stands(target, Paths)
  BY ListFacts DEF IInv
<1>6. node.type = "sym" => node.data \in Strs
  <2>1. e.link_target \in Strs
    BY EntryFacts DEF IInv, Lists
  <2>2. node.type = Cmd.cmd /\ node.data = Cmd.data
    BY DEF New, Node
  <2> QED BY <1>3, <2>1, <2>2, KindRead
<1> HIDE DEF node
<1>7. Stands(r.fs, Paths)
  BY <1>4, <1>5, <1>6, EnforceNodeStands
<1> HIDE DEF r
<1> QED BY <1>1, <1>2, <1>7, Executed, FilePos

\* What only the old tree has is unlinked.
LEMMA ApplyUnlinkStep ==
  ASSUME IInv, ApplyUnlink
  PROVE  IInv'
<1> DEFINE r == EnforceUnlink(target, Read[1])
<1>1. Execute({"UNLINK"}, r, FALSE) /\ file_pos' = file_pos
  BY DEF ApplyUnlink
<1>2. pc = "apply" /\ done < Len(patch.cmds) /\ Cmd.cmd = "UNLINK"
  BY <1>1, KeptRead DEF Execute
<1>3. PICK P, m : AtTurn(P, m) /\ GoneNext(P, m)
  BY <1>2, NextCases, KindRead DEF EntryNext
<1>4. PICK f \in Names(src) : Read = <<f>>
  BY <1>3 DEF GoneNext
<1>5. Read[1].path \in Strs
  <2>1. f.path \in Strs
    BY NamesOfTree DEF IInv, Lists, FNames
  <2> QED BY <1>4, <2>1
<1>6. Paths \in SUBSET Strs /\ Stands(target, Paths)
  BY ListFacts DEF IInv
<1>7. Stands(r.fs, Paths)
  BY <1>5, <1>6, EnforceUnlinkStands
<1> HIDE DEF r
<1> QED BY <1>1, <1>2, <1>7, Executed, FilePos

-----------------------------------------------------------------------------
(* Theorems *)

\* Every step preserves the invariant.
LEMMA NextInv ==
  ASSUME IInv, [Next]_vars
  PROVE  IInv'
<1>1. CASE List
  BY <1>1, ListStep
<1>2. CASE WriteHeader
  BY <1>2, WriteHeaderStep
<1>3. CASE EncodeNext
  BY <1>3, EncodeNextStep
<1>4. CASE EncodeTail
  BY <1>4, LastUnlinksStep DEF EncodeTail
<1>5. CASE WriteFails
  BY <1>5, LastUnlinksStep DEF WriteFails
<1>6. CASE ReadHeader
  BY <1>6, ReadHeaderStep
<1>7. CASE SourceDiffers
  BY <1>7, StopStep DEF SourceDiffers, Returns
<1>8. CASE NoTempDir
  BY <1>8, StopStep DEF NoTempDir, Returns, Crashes, reader
<1>9. CASE RebuildFails
  BY <1>9, StopStep DEF RebuildFails, Leave
<1>10. CASE ApplyReg
  BY <1>10, ApplyRegStep
<1>11. CASE ApplyHardlink
  BY <1>11, ApplyHardlinkStep
<1>12. CASE ApplyDir
  BY <1>12, ApplyDirStep
<1>13. CASE ApplyNode
  BY <1>13, ApplyNodeStep
<1>14. CASE ApplyUnlink
  BY <1>14, ApplyUnlinkStep
<1>15. CASE EndChain
  BY <1>15, StopStep DEF EndChain, Leave
<1>16. CASE Cleanup
  BY <1>16, StopStep DEF Cleanup
<1>18. CASE HeaderCut
  BY <1>18, StopStep DEF HeaderCut, Returns, Crashes, reader
<1>19. CASE NameCut
  BY <1>19, StopStep DEF NameCut, Crashes, reader
<1>17. CASE UNCHANGED vars
  <2>1. UNCHANGED <<inputs, pc, writer, pe, unflushed, target, final_paths, file_pos, done>>
    BY <1>17 DEF vars, reader
  <2>2. UNCHANGED <<src, ver, src_files, ref_files, src_pos, ref_pos, patch, Olds, News, Walked, Start, Paths, Writes>>
    BY <2>1 DEF inputs, writer, Olds, News, Walked, Start, Paths, Writes
  <2>3. Lists'
    BY <2>1, <2>2 DEF IInv, Lists
  <2>4. Headed'
    BY <2>1, <2>2 DEF IInv, Headed
  <2>5. Placed'
    BY <2>1, <2>2 DEF IInv, Placed
  <2>6. Chained'
    BY <2>1, <2>2 DEF IInv, Chained, Traced
  <2>7. Moved' /\ Bounds' /\ Stands(target, Paths)'
    BY <2>1, <2>2 DEF IInv, Moved, Bounds, Stands, Among, FileCount
  <2>8. OnDisk'
    BY <2>1, <2>2 DEF IInv, OnDisk, writer
  <2> QED BY <2>3, <2>4, <2>5, <2>6, <2>7, <2>8 DEF IInv
<1> QED BY <1>1, <1>2, <1>3, <1>4, <1>5, <1>6, <1>7, <1>8, <1>9, <1>10, <1>11, <1>12, <1>13, <1>14,
           <1>15, <1>16, <1>17, <1>18, <1>19 DEF Next

\* Whatever the trees, the chain that is written, and read, is that of the
\* walk through the two listings.
THEOREM Invariance == Spec => []IInv
<1>1. Init => IInv
  BY InitInv
<1>2. IInv /\ [Next]_vars => IInv'
  BY NextInv
<1> QED BY <1>1, <1>2, PTL DEF Spec

\* The type invariant follows.
LEMMA TypesHold ==
  ASSUME IInv
  PROVE  TypeOK
<1>1. /\ pc \in {"list", "header", "encode", "read", "apply", "cleanup", "done", "crashed"}
      /\ kept \in NoHeader..Len(patch.cmds) /\ unflushed \in 0..Len(patch.delta)
  BY DEF IInv, Lists, OnDisk
<1>2. Len(src_files) \in Nat /\ Len(ref_files) \in Nat
  BY ListFacts DEF IInv
<1>3. CASE ~ Writes
  <2>1. patch = NoPatch /\ src_pos = 1 /\ ref_pos = 1
    BY <1>3 DEF IInv, Lists
  <2>2. Len(patch.cmds) <= patch.count
    <3>1. patch.cmds = << >> /\ patch.count = 0
      BY <2>1 DEF NoPatch
    <3> QED BY <3>1
  <2>3. src_pos \in 1..(Len(src_files) + 1) /\ ref_pos \in 1..(Len(ref_files) + 1)
    BY <1>2, <2>1
  <2>4. \A p \in Paths : Present(target, p) /\ Front(p) # <<>> => Is(target, Front(p), "dir")
    BY DEF IInv, Stands
  <2> QED BY <1>1, <2>2, <2>3, <2>4 DEF TypeOK, IInv, Bounds
<1>4. CASE Writes
  <2>1. patch.count = Len(ref_files) + DryRun(src_files, ref_files)
    BY <1>4 DEF IInv, Headed
  <2>2. patch.count \in Nat
    <3>1. 0 \in 0..Len(ref_files)
      BY <1>2
    <3> QED BY <1>2, <2>1, <3>1, CountOfWalk
  <2>3. ASSUME ref_pos \in 1..(Len(ref_files) + 1), src_pos = Walked[ref_pos - 1].pos,
               Len(patch.cmds) = Ord(Walked, ref_pos - 1)
        PROVE  src_pos \in 1..(Len(src_files) + 1) /\ Len(patch.cmds) <= patch.count
    <3> DEFINE i == ref_pos - 1
    <3>1. i \in 0..Len(ref_files)
      BY <1>2, <2>3
    <3> HIDE DEF i
    <3> DEFINE w == Walked
    <3>2. w = DryWalk(src_files, ref_files)
      BY DEF Walked
    <3> HIDE DEF w
    <3>3. IsWalk(src_files, ref_files, w) /\ Ord(w, i) <= Len(ref_files) + DryRun(src_files, ref_files)
      BY <1>2, <3>1, <3>2, CountOfWalk
    <3>4. w[i].pos \in 1..(Len(src_files) + 1)
      BY <3>1, <3>3 DEF IsWalk
    <3> QED BY <2>1, <2>3, <3>3, <3>4 DEF i, w
  <2>4. /\ ref_pos \in 1..(Len(ref_files) + 1)
        /\ src_pos \in 1..(Len(src_files) + 1) /\ Len(patch.cmds) <= patch.count
    BY <1>2, <1>4, <2>2, <2>3 DEF IInv, Placed
  <2>5. \A p \in Paths : Present(target, p) /\ Front(p) # <<>> => Is(target, Front(p), "dir")
    BY DEF IInv, Stands
  <2> QED BY <1>1, <2>4, <2>5 DEF TypeOK, IInv, Bounds
<1> QED BY <1>3, <1>4

\* The variables keep their types; no more commands are written or executed
\* than announced, and what stands in the target stands in directories,
\* whatever fails.
THEOREM TypeCorrect == Spec => []TypeOK
BY Invariance, TypesHold, PTL

\* The walk that writes comes past as many entries as the one that counted.
LEMMA CountHolds ==
  ASSUME IInv
  PROVE  CountKept
BY DEF IInv, Placed, Writes, CountKept

\* The number of commands written before them is the number of commands.
THEOREM CountIsKept == Spec => []CountKept
BY Invariance, CountHolds, PTL

\* The reader is in step with the writer.
LEMMA InStepHolds ==
  ASSUME IInv
  PROVE  InStep
<1> SUFFICES ASSUME pc = "apply", done < patch.count, done < kept
             PROVE  \/ \E i \in DOMAIN ref_files :
                         LET e == ref_files[i]
                         IN  /\ done + 1 = i + DryWalk(src_files, ref_files)[i].n
                             /\ Read = EntryNames(e)
                             /\ Cmd.cmd = (IF IsLink(e) THEN "HARDLINK" ELSE e.st.type)
                             /\ ~ IsLink(e) => Ctime = e.st.ctime /\ Mtime = e.st.mtime
                             /\ IsFile(e) => /\ final_paths[file_pos + 1] = e.name.path
                                             /\ patch.delta[file_pos + 1] = e.st.data
                    \/ /\ Cmd.cmd = "UNLINK"
                       /\ \E f \in Names(src) \ Names(ver) : Read = <<f>>
  BY DEF InStep
<1>1. PICK P, m : AtTurn(P, m) /\ (EntryNext(P, m) \/ GoneNext(P, m))
  BY KeptRead, NextCases
<1>2. CASE EntryNext(P, m)
  <2>1. /\ m \in 0..(Len(ref_files) - 1) /\ file_pos = FileCount(ref_files, m)
        /\ IsRead(ref_files[m + 1]) /\ ref_files[m + 1] \in Entries(ver)
        /\ done + 1 = Ord(Walked, m + 1)
    BY <1>1, <1>2 DEF EntryNext, AtTurn, OfEntry
  <2>2. IsFile(ref_files[m + 1]) =>
          /\ final_paths[file_pos + 1] = ref_files[m + 1].name.path
          /\ patch.delta[file_pos + 1] = ref_files[m + 1].st.data
    BY <2>1, FileRead
  <2>3. m + 1 \in DOMAIN ref_files
    <3>1. Listed(ref_files, ver) /\ Len(ref_files) \in Nat
      BY ListFacts DEF IInv
    <3>2. m + 1 \in 1..Len(ref_files)
      BY <2>1, <3>1
    <3>3. DOMAIN ref_files = 1..Len(ref_files)
      BY <3>1 DEF Listed
    <3> QED BY <3>2, <3>3
  <2> QED BY <2>1, <2>2, <2>3 DEF IsRead, Ord, Walked
<1>3. CASE GoneNext(P, m)
  BY <1>3 DEF GoneNext
<1> QED BY <1>1, <1>2, <1>3

\* Each command is read as what was written: names and times relative to
\* those before, files in the order of the manifest.
THEOREM ReaderInStep == Spec => []InStep
BY Invariance, InStepHolds, PTL

-----------------------------------------------------------------------------
(* No file is lost: the order of a directory and what is in it *)

\* The characters of a part of a path, a slash behind them.
Part(c) == Append(NameKey[c], 0)

\* Those of a path.
Written(p) == IF Len(p) = 1 THEN Part(p[1]) ELSE Part(p[1]) \o Part(p[2])

\* One or two sequences as one.
LEMMA FlatTwo ==
  ASSUME NEW s, NEW a \in Seq(Int), NEW b \in Seq(Int), NEW n \in 1..2, Len(s) = n,
         s[1] = a, n = 2 => s[2] = b
  PROVE  FlattenSeq(s) = IF n = 1 THEN a ELSE a \o b
<1> DEFINE Is0(h) == h = [i \in 1..Len(s) |-> IF i = 1 THEN s[i] ELSE h[i - 1] \o s[i]]
           F == CHOOSE h : Is0(h)
           g == [i \in 1..Len(s) |-> IF i = 1 THEN a ELSE a \o b]
<1>1. FlattenSeq(s) = F[Len(s)]
  BY DEF FlattenSeq
<1>2. Is0(g)
  <2>1. \A i \in 1..Len(s) : g[i] = IF i = 1 THEN s[i] ELSE g[i - 1] \o s[i]
    <3> SUFFICES ASSUME NEW i \in 1..Len(s)
                 PROVE  g[i] = IF i = 1 THEN s[i] ELSE g[i - 1] \o s[i]
      OBVIOUS
    <3>1. CASE i = 1
      BY <3>1
    <3>2. CASE i # 1
      <4>1. i = 2 /\ n = 2 /\ i - 1 = 1
        BY <3>2
      <4>2. g[1] = a /\ g[2] = a \o b /\ s[2] = b
        BY <4>1
      <4> HIDE DEF g
      <4> QED BY <4>1, <4>2
    <3> QED BY <3>1, <3>2
  <2>2. g = [i \in 1..Len(s) |-> g[i]]
    OBVIOUS
  <2> HIDE DEF g
  <2> QED BY <2>1, <2>2
<1>3. Is0(F)
  <2> HIDE DEF Is0, g
  <2> QED BY <1>2
<1> HIDE DEF F, g
<1>4. \A i \in 1..Len(s) : F[i] = IF i = 1 THEN s[i] ELSE F[i - 1] \o s[i]
  BY <1>3
<1>9. \A i \in 1..Len(s) : i # 1 => F[i] = F[i - 1] \o s[i]
  BY <1>4
<1> HIDE DEF Is0
<1>5. n = 1 \/ n = 2
  OBVIOUS
<1>6. F[1] = a
  BY <1>4
<1>7. CASE n = 1
  BY <1>1, <1>6, <1>7
<1>8. CASE n = 2
  <2>1. 2 \in 1..Len(s) /\ 2 - 1 = 1 /\ s[2] = b
    BY <1>8
  <2>2. F[2] = F[1] \o s[2]
    <3>1. \A i \in 1..Len(s) : i = 2 => F[i] = F[i - 1] \o s[i]
      BY <1>9
    <3>2. F[2] = F[2 - 1] \o s[2]
      BY <2>1, <3>1
    <3> QED BY <2>1, <3>2
  <2>3. F[2] = a \o b
    BY <1>6, <2>1, <2>2
  <2> QED BY <1>1, <1>8, <2>3
<1> QED BY <1>5, <1>7, <1>8

\* What strcmp compares of a name.
LEMMA CharsOf ==
  ASSUME NEW p \in Strs, Len(p) \in 1..2
  PROVE  /\ Written(p) \in Seq(Int) /\ Len(Written(p)) \in Nat /\ Len(Written(p)) >= 2
         /\ Part(p[1]) \in Seq(Int) /\ Len(Part(p[1])) >= 2
         /\ Len(p) = 2 => Part(p[2]) \in Seq(Int) /\ Len(Part(p[2])) >= 2
         /\ Chars([path |-> p, slash |-> TRUE]) = Written(p)
         /\ Chars([path |-> p, slash |-> FALSE]) = Front(Written(p))
<1>1. \A c \in DOMAIN NameKey : NameKey[c] \in Seq(Int) /\ NameKey[c] # << >>
  BY OrderAssumption DEF OrderAssumption
<1>2. ASSUME NEW c \in DOMAIN NameKey
      PROVE  Part(c) \in Seq(Int) /\ Len(Part(c)) \in Nat /\ Len(Part(c)) >= 2
  <2> DEFINE k == NameKey[c]
  <2>1. k \in Seq(Int) /\ k # << >>
    BY <1>1
  <2> HIDE DEF k
  <2>2. Len(k) \in Nat /\ Len(k) # 0
    BY <2>1
  <2>3. Append(k, 0) \in Seq(Int) /\ Len(Append(k, 0)) = Len(k) + 1
    BY <2>1
  <2> QED BY <2>2, <2>3 DEF Part, k
<1>3. p[1] \in DOMAIN NameKey /\ (Len(p) = 2 => p[2] \in DOMAIN NameKey) /\ DOMAIN p = 1..Len(p)
  BY DEF Strs
<1> DEFINE a == Part(p[1])
           b == IF Len(p) = 2 THEN Part(p[2]) ELSE << >>
           s == [i \in DOMAIN p |-> Append(NameKey[p[i]], 0)]
           n == Len(p)
<1>4. a \in Seq(Int) /\ Len(a) \in Nat /\ Len(a) >= 2
  BY <1>2, <1>3
<1>5. b \in Seq(Int) /\ (n = 2 => b = Part(p[2]) /\ Len(b) \in Nat /\ Len(b) >= 2)
  <2>1. << >> \in Seq(Int)
    OBVIOUS
  <2> QED BY <1>2, <1>3, <2>1
<1>6. n \in 1..2 /\ Len(s) = n /\ s[1] = a /\ (n = 2 => s[2] = b)
  <2>1. s[1] = a /\ (n = 2 => s[2] = b)
    BY <1>3 DEF Part
  <2> DEFINE e(i) == Append(NameKey[p[i]], 0)
  <2>2. s = [i \in 1..n |-> e(i)] /\ n \in Nat
    BY <1>3
  <2> HIDE DEF e, n, s
  <2>3. Len(s) = n
    BY <2>2
  <2> QED BY <2>1, <2>3 DEF n
<1> HIDE DEF a, b, s
<1>7. FlattenSeq(s) = IF n = 1 THEN a ELSE a \o b
  <2> HIDE DEF n
  <2> QED BY <1>4, <1>5, <1>6, FlatTwo
<1>8. Written(p) = FlattenSeq(s)
  BY <1>5, <1>6, <1>7 DEF Written, a
<1>9. Chars([path |-> p, slash |-> TRUE]) = FlattenSeq(s) /\ Chars([path |-> p, slash |-> FALSE]) = Front(FlattenSeq(s))
  BY DEF Chars, s
<1>10. FlattenSeq(s) \in Seq(Int) /\ Len(FlattenSeq(s)) \in Nat /\ Len(FlattenSeq(s)) >= 2
  <2>1. CASE n = 1
    BY <1>4, <1>7, <2>1
  <2>2. CASE n # 1
    <3>1. n = 2 /\ FlattenSeq(s) = a \o b
      BY <1>6, <1>7, <2>2
    <3>2. a \o b \in Seq(Int) /\ Len(a \o b) = Len(a) + Len(b)
      BY <1>4, <1>5
    <3> QED BY <1>4, <1>5, <3>1, <3>2
  <2> QED BY <2>1, <2>2
<1> QED BY <1>4, <1>5, <1>8, <1>9, <1>10 DEF a

\* A string that another one begins with comes before it.
LEMMA BeginsWith ==
  ASSUME NEW s \in Seq(Int), NEW t \in Seq(Int), Len(s) < Len(t), \A x \in 1..Len(s) : t[x] = s[x]
  PROVE  IsStrictPrefix(s, t)
<1> DEFINE n == Len(s)
<1>1. n \in Nat /\ n \in 0..Len(s) /\ n \in 0..Len(t)
  OBVIOUS
<1>2. SubSeq(s, 1, n) \in Seq(Int) /\ Len(SubSeq(s, 1, n)) = n /\ \A x \in 1..n : SubSeq(s, 1, n)[x] = s[x]
  BY <1>1, HeadOf DEF IsHead
<1>3. SubSeq(t, 1, n) \in Seq(Int) /\ Len(SubSeq(t, 1, n)) = n /\ \A x \in 1..n : SubSeq(t, 1, n)[x] = t[x]
  BY <1>1, HeadOf DEF IsHead
<1> DEFINE u == SubSeq(s, 1, n)
           v == SubSeq(t, 1, n)
<1>4. u \in Seq(Int) /\ v \in Seq(Int) /\ Len(u) = Len(v) /\ \A x \in 1..Len(u) : u[x] = v[x]
  BY <1>2, <1>3
<1> HIDE DEF u, v
<1>5. u = v
  BY <1>4, SameSeq
<1>6. s # t
  OBVIOUS
<1> QED BY <1>5, <1>6 DEF IsStrictPrefix, IsPrefix, u, v

\* A name with a slash behind it comes after the same without.
LEMMA SlashLater ==
  ASSUME NEW p \in Strs, Len(p) \in 1..2
  PROVE  Before([path |-> p, slash |-> FALSE], [path |-> p, slash |-> TRUE])
<1> DEFINE t == Written(p)
           s == Front(t)
           n == Len(t) - 1
<1>1. /\ t \in Seq(Int) /\ Len(t) \in Nat /\ Len(t) >= 2
      /\ Chars([path |-> p, slash |-> TRUE]) = t /\ Chars([path |-> p, slash |-> FALSE]) = s
  BY CharsOf
<1> HIDE DEF t
<1>2. n \in 0..Len(t) /\ n < Len(t) /\ s = SubSeq(t, 1, n)
  BY <1>1 DEF Front
<1>3. s \in Seq(Int) /\ Len(s) = n /\ \A x \in 1..n : s[x] = t[x]
  BY <1>1, <1>2, HeadOf DEF IsHead
<1> HIDE DEF s
<1>4. IsStrictPrefix(s, t)
  BY <1>1, <1>2, <1>3, BeginsWith
<1> QED BY <1>1, <1>4 DEF Before

\* A directory comes before what is in it.
LEMMA DirFirst ==
  ASSUME NEW q \in Strs, Len(q) \in 1..2, Front(q) # << >>, NEW slash \in BOOLEAN
  PROVE  /\ Len(q) = 2 /\ Front(q) \in Strs /\ Len(Front(q)) = 1
         /\ Before([path |-> Front(q), slash |-> TRUE], [path |-> q, slash |-> slash])
<1> DEFINE d == Front(q)
<1>1. d \in Strs /\ Len(d) = (IF Len(q) = 0 THEN 0 ELSE Len(q) - 1) /\ \A x \in 1..Len(d) : d[x] = q[x]
  BY FrontOf DEF IsHead, Strs
<1> HIDE DEF d
<1>2. Len(q) = 2 /\ Len(d) = 1 /\ d[1] = q[1]
  <2>1. Len(d) # 0
    BY <1>1 DEF Strs, d
  <2> DEFINE k == Len(q)
             l == Len(d)
  <2>2. k \in 1..2 /\ l = (IF k = 0 THEN 0 ELSE k - 1) /\ l # 0
    BY <1>1, <2>1
  <2> HIDE DEF k, l
  <2>3. k = 2 /\ l = 1
    BY <2>2
  <2> QED BY <1>1, <2>3 DEF k, l
<1> DEFINE a == Part(q[1])
           b == Part(q[2])
           t == Written(q)
<1>3. Chars([path |-> d, slash |-> TRUE]) = a
  <2>1. Len(d) \in 1..2 /\ Written(d) = Part(q[1])
    BY <1>2 DEF Written
  <2> QED BY <1>1, <2>1, CharsOf
<1>4. a \in Seq(Int) /\ b \in Seq(Int) /\ Len(b) >= 2 /\ t = a \o b
  <2>1. t = a \o b
    BY <1>2 DEF Written
  <2> QED BY <1>2, <2>1, CharsOf
<1>5. t \in Seq(Int)
  BY <1>2, CharsOf
<1>6. /\ Chars([path |-> q, slash |-> TRUE]) = t
      /\ Chars([path |-> q, slash |-> FALSE]) = Front(t)
  BY <1>2, CharsOf
<1> HIDE DEF a, b, t
<1>7. /\ Len(a) \in Nat /\ Len(b) \in Nat /\ Len(t) = Len(a) + Len(b) /\ \A x \in 1..Len(a) : t[x] = a[x]
  <2>1. IsSeq(a) /\ IsSeq(b)
    BY <1>4 DEF IsSeq
  <2> QED BY <1>4, <2>1, Joined
<1>8. IsStrictPrefix(a, t)
  <2>1. Len(a) < Len(t)
    BY <1>4, <1>7
  <2> QED BY <1>4, <1>5, <1>7, <2>1, BeginsWith
<1>9. IsStrictPrefix(a, Front(t))
  <2> DEFINE n == Len(t) - 1
             s == Front(t)
  <2>1. n \in 0..Len(t) /\ Len(a) < n /\ s = SubSeq(t, 1, n) /\ \A x \in 1..Len(a) : x \in 1..n
    BY <1>4, <1>5, <1>7 DEF Front
  <2>2. s \in Seq(Int) /\ Len(s) = n /\ \A x \in 1..n : s[x] = t[x]
    BY <1>5, <2>1, HeadOf DEF IsHead
  <2>3. \A x \in 1..Len(a) : s[x] = a[x]
    BY <1>7, <2>1, <2>2
  <2> HIDE DEF s, n
  <2>4. IsStrictPrefix(a, s)
    BY <1>4, <2>1, <2>2, <2>3, BeginsWith
  <2> QED BY <2>4 DEF s
<1>10. Before([path |-> d, slash |-> TRUE], [path |-> q, slash |-> slash])
  <2>1. CASE slash = TRUE
    BY <1>3, <1>6, <1>8, <2>1 DEF Before
  <2>2. CASE slash = FALSE
    BY <1>3, <1>6, <1>9, <2>2 DEF Before
  <2> QED BY <2>1, <2>2
<1> QED BY <1>1, <1>2, <1>10 DEF d

-----------------------------------------------------------------------------
(* No file is lost: what a command can change *)

\* q is a path of fs, and no symlink is on the way to it.
Direct(fs, q) == q \in DOMAIN fs /\ q \in Strs /\ Len(q) \in 1..2 /\ ~ Is(fs, Front(q), "sym")

\* From fs to g, at most what stands at q changes, or what is below it goes too.
Only(fs, g, q) == DOMAIN g = DOMAIN fs /\ \A x \in DOMAIN fs : x # q => g[x] = fs[x]
Under(fs, g, q) ==
  DOMAIN g = DOMAIN fs /\ \A x \in DOMAIN fs : g[x] = fs[x] \/ (Below(q, x) /\ (x = q \/ g[x] = Absent))

\* A path is its front and its last name.
LEMMA FrontLast ==
  ASSUME NEW q \in Strs, Len(q) \in 1..2
  PROVE  Append(Front(q), Last(q)) = q
<1> DEFINE d == Front(q)
           k == Len(q)
           n == k - 1
           S == DOMAIN NameKey
           y == Last(q)
<1>0. k \in 1..2 /\ k \in Nat /\ k # 0 /\ n \in Nat /\ k = n + 1 /\ n \in 0..k
  <2> HIDE DEF k
  <2>1. k \in 1..2
    BY DEF k
  <2> QED BY <2>1
<1>1. q \in Seq(S)
  BY DEF Strs
<1>2. d \in Seq(S) /\ Len(d) = n /\ \A x \in 1..n : d[x] = q[x]
  <2>1. d = SubSeq(q, 1, n)
    BY <1>0 DEF Front
  <2>2. n \in 0..Len(q)
    BY <1>0
  <2> HIDE DEF d, n, k, S
  <2>3. IsHead(S, q, n, SubSeq(q, 1, n))
    BY <1>1, <2>2, HeadOf
  <2> QED BY <2>1, <2>3 DEF IsHead
<1>3. y = q[n + 1] /\ y \in S
  BY <1>0, <1>1 DEF Last
<1>9. Len(q) = n + 1
  BY <1>0
<1> HIDE DEF d, n, S, y, k
<1> DEFINE a == Append(d, y)
<1>4. a \in Seq(S) /\ Len(a) = n + 1 /\ a[n + 1] = y /\ \A x \in 1..n : a[x] = d[x]
  BY <1>1, <1>2, <1>3
<1> HIDE DEF a
<1>5. \A x \in 1..(n + 1) : a[x] = q[x]
  <2>1. \A x \in 1..(n + 1) : x = n + 1 \/ x \in 1..n
    BY <1>0
  <2> QED BY <1>2, <1>3, <1>4, <2>1
<1>6. Len(a) = Len(q) /\ \A x \in 1..Len(a) : a[x] = q[x]
  BY <1>4, <1>5, <1>9
<1>7. a = q
  BY <1>1, <1>4, <1>6, SameSeq
<1> QED BY <1>7 DEF a, d, y

\* It is what a call with it changes.
LEMMA AtDirect ==
  ASSUME NEW fs, NEW q, Direct(fs, q)
  PROVE  At(fs, q) = q /\ DirOf(fs, q) = Front(q)
<1>1. DirOf(fs, q) = Front(q)
  BY DEF Direct, DirOf
<1> QED BY <1>1, FrontLast DEF Direct, At

\* What is below a path of one or two names.
LEMMA BelowPath ==
  ASSUME NEW a \in Strs, Len(a) \in 1..2, NEW q \in Strs, Len(q) \in 1..2
  PROVE  /\ Below(a, q) => q = a \/ (Len(q) = 2 /\ a = Front(q))
         /\ Below(q, q)
<1>1. Below(q, q)
  BY DEF Below, IsPrefix
<1>2. ASSUME Below(a, q)
      PROVE  q = a \/ (Len(q) = 2 /\ a = Front(q))
  <2> DEFINE m == Len(a)
             n == Len(q)
  <2>1. m \in 1..2 /\ n \in 1..2 /\ m <= n /\ SubSeq(a, 1, m) = SubSeq(q, 1, m)
    BY <1>2 DEF Below, IsPrefix
  <2>2. m \in 0..Len(a) /\ n \in 0..Len(q)
    OBVIOUS
  <2>3. SubSeq(a, 1, m) = a
    <3>1. IsHead(DOMAIN NameKey, a, m, SubSeq(a, 1, m))
      BY <2>2, HeadOf DEF Strs
    <3> DEFINE b == SubSeq(a, 1, m)
    <3>2. b \in Strs /\ Len(b) = Len(a) /\ \A x \in 1..Len(b) : b[x] = a[x]
      BY <3>1 DEF IsHead, Strs
    <3> HIDE DEF b
    <3>3. b = a
      BY <3>2, SameSeq DEF Strs
    <3> QED BY <3>3 DEF b
  <2>4. CASE m = n
    <3>1. SubSeq(q, 1, n) = q
      <4>1. IsHead(DOMAIN NameKey, q, n, SubSeq(q, 1, n))
        BY <2>2, HeadOf DEF Strs
      <4> DEFINE b == SubSeq(q, 1, n)
      <4>2. b \in Strs /\ Len(b) = Len(q) /\ \A x \in 1..Len(b) : b[x] = q[x]
        BY <4>1 DEF IsHead, Strs
      <4> HIDE DEF b
      <4>3. b = q
        BY <4>2, SameSeq DEF Strs
      <4> QED BY <4>3 DEF b
    <3> QED BY <2>1, <2>3, <2>4, <3>1
  <2>5. CASE m # n
    <3> HIDE DEF m, n
    <3>1. m = 1 /\ n = 2 /\ n - 1 = 1
      BY <2>1, <2>5
    <3>2. Front(q) = SubSeq(q, 1, 1)
      BY <3>1 DEF Front, n
    <3> QED BY <2>1, <2>3, <3>1, <3>2 DEF n
  <2> QED BY <2>4, <2>5
<1> QED BY <1>1, <1>2

\* What a path is in is not below it.
LEMMA FrontNotBelow ==
  ASSUME NEW q \in Strs, Len(q) \in 1..2
  PROVE  ~ Below(q, Front(q))
<1>1. Front(q) \in Strs /\ Len(Front(q)) = (IF Len(q) = 0 THEN 0 ELSE Len(q) - 1)
  BY FrontOf DEF IsHead, Strs
<1> DEFINE n == Len(q)
           l == Len(Front(q))
<1>2. n \in 1..2 /\ l = (IF n = 0 THEN 0 ELSE n - 1)
  BY <1>1
<1> HIDE DEF n, l
<1>3. ~ (n <= l)
  BY <1>2
<1> QED BY <1>3 DEF Below, IsPrefix, n, l

\* A change at a path is one at or below it.
LEMMA OnlyUnder ==
  ASSUME NEW fs, NEW g, NEW q \in Strs, Len(q) \in 1..2, Only(fs, g, q)
  PROVE  Under(fs, g, q)
BY BelowPath DEF Only, Under

\* The way to a path stays as it is when the path changes.
LEMMA UnderDirect ==
  ASSUME NEW fs, NEW g, NEW q, Direct(fs, q), Under(fs, g, q)
  PROVE  Direct(g, q)
<1>1. ~ Below(q, Front(q))
  BY FrontNotBelow DEF Direct
<1> QED BY <1>1 DEF Direct, Under, Is

\* The calls, at a path that is reached directly.
LEMMA PlaceOnly ==
  ASSUME NEW fs, NEW q, Direct(fs, q), NEW node
  PROVE  LET r == Place(fs, q, node)
         IN  Only(fs, r.fs, q) /\ r.fs[q] = node /\ r.err = "ok"
<1> DEFINE g == [fs EXCEPT ![q] = node]
<1>1. Place(fs, q, node) = [fs |-> g, err |-> "ok"]
  BY AtDirect DEF Place, Result
<1>2. DOMAIN g = DOMAIN fs /\ g[q] = node /\ \A x \in DOMAIN fs : x # q => g[x] = fs[x]
  BY DEF Direct
<1> HIDE DEF g
<1> QED BY <1>1, <1>2 DEF Only

\* mkdir, symlink, mknod.
LEMMA MakeOnly ==
  ASSUME NEW fs, NEW q, Direct(fs, q), NEW node
  PROVE  LET r == Make(fs, q, node)
         IN  /\ Only(fs, r.fs, q) /\ (r.err = "ok" => r.fs[q] = node)
             /\ r.err = "EEXIST" => Walk(fs, q) = "ok" /\ Present(fs, q)
<1> DEFINE r == Make(fs, q, node)
<1>0. Walk(fs, q) \in {"ok", "ENOTDIR", "ENOENT"}
  BY DEF Walk
<1>1. CASE Walk(fs, q) # "ok"
  <2>1. r.fs = fs /\ r.err = Walk(fs, q)
    BY <1>1 DEF Make, Result
  <2> QED BY <1>0, <1>1, <2>1 DEF Only
<1>2. CASE Walk(fs, q) = "ok" /\ Present(fs, q)
  <2>1. r.fs = fs /\ r.err = "EEXIST"
    BY <1>2, AtDirect DEF Make, Result
  <2> QED BY <1>2, <2>1 DEF Only
<1>3. CASE Walk(fs, q) = "ok" /\ ~ Present(fs, q)
  <2>1. r = Place(fs, q, node)
    BY <1>3, AtDirect DEF Make
  <2>2. Only(fs, r.fs, q) /\ r.fs[q] = node /\ r.err = "ok"
    BY <2>1, PlaceOnly
  <2> QED BY <2>2
<1> QED BY <1>1, <1>2, <1>3

\* rename.
LEMMA RenameOnly ==
  ASSUME NEW fs, NEW q, Direct(fs, q), NEW node
  PROVE  LET r == Rename(fs, node, q)
         IN  Only(fs, r.fs, q) /\ r.fs[q] \in {fs[q], node}
<1> DEFINE r == Rename(fs, node, q)
<1>1. CASE Walk(fs, q) # "ok" \/ Is(fs, q, "dir")
  <2>1. r.fs = fs
    BY <1>1, AtDirect DEF Rename, Result
  <2> QED BY <2>1 DEF Only
<1>2. CASE Walk(fs, q) = "ok" /\ ~ Is(fs, q, "dir")
  <2>1. r = Place(fs, q, node)
    BY <1>2, AtDirect DEF Rename
  <2>2. Only(fs, r.fs, q) /\ r.fs[q] = node
    BY <2>1, PlaceOnly
  <2> QED BY <2>2
<1> QED BY <1>1, <1>2

\* unlink.
LEMMA UnlinkOnly ==
  ASSUME NEW D, NEW fs, Stands(fs, D), NEW q, Direct(fs, q), NEW slash \in BOOLEAN
  PROVE  LET r == Unlink(fs, q, slash)
         IN  /\ Only(fs, r.fs, q)
             /\ r.err = "ok" => ~ Present(r.fs, q)
             /\ r.err = "ENOENT" => ~ Present(fs, q)
<1> DEFINE r == Unlink(fs, q, slash)
<1>0. Walk(fs, q) \in {"ok", "ENOTDIR", "ENOENT"}
  BY DEF Walk
<1>1. CASE Walk(fs, q) # "ok"
  <2>1. r.fs = fs /\ r.err = Walk(fs, q)
    BY <1>1 DEF Unlink, Result
  <2>2. ~ Present(fs, q)
    BY <1>1, AtDirect DEF Walk, Stands, Present, Direct
  <2> QED BY <1>1, <2>1, <2>2 DEF Only
<1>2. CASE Walk(fs, q) = "ok" /\ ~ Present(fs, q)
  <2>1. r.fs = fs /\ r.err = "ENOENT"
    BY <1>2, AtDirect DEF Unlink, Result
  <2> QED BY <1>2, <2>1 DEF Only
<1>3. CASE Walk(fs, q) = "ok" /\ Present(fs, q) /\ (Is(fs, q, "dir") \/ slash)
  <2>1. r.fs = fs /\ r.err \in {"EISDIR", "ENOTDIR"}
    BY <1>3, AtDirect DEF Unlink, Result
  <2> QED BY <2>1 DEF Only
<1>4. CASE Walk(fs, q) = "ok" /\ Present(fs, q) /\ ~ Is(fs, q, "dir") /\ ~ slash
  <2>1. r = Place(fs, q, Absent)
    BY <1>4, AtDirect DEF Unlink
  <2>2. Only(fs, r.fs, q) /\ r.fs[q] = Absent /\ r.err = "ok"
    BY <2>1, PlaceOnly
  <2> QED BY <2>2 DEF Present, Absent
<1> QED BY <1>1, <1>2, <1>3, <1>4

-----------------------------------------------------------------------------
(* No file is lost: the names of the commands *)

\* The k-th command is that of the i-th entry, f.
EntryAt(refs, w, i, k, f) == i \in 1..Len(refs) /\ k = Ord(w, i) /\ f = refs[i].name

\* The k-th command unlinks f, the j-th entry of the old tree, behind the i-th
\* of the new.
GoneAt(srcs, refs, w, i, j, k, f) ==
  /\ i \in 0..Len(refs) /\ j \in 1..Len(srcs)
  /\ w[i].pos <= j /\ (i < Len(refs) => j < Stop(srcs, w[i].pos, refs[i + 1].name))
  /\ k = Ord(w, i) + 1 + j - w[i].pos
  /\ f = srcs[j].name

\* The k-th command is about f.
Named(srcs, refs, w, k, f) ==
  \/ \E i \in 1..Len(refs) : EntryAt(refs, w, i, k, f)
  \/ \E i \in 0..Len(refs), j \in 1..Len(srcs) : GoneAt(srcs, refs, w, i, j, k, f)

\* A walk through the listings of two trees.
Walking(s, t, srcs, refs, w) ==
  /\ s \in Trees /\ t \in Trees /\ Listed(srcs, s) /\ Listed(refs, t) /\ IsWalk(srcs, refs, w)

\* An entry comes where its command is.
LEMMA EntryAmong ==
  ASSUME NEW s, NEW t, NEW srcs, NEW refs, NEW w, Walking(s, t, srcs, refs, w),
         NEW i, NEW k, NEW f, EntryAt(refs, w, i, k, f)
  PROVE  Among(refs, w, i, k) /\ k \in Nat /\ k >= 1
<1>1. Len(srcs) \in Nat /\ Len(refs) \in Nat /\ IsWalk(srcs, refs, w)
  BY DEF Walking, Listed
<1> DEFINE N == Len(refs)
<1>2. i \in 1..N /\ i \in 0..N /\ k = Ord(w, i) /\ 0 \in 0..N /\ 0 < i
  BY <1>1 DEF EntryAt
<1>3. Ord(w, i) \in Nat /\ Ord(w, 0) \in Nat /\ Ord(w, 0) < Ord(w, i)
  <2>1. w[i].n \in Nat /\ w[0].n = 0
    BY <1>1, <1>2 DEF IsWalk
  <2>2. Ord(w, 0) < Ord(w, i)
    BY <1>1, <1>2, Ascending
  <2> QED BY <1>2, <2>1, <2>2 DEF Ord
<1>4. i < N => Ord(w, i) < Ord(w, i + 1)
  <2> SUFFICES ASSUME i < N
               PROVE  Ord(w, i) < Ord(w, i + 1)
    OBVIOUS
  <2>1. i + 1 \in 0..N /\ i < i + 1
    BY <1>1, <1>2
  <2> QED BY <1>1, <1>2, <2>1, Ascending
<1>5. k \in Nat /\ k >= 1
  BY <1>2, <1>3
<1> QED BY <1>2, <1>3, <1>4, <1>5 DEF Among

\* So does what is unlinked, and behind the entry before it.
LEMMA GoneAmong ==
  ASSUME NEW s, NEW t, NEW srcs, NEW refs, NEW w, Walking(s, t, srcs, refs, w),
         NEW i, NEW j, NEW k, NEW f, GoneAt(srcs, refs, w, i, j, k, f)
  PROVE  Among(refs, w, i, k) /\ k \in Nat /\ Ord(w, i) < k
<1>1. Len(srcs) \in Nat /\ Len(refs) \in Nat /\ IsWalk(srcs, refs, w)
  BY DEF Walking, Listed
<1> DEFINE N == Len(refs)
           pos == w[i].pos
           st == Stop(srcs, pos, refs[i + 1].name)
           o == w[i].n
<1>2. /\ i \in 0..N /\ j \in 1..Len(srcs) /\ pos <= j /\ (i < N => j < st) /\ k = i + o + 1 + j - pos
      /\ Ord(w, i) = i + o
  BY DEF GoneAt, Ord
<1>3. pos \in Nat /\ o \in Nat /\ i \in Nat /\ j \in Nat
  BY <1>1, <1>2 DEF IsWalk
<1>4. ASSUME i < N
      PROVE  k < Ord(w, i + 1)
  <2> DEFINE g == i + 1
             z == w[g].n
  <2>1. g \in 1..N /\ g - 1 = i
    BY <1>1, <1>3, <1>4
  <2>2. st = Stop(srcs, w[g - 1].pos, refs[g].name) /\ pos = w[g - 1].pos /\ o = w[g - 1].n
    BY <2>1
  <2>3. z \in Nat /\ z = o + st - pos /\ st \in pos..(Len(srcs) + 1)
    <3> DEFINE h == refs[g].name
               l == g - 1
    <3>1. g \in 1..Len(refs)
      BY <2>1
    <3> HIDE DEF g
    <3>2. /\ z \in Nat /\ z = w[g - 1].n + Stop(srcs, w[g - 1].pos, h) - w[g - 1].pos
          /\ Stop(srcs, w[g - 1].pos, h) \in w[g - 1].pos..(Len(srcs) + 1)
      BY <1>1, <3>1, WalkTurn
    <3> HIDE DEF z, h, st, pos, o
    <3> QED BY <2>2, <3>2 DEF h
  <2>4. st \in Nat
    BY <1>1, <1>3, <2>3
  <2>5. Ord(w, g) = g + z
    BY DEF Ord
  <2>6. j < st
    BY <1>2, <1>4
  <2> HIDE DEF pos, st, o, z
  <2> QED BY <1>2, <1>3, <2>3, <2>4, <2>5, <2>6
<1>5. k \in Nat /\ Ord(w, i) < k
  <2> HIDE DEF pos, o, N
  <2> QED BY <1>2, <1>3
<1>6. Ord(w, i) <= k
  BY <1>2, <1>3, <1>5
<1> QED BY <1>2, <1>4, <1>5, <1>6 DEF Among

\* Later commands are those of later entries.
LEMMA AmongLater ==
  ASSUME NEW srcs, NEW refs, Len(srcs) \in Nat, Len(refs) \in Nat, NEW w, IsWalk(srcs, refs, w),
         NEW j \in Nat, NEW k \in Nat, j < k,
         NEW a, Among(refs, w, a, j), NEW b, Among(refs, w, b, k)
  PROVE  a \in 0..Len(refs) /\ b \in 0..Len(refs) /\ a <= b
<1>1. a \in 0..Len(refs) /\ b \in 0..Len(refs)
  BY DEF Among
<1>2. ASSUME b < a
      PROVE  FALSE
  <2>1. b + 1 \in 0..Len(refs) /\ b < Len(refs)
    BY <1>1, <1>2
  <2> DEFINE oa == Ord(w, a)
             ob == Ord(w, b + 1)
  <2>2. oa \in Nat /\ ob \in Nat
    <3>1. \A x \in 0..Len(refs) : Ord(w, x) \in Nat
      BY OrdNat
    <3> QED BY <1>1, <2>1, <3>1
  <2>3. oa <= j /\ k < ob
    BY <2>1 DEF Among
  <2>4. b + 1 = a => oa = ob
    OBVIOUS
  <2>5. b + 1 < a => ob < oa
    BY <1>1, <2>1, Ascending
  <2>6. b + 1 = a \/ b + 1 < a
    BY <1>1, <1>2
  <2> HIDE DEF oa, ob
  <2> QED BY <2>2, <2>3, <2>4, <2>5, <2>6
<1> QED BY <1>1, <1>2

\* The names of the commands, what each is about first: they are in order.
LEMMA NamesAscend ==
  ASSUME NEW s, NEW t, NEW srcs, NEW refs, NEW w, Walking(s, t, srcs, refs, w),
         NEW j, NEW f, Named(srcs, refs, w, j, f), NEW k, NEW g, Named(srcs, refs, w, k, g), j < k
  PROVE  Before(f, g)
<1>1. /\ Len(srcs) \in Nat /\ Len(refs) \in Nat /\ IsWalk(srcs, refs, w) /\ s \in Trees /\ t \in Trees
      /\ Listed(srcs, s) /\ Listed(refs, t)
  BY DEF Walking, Listed
<1> DEFINE N == Len(refs)
           M == Len(srcs)
<1>2. \A a, b \in 1..N : a < b => Before(refs[a].name, refs[b].name)
  BY <1>1 DEF Listed
<1>3. \A a, b \in 1..M : a < b => Before(srcs[a].name, srcs[b].name)
  BY <1>1 DEF Listed
<1>4. \A a \in 0..N : w[a].pos \in 1..(M + 1)
  BY <1>1 DEF IsWalk
<1>5. \A a \in 1..N : refs[a].name \in AllNames(t)
  BY <1>1, ListedAt
<1>6. \A a \in 1..M : srcs[a].name \in AllNames(t)
  BY <1>1, ListedAt, SameNames
<1>7. \A x, y, z \in AllNames(t) : Before(x, y) /\ Before(y, z) => Before(x, z)
  BY <1>1, NameOrder DEF StrictOrder
<1>8. ASSUME NEW a \in 1..N, NEW i \in 0..N, NEW x \in 1..M, a <= i, w[i].pos <= x
      PROVE  Before(refs[a].name, srcs[x].name)
  <2>1. w[a].pos <= w[i].pos
    <3>1. a \in 0..N
      BY <1>1
    <3>2. a < i => w[a].pos <= w[i].pos
      BY <1>1, <3>1, Ascending
    <3>3. a = i \/ a < i
      BY <1>8
    <3>4. w[i].pos <= w[i].pos
      BY <1>4
    <3> QED BY <3>2, <3>3, <3>4
  <2>2. x \in w[a].pos..M
    <3> DEFINE p == w[a].pos
               q == w[i].pos
    <3>1. p \in Nat /\ q \in Nat /\ p <= q /\ q <= x /\ x \in 1..M
      BY <1>1, <1>4, <1>8, <2>1
    <3> HIDE DEF p, q, M
    <3> QED BY <1>1, <3>1 DEF p, M
  <2> QED BY <1>1, <2>2, AheadOfWalk
<1>9. ASSUME NEW i \in 0..N, NEW x \in 1..M, i < N, w[i].pos <= x, x < Stop(srcs, w[i].pos, refs[i + 1].name)
      PROVE  Before(srcs[x].name, refs[i + 1].name)
  <2> DEFINE p == w[i].pos
             h == refs[i + 1].name
             st == Stop(srcs, p, h)
  <2>1. StopsAt(srcs, p, h, st) /\ p \in 1..(M + 1)
    BY <1>1, <1>4, StopPlace
  <2>2. x < st /\ p <= x
    BY <1>9
  <2> HIDE DEF p, h, st
  <2>3. x \in p..(st - 1)
    BY <1>1, <2>1, <2>2 DEF StopsAt
  <2> QED BY <2>1, <2>3 DEF StopsAt, h
<1>10. ASSUME NEW a, EntryAt(refs, w, a, j, f), NEW b, EntryAt(refs, w, b, k, g)
       PROVE  Before(f, g)
  <2>1. Among(refs, w, a, j) /\ Among(refs, w, b, k) /\ j \in Nat /\ k \in Nat
    BY <1>10, EntryAmong
  <2>2. a <= b
    BY <1>1, <2>1, AmongLater
  <2>3. a # b
    BY <1>10, <2>1 DEF EntryAt
  <2>4. a \in 1..N /\ b \in 1..N /\ f = refs[a].name /\ g = refs[b].name
    BY <1>10 DEF EntryAt
  <2> QED BY <1>2, <2>2, <2>3, <2>4
<1>11. ASSUME NEW a, EntryAt(refs, w, a, j, f), NEW b, NEW y, GoneAt(srcs, refs, w, b, y, k, g)
       PROVE  Before(f, g)
  <2>1. Among(refs, w, a, j) /\ Among(refs, w, b, k) /\ j \in Nat /\ k \in Nat
    BY <1>11, EntryAmong, GoneAmong
  <2>2. a <= b
    BY <1>1, <2>1, AmongLater
  <2>3. a \in 1..N /\ f = refs[a].name /\ b \in 0..N /\ y \in 1..M /\ w[b].pos <= y /\ g = srcs[y].name
    BY <1>11 DEF EntryAt, GoneAt
  <2> QED BY <1>8, <2>2, <2>3
<1>12. ASSUME NEW a, NEW x, GoneAt(srcs, refs, w, a, x, j, f), NEW b, EntryAt(refs, w, b, k, g)
       PROVE  Before(f, g)
  <2>1. Among(refs, w, a, j) /\ Among(refs, w, b, k) /\ j \in Nat /\ k \in Nat /\ Ord(w, a) < j
    BY <1>12, EntryAmong, GoneAmong
  <2>2. a <= b /\ a \in 0..N /\ b \in 0..N
    BY <1>1, <2>1, AmongLater
  <2>3. /\ x \in 1..M /\ w[a].pos <= x /\ (a < N => x < Stop(srcs, w[a].pos, refs[a + 1].name))
        /\ f = srcs[x].name /\ b \in 1..N /\ g = refs[b].name /\ k = Ord(w, b)
    BY <1>12 DEF EntryAt, GoneAt
  <2>4. a # b
    <3> SUFFICES ASSUME a = b
                 PROVE  FALSE
      OBVIOUS
    <3>1. Ord(w, a) < j /\ j < Ord(w, a) /\ Ord(w, a) \in Nat
      BY <2>1, <2>3
    <3> DEFINE o == Ord(w, a)
    <3> HIDE DEF o
    <3>2. o < j /\ j < o /\ o \in Nat
      BY <3>1 DEF o
    <3> QED BY <2>1, <3>2
  <2>5. a < N /\ a + 1 \in 1..N /\ (a + 1 = b \/ a + 1 < b)
    BY <1>1, <2>2, <2>3, <2>4
  <2>6. Before(f, refs[a + 1].name)
    BY <1>9, <2>2, <2>3, <2>5
  <2> DEFINE h == refs[a + 1].name
  <2>7. a + 1 < b => Before(h, g)
    BY <1>2, <2>3, <2>5
  <2>8. a + 1 = b => h = g
    BY <2>3
  <2>9. f \in AllNames(t) /\ h \in AllNames(t) /\ g \in AllNames(t)
    BY <1>5, <1>6, <2>3, <2>5
  <2> HIDE DEF h
  <2> QED BY <1>7, <2>5, <2>6, <2>7, <2>8, <2>9 DEF h
<1>13. ASSUME NEW a, NEW x, GoneAt(srcs, refs, w, a, x, j, f), NEW b, NEW y, GoneAt(srcs, refs, w, b, y, k, g)
       PROVE  Before(f, g)
  <2>1. Among(refs, w, a, j) /\ Among(refs, w, b, k) /\ j \in Nat /\ k \in Nat
    BY <1>13, GoneAmong
  <2>2. a <= b /\ a \in 0..N /\ b \in 0..N
    BY <1>1, <2>1, AmongLater
  <2>3. /\ x \in 1..M /\ w[a].pos <= x /\ (a < N => x < Stop(srcs, w[a].pos, refs[a + 1].name))
        /\ f = srcs[x].name /\ y \in 1..M /\ w[b].pos <= y /\ g = srcs[y].name
        /\ j = Ord(w, a) + 1 + x - w[a].pos /\ k = Ord(w, b) + 1 + y - w[b].pos
    BY <1>13 DEF GoneAt
  <2>4. CASE a = b
    <3> DEFINE o == Ord(w, a)
               p == w[a].pos
    <3>1. j = o + 1 + x - p /\ k = o + 1 + y - p /\ o \in Nat /\ p \in Nat
      <4>1. \A c \in 0..N : Ord(w, c) \in Nat
        BY <1>1, OrdNat
      <4>2. o \in Nat /\ p \in Nat
        BY <1>1, <1>4, <2>2, <4>1
      <4> QED BY <2>3, <2>4, <4>2
    <3> HIDE DEF o, p
    <3>2. x \in Nat /\ y \in Nat
      BY <1>1, <2>3
    <3>3. x < y
      BY <3>1, <3>2
    <3> QED BY <1>3, <2>3, <3>3
  <2>5. CASE a # b
    <3>1. a < N /\ a + 1 \in 1..N /\ a + 1 <= b
      BY <1>1, <2>2, <2>5
    <3>2. Before(f, refs[a + 1].name)
      BY <1>9, <2>2, <2>3, <3>1
    <3>3. Before(refs[a + 1].name, g)
      BY <1>8, <2>2, <2>3, <3>1
    <3> QED BY <1>5, <1>6, <1>7, <2>3, <3>1, <3>2, <3>3
  <2> QED BY <2>4, <2>5
<1> QED BY <1>10, <1>11, <1>12, <1>13 DEF Named

\* Each command is about one name.
LEMMA NamedOnce ==
  ASSUME NEW s, NEW t, NEW srcs, NEW refs, NEW w, Walking(s, t, srcs, refs, w),
         NEW k, NEW f, Named(srcs, refs, w, k, f), NEW g, Named(srcs, refs, w, k, g)
  PROVE  f = g /\ k \in Nat /\ k >= 1
<1>1. /\ Len(srcs) \in Nat /\ Len(refs) \in Nat /\ IsWalk(srcs, refs, w)
  BY DEF Walking, Listed
<1>2. ASSUME NEW a, EntryAt(refs, w, a, k, f), NEW b, EntryAt(refs, w, b, k, g)
      PROVE  f = g
  <2>1. Among(refs, w, a, k) /\ Among(refs, w, b, k) /\ k \in Nat
    BY <1>2, EntryAmong
  <2>2. a = b
    BY <1>1, <2>1, AmongOne
  <2> QED BY <1>2, <2>2 DEF EntryAt
<1>3. ASSUME NEW h, NEW l, NEW a, EntryAt(refs, w, a, k, h), NEW b, NEW y, GoneAt(srcs, refs, w, b, y, k, l)
      PROVE  FALSE
  <2>1. Among(refs, w, a, k) /\ Among(refs, w, b, k) /\ k \in Nat /\ Ord(w, b) < k /\ k = Ord(w, a)
    BY <1>3, EntryAmong, GoneAmong DEF EntryAt
  <2>2. a = b
    BY <1>1, <2>1, AmongOne
  <2>3. k < k
    BY <2>1, <2>2
  <2> QED BY <2>1, <2>3
<1>4. ASSUME NEW a, NEW x, GoneAt(srcs, refs, w, a, x, k, f), NEW b, NEW y, GoneAt(srcs, refs, w, b, y, k, g)
      PROVE  f = g
  <2>1. Among(refs, w, a, k) /\ Among(refs, w, b, k) /\ k \in Nat
    BY <1>4, GoneAmong
  <2>2. a = b /\ a \in 0..Len(refs)
    BY <1>1, <2>1, AmongOne DEF Among
  <2> DEFINE o == Ord(w, a)
             p == w[a].pos
  <2>3. /\ x \in 1..Len(srcs) /\ y \in 1..Len(srcs) /\ f = srcs[x].name /\ g = srcs[y].name
        /\ k = o + 1 + x - p /\ k = o + 1 + y - p
    BY <1>4, <2>2 DEF GoneAt
  <2>4. o \in Nat /\ p \in Nat
    <3>1. \A c \in 0..Len(refs) : Ord(w, c) \in Nat /\ w[c].pos \in Nat
      BY <1>1, OrdNat
    <3> QED BY <2>2, <3>1
  <2> HIDE DEF o, p
  <2>5. x \in Nat /\ y \in Nat
    BY <1>1, <2>3
  <2>6. x = y
    BY <2>3, <2>4, <2>5
  <2> QED BY <2>3, <2>6
<1>5. k \in Nat /\ k >= 1
  <2>1. ASSUME NEW a, EntryAt(refs, w, a, k, f)
        PROVE  k \in Nat /\ k >= 1
    BY <2>1, EntryAmong
  <2>2. ASSUME NEW a, NEW x, GoneAt(srcs, refs, w, a, x, k, f)
        PROVE  k \in Nat /\ k >= 1
    <3>1. k \in Nat /\ Ord(w, a) < k /\ a \in 0..Len(refs)
      BY <2>2, GoneAmong DEF GoneAt
    <3>2. Ord(w, a) \in Nat
      <4>1. \A c \in 0..Len(refs) : Ord(w, c) \in Nat
        BY <1>1, OrdNat
      <4> QED BY <3>1, <4>1
    <3> QED BY <3>1, <3>2
  <2> QED BY <2>1, <2>2 DEF Named
<1>6. f = g
  BY <1>2, <1>3, <1>4 DEF Named
<1> QED BY <1>5, <1>6

\* Each name has its command.
LEMMA NamedSome ==
  ASSUME NEW s, NEW t, NEW srcs, NEW refs, NEW w, Walking(s, t, srcs, refs, w),
         NEW f \in Names(s) \cup Names(t)
  PROVE  \E k : Named(srcs, refs, w, k, f)
<1>1. /\ Len(srcs) \in Nat /\ Len(refs) \in Nat /\ IsWalk(srcs, refs, w) /\ s \in Trees /\ t \in Trees
      /\ Listed(srcs, s) /\ Listed(refs, t)
  BY DEF Walking, Listed
<1> DEFINE N == Len(refs)
           M == Len(srcs)
<1>2. CASE f \in Names(t)
  <2>1. PICK i \in 1..N : refs[i].name = f
    BY <1>1, <1>2 DEF Listed
  <2>2. EntryAt(refs, w, i, Ord(w, i), f)
    BY <2>1 DEF EntryAt
  <2> QED BY <2>1, <2>2 DEF Named
<1>3. CASE f \notin Names(t)
  <2>1. PICK x \in 1..M : srcs[x].name = f
    BY <1>1, <1>3 DEF Listed
  <2> DEFINE I == {i \in 0..N : w[i].pos <= x}
  <2>2. 0 \in I
    BY <1>1 DEF IsWalk
  <2>3. I \in SUBSET Nat /\ I # {} /\ \A i \in I : i <= N
    BY <1>1, <2>2
  <2>4. PICK i \in I : \A h \in I : h <= i
    <3> HIDE DEF I, N
    <3> QED BY <1>1, <2>3, Greatest DEF N
  <2>5. i \in 0..N /\ w[i].pos <= x
    BY <2>4
  <2>6. i < N => x < Stop(srcs, w[i].pos, refs[i + 1].name)
    <3> SUFFICES ASSUME i < N
                 PROVE  x < Stop(srcs, w[i].pos, refs[i + 1].name)
      OBVIOUS
    <3> DEFINE g == i + 1
               h == refs[g].name
               pos == w[i].pos
               st == Stop(srcs, pos, h)
               q == w[g].pos
    <3>1. g \in 1..N /\ g \in 0..N /\ g - 1 = i /\ ~ (g <= i)
      BY <1>1, <2>5
    <3>2. g \notin I
      BY <2>4, <3>1
    <3>3. q = Passed(srcs, pos, h) /\ q \in 1..(M + 1) /\ pos \in 1..(M + 1) /\ st \in pos..(M + 1)
      <4>1. w[g - 1].pos = pos
        BY <3>1
      <4> HIDE DEF g
      <4>2. /\ q = Passed(srcs, w[g - 1].pos, h) /\ q \in 1..(M + 1) /\ w[g - 1].pos \in 1..(M + 1)
            /\ Stop(srcs, w[g - 1].pos, h) \in w[g - 1].pos..(M + 1)
        <5> HIDE DEF pos
        <5> QED BY <1>1, <3>1, WalkTurn
      <4> HIDE DEF q, h, pos
      <4> QED BY <4>1, <4>2
    <3>4. x < q
      <4>1. ~ (q <= x)
        BY <3>1, <3>2
      <4> HIDE DEF q
      <4> QED BY <1>1, <3>3, <4>1
    <3>5. q = IF st <= M /\ srcs[st].name = h THEN st + 1 ELSE st
      BY <3>3 DEF Passed
    <3>6. h \in Names(t)
      BY <1>1, <3>1, ListedAt
    <3> HIDE DEF st, q, h, pos, g
    <3>7. x < st
      <4>1. CASE st <= M /\ srcs[st].name = h
        <5>1. x # st
          BY <1>3, <2>1, <3>6, <4>1
        <5>2. x < st + 1 /\ st \in Nat
          BY <1>1, <3>3, <3>4, <3>5, <4>1
        <5> QED BY <5>1, <5>2
      <4>2. CASE ~ (st <= M /\ srcs[st].name = h)
        BY <3>4, <3>5, <4>2
      <4> QED BY <4>1, <4>2
    <3> QED BY <3>7 DEF st, pos, h, g
  <2>7. GoneAt(srcs, refs, w, i, x, Ord(w, i) + 1 + x - w[i].pos, f)
    BY <2>1, <2>5, <2>6 DEF GoneAt
  <2> QED BY <2>1, <2>5, <2>7 DEF Named
<1> QED BY <1>2, <1>3

\* What comes before the name of a command has been executed, and the other
\* way round.
LEMMA NamesDone ==
  ASSUME NEW s, NEW t, NEW srcs, NEW refs, NEW w, Walking(s, t, srcs, refs, w),
         NEW k, NEW g, Named(srcs, refs, w, k, g), NEW f \in Names(s) \cup Names(t), Before(f, g)
  PROVE  \E j \in 1..(k - 1) : Named(srcs, refs, w, j, f)
<1>1. PICK j : Named(srcs, refs, w, j, f)
  BY NamedSome
<1>2. j \in Nat /\ j >= 1 /\ k \in Nat
  BY <1>1, NamedOnce
<1>3. g \in AllNames(t)
  <2>1. s \in Trees /\ t \in Trees /\ Listed(srcs, s) /\ Listed(refs, t)
    BY DEF Walking
  <2>2. ASSUME NEW i, EntryAt(refs, w, i, k, g)
        PROVE  g \in AllNames(t)
    BY <2>1, <2>2, ListedAt DEF EntryAt
  <2>3. ASSUME NEW i, NEW j1, GoneAt(srcs, refs, w, i, j1, k, g)
        PROVE  g \in AllNames(t)
    BY <2>1, <2>3, ListedAt, SameNames DEF GoneAt
  <2> QED BY <2>2, <2>3 DEF Named
<1>4. f \in AllNames(t) /\ StrictOrder(AllNames(t))
  BY NamesOfTree, SameNames, NameOrder DEF Walking
<1>5. j # k
  <2> SUFFICES ASSUME j = k
               PROVE  FALSE
    OBVIOUS
  <2>1. f = g
    BY <1>1, NamedOnce
  <2> QED BY <1>4, <2>1 DEF StrictOrder
<1>6. ~ (k < j)
  <2> SUFFICES ASSUME k < j
               PROVE  FALSE
    OBVIOUS
  <2>1. Before(g, f)
    BY <1>1, NamesAscend
  <2> QED BY <1>3, <1>4, <2>1 DEF StrictOrder
<1>7. j \in 1..(k - 1)
  BY <1>2, <1>5, <1>6
<1> QED BY <1>1, <1>7

-----------------------------------------------------------------------------
(* No file is lost: what each kind of command changes *)

\* A file is moved.
LEMMA EnforceMoveOnly ==
  ASSUME NEW fs, NEW q, Direct(fs, q), NEW node
  PROVE  LET r == EnforceMove(fs, q, node)
         IN  Only(fs, r.fs, q) /\ r.fs[q] \in {fs[q], node}
<1>1. CASE oneFs
  <2>1. EnforceMove(fs, q, node) = Rename(fs, node, q)
    BY <1>1 DEF EnforceMove
  <2> QED BY <2>1, RenameOnly
<1>2. CASE ~ oneFs
  <2>1. EnforceMove(fs, q, node) = [fs |-> fs, err |-> "EXDEV"]
    BY <1>2 DEF EnforceMove, Result
  <2> QED BY <2>1 DEF Only
<1> QED BY <1>1, <1>2

\* One change after the other.
LEMMA Changes ==
  ASSUME NEW f, NEW g, NEW h, NEW q
  PROVE  /\ Only(f, g, q) /\ Only(g, h, q) => Only(f, h, q)
         /\ Under(f, g, q) /\ Under(g, h, q) => Under(f, h, q)
         /\ Only(f, f, q) /\ Under(f, f, q)
BY DEF Only, Under

\* A directory is made, in the place of something else maybe.
LEMMA EnforceDirectoryOnly ==
  ASSUME NEW D, NEW fs, Stands(fs, D), NEW q, Direct(fs, q), NEW node, node.type = "dir"
  PROVE  LET r == EnforceDirectory(fs, q, node)
         IN  Only(fs, r.fs, q) /\ (r.err = "ok" => Is(r.fs, q, "dir"))
<1> DEFINE r == Make(fs, q, node)
           e == Unlink(fs, q, FALSE)
           z == Make(e.fs, q, node)
           y == Place(fs, q, node)
           d == EnforceDirectory(fs, q, node)
           is == Is(fs, At(fs, q), "dir")
           Good(x) == Only(fs, x.fs, q) /\ (x.err = "ok" => Is(x.fs, q, "dir"))
<1>1. Only(fs, r.fs, q) /\ (r.err = "ok" => r.fs[q] = node)
  BY MakeOnly
<1>2. Only(fs, y.fs, q) /\ y.fs[q] = node
  BY PlaceOnly
<1>3. Only(fs, e.fs, q)
  BY UnlinkOnly
<1>4. Only(e.fs, z.fs, q) /\ (z.err = "ok" => z.fs[q] = node)
  <2>1. Direct(e.fs, q)
    <3> HIDE DEF e
    <3>1. Under(fs, e.fs, q)
      BY <1>3, OnlyUnder DEF Direct
    <3> QED BY <3>1, UnderDirect
  <2> HIDE DEF e
  <2> QED BY <2>1, MakeOnly
<1>5. d = IF r.err = "EEXIST" /\ is THEN y
          ELSE IF r.err \notin {"EEXIST", "ENOTDIR"} THEN r
          ELSE IF e.err # "ok" THEN e
          ELSE z
  BY DEF EnforceDirectory
<1> HIDE DEF r, e, z, y, d, is
<1>6. Only(fs, z.fs, q)
  BY <1>3, <1>4, Changes
<1>7. ASSUME NEW x, Only(fs, x.fs, q), x.err = "ok" => x.fs[q] = node
      PROVE  Good(x)
  BY <1>7 DEF Only, Is, Direct
<1>8. Good(y) /\ Good(r) /\ Good(z)
  BY <1>1, <1>2, <1>4, <1>6, <1>7
<1>9. e.err # "ok" => Good(e)
  BY <1>3
<1>10. Good(d)
  <2> HIDE DEF Good
  <2> QED BY <1>5, <1>8, <1>9
<1> QED BY <1>10 DEF d

\* A name is unlinked, with what is below it.
LEMMA EnforceUnlinkUnder ==
  ASSUME NEW D, NEW fs, Stands(fs, D), NEW f, Direct(fs, f.path), f.slash \in BOOLEAN
  PROVE  LET r == EnforceUnlink(fs, f)
         IN  Under(fs, r.fs, f.path) /\ (r.err = "ok" => ~ Present(r.fs, f.path))
<1> DEFINE q == f.path
           r == Unlink(fs, q, f.slash)
           g == [p \in DOMAIN fs |-> IF Below(At(fs, q), p) THEN Absent ELSE fs[p]]
           e == EnforceUnlink(fs, f)
           a == Result(fs, "ok")
           b == Result(g, "ok")
           Good(x) == Under(fs, x.fs, q) /\ (x.err = "ok" => ~ Present(x.fs, q))
<1>1. /\ Only(fs, r.fs, q) /\ (r.err = "ok" => ~ Present(r.fs, q))
      /\ r.err = "ENOENT" => ~ Present(fs, q)
  BY UnlinkOnly
<1>2. Under(fs, g, q) /\ ~ Present(g, q)
  <2>1. At(fs, q) = q /\ Below(q, q)
    BY AtDirect, BelowPath DEF Direct
  <2>2. DOMAIN g = DOMAIN fs /\ \A x \in DOMAIN fs : g[x] = IF Below(q, x) THEN Absent ELSE fs[x]
    BY <2>1
  <2> HIDE DEF g
  <2> QED BY <2>1, <2>2 DEF Under, Present, Absent
<1>3. e = IF r.err = "ENOENT" THEN a ELSE IF r.err = "EISDIR" THEN b ELSE r
  BY DEF EnforceUnlink
<1>4. a.fs = fs /\ b.fs = g
  BY DEF Result
<1> HIDE DEF r, g, e, a, b
<1>5. Good(r)
  <2>1. Under(fs, r.fs, q)
    BY <1>1, OnlyUnder DEF Direct
  <2> QED BY <1>1, <2>1
<1>6. r.err = "ENOENT" => Good(a)
  BY <1>1, <1>4, Changes
<1>7. Good(b)
  BY <1>2, <1>4
<1>8. Good(e)
  <2> HIDE DEF Good
  <2> QED BY <1>3, <1>5, <1>6, <1>7
<1> QED BY <1>8 DEF e

\* So is a path, before something is made there.
LEMMA PlainUnder ==
  ASSUME NEW D, NEW fs, Stands(fs, D), NEW q, Direct(fs, q)
  PROVE  LET r == EnforceUnlink(fs, Plain(q))
         IN  Under(fs, r.fs, q) /\ (r.err = "ok" => ~ Present(r.fs, q)) /\ Direct(r.fs, q)
<1> DEFINE r == EnforceUnlink(fs, Plain(q))
           f == Plain(q)
<1>1. f.path = q /\ f.slash \in BOOLEAN
  BY DEF Plain
<1> HIDE DEF f
<1>2. Under(fs, r.fs, q) /\ (r.err = "ok" => ~ Present(r.fs, q))
  BY <1>1, EnforceUnlinkUnder DEF f
<1> HIDE DEF r
<1>3. Direct(r.fs, q)
  BY <1>2, UnderDirect
<1> QED BY <1>2, <1>3 DEF r

\* A symlink, a pipe, a socket or a device is made.
LEMMA EnforceNodeUnder ==
  ASSUME NEW D, NEW fs, Stands(fs, D), NEW q, Direct(fs, q), NEW node
  PROVE  Under(fs, EnforceNode(fs, q, node).fs, q)
<1> DEFINE r == Make(fs, q, node)
           e == EnforceUnlink(fs, Plain(q))
           z == Make(e.fs, q, node)
           d == EnforceNode(fs, q, node)
<1>1. Under(fs, r.fs, q)
  <2>1. Only(fs, r.fs, q)
    BY MakeOnly
  <2> HIDE DEF r
  <2> QED BY <2>1, OnlyUnder DEF Direct
<1>2. Under(fs, e.fs, q) /\ Direct(e.fs, q)
  BY PlainUnder
<1>3. Under(e.fs, z.fs, q)
  <2> HIDE DEF e
  <2>1. Only(e.fs, z.fs, q)
    BY <1>2, MakeOnly
  <2> HIDE DEF z
  <2> QED BY <2>1, OnlyUnder DEF Direct
<1>4. d = IF r.err # "EEXIST" THEN r ELSE IF e.err # "ok" THEN e ELSE z
  BY DEF EnforceNode
<1> HIDE DEF r, e, z, d
<1>5. Under(fs, z.fs, q)
  BY <1>2, <1>3, Changes
<1>6. Under(fs, d.fs, q)
  BY <1>1, <1>2, <1>4, <1>5
<1> QED BY <1>6 DEF d

\* A link changes what is at its new path.
LEMMA LinkOnly ==
  ASSUME NEW fs, NEW q, Direct(fs, q), NEW old
  PROVE  Only(fs, Link(fs, old, q).fs, q)
<1> DEFINE a == At(fs, old)
           r == Link(fs, old, q)
<1>1. CASE Walk(fs, old) # "ok" \/ ~ Present(fs, a)
  <2>1. r.fs = fs
    BY <1>1 DEF Link, Result
  <2> QED BY <2>1, Changes
<1>2. CASE Walk(fs, old) = "ok" /\ Present(fs, a)
  <2>1. r = Make(fs, q, fs[a])
    BY <1>2 DEF Link
  <2> HIDE DEF r, a
  <2> QED BY <2>1, MakeOnly DEF r
<1> QED BY <1>1, <1>2

\* A hard link is made; once what stands in the way is gone, the second call
\* changes nothing.
LEMMA EnforceHardlinkUnder ==
  ASSUME NEW D, NEW fs, Stands(fs, D), NEW q, Direct(fs, q), NEW old
  PROVE  Under(fs, EnforceHardlink(fs, q, old).fs, q)
<1> DEFINE r == Link(fs, old, q)
           e == EnforceUnlink(fs, Plain(q))
           z == Link(e.fs, q, old)
           d == EnforceHardlink(fs, q, old)
<1>1. Under(fs, r.fs, q)
  <2>1. Only(fs, r.fs, q)
    BY LinkOnly
  <2> HIDE DEF r
  <2> QED BY <2>1, OnlyUnder DEF Direct
<1>2. Under(fs, e.fs, q) /\ Direct(e.fs, q) /\ (e.err = "ok" => ~ Present(e.fs, q))
  BY PlainUnder
<1>3. e.err = "ok" => z.fs = e.fs
  <2> HIDE DEF e
  <2> SUFFICES ASSUME e.err = "ok"
               PROVE  z.fs = e.fs
    OBVIOUS
  <2>1. ~ Present(e.fs, At(e.fs, q))
    BY <1>2, AtDirect
  <2> QED BY <2>1 DEF Link, Result
<1>4. d = IF r.err # "EEXIST" THEN r ELSE IF e.err # "ok" THEN e ELSE z
  BY DEF EnforceHardlink
<1> HIDE DEF r, e, z, d
<1>5. Under(fs, d.fs, q)
  BY <1>1, <1>2, <1>3, <1>4
<1> QED BY <1>5 DEF d

-----------------------------------------------------------------------------
(* No file is lost: the invariant *)

\* A command executed was about f.
Past(f) == \E j \in 1..done : Named(src_files, ref_files, Walked, j, f)

\* A file of both trees; it is there as it was or as it will be.
KeptFile(p) == Is(src, p, "reg") /\ \E e \in Entries(ver) : e.name.path = p /\ IsFile(e)

\* As it will be; a file that was not flushed goes for it.
IsNew(node, p) ==
  node.type = "reg" /\ (node.data = ver[p].data \/ (unflushed > 0 /\ node.data = Unflushed))
Whole(p) == Is(target, p, "reg") /\ (target[p].data = src[p].data \/ IsNew(target[p], p))

\* Where a directory was or will be, its command leaves no symlink.
NoSymlink ==
  pc = "apply" =>
    \A d \in Paths : Len(d) = 1 /\ Past([path |-> d, slash |-> TRUE]) => ~ Is(target, d, "sym")

\* So commands change what they are about, and the files of both trees are there.
Saved == inPlace => \A p \in Paths : KeptFile(p) => Whole(p)

SafeInv == IInv /\ NoSymlink /\ Saved

\* What the command about f changes, and leaves.
Effect(f) ==
  /\ Named(src_files, ref_files, Walked, done + 1, f)
  /\ Direct(target, f.path) /\ Under(target, target', f.path)
  /\ pc' = "apply" /\ f.slash => ~ Is(target', f.path, "sym")
  /\ \A p \in Paths : KeptFile(p) =>
       /\ p = f.path => target'[p] = target[p] \/ IsNew(target'[p], p)
       /\ f.path = Front(p) => Only(target, target', f.path)

\* The lists are walked through, by who writes and by who reads.
LEMMA ApplyWalk ==
  ASSUME IInv, pc # "list"
  PROVE  Walking(src, ver, src_files, ref_files, Walked) /\ src \in Trees /\ ver \in Trees
BY ListFacts DEF IInv, Lists, Walking

\* The paths of the trees.
LEMMA PathFacts ==
  ASSUME NEW t \in Trees, NEW q \in DOMAIN t
  PROVE  /\ q \in Strs /\ Len(q) \in 1..2
         /\ Front(q) # <<>> => Front(q) \in DOMAIN t /\ (Present(t, q) => Is(t, Front(q), "dir"))
BY TreeAssumption DEF TreeAssumption, Strs

\* A directory has its name with a slash.
LEMMA DirNamed ==
  ASSUME NEW t, NEW d, Is(t, d, "dir")
  PROVE  [path |-> d, slash |-> TRUE] \in Names(t)
<1>1. d \in DOMAIN t /\ Present(t, d)
  BY DEF Is, Present
<1>2. Name(t, d) = [path |-> d, slash |-> TRUE]
  BY DEF Name
<1> QED BY <1>1, <1>2 DEF Names

\* A path makes two names.
LEMMA NameMade ==
  ASSUME NEW t, NEW d \in DOMAIN t, NEW b \in BOOLEAN
  PROVE  [path |-> d, slash |-> b] \in AllNames(t)
BY DEF AllNames

\* What a command is about is reached directly: the directory it is in comes first.
LEMMA OnTheWay ==
  ASSUME SafeInv, pc = "apply", NEW f \in Names(src) \cup Names(ver),
         Named(src_files, ref_files, Walked, done + 1, f)
  PROVE  Direct(target, f.path)
<1>1. Walking(src, ver, src_files, ref_files, Walked) /\ src \in Trees /\ ver \in Trees
  BY ApplyWalk DEF SafeInv
<1>2. DOMAIN ver = DOMAIN src /\ DOMAIN target = DOMAIN src /\ done \in Nat
  BY <1>1, SameNames DEF SafeInv, IInv, Stands, Paths, Bounds
<1> DEFINE q == f.path
           d == Front(q)
           g == [path |-> d, slash |-> TRUE]
<1>3. \/ f \in Names(src) /\ q \in DOMAIN src /\ Present(src, q)
      \/ f \in Names(ver) /\ q \in DOMAIN ver /\ Present(ver, q)
  BY <1>1, NamesOfTree
<1>4. f \in FNames
  BY <1>1, NamesOfTree
<1>5. q \in Strs /\ Len(q) \in 1..2 /\ q \in DOMAIN src
  BY <1>1, <1>2, <1>3, PathFacts
<1>6. CASE d = <<>>
  <2>1. d \notin DOMAIN target
    <3> SUFFICES ASSUME << >> \in DOMAIN src
                 PROVE  FALSE
      BY <1>2, <1>6
    <3>1. Len(<< >>) \in 1..2
      BY <1>1, PathFacts
    <3> QED BY <3>1
  <2> QED BY <1>2, <1>5, <2>1 DEF Direct, Is
<1>7. CASE d # <<>>
  <2>1. Is(src, d, "dir") \/ Is(ver, d, "dir")
    BY <1>1, <1>3, <1>7, PathFacts
  <2>2. g \in Names(src) \cup Names(ver)
    BY <2>1, DirNamed
  <2>3. Len(d) = 1 /\ Before(g, f)
    <3>1. f = [path |-> q, slash |-> f.slash] /\ f.slash \in BOOLEAN
      BY <1>4 DEF FNames
    <3> HIDE DEF q
    <3>2. Len(d) = 1 /\ Before(g, [path |-> q, slash |-> f.slash])
      BY <1>5, <1>7, <3>1, DirFirst
    <3> QED BY <3>1, <3>2
  <2> HIDE DEF g
  <2>4. \E j \in 1..((done + 1) - 1) : Named(src_files, ref_files, Walked, j, g)
    BY <1>1, <2>2, <2>3, NamesDone
  <2>5. (done + 1) - 1 = done
    BY <1>2
  <2>6. Past(g)
    BY <2>4, <2>5 DEF Past
  <2>7. d \in Paths
    BY <1>1, <1>2, <1>5, <1>7, PathFacts DEF Paths
  <2>8. ~ Is(target, d, "sym")
    BY <2>3, <2>6, <2>7 DEF SafeInv, NoSymlink, g
  <2> QED BY <1>2, <1>5, <2>8 DEF Direct
<1> QED BY <1>6, <1>7

\* A command with that effect keeps the files.
LEMMA EffectKeeps ==
  ASSUME SafeInv, IInv', pc = "apply", done' = done + 1, UNCHANGED <<inputs, writer, unflushed>>,
         NEW f \in Names(src) \cup Names(ver), Effect(f)
  PROVE  SafeInv'
<1>1. Walking(src, ver, src_files, ref_files, Walked) /\ src \in Trees /\ ver \in Trees
  BY ApplyWalk DEF SafeInv
<1>2. /\ DOMAIN ver = DOMAIN src /\ DOMAIN target = DOMAIN src /\ done \in Nat
      /\ DOMAIN target' = DOMAIN src
  BY <1>1, SameNames DEF SafeInv, IInv, Stands, Paths, Bounds, Effect, Under
<1>3. UNCHANGED <<src, ver, inPlace, src_files, ref_files, Walked, Paths>>
  BY DEF inputs, writer, Walked, Paths
<1>4. f \in AllNames(src) /\ f \in FNames /\ f.path \in DOMAIN src /\ StrictOrder(AllNames(src))
  BY <1>1, NamesOfTree, SameNames, NameOrder
<1>5. f.path \in Strs /\ Len(f.path) \in 1..2
  BY <1>1, <1>4, PathFacts
<1>6. NoSymlink'
  <2> SUFFICES ASSUME pc' = "apply", NEW d \in Paths, Len(d) = 1,
                      NEW j \in 1..(done + 1),
                      Named(src_files, ref_files, Walked, j, [path |-> d, slash |-> TRUE])
               PROVE  ~ Is(target', d, "sym")
    BY <1>3 DEF NoSymlink, Past, Named, EntryAt, GoneAt, Ord
  <2> DEFINE g == [path |-> d, slash |-> TRUE]
             h == [path |-> d, slash |-> FALSE]
  <2>1. CASE j = done + 1
    <3>1. g = f
      BY <1>1, <2>1, NamedOnce DEF Effect
    <3>2. f.path = d /\ f.slash
      BY <3>1
    <3> QED BY <3>2 DEF Effect
  <2>2. CASE j # done + 1
    <3>1. j \in 1..done /\ j < done + 1
      BY <1>2, <2>2
    <3>2. ~ Is(target, d, "sym")
      <4>1. Past(g)
        BY <3>1 DEF Past
      <4> QED BY <4>1 DEF SafeInv, NoSymlink
    <3>3. Before(g, f)
      BY <1>1, <3>1, NamesAscend DEF Effect
    <3>4. d \in DOMAIN src /\ d \in Strs /\ Len(d) \in 1..2
      BY <1>1, PathFacts DEF Paths
    <3>5. g \in AllNames(src) /\ h \in AllNames(src)
      BY <3>4, NameMade
    <3>6. Before(h, g)
      BY <3>4, SlashLater
    <3>7. f.path # d
      <4> SUFFICES ASSUME f.path = d
                   PROVE  FALSE
        OBVIOUS
      <4>1. f = [path |-> d, slash |-> f.slash] /\ f.slash \in BOOLEAN
        BY <1>4 DEF FNames
      <4>2. f = g \/ f = h
        BY <4>1
      <4> HIDE DEF g, h
      <4> QED BY <1>4, <3>3, <3>5, <3>6, <4>2 DEF StrictOrder
    <3>8. ~ Below(f.path, d)
      <4>1. Len(d) # 2
        OBVIOUS
      <4> QED BY <1>5, <3>4, <3>7, <4>1, BelowPath
    <3>9. target'[d] = target[d]
      BY <1>2, <3>4, <3>8 DEF Effect, Under
    <3> QED BY <1>2, <3>2, <3>9 DEF Is
  <2> QED BY <2>1, <2>2
<1>7. Saved'
  <2> SUFFICES ASSUME inPlace, NEW p \in Paths, KeptFile(p)
               PROVE  Is(target', p, "reg") /\ (target'[p].data = src[p].data \/ IsNew(target'[p], p))
    BY <1>3 DEF Saved, KeptFile, Whole, IsNew
  <2>1. Is(target, p, "reg") /\ (target[p].data = src[p].data \/ IsNew(target[p], p))
    BY DEF SafeInv, Saved, Whole
  <2>2. p \in DOMAIN src /\ p \in Strs /\ Len(p) \in 1..2
    BY <1>1, PathFacts DEF Paths
  <2>3. CASE p = f.path
    <3>1. target'[p] = target[p] \/ IsNew(target'[p], p)
      BY <2>3 DEF Effect
    <3> QED BY <1>2, <2>1, <2>2, <3>1 DEF Is, IsNew
  <2>4. CASE p # f.path
    <3>1. target'[p] = target[p]
      <4>1. CASE f.path = Front(p)
        <5>1. Only(target, target', f.path)
          BY <4>1 DEF Effect
        <5> QED BY <1>2, <2>2, <2>4, <5>1 DEF Only
      <4>2. CASE f.path # Front(p)
        <5>1. ~ Below(f.path, p)
          BY <1>5, <2>2, <2>4, <4>2, BelowPath
        <5> QED BY <1>2, <2>2, <5>1 DEF Effect, Under
      <4> QED BY <4>1, <4>2
    <3> QED BY <1>2, <2>1, <2>2, <3>1 DEF Is
  <2> QED BY <2>3, <2>4
<1> QED BY <1>6, <1>7 DEF SafeInv

\* What an entry says of a file of both trees, or of the directory it is in.
LEMMA KeptFacts ==
  ASSUME src \in Trees, ver \in Trees, NEW p \in Paths, KeptFile(p)
  PROVE  /\ \A e \in Entries(ver) : /\ e.name.path = p => IsFile(e)
                                    /\ e.name.path = Front(p) => e.st.type = "dir"
         /\ \A f \in Names(src) \ Names(ver) : f.path # p /\ f.path # Front(p)
<1>1. PICK k \in Entries(ver) : k.name.path = p /\ IsFile(k)
  BY DEF KeptFile
<1>2. DOMAIN ver = DOMAIN src /\ p \in DOMAIN src
  BY SameNames DEF Paths
<1>3. Is(ver, p, "reg") /\ Present(ver, p) /\ Is(src, p, "reg") /\ Present(src, p)
  <2>1. ver[p].type = "reg"
    BY <1>1, EntryFacts DEF IsFile
  <2> QED BY <1>2, <2>1 DEF KeptFile, Is, Present
<1>4. Front(p) # <<>> => Is(ver, Front(p), "dir") /\ Is(src, Front(p), "dir")
  BY <1>2, <1>3, PathFacts
<1>5. ASSUME NEW e \in Entries(ver), e.name.path = p
      PROVE  IsFile(e)
  <2>1. e.name \in Names(ver) /\ k.name \in Names(ver)
    BY EntryFacts
  <2>2. e.name = Name(ver, p) /\ k.name = Name(ver, p)
    BY <1>1, <1>5, <2>1, NamesOfTree
  <2>3. e = k
    BY <2>2 DEF Entries
  <2> QED BY <1>1, <2>3
<1>6. ASSUME NEW e \in Entries(ver), e.name.path = Front(p)
      PROVE  e.st.type = "dir"
  <2>1. e.name.path \in DOMAIN ver /\ e.st = ver[e.name.path]
    BY EntryFacts
  <2>2. Front(p) # <<>>
    <3>1. Len(Front(p)) \in 1..2
      BY <1>6, <2>1, PathFacts
    <3> QED BY <3>1
  <2> QED BY <1>4, <1>6, <2>1, <2>2 DEF Is
<1>7. ASSUME NEW f \in Names(src) \ Names(ver), f.path = p \/ f.path = Front(p)
      PROVE  FALSE
  <2>1. f = Name(src, f.path) /\ f.path \in DOMAIN src
    BY NamesOfTree
  <2>2. Present(ver, f.path) /\ Is(ver, f.path, "dir") = Is(src, f.path, "dir")
    <3>1. CASE f.path = p
      BY <1>3, <3>1 DEF Is
    <3>2. CASE f.path = Front(p)
      <4>1. Front(p) # <<>>
        <5>1. Len(Front(p)) \in 1..2
          BY <2>1, <3>2, PathFacts
        <5> QED BY <5>1
      <4> QED BY <1>4, <3>2, <4>1 DEF Is, Present
    <3> QED BY <1>7, <3>1, <3>2
  <2>3. f = Name(ver, f.path)
    BY <2>1, <2>2 DEF Name
  <2>4. f \in Names(ver)
    BY <1>2, <2>1, <2>2, <2>3 DEF Names
  <2> QED BY <2>4
<1> QED BY <1>5, <1>6, <1>7

\* The command of an entry, with what it is about.
LEMMA EntryTurnOf ==
  ASSUME IInv, pc = "apply", done < Len(patch.cmds), Cmd.cmd # "UNLINK"
  PROVE  \E e \in Entries(ver) :
           /\ IsRead(e) /\ Named(src_files, ref_files, Walked, done + 1, e.name)
           /\ IsFile(e) => /\ final_paths[file_pos + 1] = e.name.path
                           /\ Filled(e.st.data)
<1>1. PICK P, m : AtTurn(P, m) /\ EntryNext(P, m)
  BY NextCases DEF GoneNext
<1> DEFINE i == m + 1
           e == ref_files[i]
<1>2. /\ m \in 0..(Len(ref_files) - 1) /\ file_pos = FileCount(ref_files, m)
      /\ IsRead(e) /\ e \in Entries(ver) /\ done + 1 = Ord(Walked, i)
  BY <1>1 DEF EntryNext, AtTurn, OfEntry
<1>3. IsFile(e) => final_paths[file_pos + 1] = e.name.path /\ Filled(e.st.data)
  BY <1>2, FileRead
<1>4. i \in 1..Len(ref_files)
  <2>1. Len(ref_files) \in Nat
    BY ListFacts DEF IInv
  <2> QED BY <1>2, <2>1
<1> HIDE DEF i
<1>5. EntryAt(ref_files, Walked, i, done + 1, e.name)
  BY <1>2, <1>4 DEF EntryAt
<1>6. Named(src_files, ref_files, Walked, done + 1, e.name)
  BY <1>4, <1>5 DEF Named
<1> HIDE DEF e
<1> QED BY <1>2, <1>3, <1>6

\* The command of what only the old tree has, with what it is about.
LEMMA GoneTurnOf ==
  ASSUME IInv, pc = "apply", done < Len(patch.cmds), Cmd.cmd = "UNLINK"
  PROVE  \E f \in Names(src) \ Names(ver) :
           Read = <<f>> /\ Named(src_files, ref_files, Walked, done + 1, f)
<1> DEFINE c == Cmd
           k == done + 1
<1>1. PICK P : Traced(src_files, ref_files, Walked, patch.cmds, P, Start) /\ pe = P[done]
  BY DEF IInv, Chained, Writes
<1>2. done \in Nat /\ Len(patch.cmds) \in Nat
  BY DEF IInv, Bounds, Chained, Writes, IsSeq
<1>3. pe \in Coders /\ Turn(src_files, ref_files, Walked, k, c, pe, P[k])
  <2>1. done \in 0..Len(patch.cmds) /\ k \in 1..Len(patch.cmds) /\ k - 1 = done
    BY <1>2
  <2> HIDE DEF k
  <2> QED BY <1>1, <2>1 DEF Traced, Cmd, k
<1>4. Walking(src, ver, src_files, ref_files, Walked) /\ src \in Trees /\ ver \in Trees
  BY ApplyWalk
<1>5. Listed(src_files, src) /\ Listed(ref_files, ver) /\ IsWalk(src_files, ref_files, Walked)
  BY <1>4 DEF Walking
<1> DEFINE q == P[k]
<1> HIDE DEF c, k, q
<1>6. c.cmd = "UNLINK" /\ Read = DecodePaths(pe.dir, c.paths)
  BY DEF c, Read
<1>7. ASSUME NEW i \in 1..Len(ref_files), OfEntry(ref_files, Walked, i, k, c, pe, q)
      PROVE  FALSE
  <2> DEFINE e == ref_files[i]
  <2>1. e \in Entries(ver)
    BY <1>4, <1>5, ListedAt
  <2>2. IsEntry(ref_files, c, pe, e)
    BY <1>7 DEF OfEntry
  <2> HIDE DEF e
  <2>3. e.st.type \in {"reg", "dir", "sym", "fifo", "sock", "dev"}
    BY <1>4, <2>1, EntryFacts
  <2> QED BY <1>6, <2>2, <2>3 DEF IsEntry
<1>8. PICK i \in 0..Len(ref_files), j \in 1..Len(src_files) : OfGone(src_files, ref_files, Walked, i, j, k, c, pe, q)
  BY <1>3, <1>7 DEF Turn, q
<1> DEFINE f == src_files[j].name
<1>9. GoneAt(src_files, ref_files, Walked, i, j, k, f) /\ c.paths = <<EncodePath(pe.dir, f)>>
  BY <1>8 DEF OfGone, GoneAt
<1>10. Named(src_files, ref_files, Walked, k, f)
  BY <1>9 DEF Named
<1>11. f \in Names(src) \ Names(ver)
  <2>1. j \in Walked[i].pos..Len(src_files)
    <3> DEFINE p == Walked[i].pos
    <3>1. p \in Nat /\ p <= j /\ Len(src_files) \in Nat
      BY <1>5, <1>8 DEF IsWalk, OfGone, Listed
    <3> HIDE DEF p
    <3>2. j \in p..Len(src_files)
      BY <3>1
    <3> QED BY <3>2 DEF p
  <2>2. i < Len(ref_files) => j < Stop(src_files, Walked[i].pos, ref_files[i + 1].name)
    BY <1>8 DEF OfGone
  <2> QED BY <1>4, <1>5, <2>1, <2>2, UnlinkedGone
<1> HIDE DEF f
<1>12. Read = <<f>>
  <2>1. f \in FNames /\ pe.dir \in Strs
    BY <1>3, <1>4, <1>11, NamesOfTree DEF Coders
  <2>2. EncodePaths(pe.dir, <<f>>) = <<EncodePath(pe.dir, f)>>
    BY <2>1, OneName
  <2> DEFINE one == <<f>>
  <2>3. one \in Seq(FNames)
    BY <2>1
  <2> HIDE DEF one
  <2>4. DecodePaths(pe.dir, EncodePaths(pe.dir, one)) = one
    BY <2>1, <2>3, NamesBack
  <2> QED BY <1>6, <1>9, <2>2, <2>4 DEF one
<1> QED BY <1>10, <1>11, <1>12 DEF k

\* The first name read is that of the entry.
LEMMA FirstRead ==
  ASSUME IInv, NEW e \in Entries(ver), IsRead(e), ~ IsFile(e)
  PROVE  Read[1] = e.name
<1>1. CASE IsLink(e)
  <2>1. Read = <<e.name, [path |-> e.link_target, slash |-> FALSE]>>
    BY <1>1 DEF IsRead, EntryNames
  <2> QED BY <2>1
<1>2. CASE ~ IsLink(e)
  <2>1. Read = <<e.name>>
    BY <1>2 DEF IsRead, EntryNames
  <2> QED BY <2>1
<1> QED BY <1>1, <1>2

\* Only directories have a slash.
LEMMA SlashOf ==
  ASSUME ver \in Trees, NEW e \in Entries(ver)
  PROVE  e.name.slash <=> e.st.type = "dir"
<1>1. e.name \in Names(ver) /\ e.st = ver[e.name.path] /\ e.name.path \in DOMAIN ver
  BY EntryFacts
<1> QED BY <1>1, NamesOfTree DEF Is

\* A command that comes to r when what it changes, it leaves as said.
LEMMA ExecutedKeeps ==
  ASSUME SafeInv, IInv', NEW cmds, NEW r, NEW timed, Execute(cmds, r, timed),
         NEW f \in Names(src) \cup Names(ver), Named(src_files, ref_files, Walked, done + 1, f),
         Under(target, r.fs, f.path),
         f.slash /\ r.err = "ok" => ~ Is(r.fs, f.path, "sym"),
         \A p \in Paths : KeptFile(p) =>
           /\ p = f.path => r.fs[p] = target[p] \/ IsNew(r.fs[p], p)
           /\ f.path = Front(p) => Only(target, r.fs, f.path)
  PROVE  SafeInv'
<1>1. /\ pc = "apply" /\ target' = r.fs /\ done' = done + 1
      /\ UNCHANGED <<inputs, writer, unflushed>>
  BY DEF Execute
<1>2. pc' = "apply" => r.err = "ok"
  BY DEF Execute, Leave
<1>3. Direct(target, f.path)
  BY <1>1, OnTheWay
<1>4. Effect(f)
  BY <1>1, <1>2, <1>3 DEF Effect
<1> QED BY <1>1, <1>4, EffectKeeps

\* An entry other than a file or a directory: files and directories of both
\* trees are at other paths.
LEMMA OtherEntry ==
  ASSUME SafeInv, IInv', NEW cmds, NEW r, NEW timed, Execute(cmds, r, timed),
         NEW e \in Entries(ver), Named(src_files, ref_files, Walked, done + 1, e.name),
         e.st.type # "dir", ~ IsFile(e), Under(target, r.fs, e.name.path)
  PROVE  SafeInv'
<1>1. src \in Trees /\ ver \in Trees
  BY DEF SafeInv, IInv, Lists
<1>2. e.name \in Names(src) \cup Names(ver) /\ ~ e.name.slash
  BY <1>1, EntryFacts, SlashOf
<1>3. \A p \in Paths : KeptFile(p) => p # e.name.path /\ e.name.path # Front(p)
  BY <1>1, KeptFacts
<1> QED BY <1>2, <1>3, ExecutedKeeps

\* What a command of an entry is about is reached directly.
LEMMA EntryDirect ==
  ASSUME SafeInv, pc = "apply", NEW e \in Entries(ver),
         Named(src_files, ref_files, Walked, done + 1, e.name)
  PROVE  Direct(target, e.name.path) /\ Stands(target, Paths) /\ src \in Trees /\ ver \in Trees
         /\ e.name \in Names(src) \cup Names(ver)
<1>1. src \in Trees /\ ver \in Trees /\ Stands(target, Paths)
  BY DEF SafeInv, IInv, Lists
<1>2. e.name \in Names(src) \cup Names(ver)
  BY <1>1, EntryFacts
<1> QED BY <1>1, <1>2, OnTheWay

\* A file moved in place keeps the others, and is itself whole.
LEMMA RegKeeps ==
  ASSUME SafeInv, ApplyReg
  PROVE  SafeInv'
<1> DEFINE p == final_paths[file_pos + 1]
           node == New("reg", p, Content(file_pos + 1))
           r == EnforceMove(target, p, node)
<1>1. Execute({"reg"}, r, TRUE) /\ IInv'
  BY ApplyRegStep DEF ApplyReg, SafeInv
<1>2. pc = "apply" /\ done < Len(patch.cmds) /\ Cmd.cmd = "reg"
  BY <1>1, KeptRead DEF Execute, SafeInv
<1>3. PICK e \in Entries(ver) :
        /\ IsRead(e) /\ Named(src_files, ref_files, Walked, done + 1, e.name)
        /\ IsFile(e) => p = e.name.path /\ Filled(e.st.data)
  BY <1>2, EntryTurnOf DEF SafeInv
<1>4. IsFile(e)
  BY <1>2, <1>3, KindRead DEF SafeInv
<1>5. /\ Direct(target, e.name.path) /\ ver \in Trees
      /\ e.name \in Names(src) \cup Names(ver)
  BY <1>2, <1>3, EntryDirect
<1>6. p = e.name.path /\ IsNew(node, p)
  <2>1. e.st = ver[e.name.path] /\ Filled(e.st.data)
    BY <1>3, <1>4, <1>5, EntryFacts
  <2>2. node.type = "reg" /\ node.data = Content(file_pos + 1)
    BY DEF New, Node
  <2> HIDE DEF node
  <2> QED BY <1>3, <1>4, <2>1, <2>2 DEF Filled, IsNew
<1>7. ~ e.name.slash
  BY <1>4, <1>5, SlashOf DEF IsFile
<1> HIDE DEF p, node
<1>8. Only(target, r.fs, p) /\ r.fs[p] \in {target[p], node}
  <2>1. node.type = "reg"
    BY <1>6 DEF IsNew
  <2> QED BY <1>5, <1>6, <2>1, EnforceMoveOnly
<1> HIDE DEF r
<1>9. Under(target, r.fs, p)
  BY <1>5, <1>6, <1>8, OnlyUnder DEF Direct
<1>10. ASSUME NEW x \in Paths
       PROVE  /\ x = e.name.path => r.fs[x] = target[x] \/ IsNew(r.fs[x], x)
              /\ e.name.path = Front(x) => Only(target, r.fs, e.name.path)
  <2>1. r.fs[p] = target[p] \/ IsNew(r.fs[p], p)
    <3>1. r.fs[p] = target[p] \/ r.fs[p] = node
      BY <1>8
    <3>2. CASE r.fs[p] = target[p]
      BY <3>2
    <3>3. CASE r.fs[p] = node
      BY <1>6, <3>3
    <3> QED BY <3>1, <3>2, <3>3
  <2>2. ASSUME x = e.name.path
        PROVE  r.fs[x] = target[x] \/ IsNew(r.fs[x], x)
    <3>1. x = p
      BY <1>6, <2>2
    <3> QED BY <2>1, <3>1
  <2>3. Only(target, r.fs, e.name.path)
    BY <1>6, <1>8
  <2> QED BY <2>2, <2>3
<1>11. Under(target, r.fs, e.name.path)
  BY <1>6, <1>9
<1> DEFINE f == e.name
<1>12. f \in Names(src) \cup Names(ver) /\ ~ f.slash /\ Named(src_files, ref_files, Walked, done + 1, f)
  BY <1>3, <1>5, <1>7
<1> QED BY <1>1, <1>10, <1>11, <1>12, ExecutedKeeps

\* A hard link keeps them.
LEMMA HardlinkKeeps ==
  ASSUME SafeInv, ApplyHardlink
  PROVE  SafeInv'
<1> DEFINE q == Read[1].path
           old == Read[2].path
           r == EnforceHardlink(target, q, old)
<1>1. Execute({"HARDLINK"}, r, FALSE) /\ IInv'
  BY ApplyHardlinkStep DEF ApplyHardlink, SafeInv
<1>2. pc = "apply" /\ done < Len(patch.cmds) /\ Cmd.cmd = "HARDLINK"
  BY <1>1, KeptRead DEF Execute, SafeInv
<1>3. PICK e \in Entries(ver) : IsRead(e) /\ Named(src_files, ref_files, Walked, done + 1, e.name)
  BY <1>2, EntryTurnOf DEF SafeInv
<1>4. IsLink(e) /\ ~ IsFile(e) /\ e.st.type # "dir"
  BY <1>2, <1>3, KindRead DEF SafeInv, IsLink, IsFile
<1>5. q = e.name.path
  BY <1>3, <1>4, FirstRead DEF SafeInv
<1>6. Direct(target, e.name.path) /\ Stands(target, Paths)
  BY <1>2, <1>3, EntryDirect
<1> HIDE DEF q, old
<1>7. Under(target, r.fs, q)
  BY <1>5, <1>6, EnforceHardlinkUnder
<1> HIDE DEF r
<1> QED BY <1>1, <1>3, <1>4, <1>5, <1>7, OtherEntry

\* So does a symlink, a pipe, a socket or a device.
LEMMA NodeKeeps ==
  ASSUME SafeInv, ApplyNode
  PROVE  SafeInv'
<1> DEFINE q == Read[1].path
           node == New(Cmd.cmd, q, Cmd.data)
           r == EnforceNode(target, q, node)
<1>1. Execute({"sym", "fifo", "sock", "dev"}, r, TRUE) /\ IInv'
  BY ApplyNodeStep DEF ApplyNode, SafeInv
<1>2. pc = "apply" /\ done < Len(patch.cmds) /\ Cmd.cmd \in {"sym", "fifo", "sock", "dev"}
  BY <1>1, KeptRead DEF Execute, SafeInv
<1>3. PICK e \in Entries(ver) : IsRead(e) /\ Named(src_files, ref_files, Walked, done + 1, e.name)
  BY <1>2, EntryTurnOf DEF SafeInv
<1>4. ~ IsFile(e) /\ e.st.type # "dir"
  <2>1. Cmd.cmd # "HARDLINK" /\ Cmd.cmd # "dir" /\ Cmd.cmd # "reg"
    BY <1>2
  <2> QED BY <1>3, <2>1 DEF IsRead, IsFile
<1>5. q = e.name.path
  BY <1>3, <1>4, FirstRead DEF SafeInv
<1>6. Direct(target, e.name.path) /\ Stands(target, Paths)
  BY <1>2, <1>3, EntryDirect
<1> HIDE DEF q, node
<1>7. Under(target, r.fs, q)
  BY <1>5, <1>6, EnforceNodeUnder
<1> HIDE DEF r
<1> QED BY <1>1, <1>3, <1>4, <1>5, <1>7, OtherEntry

\* So does a directory: what is in it stays.
LEMMA DirKeeps ==
  ASSUME SafeInv, ApplyDir
  PROVE  SafeInv'
<1> DEFINE q == Read[1].path
           node == New("dir", q, <<>>)
           r == EnforceDirectory(target, q, node)
<1>1. Execute({"dir"}, r, TRUE) /\ IInv'
  BY ApplyDirStep DEF ApplyDir, SafeInv
<1>2. pc = "apply" /\ done < Len(patch.cmds) /\ Cmd.cmd = "dir"
  BY <1>1, KeptRead DEF Execute, SafeInv
<1>3. PICK e \in Entries(ver) : IsRead(e) /\ Named(src_files, ref_files, Walked, done + 1, e.name)
  BY <1>2, EntryTurnOf DEF SafeInv
<1>4. ~ IsFile(e)
  BY <1>2, <1>3, KindRead DEF SafeInv
<1>5. q = e.name.path /\ node.type = "dir"
  BY <1>3, <1>4, FirstRead DEF SafeInv, New, Node
<1>6. /\ Direct(target, e.name.path) /\ Stands(target, Paths) /\ src \in Trees /\ ver \in Trees
      /\ e.name \in Names(src) \cup Names(ver)
  BY <1>2, <1>3, EntryDirect
<1> HIDE DEF q, node
<1>7. Only(target, r.fs, q) /\ (r.err = "ok" => Is(r.fs, q, "dir"))
  BY <1>5, <1>6, EnforceDirectoryOnly
<1> HIDE DEF r
<1>8. Under(target, r.fs, q)
  BY <1>5, <1>6, <1>7, OnlyUnder DEF Direct
<1>9. \A p \in Paths : KeptFile(p) => p # e.name.path
  BY <1>4, <1>6, KeptFacts
<1>10. r.err = "ok" => ~ Is(r.fs, q, "sym")
  BY <1>7 DEF Is
<1> QED BY <1>1, <1>3, <1>5, <1>6, <1>7, <1>8, <1>9, <1>10, ExecutedKeeps

\* So does an unlink of what only the old tree has.
LEMMA UnlinkKeeps ==
  ASSUME SafeInv, ApplyUnlink
  PROVE  SafeInv'
<1> DEFINE f == Read[1]
           r == EnforceUnlink(target, f)
<1>1. Execute({"UNLINK"}, r, FALSE) /\ IInv'
  BY ApplyUnlinkStep DEF ApplyUnlink, SafeInv
<1>2. pc = "apply" /\ done < Len(patch.cmds) /\ Cmd.cmd = "UNLINK"
  BY <1>1, KeptRead DEF Execute, SafeInv
<1>3. PICK g \in Names(src) \ Names(ver) : Read = <<g>> /\ Named(src_files, ref_files, Walked, done + 1, g)
  BY <1>2, GoneTurnOf DEF SafeInv
<1>4. f = g
  BY <1>3
<1> HIDE DEF f
<1>5. src \in Trees /\ ver \in Trees /\ Stands(target, Paths)
  BY DEF SafeInv, IInv, Lists
<1>6. f \in Names(src) \cup Names(ver) /\ f.slash \in BOOLEAN
  BY <1>3, <1>4, <1>5, NamesOfTree DEF FNames
<1>7. Direct(target, f.path)
  BY <1>2, <1>3, <1>4, <1>6, OnTheWay
<1>8. Under(target, r.fs, f.path) /\ (r.err = "ok" => ~ Present(r.fs, f.path))
  BY <1>5, <1>6, <1>7, EnforceUnlinkUnder
<1> HIDE DEF r
<1>9. r.err = "ok" => ~ Is(r.fs, f.path, "sym")
  BY <1>8 DEF Is, Present
<1>10. \A p \in Paths : KeptFile(p) => p # f.path /\ f.path # Front(p)
  BY <1>3, <1>4, <1>5, KeptFacts
<1> QED BY <1>1, <1>3, <1>4, <1>6, <1>8, <1>9, <1>10, ExecutedKeeps

\* Steps that leave the directory alone, and begin or end the commands.
LEMMA OtherKeeps ==
  ASSUME SafeInv, IInv', UNCHANGED <<inputs, target>>, unflushed' = unflushed \/ unflushed = 0,
         pc' = "apply" => \/ done' = 0
                          \/ pc = "apply" /\ UNCHANGED <<src_files, ref_files, done>>
  PROVE  SafeInv'
<1>1. UNCHANGED <<src, ver, inPlace, Paths>>
  BY DEF inputs, Paths
<1>2. Saved'
  <2>1. ASSUME NEW p, Whole(p)
        PROVE  Whole(p)'
    <3>1. ~ (0 > 0)
      OBVIOUS
    <3> QED BY <1>1, <2>1, <3>1 DEF Whole, IsNew
  <2> QED BY <1>1, <2>1 DEF SafeInv, Saved, KeptFile
<1>3. CASE pc' # "apply"
  BY <1>2, <1>3 DEF SafeInv, NoSymlink
<1>4. CASE pc' = "apply" /\ done' = 0
  <2>1. ~ \E j \in 1..done' : TRUE
    BY <1>4
  <2>2. \A f : ~ Past(f)'
    BY <2>1 DEF Past
  <2>3. NoSymlink'
    BY <2>2 DEF NoSymlink
  <2> QED BY <1>2, <2>3 DEF SafeInv
<1>5. CASE pc = "apply" /\ UNCHANGED <<src_files, ref_files, done>>
  <2>1. UNCHANGED Walked
    BY <1>5 DEF Walked
  <2>2. \A f : Past(f)' = Past(f)
    BY <1>5, <2>1 DEF Past, Named, EntryAt, GoneAt, Ord
  <2>3. NoSymlink'
    BY <1>1, <1>5, <2>2 DEF SafeInv, NoSymlink
  <2> QED BY <1>2, <2>3 DEF SafeInv
<1> QED BY <1>3, <1>4, <1>5

\* In the beginning, nothing is lost.
LEMMA InitSafe ==
  ASSUME Init
  PROVE  SafeInv
<1>1. IInv
  BY InitInv
<1>2. NoSymlink
  BY DEF Init, NoSymlink
<1>3. Saved
  <2> SUFFICES ASSUME inPlace, NEW p \in Paths, KeptFile(p)
               PROVE  Whole(p)
    BY DEF Saved
  <2>1. target = src
    BY DEF Init
  <2> QED BY <2>1 DEF KeptFile, Whole
<1> QED BY <1>1, <1>2, <1>3 DEF SafeInv

\* Nor by any step.
LEMMA NextSafe ==
  ASSUME SafeInv, [Next]_vars
  PROVE  SafeInv'
<1>0. IInv'
  BY NextInv DEF SafeInv
<1>1. CASE List
  BY <1>0, <1>1, OtherKeeps DEF List, reader
<1>2. CASE WriteHeader
  BY <1>0, <1>2, OtherKeeps DEF WriteHeader, reader
<1>3. CASE EncodeNext
  BY <1>0, <1>3, OtherKeeps DEF EncodeNext, reader
<1>4. CASE EncodeTail
  BY <1>0, <1>4, OtherKeeps DEF EncodeTail, LastUnlinks, reader
<1>5. CASE WriteFails
  BY <1>0, <1>5, OtherKeeps DEF WriteFails, LastUnlinks, reader
<1>6. CASE ReadHeader
  <2>1. done = 0 /\ unflushed = 0
    BY <1>6 DEF ReadHeader, SafeInv, IInv, Lists, OnDisk
  <2> QED BY <1>0, <1>6, <2>1, OtherKeeps DEF ReadHeader
<1>7. CASE SourceDiffers
  BY <1>0, <1>7, OtherKeeps DEF SourceDiffers, Returns
<1>8. CASE NoTempDir
  BY <1>0, <1>8, OtherKeeps DEF NoTempDir, Returns, Crashes, reader
<1>9. CASE RebuildFails
  BY <1>0, <1>9, OtherKeeps DEF RebuildFails, Leave
<1>10. CASE ApplyReg
  BY <1>10, RegKeeps
<1>11. CASE ApplyHardlink
  BY <1>11, HardlinkKeeps
<1>12. CASE ApplyDir
  BY <1>12, DirKeeps
<1>13. CASE ApplyNode
  BY <1>13, NodeKeeps
<1>14. CASE ApplyUnlink
  BY <1>14, UnlinkKeeps
<1>15. CASE EndChain
  BY <1>0, <1>15, OtherKeeps DEF EndChain, Leave
<1>16. CASE Cleanup
  BY <1>0, <1>16, OtherKeeps DEF Cleanup
<1>17. CASE UNCHANGED vars
  BY <1>0, <1>17, OtherKeeps DEF vars, reader, writer
<1>18. CASE HeaderCut
  BY <1>0, <1>18, OtherKeeps DEF HeaderCut, Returns, Crashes, reader
<1>19. CASE NameCut
  BY <1>0, <1>19, OtherKeeps DEF NameCut, Crashes, reader
<1> QED BY <1>1, <1>2, <1>3, <1>4, <1>5, <1>6, <1>7, <1>8, <1>9, <1>10, <1>11, <1>12, <1>13, <1>14,
           <1>15, <1>16, <1>17, <1>18, <1>19 DEF Next

\* It is what the property says.
LEMMA SafeMeans ==
  ASSUME SafeInv
  PROVE  NeverLost
<1> SUFFICES ASSUME NEW p \in Paths, inPlace, Is(src, p, "reg"),
                    NEW i \in DOMAIN ref_files, ref_files[i].name.path = p, IsFile(ref_files[i])
             PROVE  /\ Is(target, p, "reg")
                    /\ \/ target[p].data \in {src[p].data, ver[p].data}
                       \/ unflushed > 0 /\ target[p].data = Unflushed
  BY DEF NeverLost
<1>1. pc # "list"
  <2> SUFFICES ASSUME pc = "list"
               PROVE  FALSE
    OBVIOUS
  <2>1. ref_files = << >>
    BY DEF SafeInv, IInv, Lists
  <2> QED BY <2>1
<1>2. Listed(ref_files, ver)
  BY <1>1, ListFacts DEF SafeInv, IInv
<1>3. ref_files[i] \in Entries(ver)
  <2>1. i \in 1..Len(ref_files)
    BY <1>2 DEF Listed
  <2> QED BY <1>2, <2>1 DEF Listed
<1>4. KeptFile(p)
  BY <1>3 DEF KeptFile
<1> QED BY <1>4 DEF SafeInv, Saved, Whole, IsNew

\* Wherever a run in place stops, each file of both trees is there, with its
\* old content or its new one; or, if it was among those whose last page could
\* not be flushed before the commands began, with neither.
THEOREM NothingLost == Spec => []NeverLost
<1>1. Init => SafeInv
  BY InitSafe
<1>2. SafeInv /\ [Next]_vars => SafeInv'
  BY NextSafe
<1>3. SafeInv => NeverLost
  BY SafeMeans
<1> QED BY <1>1, <1>2, <1>3, PTL DEF Spec


-----------------------------------------------------------------------------
(* The table of owners and modes *)

\* s has what is used least first.
Rising(s, u) == \A i, j \in DOMAIN s : i < j => u[s[i]] <= u[s[j]]

\* A finite set can be put in order by what each element is given.
LEMMA Arranged ==
  ASSUME NEW S, IsFiniteSet(S), NEW u \in [S -> Nat]
  PROVE  \E s \in SetToSeqs(S) : Rising(s, u)
<1> DEFINE N == Cardinality(S)
           Some(T) == \E s \in SetToSeqs(T) : Rising(s, u)
           X == {n \in 0..N : \A T \in SUBSET S : Cardinality(T) = n => Some(T)}
<1>1. N \in Nat
  BY FS_CardinalityType
<1>2. \A T \in SUBSET S : IsFiniteSet(T) /\ Cardinality(T) \in Nat
  BY FS_Subset, FS_CardinalityType
<1>3. 0 \in X
  <2> SUFFICES ASSUME NEW T \in SUBSET S, Cardinality(T) = 0
               PROVE  Some(T)
    BY <1>1
  <2> DEFINE s == [i \in 1..0 |-> i]
  <2>1. DOMAIN s = {} /\ 1..0 = {}
    OBVIOUS
  <2>2. s \in [1..0 -> T]
    BY <2>1
  <2> HIDE DEF s
  <2>3. s \in SetToSeqs(T)
    BY <2>1, <2>2 DEF SetToSeqs
  <2>4. Rising(s, u)
    BY <2>1 DEF Rising
  <2> QED BY <2>3, <2>4
<1>4. \A n \in 0..(N - 1) : n \in X => n + 1 \in X
  <2> SUFFICES ASSUME NEW n \in 0..(N - 1), n \in X, NEW T \in SUBSET S, Cardinality(T) = n + 1
               PROVE  Some(T)
    BY <1>1
  <2>1. n \in Nat /\ IsFiniteSet(T)
    BY <1>1, <1>2
  <2>2. T # {}
    BY <2>1, FS_EmptySet
  <2> DEFINE V == {u[x] : x \in T}
  <2>3. V \in SUBSET Nat /\ V # {}
    BY <2>2
  <2>4. PICK v \in V : \A y \in V : v <= y
    <3> HIDE DEF V
    <3> QED BY <2>3, Least
  <2>5. PICK m \in T : u[m] = v
    BY <2>4
  <2>6. \A x \in T : u[m] <= u[x]
    BY <2>4, <2>5
  <2> DEFINE R == T \ {m}
  <2>7. R \in SUBSET S /\ Cardinality(R) = n
    <3>1. Cardinality(R) = (n + 1) - 1
      BY <2>1, FS_RemoveElement
    <3> QED BY <2>1, <3>1
  <2>8. PICK s \in SetToSeqs(R) : Rising(s, u)
    BY <2>7
  <2>9. s \in [1..n -> R] /\ \A i, j \in 1..n : i # j => s[i] # s[j]
    BY <2>7, <2>8 DEF SetToSeqs
  <2>10. \A i, j \in 1..n : i < j => u[s[i]] <= u[s[j]]
    BY <2>8, <2>9 DEF Rising
  <2> DEFINE r == [i \in 1..(n + 1) |-> IF i = 1 THEN m ELSE s[i - 1]]
  <2>11. r[1] = m /\ DOMAIN r = 1..(n + 1)
    BY <2>1
  <2>12. ASSUME NEW i \in 1..(n + 1), i # 1
         PROVE  i - 1 \in 1..n /\ r[i] = s[i - 1]
    BY <2>1, <2>12
  <2>13. \A i \in 1..(n + 1) : i # 1 => r[i] \in R
    BY <2>9, <2>12
  <2>14. r \in [1..(n + 1) -> T]
    <3>1. \A i \in 1..(n + 1) : r[i] \in T
      BY <2>11, <2>13
    <3> QED BY <3>1
  <2> HIDE DEF r
  <2>15. ASSUME NEW i \in 1..(n + 1), NEW j \in 1..(n + 1), i < j
         PROVE  r[i] # r[j] /\ u[r[i]] <= u[r[j]]
    <3>1. j # 1
      BY <2>1, <2>15
    <3>2. r[j] = s[j - 1] /\ j - 1 \in 1..n /\ r[j] \in R
      BY <2>12, <2>13, <3>1
    <3>3. CASE i = 1
      BY <2>6, <2>11, <3>2, <3>3
    <3>4. CASE i # 1
      <4>1. r[i] = s[i - 1] /\ i - 1 \in 1..n
        BY <2>12, <3>4
      <4>2. i - 1 < j - 1
        BY <2>1, <2>15
      <4>3. i - 1 # j - 1
        BY <2>1, <2>15
      <4> DEFINE a == i - 1
                 b == j - 1
      <4> HIDE DEF a, b
      <4>4. a \in 1..n /\ b \in 1..n /\ a < b /\ a # b /\ r[i] = s[a] /\ r[j] = s[b]
        BY <3>2, <4>1, <4>2, <4>3 DEF a, b
      <4> QED BY <2>9, <2>10, <4>4
    <3> QED BY <3>3, <3>4
  <2>16. r \in SetToSeqs(T)
    <3>1. ASSUME NEW i \in 1..(n + 1), NEW j \in 1..(n + 1), i # j
          PROVE  r[i] # r[j]
      <4>1. i < j \/ j < i
        BY <2>1, <3>1
      <4> QED BY <2>15, <4>1
    <3> QED BY <2>14, <3>1 DEF SetToSeqs
  <2>17. Rising(r, u)
    BY <2>11, <2>15 DEF Rising
  <2> QED BY <2>16, <2>17
<1>5. N \in X
  <2> HIDE DEF X
  <2>1. \A n \in 0..N : n \in X
    BY <1>1, <1>3, <1>4, UpTo
  <2> QED BY <1>1, <2>1
<1> QED BY <1>5

\* What a command says of the owner and the mode is what the table has there,
\* but for the group.
LEMMA OwnerBack ==
  ASSUME NEW t \in Trees, NEW files, Listed(files, t), NEW e \in Entries(t)
  PROVE  LET w == WrittenUgms(files)[IndexOf(files, e.st.ugm)]
         IN  w[1] = e.st.ugm[1] /\ w[3] = e.st.ugm[3]
<1> DEFINE n == Len(files)
           U == {files[i].st.ugm : i \in DOMAIN files}
           uses == [v \in U |-> Cardinality({i \in DOMAIN files : files[i].st.ugm = v})]
           F == [i \in DOMAIN files |-> files[i].st.ugm]
           s == Ugms(files)
           u == e.st.ugm
           x == IndexOf(files, u)
<1>1. n \in Nat /\ DOMAIN files = 1..n /\ IsFiniteSet(DOMAIN files)
  <2>1. n \in Nat /\ DOMAIN files = 1..n
    BY DEF Listed
  <2>2. IsFiniteSet(1..n)
    BY <2>1, FS_Interval
  <2> QED BY <2>1, <2>2
<1>2. IsFiniteSet(U)
  <2>1. F \in Surjection(DOMAIN files, U)
    BY DEF Surjection
  <2> HIDE DEF F, U
  <2> QED BY <1>1, <2>1, FS_Surjection
<1>3. uses \in [U -> Nat]
  <2>1. ASSUME NEW v \in U
        PROVE  Cardinality({i \in DOMAIN files : files[i].st.ugm = v}) \in Nat
    <3> DEFINE I == {i \in DOMAIN files : files[i].st.ugm = v}
    <3>1. I \in SUBSET (DOMAIN files)
      OBVIOUS
    <3> HIDE DEF I
    <3>2. Cardinality(I) \in Nat
      BY <1>1, <3>1, FS_Subset, FS_CardinalityType
    <3> QED BY <3>2 DEF I
  <2> QED BY <2>1
<1>4. s \in SetToSeqs(U)
  <2>1. PICK a \in SetToSeqs(U) : Rising(a, uses)
    <3> HIDE DEF U, uses
    <3> QED BY <1>2, <1>3, Arranged
  <2> DEFINE rises(b) == \A i, j \in DOMAIN b : i < j =>
                           Cardinality({k \in DOMAIN files : files[k].st.ugm = b[i]})
                             <= Cardinality({k \in DOMAIN files : files[k].st.ugm = b[j]})
  <2>2. a \in [1..Cardinality(U) -> U]
    BY <2>1 DEF SetToSeqs
  <2>3. rises(a)
    <3>1. \A i \in DOMAIN a : a[i] \in U
      BY <2>2
    <3>2. \A i \in DOMAIN a : uses[a[i]] = Cardinality({k \in DOMAIN files : files[k].st.ugm = a[i]})
      BY <3>1
    <3> HIDE DEF uses
    <3> QED BY <2>1, <3>2 DEF Rising
  <2>4. s = CHOOSE b \in SetToSeqs(U) : rises(b)
    BY DEF Ugms
  <2> HIDE DEF rises, s, U
  <2> QED BY <2>1, <2>3, <2>4
<1>5. u \in U
  <2>1. e.name \in Names(t) /\ e = [name |-> e.name, st |-> t[e.name.path], link_target |-> LinkTarget(t, e.name)]
    BY DEF Entries
  <2>2. PICK i \in 1..n : files[i].name = e.name
    BY <2>1 DEF Listed
  <2>3. files[i] \in Entries(t)
    BY <2>2 DEF Listed
  <2>4. files[i] = [name |-> files[i].name, st |-> t[files[i].name.path],
                    link_target |-> LinkTarget(t, files[i].name)]
    BY <2>3 DEF Entries
  <2>5. files[i] = e
    BY <2>1, <2>2, <2>4
  <2> QED BY <1>1, <2>2, <2>5
<1> DEFINE m == Cardinality(U)
<1>6. m \in Nat /\ s \in [1..m -> U] /\ \A i, j \in 1..m : i # j => s[i] # s[j]
  <2> HIDE DEF U, s
  <2> QED BY <1>2, <1>4, FS_CardinalityType DEF SetToSeqs
<1>7. \E i \in 1..m : s[i] = u
  <2> HIDE DEF U, s, m, u
  <2>1. s \in Injection(1..m, U)
    BY <1>6 DEF Injection, IsInjective
  <2>2. IsFiniteSet(1..m) /\ Cardinality(1..m) = m
    BY <1>6, FS_Interval
  <2>3. s \in Surjection(1..m, U)
    BY <1>2, <2>1, <2>2, FS_Injection DEF m
  <2> QED BY <1>5, <2>3 DEF Surjection
<1> HIDE DEF U, s, m, u
<1>8. x \in DOMAIN s /\ s[x] = u
  <2>1. x = CHOOSE i \in DOMAIN s : s[i] = u
    BY DEF IndexOf, s
  <2> QED BY <1>6, <1>7, <2>1
<1> HIDE DEF x
<1>9. WrittenUgms(files)[x] = <<s[x][1], s[x][1], s[x][3]>>
  BY <1>8 DEF WrittenUgms, s
<1>10. WrittenUgms(files)[x][1] = u[1] /\ WrittenUgms(files)[x][3] = u[3]
  BY <1>8, <1>9
<1> QED BY <1>10 DEF x, u

-----------------------------------------------------------------------------
(* The names of one inode *)

SameInode(t, ino) == {f \in Names(t) : t[f.path].ino = ino}

\* The first name of an inode.
IsOrigin(t, ino, f) == f \in SameInode(t, ino) /\ \A g \in SameInode(t, ino) : ~ Before(g, f)
Origin(t, ino) == CHOOSE f \in SameInode(t, ino) : \A g \in SameInode(t, ino) : ~ Before(g, f)

\* Every inode that has a name has a first one.
LEMMA Origins ==
  ASSUME NEW t \in Trees, NEW f \in Names(t)
  PROVE  IsOrigin(t, t[f.path].ino, Origin(t, t[f.path].ino))
<1> DEFINE ino == t[f.path].ino
           n == Cardinality(Names(t))
           S == SameInode(t, ino)
           I == {i \in 1..n : Nth(t, i) \in S}
<1>1. /\ n \in Nat /\ \A i, j \in 1..n : i < j => Before(Nth(t, i), Nth(t, j))
      /\ \A g \in Names(t) : \E i \in 1..n : Nth(t, i) = g
  BY Ranked
<1>2. StrictOrder(AllNames(t)) /\ Names(t) \subseteq AllNames(t)
  BY NameOrder, NamesOfTree
<1>3. f \in S /\ S \subseteq Names(t)
  BY DEF SameInode
<1> HIDE DEF n, S
<1>4. I \in SUBSET Nat /\ I # {}
  BY <1>1, <1>3
<1>5. PICK m \in I : \A i \in I : m <= i
  <2> HIDE DEF I
  <2> QED BY <1>4, Least
<1>6. ASSUME NEW g \in S, Before(g, Nth(t, m))
      PROVE  FALSE
  <2>1. PICK i \in 1..n : Nth(t, i) = g
    BY <1>1, <1>3
  <2>2. i \in I /\ m \in 1..n /\ m <= i
    BY <1>5, <2>1
  <2>3. m = i \/ m < i
    BY <1>1, <2>2
  <2>4. Nth(t, m) = g \/ Before(Nth(t, m), g)
    BY <1>1, <2>1, <2>2, <2>3
  <2>5. g \in AllNames(t) /\ Nth(t, m) \in AllNames(t)
    BY <1>2, <1>3, <1>5
  <2> QED BY <1>2, <1>6, <2>4, <2>5 DEF StrictOrder
<1>7. Nth(t, m) \in S
  BY <1>5
<1> DEFINE o == Origin(t, ino)
<1>8. o \in S /\ \A g \in S : ~ Before(g, o)
  <2>1. o = CHOOSE h \in S : \A g \in S : ~ Before(g, h)
    BY DEF Origin, S
  <2>2. \E h \in S : \A g \in S : ~ Before(g, h)
    BY <1>6, <1>7
  <2> HIDE DEF o
  <2> QED BY <2>1, <2>2
<1> QED BY <1>8 DEF IsOrigin, S

\* No path is empty.
LEMMA NotEmpty ==
  ASSUME NEW p, Len(p) \in 1..2
  PROVE  p # << >>
OBVIOUS

\* A link is to a name of the inode before it; the first name of a file is none.
LEMMA LinkFacts ==
  ASSUME NEW t \in Trees, NEW e \in Entries(t)
  PROVE  /\ IsLink(e) => \E g \in Names(t) : /\ e.link_target = g.path /\ Before(g, e.name)
                                             /\ t[g.path].ino = e.st.ino
         /\ IsFile(e) => Origin(t, e.st.ino) = e.name
         /\ e.st.type = "sym" => \/ e.link_target = e.st.data
                                 \/ \E g \in Names(t) : t[g.path].ino = e.st.ino /\ Before(g, e.name)
<1> DEFINE f == e.name
           first == {g \in Names(t) : t[g.path].ino = t[f.path].ino /\ Before(g, f)}
<1>1. f \in Names(t) /\ f.path \in DOMAIN t /\ e.st = t[f.path] /\ f \in AllNames(t)
  BY EntryFacts
<1>2. e.link_target = LinkTarget(t, f)
  BY DEF Entries
<1>3. /\ first # {} => \E g \in first : LinkTarget(t, f) = g.path
      /\ first = {} => LinkTarget(t, f) = IF t[f.path].type = "sym" THEN t[f.path].data ELSE << >>
  BY <1>1, LinkedTo
<1>4. first # {} => e.link_target # << >>
  <2> SUFFICES ASSUME NEW g \in first, e.link_target = g.path
               PROVE  e.link_target # << >>
    BY <1>2, <1>3
  <2>1. g.path \in DOMAIN t
    BY NamesOfTree
  <2>2. Len(g.path) \in 1..2
    BY <2>1, PathFacts
  <2>3. g.path # << >>
    BY <2>2, NotEmpty
  <2> QED BY <2>3
<1>5. IsLink(e) => first # {}
  BY <1>1, <1>2, <1>3 DEF IsLink
<1>6. ASSUME IsFile(e)
      PROVE  Origin(t, e.st.ino) = f
  <2> DEFINE o == Origin(t, e.st.ino)
  <2>1. IsOrigin(t, e.st.ino, o)
    BY <1>1, Origins
  <2>2. first = {}
    BY <1>4, <1>6 DEF IsFile
  <2> HIDE DEF o
  <2>3. o \in Names(t) /\ t[o.path].ino = t[f.path].ino
    BY <1>1, <2>1 DEF IsOrigin, SameInode
  <2>4. ~ Before(o, f)
    BY <2>2, <2>3
  <2>5. f \in SameInode(t, e.st.ino)
    BY <1>1 DEF SameInode
  <2>6. ~ Before(f, o)
    BY <2>1, <2>5 DEF IsOrigin
  <2>7. StrictOrder(AllNames(t)) /\ o \in AllNames(t)
    BY <2>3, NameOrder, NamesOfTree
  <2>8. o = f
    BY <1>1, <2>4, <2>6, <2>7 DEF StrictOrder
  <2> QED BY <2>8 DEF o
<1>7. ASSUME e.st.type = "sym", first = {}
      PROVE  e.link_target = e.st.data
  BY <1>1, <1>2, <1>3, <1>7
<1> QED BY <1>1, <1>2, <1>3, <1>5, <1>6, <1>7

-----------------------------------------------------------------------------
(* What the calls give *)

\* Changes at or below a path leave the walk to it as it is.
LEMMA WalkKept ==
  ASSUME NEW fs, NEW g, NEW q, Direct(fs, q), Under(fs, g, q)
  PROVE  Walk(g, q) = Walk(fs, q)
<1> DEFINE d == Front(q)
<1>1. ~ Below(q, d)
  BY FrontNotBelow DEF Direct
<1>2. DirOf(fs, q) = d /\ DirOf(g, q) = d
  BY AtDirect, UnderDirect
<1>3. DOMAIN g = DOMAIN fs /\ (d \in DOMAIN fs => g[d] = fs[d])
  BY <1>1 DEF Under
<1> HIDE DEF d
<1>4. Is(g, d, "dir") = Is(fs, d, "dir") /\ Present(g, d) = Present(fs, d)
  BY <1>3 DEF Is, Present
<1> QED BY <1>2, <1>4 DEF Walk

\* The way to what stands somewhere is there.
LEMMA WalkThere ==
  ASSUME NEW D, NEW fs, Stands(fs, D), NEW q, Direct(fs, q), Present(fs, q)
  PROVE  Walk(fs, q) = "ok"
<1>1. DirOf(fs, q) = Front(q) /\ q \in D
  BY AtDirect DEF Direct, Stands
<1>2. Front(q) # << >> => Is(fs, Front(q), "dir")
  BY <1>1 DEF Stands
<1> QED BY <1>1, <1>2 DEF Walk

\* mkdir, symlink, mknod succeed where nothing stands.
LEMMA MakeGives ==
  ASSUME NEW fs, NEW q, Direct(fs, q), NEW node
  PROVE  LET r == Make(fs, q, node)
         IN  /\ Walk(fs, q) = "ok" => r.err = (IF Present(fs, q) THEN "EEXIST" ELSE "ok")
             /\ r.err = "ok" => r.fs[q] = node /\ ~ Present(fs, q)
<1> DEFINE r == Make(fs, q, node)
<1>1. CASE Walk(fs, q) # "ok"
  <2>1. r.err = Walk(fs, q)
    BY <1>1 DEF Make, Result
  <2> QED BY <1>1, <2>1
<1>2. CASE Walk(fs, q) = "ok" /\ Present(fs, q)
  <2>1. r.err = "EEXIST"
    BY <1>2, AtDirect DEF Make, Result
  <2> QED BY <1>2, <2>1
<1>3. CASE Walk(fs, q) = "ok" /\ ~ Present(fs, q)
  <2>1. r = Place(fs, q, node)
    BY <1>3, AtDirect DEF Make
  <2>2. r.fs[q] = node /\ r.err = "ok"
    BY <2>1, PlaceOnly
  <2> QED BY <1>3, <2>2
<1> QED BY <1>1, <1>2, <1>3

\* unlink, by what stands there.
LEMMA UnlinkGives ==
  ASSUME NEW D, NEW fs, Stands(fs, D), NEW q, Direct(fs, q), NEW slash \in BOOLEAN
  PROVE  LET r == Unlink(fs, q, slash)
         IN  /\ Present(fs, q) /\ Is(fs, q, "dir") => r.err = "EISDIR"
             /\ Present(fs, q) /\ ~ Is(fs, q, "dir") => r.err = (IF slash THEN "ENOTDIR" ELSE "ok")
             /\ ~ Present(fs, q) => r.err = (IF Walk(fs, q) = "ok" THEN "ENOENT" ELSE Walk(fs, q))
<1> DEFINE r == Unlink(fs, q, slash)
<1>0. Present(fs, q) => Walk(fs, q) = "ok"
  BY WalkThere
<1>1. CASE Walk(fs, q) # "ok"
  <2>1. r.err = Walk(fs, q)
    BY <1>1 DEF Unlink, Result
  <2> QED BY <1>0, <1>1, <2>1
<1>2. CASE Walk(fs, q) = "ok" /\ ~ Present(fs, q)
  <2>1. r.err = "ENOENT"
    BY <1>2, AtDirect DEF Unlink, Result
  <2> QED BY <1>2, <2>1
<1>3. CASE Walk(fs, q) = "ok" /\ Present(fs, q) /\ Is(fs, q, "dir")
  <2>1. r.err = "EISDIR"
    BY <1>3, AtDirect DEF Unlink, Result
  <2> QED BY <1>3, <2>1
<1>4. CASE Walk(fs, q) = "ok" /\ Present(fs, q) /\ ~ Is(fs, q, "dir") /\ slash
  <2>1. r.err = "ENOTDIR"
    BY <1>4, AtDirect DEF Unlink, Result
  <2> QED BY <1>4, <2>1
<1>5. CASE Walk(fs, q) = "ok" /\ Present(fs, q) /\ ~ Is(fs, q, "dir") /\ ~ slash
  <2>1. r = Place(fs, q, Absent)
    BY <1>5, AtDirect DEF Unlink
  <2>2. r.err = "ok"
    BY <2>1, PlaceOnly
  <2> QED BY <1>5, <2>2
<1> QED BY <1>1, <1>2, <1>3, <1>4, <1>5

\* A file is moved in place over anything but a directory.
LEMMA EnforceMoveGives ==
  ASSUME NEW fs, NEW q, Direct(fs, q), NEW node
  PROVE  LET r == EnforceMove(fs, q, node)
         IN  /\ oneFs /\ Walk(fs, q) = "ok" /\ ~ Is(fs, q, "dir") => r.err = "ok"
             /\ r.err = "ok" => r.fs[q] = node
<1> DEFINE r == Rename(fs, node, q)
           d == EnforceMove(fs, q, node)
<1>1. CASE ~ oneFs
  <2>1. d.err = "EXDEV"
    BY <1>1 DEF EnforceMove, Result
  <2> QED BY <1>1, <2>1
<1>2. CASE oneFs /\ Walk(fs, q) # "ok"
  <2>1. d.err = Walk(fs, q)
    BY <1>2 DEF EnforceMove, Rename, Result
  <2> QED BY <1>2, <2>1
<1>3. CASE oneFs /\ Walk(fs, q) = "ok" /\ Is(fs, q, "dir")
  <2>1. d.err = "EISDIR"
    BY <1>3, AtDirect DEF EnforceMove, Rename, Result
  <2> QED BY <1>3, <2>1
<1>4. CASE oneFs /\ Walk(fs, q) = "ok" /\ ~ Is(fs, q, "dir")
  <2>1. d = Place(fs, q, node)
    BY <1>4, AtDirect DEF EnforceMove, Rename
  <2>2. d.err = "ok" /\ d.fs[q] = node
    BY <2>1, PlaceOnly
  <2> QED BY <1>4, <2>2
<1> QED BY <1>1, <1>2, <1>3, <1>4

\* A directory is made wherever the way is there.
LEMMA EnforceDirectoryGives ==
  ASSUME NEW D, NEW fs, Stands(fs, D), NEW q, Direct(fs, q), NEW node
  PROVE  LET r == EnforceDirectory(fs, q, node)
         IN  /\ Walk(fs, q) = "ok" => r.err = "ok"
             /\ r.err = "ok" => r.fs[q] = node
<1> DEFINE r == Make(fs, q, node)
           e == Unlink(fs, q, FALSE)
           z == Make(e.fs, q, node)
           y == Place(fs, q, node)
           d == EnforceDirectory(fs, q, node)
           is == Is(fs, q, "dir")
<1>1. /\ Walk(fs, q) = "ok" => r.err = (IF Present(fs, q) THEN "EEXIST" ELSE "ok")
      /\ r.err = "ok" => r.fs[q] = node
  BY MakeGives
<1>2. y.err = "ok" /\ y.fs[q] = node
  BY PlaceOnly
<1>3. Only(fs, e.fs, q) /\ (e.err = "ok" => ~ Present(e.fs, q))
  BY UnlinkOnly
<1>4. Present(fs, q) /\ ~ is => e.err = "ok"
  BY UnlinkGives
<1>5. Under(fs, e.fs, q)
  <2> HIDE DEF e
  <2> QED BY <1>3, OnlyUnder DEF Direct
<1>6. Direct(e.fs, q) /\ Walk(e.fs, q) = Walk(fs, q)
  <2> HIDE DEF e
  <2> QED BY <1>5, UnderDirect, WalkKept
<1>7. /\ Walk(e.fs, q) = "ok" => z.err = (IF Present(e.fs, q) THEN "EEXIST" ELSE "ok")
      /\ z.err = "ok" => z.fs[q] = node
  <2> HIDE DEF e
  <2> QED BY <1>6, MakeGives
<1>8. d = IF r.err = "EEXIST" /\ is THEN y
          ELSE IF r.err \notin {"EEXIST", "ENOTDIR"} THEN r
          ELSE IF e.err # "ok" THEN e
          ELSE z
  BY AtDirect DEF EnforceDirectory
<1>9. r.err = "EEXIST" => Walk(fs, q) = "ok" /\ Present(fs, q)
  BY MakeOnly
<1> HIDE DEF r, e, z, y, d, is
<1>10. d.err = "ok" => d.fs[q] = node
  BY <1>1, <1>2, <1>7, <1>8
<1>11. ASSUME Walk(fs, q) = "ok"
       PROVE  d.err = "ok"
  <2>1. CASE ~ Present(fs, q)
    <3>1. r.err = "ok"
      BY <1>1, <1>11, <2>1
    <3> QED BY <1>8, <3>1
  <2>2. CASE Present(fs, q) /\ is
    <3>1. r.err = "EEXIST"
      BY <1>1, <1>11, <2>2
    <3> QED BY <1>2, <1>8, <2>2, <3>1
  <2>3. CASE Present(fs, q) /\ ~ is
    <3>1. r.err = "EEXIST" /\ e.err = "ok"
      BY <1>1, <1>4, <1>11, <2>3
    <3>2. z.err = "ok"
      BY <1>3, <1>6, <1>7, <1>11, <3>1
    <3> QED BY <1>8, <2>3, <3>1, <3>2
  <2> QED BY <2>1, <2>2, <2>3
<1> QED BY <1>10, <1>11 DEF d

\* A name is unlinked unless its directory is none, or it should be one and is not.
LEMMA EnforceUnlinkGives ==
  ASSUME NEW D, NEW fs, Stands(fs, D), NEW f, Direct(fs, f.path), f.slash \in BOOLEAN
  PROVE  LET r == EnforceUnlink(fs, f)
         IN  /\ Walk(fs, f.path) \in {"ok", "ENOENT"}
                  /\ (f.slash /\ Present(fs, f.path) => Is(fs, f.path, "dir")) => r.err = "ok"
             /\ r.err = "ok" /\ f.slash /\ Present(fs, f.path) => Is(fs, f.path, "dir")
<1> DEFINE q == f.path
           r == Unlink(fs, q, f.slash)
           g == [p \in DOMAIN fs |-> IF Below(At(fs, q), p) THEN Absent ELSE fs[p]]
           e == EnforceUnlink(fs, f)
           a == Result(fs, "ok")
           b == Result(g, "ok")
<1>1. /\ Present(fs, q) /\ Is(fs, q, "dir") => r.err = "EISDIR"
      /\ Present(fs, q) /\ ~ Is(fs, q, "dir") => r.err = (IF f.slash THEN "ENOTDIR" ELSE "ok")
      /\ ~ Present(fs, q) => r.err = (IF Walk(fs, q) = "ok" THEN "ENOENT" ELSE Walk(fs, q))
  BY UnlinkGives
<1>2. e = IF r.err = "ENOENT" THEN a ELSE IF r.err = "EISDIR" THEN b ELSE r
  BY DEF EnforceUnlink
<1>3. a.err = "ok" /\ b.err = "ok"
  BY DEF Result
<1> HIDE DEF r, g, e, a, b, q
<1>4. CASE Present(fs, q) /\ Is(fs, q, "dir")
  <2>1. e.err = "ok"
    BY <1>1, <1>2, <1>3, <1>4
  <2> QED BY <1>4, <2>1 DEF e, q
<1>5. CASE Present(fs, q) /\ ~ Is(fs, q, "dir")
  <2>1. f.slash => e.err = "ENOTDIR"
    BY <1>1, <1>2, <1>5
  <2>2. ~ f.slash => e.err = "ok"
    BY <1>1, <1>2, <1>5
  <2> QED BY <1>5, <2>1, <2>2 DEF e, q
<1>6. CASE ~ Present(fs, q)
  <2>1. Walk(fs, q) \in {"ok", "ENOENT"} => r.err = "ENOENT"
    BY <1>1, <1>6
  <2>2. Walk(fs, q) \in {"ok", "ENOENT"} => e.err = "ok"
    BY <1>2, <1>3, <2>1
  <2> QED BY <1>6, <2>2 DEF e, q
<1> QED BY <1>4, <1>5, <1>6

\* So is what stands in the way, where the way is there.
LEMMA PlainGives ==
  ASSUME NEW D, NEW fs, Stands(fs, D), NEW q, Direct(fs, q), Walk(fs, q) = "ok"
  PROVE  EnforceUnlink(fs, Plain(q)).err = "ok"
<1> DEFINE f == Plain(q)
<1>1. f.path = q /\ f.slash = FALSE
  BY DEF Plain
<1> HIDE DEF f
<1>2. EnforceUnlink(fs, f).err = "ok"
  BY <1>1, EnforceUnlinkGives
<1> QED BY <1>2 DEF f

\* A symlink, a pipe, a socket or a device is made wherever the way is there.
LEMMA EnforceNodeGives ==
  ASSUME NEW D, NEW fs, Stands(fs, D), NEW q, Direct(fs, q), NEW node
  PROVE  LET r == EnforceNode(fs, q, node)
         IN  /\ Walk(fs, q) = "ok" => r.err = "ok"
             /\ r.err = "ok" => r.fs[q] = node
<1> DEFINE r == Make(fs, q, node)
           e == EnforceUnlink(fs, Plain(q))
           z == Make(e.fs, q, node)
           d == EnforceNode(fs, q, node)
<1>1. /\ Walk(fs, q) = "ok" => r.err = (IF Present(fs, q) THEN "EEXIST" ELSE "ok")
      /\ r.err = "ok" => r.fs[q] = node
  BY MakeGives
<1>2. Under(fs, e.fs, q) /\ Direct(e.fs, q) /\ (e.err = "ok" => ~ Present(e.fs, q))
  BY PlainUnder
<1>3. Walk(fs, q) = "ok" => e.err = "ok"
  BY PlainGives
<1>4. Walk(e.fs, q) = Walk(fs, q)
  <2> HIDE DEF e
  <2> QED BY <1>2, WalkKept
<1>5. /\ Walk(e.fs, q) = "ok" => z.err = (IF Present(e.fs, q) THEN "EEXIST" ELSE "ok")
      /\ z.err = "ok" => z.fs[q] = node
  <2> HIDE DEF e
  <2> QED BY <1>2, MakeGives
<1>6. d = IF r.err # "EEXIST" THEN r ELSE IF e.err # "ok" THEN e ELSE z
  BY DEF EnforceNode
<1> HIDE DEF r, e, z, d
<1>7. d.err = "ok" => d.fs[q] = node
  BY <1>1, <1>5, <1>6
<1>8. ASSUME Walk(fs, q) = "ok"
      PROVE  d.err = "ok"
  <2>1. CASE ~ Present(fs, q)
    <3>1. r.err = "ok"
      BY <1>1, <1>8, <2>1
    <3> QED BY <1>6, <3>1
  <2>2. CASE Present(fs, q)
    <3>1. r.err = "EEXIST" /\ e.err = "ok"
      BY <1>1, <1>3, <1>8, <2>2
    <3>2. z.err = "ok"
      BY <1>2, <1>4, <1>5, <1>8, <3>1
    <3> QED BY <1>6, <3>1, <3>2
  <2> QED BY <2>1, <2>2
<1> QED BY <1>7, <1>8 DEF d

\* link gives what stands at the old path, where nothing stands.
LEMMA LinkGives ==
  ASSUME NEW fs, NEW q, Direct(fs, q), NEW old
  PROVE  LET r == Link(fs, old, q)
             there == Walk(fs, old) = "ok" /\ Present(fs, At(fs, old))
         IN  /\ there /\ Walk(fs, q) = "ok" /\ ~ Present(fs, q) => r.err = "ok"
             /\ r.err = "ok" => r.fs[q] = fs[At(fs, old)] /\ there
<1> DEFINE a == At(fs, old)
           r == Link(fs, old, q)
           z == Make(fs, q, fs[a])
<1>1. CASE Walk(fs, old) # "ok"
  <2>1. r.err = Walk(fs, old)
    BY <1>1 DEF Link, Result
  <2> QED BY <1>1, <2>1
<1>2. CASE Walk(fs, old) = "ok" /\ ~ Present(fs, a)
  <2>1. r.err = "ENOENT"
    BY <1>2 DEF Link, Result
  <2> QED BY <1>2, <2>1
<1>3. CASE Walk(fs, old) = "ok" /\ Present(fs, a)
  <2>1. r = z
    BY <1>3 DEF Link
  <2>2. /\ Walk(fs, q) = "ok" => z.err = (IF Present(fs, q) THEN "EEXIST" ELSE "ok")
        /\ z.err = "ok" => z.fs[q] = fs[a]
    <3> HIDE DEF a
    <3> QED BY MakeGives
  <2> QED BY <1>3, <2>1, <2>2
<1> QED BY <1>1, <1>2, <1>3

\* A hard link is made where nothing stands; where something does, the second
\* call finds nothing to link.
LEMMA EnforceHardlinkGives ==
  ASSUME NEW D, NEW fs, Stands(fs, D), NEW q, Direct(fs, q), NEW old
  PROVE  LET r == EnforceHardlink(fs, q, old)
             there == Walk(fs, old) = "ok" /\ Present(fs, At(fs, old))
         IN  /\ there /\ Walk(fs, q) = "ok" /\ ~ Present(fs, q) => r.err = "ok"
             /\ r.err = "ok" => r.fs[q] = fs[At(fs, old)] /\ there
<1> DEFINE r == Link(fs, old, q)
           e == EnforceUnlink(fs, Plain(q))
           z == Link(e.fs, q, old)
           d == EnforceHardlink(fs, q, old)
           there == Walk(fs, old) = "ok" /\ Present(fs, At(fs, old))
<1>1. /\ there /\ Walk(fs, q) = "ok" /\ ~ Present(fs, q) => r.err = "ok"
      /\ r.err = "ok" => r.fs[q] = fs[At(fs, old)] /\ there
  BY LinkGives
<1>2. Direct(e.fs, q) /\ (e.err = "ok" => ~ Present(e.fs, q))
  BY PlainUnder
<1>3. e.err = "ok" => z.err # "ok"
  <2> HIDE DEF e
  <2> SUFFICES ASSUME e.err = "ok"
               PROVE  z.err # "ok"
    OBVIOUS
  <2>1. ~ Present(e.fs, At(e.fs, q))
    BY <1>2, AtDirect
  <2>2. CASE Walk(e.fs, q) # "ok"
    <3>1. z.err = Walk(e.fs, q)
      BY <2>2 DEF Link, Result
    <3> QED BY <2>2, <3>1
  <2>3. CASE Walk(e.fs, q) = "ok"
    <3>1. z.err = "ENOENT"
      BY <2>1, <2>3 DEF Link, Result
    <3> QED BY <3>1
  <2> QED BY <2>2, <2>3
<1>4. d = IF r.err # "EEXIST" THEN r ELSE IF e.err # "ok" THEN e ELSE z
  BY DEF EnforceHardlink
<1> HIDE DEF r, e, z, d, there
<1>5. d.err = "ok" => r.err = "ok" /\ d = r
  BY <1>3, <1>4
<1>6. r.err = "ok" => d = r
  BY <1>4
<1>7. /\ there /\ Walk(fs, q) = "ok" /\ ~ Present(fs, q) => d.err = "ok"
      /\ d.err = "ok" => d.fs[q] = fs[At(fs, old)] /\ there
  BY <1>1, <1>5, <1>6
<1> QED BY <1>7 DEF d, there

-----------------------------------------------------------------------------
(* What a chain makes: the invariant *)

\* The inode the reader gives what it creates at a path.
NewIno(p) == <<1>> \o p

\* What the reader makes of a path of the new tree.
Copied(n, p) ==
  /\ n.type = ver[p].type
  /\ n.ugm[1] = ver[p].ugm[1] /\ n.ugm[3] = ver[p].ugm[3]
  /\ n.type # "dev" /\ ~ LinkedSymlinks /\ unflushed = 0 => n.data = ver[p].data
  /\ n.mtime = ver[p].mtime
  /\ n.type = "reg" => n.ino = NewIno(Origin(ver, ver[p].ino).path)

\* The command of its entry is executed.
Made(p) == Present(ver, p) /\ Past(Name(ver, p))

\* Before the first command the directory is as it was.
Untouched ==
  pc \in {"list", "header", "encode", "read"} =>
    /\ err = "ok"
    /\ inPlace => target = src
    /\ ~ inPlace => \A p \in Paths : ~ Present(target, p)

\* What is made is as it should be, the rest is as it was or gone, and what is
\* unlinked is gone.
Grown == pc = "apply" => err = "ok" /\ \A p \in Paths : Made(p) => Copied(target[p], p)
Kept == pc = "apply" => \A p \in Paths : Present(target, p) => Made(p) \/ (inPlace /\ target[p] = src[p])
Cleared ==
  pc = "apply" =>
    \A p \in Paths : Present(src, p) /\ ~ Present(ver, p) /\ Past(Name(src, p)) => ~ Present(target, p)

FitInv == SafeInv /\ Untouched /\ Grown /\ Kept /\ Cleared /\ Rebuilt /\ Applies

\* The command to be executed is about f.
IsNext(f) == Named(src_files, ref_files, Walked, done + 1, f)

\* The command about f comes to r as it should.
Fits(f, r) ==
  /\ Under(target, r.fs, f.path)
  /\ r.err = "ok" =>
       /\ f \in Names(ver) => Copied(r.fs[f.path], f.path)
       /\ f \notin Names(ver) => /\ ~ Present(r.fs, f.path)
                                 /\ f.slash /\ Present(target, f.path) => Is(target, f.path, "dir")
  /\ ~ CannotApply => r.err = "ok"

\* What is past comes before the next command.
LEMMA PastBefore ==
  ASSUME IInv, pc = "apply", NEW f, IsNext(f), NEW g, Past(g)
  PROVE  Before(g, f)
<1>1. Walking(src, ver, src_files, ref_files, Walked)
  BY ApplyWalk
<1>2. PICK j \in 1..done : Named(src_files, ref_files, Walked, j, g)
  BY DEF Past
<1>3. done \in Nat /\ j < done + 1
  BY DEF IInv, Bounds
<1> QED BY <1>1, <1>2, <1>3, NamesAscend DEF IsNext

\* What will be past after the next command.
Soon(g) == \E j \in 1..(done + 1) : Named(src_files, ref_files, Walked, j, g)

\* That is what is past, and what it is about.
LEMMA SoonPast ==
  ASSUME IInv, pc = "apply", NEW f, IsNext(f)
  PROVE  /\ Soon(f)
         /\ \A g : Past(g) => Soon(g)
         /\ \A g : Soon(g) => Past(g) \/ g = f
<1>1. Walking(src, ver, src_files, ref_files, Walked) /\ done \in Nat
  BY ApplyWalk DEF IInv, Bounds
<1>2. done + 1 \in 1..(done + 1) /\ \A j \in 1..done : j \in 1..(done + 1)
  BY <1>1
<1>3. ASSUME NEW g, Soon(g)
      PROVE  Past(g) \/ g = f
  <2>1. PICK j \in 1..(done + 1) : Named(src_files, ref_files, Walked, j, g)
    BY <1>3 DEF Soon
  <2>2. CASE j = done + 1
    <3>1. Named(src_files, ref_files, Walked, done + 1, g) /\ Named(src_files, ref_files, Walked, done + 1, f)
      BY <2>1, <2>2 DEF IsNext
    <3> QED BY <1>1, <3>1, NamedOnce
  <2>3. CASE j # done + 1
    <3>1. j \in 1..done
      BY <1>1, <2>3
    <3> QED BY <2>1, <3>1 DEF Past
  <2> QED BY <2>2, <2>3
<1>4. Soon(f)
  BY <1>2 DEF IsNext, Soon
<1>5. ASSUME NEW g, Past(g)
      PROVE  Soon(g)
  BY <1>2, <1>5 DEF Past, Soon
<1> QED BY <1>3, <1>4, <1>5

\* And past it is, when the command is executed.
LEMMA NowPast ==
  ASSUME done' = done + 1, UNCHANGED <<src, ver, src_files, ref_files>>, NEW p
  PROVE  /\ Made(p)' <=> Present(ver, p) /\ Soon(Name(ver, p))
         /\ Past(Name(src, p))' <=> Soon(Name(src, p))
<1>1. UNCHANGED Walked
  BY DEF Walked
<1>2. Present(ver, p)' <=> Present(ver, p)
  BY DEF Present
<1>3. Past(Name(ver, p))' <=> Soon(Name(ver, p))
  BY <1>1 DEF Past, Soon, Named, EntryAt, GoneAt, Ord, Name, Is
<1>4. Past(Name(src, p))' <=> Soon(Name(src, p))
  BY <1>1 DEF Past, Soon, Named, EntryAt, GoneAt, Ord, Name, Is
<1> QED BY <1>2, <1>3, <1>4 DEF Made

\* No command comes for a directory when what is in it is made.
LEMMA NotAbove ==
  ASSUME IInv, pc = "apply", NEW f \in Names(src) \cup Names(ver), IsNext(f),
         NEW p \in Paths, Made(p)
  PROVE  ~ (Len(p) = 2 /\ f.path = Front(p))
<1> SUFFICES ASSUME Len(p) = 2, f.path = Front(p)
             PROVE  FALSE
  OBVIOUS
<1>1. src \in Trees /\ ver \in Trees
  BY ApplyWalk
<1>2. p \in DOMAIN ver /\ f \in FNames /\ f.path \in DOMAIN src
  BY <1>1, SameNames, NamesOfTree DEF Paths
<1> DEFINE d == Front(p)
           g == [path |-> d, slash |-> TRUE]
           n == Name(ver, p)
<1>3. p \in Strs /\ Len(p) \in 1..2 /\ d \in Strs /\ Len(d) \in 1..2
  BY <1>1, <1>2, PathFacts
<1>4. d # << >>
  BY <1>3, NotEmpty
<1>5. n.path = p /\ n.slash \in BOOLEAN /\ n = [path |-> p, slash |-> n.slash]
  BY DEF Name, Is
<1>6. Before(g, n)
  <2> HIDE DEF n, g
  <2>1. Before([path |-> d, slash |-> TRUE], [path |-> p, slash |-> n.slash])
    BY <1>3, <1>4, <1>5, DirFirst
  <2> QED BY <1>5, <2>1 DEF g
<1>7. f = g \/ Before(f, g)
  <2>1. f = [path |-> d, slash |-> TRUE] \/ f = [path |-> d, slash |-> FALSE]
    BY <1>2 DEF FNames
  <2>2. Before([path |-> d, slash |-> FALSE], [path |-> d, slash |-> TRUE])
    <3> HIDE DEF d
    <3> QED BY <1>3, SlashLater
  <2> QED BY <2>1, <2>2
<1>8. Before(n, f)
  BY PastBefore DEF Made
<1>9. f \in AllNames(src) /\ g \in AllNames(src) /\ n \in AllNames(src) /\ StrictOrder(AllNames(src))
  <2>1. p \in DOMAIN src /\ d \in DOMAIN src
    BY <1>2 DEF Paths
  <2>2. f \in AllNames(src)
    BY <1>1, NamesOfTree, SameNames
  <2> HIDE DEF n, g
  <2>3. n \in AllNames(src)
    BY <1>5, <2>1, NameMade
  <2>4. g \in AllNames(src)
    BY <2>1, NameMade DEF g
  <2> QED BY <1>1, <2>2, <2>3, <2>4, NameOrder
<1> HIDE DEF g, n
<1> QED BY <1>6, <1>7, <1>8, <1>9 DEF StrictOrder

\* Nor for the path of what is made, but for its own.
LEMMA NotAgain ==
  ASSUME IInv, pc = "apply", NEW f \in Names(src), f \notin Names(ver), IsNext(f),
         Made(f.path), Copied(target[f.path], f.path), DOMAIN target = Paths
  PROVE  f.slash /\ Present(target, f.path) /\ ~ Is(target, f.path, "dir")
<1> DEFINE p == f.path
           n == Name(ver, p)
<1>1. src \in Trees /\ ver \in Trees
  BY ApplyWalk
<1>2. p \in DOMAIN ver /\ f \in FNames /\ p \in DOMAIN src /\ p \in Paths
  BY <1>1, SameNames, NamesOfTree DEF Paths
<1>3. n \in Names(ver) /\ n.path = p /\ n.slash = Is(ver, p, "dir") /\ n.slash \in BOOLEAN
  BY <1>2 DEF Made, Names, Name, Is
<1>4. f = [path |-> p, slash |-> f.slash] /\ n = [path |-> p, slash |-> n.slash] /\ f.slash \in BOOLEAN
  BY <1>2 DEF FNames, Name
<1>5. f.slash # n.slash
  <2> HIDE DEF n, p
  <2> QED BY <1>3, <1>4
<1>6. target[p].type = ver[p].type /\ ver[p].type # "none"
  BY DEF Copied, Made, Present
<1>7. CASE f.slash
  <2>1. ~ Is(ver, p, "dir")
    BY <1>3, <1>5, <1>7
  <2> QED BY <1>2, <1>6, <1>7, <2>1 DEF Is, Present
<1>8. CASE ~ f.slash
  <2>1. p \in Strs /\ Len(p) \in 1..2
    BY <1>1, <1>2, PathFacts
  <2>2. f = [path |-> p, slash |-> FALSE] /\ n = [path |-> p, slash |-> TRUE]
    BY <1>3, <1>4, <1>5, <1>8
  <2> HIDE DEF p, n
  <2>3. Before(f, n)
    BY <2>1, <2>2, SlashLater
  <2>4. Before(n, f)
    BY PastBefore DEF Made, n, p
  <2>5. f \in AllNames(src) /\ n \in AllNames(src) /\ StrictOrder(AllNames(src))
    BY <1>1, <1>2, <2>2, NameMade, NameOrder
  <2> QED BY <2>3, <2>4, <2>5 DEF StrictOrder
<1> QED BY <1>7, <1>8

\* What a command changes is at its path, or gone.
LEMMA ChangedWhere ==
  ASSUME NEW f, Under(target, target', f.path), f.path \in Strs, Len(f.path) \in 1..2,
         NEW p \in Strs, Len(p) \in 1..2, p \in DOMAIN target
  PROVE  \/ target'[p] = target[p]
         \/ p = f.path
         \/ target'[p] = Absent /\ Len(p) = 2 /\ f.path = Front(p)
<1>1. target'[p] = target[p] \/ (Below(f.path, p) /\ (p = f.path \/ target'[p] = Absent))
  BY DEF Under
<1>2. Below(f.path, p) => p = f.path \/ (Len(p) = 2 /\ f.path = Front(p))
  BY BelowPath
<1> QED BY <1>1, <1>2

\* A command that succeeds, and does what it should, leaves what is made.
LEMMA SucceedsFits ==
  ASSUME FitInv, SafeInv', pc = "apply", UNCHANGED <<inputs, writer, unflushed, pc, err>>, done' = done + 1,
         NEW f \in Names(src) \cup Names(ver), IsNext(f),
         NEW r, target' = r.fs, Fits(f, r), r.err = "ok"
  PROVE  FitInv'
<1>1. IInv /\ src \in Trees /\ ver \in Trees /\ DOMAIN target = Paths /\ err = "ok"
  BY ApplyWalk DEF FitInv, SafeInv, IInv, Stands, Grown
<1>2. UNCHANGED <<src, ver, inPlace, src_files, ref_files, unflushed, Paths>>
  BY DEF inputs, writer, Paths
<1>3. /\ Soon(f)
      /\ \A g : Past(g) => Soon(g)
      /\ \A g : Soon(g) => Past(g) \/ g = f
  BY <1>1, SoonPast
<1>7. /\ \A p : Made(p)' <=> Present(ver, p) /\ Soon(Name(ver, p))
      /\ \A p : Past(Name(src, p))' <=> Soon(Name(src, p))
  BY <1>2, NowPast
<1>4. f \in FNames /\ f.path \in Paths /\ (f \in Names(ver) => f = Name(ver, f.path))
  BY <1>1, NamesOfTree, SameNames DEF Paths
<1>5. f.path \in Strs /\ Len(f.path) \in 1..2
  BY <1>1, <1>4, PathFacts DEF Paths
<1>6. Under(target, target', f.path) /\ DOMAIN target' = Paths
  BY <1>1 DEF Fits, Under
<1>8. ASSUME NEW p \in Paths
      PROVE  \/ target'[p] = target[p]
             \/ p = f.path
             \/ target'[p] = Absent /\ Len(p) = 2 /\ f.path = Front(p)
  <2>1. p \in Strs /\ Len(p) \in 1..2
    BY <1>1, PathFacts DEF Paths
  <2> QED BY <1>1, <1>5, <1>6, <2>1, ChangedWhere
<1>9. Grown'
  <2> SUFFICES ASSUME NEW p \in Paths, Present(ver, p), Soon(Name(ver, p))
               PROVE  Copied(target'[p], p)
    BY <1>1, <1>2, <1>7 DEF Grown, Copied, LinkedSymlinks
  <2>1. CASE Name(ver, p) = f
    <3>1. f.path = p /\ f \in Names(ver)
      BY <1>1, <2>1, SameNames DEF Name, Names, Paths
    <3> QED BY <3>1 DEF Fits
  <2>2. CASE Name(ver, p) # f
    <3>1. Made(p) /\ Copied(target[p], p)
      BY <1>3, <2>2 DEF Made, FitInv, Grown
    <3>2. ~ (Len(p) = 2 /\ f.path = Front(p))
      BY <1>1, <3>1, NotAbove
    <3>3. ASSUME p = f.path
          PROVE  FALSE
      <4>1. f \notin Names(ver) /\ f \in Names(src)
        BY <1>4, <2>2, <3>3
      <4>2. f.slash /\ Present(target, f.path) /\ ~ Is(target, f.path, "dir")
        BY <1>1, <3>1, <3>3, <4>1, NotAgain
      <4> QED BY <4>1, <4>2 DEF Fits
    <3>4. target'[p] = target[p]
      BY <1>8, <3>2, <3>3
    <3> QED BY <3>1, <3>4
  <2> QED BY <2>1, <2>2
<1>10. Kept'
  <2> SUFFICES ASSUME NEW p \in Paths, Present(target', p)
               PROVE  (Present(ver, p) /\ Soon(Name(ver, p))) \/ (inPlace /\ target'[p] = src[p])
    BY <1>2, <1>7 DEF Kept, Present
  <2>1. CASE target'[p] = target[p]
    <3>1. Present(target, p)
      BY <1>1, <2>1 DEF Present
    <3>2. Made(p) \/ (inPlace /\ target[p] = src[p])
      BY <3>1 DEF FitInv, Kept
    <3> QED BY <1>3, <2>1, <3>2 DEF Made
  <2>2. CASE p = f.path
    <3>1. f \in Names(ver)
      BY <2>2 DEF Fits
    <3>2. Present(ver, p) /\ Name(ver, p) = f
      BY <1>1, <1>4, <2>2, <3>1, NamesOfTree
    <3> QED BY <1>3, <3>2
  <2>3. CASE target'[p] = Absent
    BY <2>3 DEF Present, Absent
  <2> QED BY <1>8, <2>1, <2>2, <2>3
<1>11. Cleared'
  <2> SUFFICES ASSUME NEW p \in Paths, Present(src, p), ~ Present(ver, p), Soon(Name(src, p))
               PROVE  ~ Present(target', p)
    BY <1>2, <1>7 DEF Cleared, Present
  <2>1. CASE p = f.path
    <3>1. f \notin Names(ver)
      BY <1>1, <2>1, NamesOfTree
    <3> QED BY <2>1, <3>1 DEF Fits
  <2>2. CASE p # f.path /\ target'[p] = target[p]
    <3>1. Name(src, p) # f
      BY <2>2 DEF Name
    <3>2. ~ Present(target, p)
      BY <1>3, <3>1 DEF FitInv, Cleared
    <3> QED BY <1>1, <2>2, <3>2 DEF Present
  <2>3. CASE target'[p] = Absent
    BY <2>3 DEF Present, Absent
  <2> QED BY <1>8, <2>1, <2>2, <2>3
<1>12. Untouched' /\ Rebuilt' /\ Applies'
  BY DEF Untouched, Rebuilt, Applies
<1> QED BY <1>9, <1>10, <1>11, <1>12 DEF FitInv

\* A command that comes to r as it should keeps the invariant.
LEMMA ExecutedFits ==
  ASSUME FitInv, SafeInv', NEW cmds, NEW r, NEW timed, Execute(cmds, r, timed),
         NEW f \in Names(src) \cup Names(ver), IsNext(f), Fits(f, r)
  PROVE  FitInv'
<1>1. /\ pc = "apply" /\ target' = r.fs /\ done' = done + 1
      /\ UNCHANGED <<inputs, writer, unflushed>>
      /\ r.err = "ok" => UNCHANGED <<pc, err>>
      /\ r.err # "ok" => err' = r.err /\ pc' = "cleanup"
  BY DEF Execute, Leave
<1>2. CASE r.err = "ok"
  BY <1>1, <1>2, SucceedsFits
<1>3. CASE r.err # "ok"
  <2>1. CannotApply' <=> CannotApply
    BY <1>1 DEF CannotApply, IsFile, inputs, writer, Paths
  <2>2. Applies'
    BY <1>1, <1>3, <2>1 DEF Applies, Fits, inputs
  <2>3. Untouched' /\ Grown' /\ Kept' /\ Cleared' /\ Rebuilt'
    BY <1>1, <1>3 DEF Untouched, Grown, Kept, Cleared, Rebuilt
  <2> QED BY <2>2, <2>3 DEF FitInv
<1> QED BY <1>2, <1>3

\* The way to an entry's path is there: the directory it is in is made.
LEMMA EntryWalk ==
  ASSUME FitInv, pc = "apply", NEW e \in Entries(ver), IsNext(e.name)
  PROVE  Walk(target, e.name.path) = "ok" /\ ~ Made(e.name.path)
<1> DEFINE q == e.name.path
           d == Front(q)
           g == [path |-> d, slash |-> TRUE]
<1>1. IInv /\ src \in Trees /\ ver \in Trees /\ Walking(src, ver, src_files, ref_files, Walked)
  BY ApplyWalk DEF FitInv, SafeInv
<1>2. Direct(target, q) /\ DOMAIN target = Paths /\ DOMAIN ver = Paths /\ done \in Nat
  BY <1>1, EntryDirect, SameNames DEF FitInv, SafeInv, IInv, Stands, IsNext, Paths, Bounds
<1>3. DirOf(target, q) = d
  BY <1>2, AtDirect
<1>4. /\ e.name \in Names(ver) /\ e.name \in FNames /\ q \in DOMAIN ver /\ Present(ver, q)
      /\ e.name = Name(ver, q) /\ e.name \in AllNames(ver)
  BY <1>1, EntryFacts, NamesOfTree
<1>5. ~ Made(q)
  <2>1. Past(e.name) => Before(e.name, e.name)
    BY <1>1, PastBefore DEF FitInv
  <2>2. StrictOrder(AllNames(ver))
    BY <1>1, NameOrder
  <2> QED BY <1>4, <2>1, <2>2 DEF Made, StrictOrder
<1>6. CASE d = << >>
  BY <1>3, <1>5, <1>6 DEF Walk
<1>7. CASE d # << >>
  <2>1. q \in Strs /\ Len(q) \in 1..2 /\ d \in DOMAIN ver /\ Is(ver, d, "dir")
    BY <1>1, <1>4, <1>7, PathFacts
  <2>2. g \in Names(ver) /\ g = Name(ver, d)
    BY <2>1, DirNamed DEF Name
  <2>3. Before(g, e.name)
    <3>1. e.name = [path |-> q, slash |-> e.name.slash] /\ e.name.slash \in BOOLEAN
      BY <1>4 DEF FNames
    <3> HIDE DEF q
    <3>2. Before(g, [path |-> q, slash |-> e.name.slash])
      BY <1>7, <2>1, <3>1, DirFirst
    <3> QED BY <3>1, <3>2
  <2> HIDE DEF g
  <2>4. \E j \in 1..((done + 1) - 1) : Named(src_files, ref_files, Walked, j, g)
    BY <1>1, <2>2, <2>3, NamesDone DEF IsNext
  <2>5. (done + 1) - 1 = done
    BY <1>2
  <2>6. Made(d)
    BY <2>1, <2>2, <2>4, <2>5 DEF Past, Made, Is, Present
  <2>7. Copied(target[d], d)
    BY <1>2, <2>1, <2>6 DEF FitInv, Grown
  <2>8. Is(target, d, "dir")
    BY <1>2, <2>1, <2>7 DEF Copied, Is
  <2> QED BY <1>3, <1>5, <2>8 DEF Walk
<1> QED BY <1>6, <1>7

\* What is read of an entry makes its node.
LEMMA NewCopied ==
  ASSUME FitInv, pc = "apply", NEW e \in Entries(ver), IsRead(e), ~ IsLink(e), NEW data,
         e.st.type # "dev" /\ ~ LinkedSymlinks /\ unflushed = 0 => data = e.st.data
  PROVE  Copied(New(e.st.type, e.name.path, data), e.name.path)
<1> DEFINE p == e.name.path
           n == New(e.st.type, p, data)
           u == patch.ugm[Cmd.ugm]
<1>1. ver \in Trees /\ Listed(ref_files, ver) /\ patch.ugm = WrittenUgms(ref_files)
  BY ListFacts DEF FitInv, SafeInv, IInv, Lists, Headed, Writes
<1>2. e.st = ver[p]
  BY <1>1, EntryFacts
<1>3. u[1] = e.st.ugm[1] /\ u[3] = e.st.ugm[3]
  <2>1. u = WrittenUgms(ref_files)[IndexOf(ref_files, e.st.ugm)]
    BY <1>1 DEF IsRead
  <2> HIDE DEF u
  <2> QED BY <1>1, <2>1, OwnerBack
<1>4. /\ n.type = e.st.type /\ n.ugm = u /\ n.data = data /\ n.mtime = Mtime
      /\ n.ino = NewIno(p)
  BY DEF New, Node, NewIno
<1>5. Mtime = e.st.mtime
  BY DEF IsRead
<1>6. e.st.type = "reg" => Origin(ver, e.st.ino).path = p
  <2>1. e.st.type = "reg" => IsFile(e)
    BY DEF IsLink, IsFile
  <2> QED BY <1>1, <2>1, LinkFacts
<1> HIDE DEF n, u
<1>7. Copied(n, p)
  <2> HIDE DEF p
  <2> QED BY <1>2, <1>3, <1>4, <1>5, <1>6 DEF Copied
<1> QED BY <1>7 DEF n

\* An entry's command fits when it makes what it should, and comes to that.
LEMMA EntryFits ==
  ASSUME FitInv, SafeInv', NEW cmds, NEW r, NEW timed, Execute(cmds, r, timed),
         NEW e \in Entries(ver), IsNext(e.name), Under(target, r.fs, e.name.path),
         r.err = "ok" => Copied(r.fs[e.name.path], e.name.path),
         ~ CannotApply => r.err = "ok"
  PROVE  FitInv'
<1> DEFINE f == e.name
<1>1. ver \in Trees
  BY DEF FitInv, SafeInv, IInv, Lists
<1>2. f \in Names(ver)
  BY <1>1, EntryFacts
<1>3. f \in Names(src) \cup Names(ver)
  BY <1>2
<1>4. Fits(f, r)
  BY <1>2 DEF Fits
<1> HIDE DEF f
<1>5. IsNext(f)
  BY DEF f
<1> QED BY <1>3, <1>4, <1>5, ExecutedFits

\* An entry is in the list.
LEMMA EntryListed ==
  ASSUME IInv, pc = "apply", NEW e \in Entries(ver)
  PROVE  \E i \in DOMAIN ref_files : ref_files[i] = e
<1>1. ver \in Trees /\ Listed(ref_files, ver)
  BY ListFacts DEF IInv, Lists
<1>2. e.name \in Names(ver)
  BY <1>1, EntryFacts
<1>3. PICK i \in 1..Len(ref_files) : ref_files[i].name = e.name
  BY <1>1, <1>2 DEF Listed
<1>4. ref_files[i] = e
  <2>1. ref_files[i] \in Entries(ver)
    BY <1>1, ListedAt
  <2> QED BY <1>3, <2>1 DEF Entries
<1>5. i \in DOMAIN ref_files
  BY <1>1 DEF Listed
<1> QED BY <1>4, <1>5

\* A file moved in place is its copy; no directory is in the way.
LEMMA RegFits ==
  ASSUME FitInv, SafeInv', ApplyReg
  PROVE  FitInv'
<1> DEFINE p == final_paths[file_pos + 1]
           node == New("reg", p, Content(file_pos + 1))
           r == EnforceMove(target, p, node)
<1>1. Execute({"reg"}, r, TRUE) /\ SafeInv
  BY DEF ApplyReg, FitInv
<1>2. pc = "apply" /\ done < Len(patch.cmds) /\ Cmd.cmd = "reg"
  BY <1>1, KeptRead DEF Execute, FitInv, SafeInv
<1>3. PICK e \in Entries(ver) :
        /\ IsRead(e) /\ Named(src_files, ref_files, Walked, done + 1, e.name)
        /\ IsFile(e) => p = e.name.path /\ Filled(e.st.data)
  BY <1>1, <1>2, EntryTurnOf DEF SafeInv
<1>4. IsFile(e) /\ ~ IsLink(e) /\ e.st.type = "reg"
  BY <1>1, <1>2, <1>3, KindRead DEF SafeInv, IsFile, IsLink
<1>5. Direct(target, e.name.path) /\ ver \in Trees /\ src \in Trees
  BY <1>1, <1>2, <1>3, EntryDirect
<1>6. p = e.name.path /\ Copied(node, p)
  <2>1. unflushed = 0 => Content(file_pos + 1) = e.st.data
    <3>1. ~ (0 > 0)
      OBVIOUS
    <3> QED BY <1>3, <1>4, <3>1 DEF Filled
  <2> QED BY <1>2, <1>3, <1>4, <2>1, NewCopied
<1>7. Walk(target, p) = "ok" /\ ~ Made(p)
  BY <1>2, <1>3, <1>6, EntryWalk DEF IsNext
<1>8. ~ CannotApply => ~ Is(target, p, "dir")
  <2> SUFFICES ASSUME Is(target, p, "dir")
               PROVE  CannotApply
    OBVIOUS
  <2>1. p \in Paths /\ Present(target, p)
    BY <1>5, <1>6, EntryFacts, SameNames DEF Is, Present, Paths
  <2>2. target[p] = src[p]
    BY <1>2, <1>7, <2>1 DEF FitInv, Kept
  <2>3. Is(src, p, "dir") /\ ver[p].type = "reg"
    BY <1>4, <1>5, <1>6, <2>1, <2>2, EntryFacts DEF Is, Paths
  <2> QED BY <2>1, <2>3 DEF CannotApply
<1>14. ~ CannotApply => oneFs
  <2>1. PICK i \in DOMAIN ref_files : ref_files[i] = e
    BY <1>1, <1>2, EntryListed DEF SafeInv
  <2> QED BY <1>4, <2>1 DEF CannotApply
<1> HIDE DEF p, node
<1>9. /\ oneFs /\ Walk(target, p) = "ok" /\ ~ Is(target, p, "dir") => r.err = "ok"
      /\ r.err = "ok" => r.fs[p] = node
  BY <1>5, <1>6, EnforceMoveGives
<1>10. Under(target, r.fs, p)
  <2>1. Only(target, r.fs, p)
    BY <1>5, <1>6, EnforceMoveOnly
  <2> QED BY <1>5, <1>6, <2>1, OnlyUnder DEF Direct
<1> HIDE DEF r
<1>11. Under(target, r.fs, e.name.path) /\ (r.err = "ok" => Copied(r.fs[e.name.path], e.name.path))
  BY <1>6, <1>9, <1>10
<1>12. ~ CannotApply => r.err = "ok"
  BY <1>7, <1>8, <1>9, <1>14
<1>13. IsNext(e.name)
  BY <1>3 DEF IsNext
<1> QED BY <1>1, <1>11, <1>12, <1>13, EntryFits

\* The names of one inode stand for the same, and only some hold something.
LEMMA InodeFacts ==
  ASSUME NEW t \in Trees, NEW p \in DOMAIN t, Present(t, p)
  PROVE  /\ t[p].type \in {"dir", "fifo", "sock"} => t[p].data = << >>
         /\ \A q \in DOMAIN t : Present(t, q) /\ t[q].ino = t[p].ino => t[q] = t[p]
BY InodeAssumption DEF InodeAssumption

\* A directory made where an entry is one.
LEMMA DirFits ==
  ASSUME FitInv, SafeInv', ApplyDir
  PROVE  FitInv'
<1> DEFINE q == Read[1].path
           node == New("dir", q, << >>)
           r == EnforceDirectory(target, q, node)
<1>1. Execute({"dir"}, r, TRUE) /\ SafeInv
  BY DEF ApplyDir, FitInv
<1>2. pc = "apply" /\ done < Len(patch.cmds) /\ Cmd.cmd = "dir"
  BY <1>1, KeptRead DEF Execute, FitInv, SafeInv
<1>3. PICK e \in Entries(ver) : IsRead(e) /\ Named(src_files, ref_files, Walked, done + 1, e.name)
  BY <1>1, <1>2, EntryTurnOf DEF SafeInv
<1>4. ~ IsFile(e) /\ ~ IsLink(e) /\ e.st.type = "dir"
  BY <1>1, <1>2, <1>3, KindRead DEF SafeInv, IsRead
<1>5. q = e.name.path
  BY <1>1, <1>3, <1>4, FirstRead DEF SafeInv
<1>6. Direct(target, e.name.path) /\ Stands(target, Paths) /\ ver \in Trees
  BY <1>1, <1>2, <1>3, EntryDirect
<1>7. e.st.data = << >>
  BY <1>4, <1>6, EntryFacts, InodeFacts
<1>8. Copied(node, q)
  BY <1>2, <1>3, <1>4, <1>5, <1>7, NewCopied
<1>9. Walk(target, q) = "ok"
  BY <1>2, <1>3, <1>5, EntryWalk DEF IsNext
<1>10. node.type = "dir"
  BY DEF New, Node
<1> HIDE DEF q, node
<1>11. /\ Walk(target, q) = "ok" => r.err = "ok"
       /\ r.err = "ok" => r.fs[q] = node
  BY <1>5, <1>6, EnforceDirectoryGives
<1>12. Under(target, r.fs, q)
  <2>1. Only(target, r.fs, q)
    BY <1>5, <1>6, <1>10, EnforceDirectoryOnly
  <2> QED BY <1>5, <1>6, <2>1, OnlyUnder DEF Direct
<1> HIDE DEF r
<1>13. Under(target, r.fs, e.name.path) /\ (r.err = "ok" => Copied(r.fs[e.name.path], e.name.path))
  BY <1>5, <1>8, <1>11, <1>12
<1>14. ~ CannotApply => r.err = "ok"
  BY <1>9, <1>11
<1>15. IsNext(e.name)
  BY <1>3 DEF IsNext
<1> QED BY <1>1, <1>13, <1>14, <1>15, EntryFits

\* What is read of a symlink, a pipe or a socket is what it holds.
LEMMA DataRead ==
  ASSUME ver \in Trees, NEW e \in Entries(ver), IsRead(e), ~ LinkedSymlinks,
         e.st.type \in {"sym", "fifo", "sock"}, DOMAIN ver = Paths
  PROVE  Cmd.data = e.st.data
<1>1. /\ e.name \in Names(ver) /\ e.name \in AllNames(ver) /\ e.name.path \in DOMAIN ver
      /\ e.st = ver[e.name.path] /\ Present(ver, e.name.path)
  BY EntryFacts
<1>2. CASE e.st.type \in {"fifo", "sock"}
  <2>1. e.st.data = << >>
    BY <1>1, <1>2, InodeFacts
  <2> QED BY <1>2, <2>1 DEF IsRead
<1>3. CASE e.st.type = "sym"
  <2>1. ASSUME NEW g \in Names(ver), ver[g.path].ino = e.st.ino, Before(g, e.name)
        PROVE  FALSE
    <3>1. g.path \in DOMAIN ver /\ Present(ver, g.path) /\ g = Name(ver, g.path) /\ g \in AllNames(ver)
      BY NamesOfTree
    <3>2. ver[g.path] = e.st
      BY <1>1, <2>1, <3>1, InodeFacts
    <3>3. g # e.name /\ e.name = Name(ver, e.name.path)
      <4>1. StrictOrder(AllNames(ver))
        BY NameOrder
      <4> QED BY <1>1, <2>1, <3>1, <4>1, NamesOfTree DEF StrictOrder
    <3>4. g.path # e.name.path
      BY <3>1, <3>3
    <3> QED BY <1>1, <1>3, <3>1, <3>2, <3>4 DEF LinkedSymlinks, Is
  <2>2. e.link_target = e.st.data
    BY <1>3, <2>1, LinkFacts
  <2> QED BY <1>3, <2>2 DEF IsRead
<1> QED BY <1>2, <1>3

\* A symlink, a pipe, a socket or a device is its copy.
LEMMA NodeFits ==
  ASSUME FitInv, SafeInv', ApplyNode
  PROVE  FitInv'
<1> DEFINE q == Read[1].path
           node == New(Cmd.cmd, q, Cmd.data)
           r == EnforceNode(target, q, node)
<1>1. Execute({"sym", "fifo", "sock", "dev"}, r, TRUE) /\ SafeInv
  BY DEF ApplyNode, FitInv
<1>2. pc = "apply" /\ done < Len(patch.cmds) /\ Cmd.cmd \in {"sym", "fifo", "sock", "dev"}
  BY <1>1, KeptRead DEF Execute, FitInv, SafeInv
<1>3. PICK e \in Entries(ver) : IsRead(e) /\ Named(src_files, ref_files, Walked, done + 1, e.name)
  BY <1>1, <1>2, EntryTurnOf DEF SafeInv
<1>4. ~ IsFile(e) /\ ~ IsLink(e) /\ e.st.type = Cmd.cmd
  <2>1. Cmd.cmd # "HARDLINK" /\ Cmd.cmd # "reg"
    BY <1>2
  <2> QED BY <1>3, <2>1 DEF IsRead, IsFile
<1>5. q = e.name.path
  BY <1>1, <1>3, <1>4, FirstRead DEF SafeInv
<1>6. Direct(target, e.name.path) /\ Stands(target, Paths) /\ ver \in Trees /\ src \in Trees
  BY <1>1, <1>2, <1>3, EntryDirect
<1>7. e.st.type # "dev" /\ ~ LinkedSymlinks => Cmd.data = e.st.data
  <2>1. DOMAIN ver = Paths
    BY <1>6, SameNames DEF Paths
  <2> QED BY <1>2, <1>3, <1>4, <1>6, <2>1, DataRead
<1>8. Copied(node, q)
  BY <1>2, <1>3, <1>4, <1>5, <1>7, NewCopied
<1>9. Walk(target, q) = "ok"
  BY <1>2, <1>3, <1>5, EntryWalk DEF IsNext
<1> HIDE DEF q, node
<1>10. /\ Walk(target, q) = "ok" => r.err = "ok"
       /\ r.err = "ok" => r.fs[q] = node
  BY <1>5, <1>6, EnforceNodeGives
<1>11. Under(target, r.fs, q)
  BY <1>5, <1>6, EnforceNodeUnder
<1> HIDE DEF r
<1>12. Under(target, r.fs, e.name.path) /\ (r.err = "ok" => Copied(r.fs[e.name.path], e.name.path))
  BY <1>5, <1>8, <1>10, <1>11
<1>13. ~ CannotApply => r.err = "ok"
  BY <1>9, <1>10
<1>14. IsNext(e.name)
  BY <1>3 DEF IsNext
<1> QED BY <1>1, <1>12, <1>13, <1>14, EntryFits

\* What a link is to is made: the same inode's first name.
LEMMA LinkedMade ==
  ASSUME FitInv, pc = "apply", NEW e \in Entries(ver), IsNext(e.name), IsLink(e)
  PROVE  /\ Walk(target, e.link_target) = "ok" /\ At(target, e.link_target) = e.link_target
         /\ Present(target, e.link_target)
         /\ Copied(target[e.link_target], e.name.path)
<1> DEFINE old == e.link_target
           q == e.name.path
<1>1. /\ IInv /\ src \in Trees /\ ver \in Trees /\ Walking(src, ver, src_files, ref_files, Walked)
      /\ Stands(target, Paths) /\ done \in Nat
  BY ApplyWalk DEF FitInv, SafeInv, IInv, Bounds
<1>2. DOMAIN ver = Paths /\ DOMAIN target = Paths
  BY <1>1, SameNames DEF Paths, Stands
<1>3. PICK g \in Names(ver) : old = g.path /\ Before(g, e.name) /\ ver[g.path].ino = e.st.ino
  BY <1>1, LinkFacts
<1>4. g.path \in DOMAIN ver /\ Present(ver, g.path) /\ g = Name(ver, g.path)
  BY <1>1, NamesOfTree
<1>5. q \in DOMAIN ver /\ Present(ver, q) /\ e.st = ver[q]
  BY <1>1, EntryFacts
<1>6. ver[old] = ver[q]
  BY <1>1, <1>3, <1>4, <1>5, InodeFacts
<1>7. Made(old)
  <2>1. \E j \in 1..((done + 1) - 1) : Named(src_files, ref_files, Walked, j, g)
    BY <1>1, <1>3, NamesDone DEF IsNext
  <2>2. (done + 1) - 1 = done
    BY <1>1
  <2> QED BY <1>3, <1>4, <2>1, <2>2 DEF Past, Made
<1>8. Copied(target[old], old) /\ old \in Paths
  BY <1>2, <1>3, <1>4, <1>7 DEF FitInv, Grown
<1>9. Present(target, old)
  BY <1>2, <1>3, <1>4, <1>8 DEF Copied, Present
<1>10. Copied(target[old], q)
  BY <1>6, <1>8 DEF Copied
<1>11. Direct(target, old)
  <2>1. old \in Strs /\ Len(old) \in 1..2
    BY <1>1, <1>2, <1>8, PathFacts
  <2>2. << >> \notin DOMAIN target
    <3> SUFFICES ASSUME << >> \in DOMAIN ver
                 PROVE  FALSE
      BY <1>2
    <3>1. Len(<< >>) \in 1..2
      BY <1>1, PathFacts
    <3> QED BY <3>1
  <2>3. Front(old) # << >> => Is(target, Front(old), "dir")
    BY <1>1, <1>8, <1>9 DEF Stands
  <2> QED BY <1>2, <1>8, <2>1, <2>2, <2>3 DEF Direct, Is
<1>12. Walk(target, old) = "ok" /\ At(target, old) = old
  BY <1>1, <1>9, <1>11, WalkThere, AtDirect
<1> QED BY <1>9, <1>10, <1>12

\* A hard link is made, unless something stands there.
LEMMA HardlinkFits ==
  ASSUME FitInv, SafeInv', ApplyHardlink
  PROVE  FitInv'
<1> DEFINE q == Read[1].path
           old == Read[2].path
           r == EnforceHardlink(target, q, old)
<1>1. Execute({"HARDLINK"}, r, FALSE) /\ SafeInv
  BY DEF ApplyHardlink, FitInv
<1>2. pc = "apply" /\ done < Len(patch.cmds) /\ Cmd.cmd = "HARDLINK"
  BY <1>1, KeptRead DEF Execute, FitInv, SafeInv
<1>3. PICK e \in Entries(ver) : IsRead(e) /\ Named(src_files, ref_files, Walked, done + 1, e.name)
  BY <1>1, <1>2, EntryTurnOf DEF SafeInv
<1>4. IsLink(e) /\ ~ IsFile(e) /\ e.st.type = "reg"
  BY <1>1, <1>2, <1>3, KindRead DEF SafeInv, IsLink, IsFile
<1>5. q = e.name.path /\ old = e.link_target
  BY <1>1, <1>3, <1>4, FirstRead DEF SafeInv, IsRead, EntryNames
<1>6. Direct(target, e.name.path) /\ Stands(target, Paths) /\ src \in Trees /\ ver \in Trees
  BY <1>1, <1>2, <1>3, EntryDirect
<1>7. IsNext(e.name)
  BY <1>3 DEF IsNext
<1> HIDE DEF q, old
<1>8. /\ Walk(target, old) = "ok" /\ At(target, old) = old /\ Present(target, old)
      /\ Copied(target[old], q) /\ Walk(target, q) = "ok" /\ ~ Made(q)
  BY <1>2, <1>4, <1>5, <1>7, LinkedMade, EntryWalk
<1>9. ~ CannotApply => ~ Present(target, q)
  <2> SUFFICES ASSUME Present(target, q)
               PROVE  CannotApply
    OBVIOUS
  <2>1. q \in Paths /\ q \in DOMAIN ver
    BY <1>5, <1>6, EntryFacts, SameNames DEF Paths
  <2>2. inPlace /\ target[q] = src[q]
    BY <1>2, <1>8, <2>1 DEF FitInv, Kept
  <2>3. Present(src, q)
    BY <2>1, <2>2 DEF Present, Paths
  <2>4. PICK i \in DOMAIN ref_files : ref_files[i] = e
    BY <1>1, <1>2, EntryListed DEF SafeInv
  <2> QED BY <1>4, <1>5, <2>2, <2>3, <2>4 DEF CannotApply
<1>10. LET there == Walk(target, old) = "ok" /\ Present(target, At(target, old))
       IN  /\ there /\ Walk(target, q) = "ok" /\ ~ Present(target, q) => r.err = "ok"
           /\ r.err = "ok" => r.fs[q] = target[At(target, old)] /\ there
  BY <1>5, <1>6, EnforceHardlinkGives
<1>11. Under(target, r.fs, q)
  BY <1>5, <1>6, EnforceHardlinkUnder
<1> HIDE DEF r
<1>12. Under(target, r.fs, e.name.path) /\ (r.err = "ok" => Copied(r.fs[e.name.path], e.name.path))
  BY <1>5, <1>8, <1>10, <1>11
<1>13. ~ CannotApply => r.err = "ok"
  BY <1>8, <1>9, <1>10
<1> QED BY <1>1, <1>7, <1>12, <1>13, EntryFits

\* Where the old tree has a directory that the new one does not make something
\* else, the target has it or nothing.
LEMMA DirStays ==
  ASSUME FitInv, pc = "apply", ~ CannotApply, NEW d, Is(src, d, "dir"), Present(target, d)
  PROVE  Is(target, d, "dir")
<1>1. d \in Paths /\ DOMAIN target = Paths
  BY DEF Is, Paths, FitInv, SafeInv, IInv, Stands
<1>2. CASE Made(d)
  <2>1. target[d].type = ver[d].type
    BY <1>1, <1>2 DEF FitInv, Grown, Copied
  <2>2. ver[d].type \in {"dir", "none"}
    BY <1>1 DEF CannotApply
  <2> QED BY <1>1, <2>1, <2>2 DEF Is, Present
<1>3. CASE inPlace /\ target[d] = src[d]
  BY <1>1, <1>3 DEF Is
<1> QED BY <1>1, <1>2, <1>3 DEF FitInv, Kept

\* What only the old tree has is unlinked.
LEMMA UnlinkFits ==
  ASSUME FitInv, SafeInv', ApplyUnlink
  PROVE  FitInv'
<1> DEFINE f == Read[1]
           r == EnforceUnlink(target, f)
<1>1. Execute({"UNLINK"}, r, FALSE) /\ SafeInv
  BY DEF ApplyUnlink, FitInv
<1>2. pc = "apply" /\ done < Len(patch.cmds) /\ Cmd.cmd = "UNLINK"
  BY <1>1, KeptRead DEF Execute, FitInv, SafeInv
<1>3. PICK g \in Names(src) \ Names(ver) : Read = <<g>> /\ Named(src_files, ref_files, Walked, done + 1, g)
  BY <1>1, <1>2, GoneTurnOf DEF SafeInv
<1>4. f = g
  BY <1>3
<1> HIDE DEF f
<1>5. src \in Trees /\ ver \in Trees /\ Stands(target, Paths)
  BY <1>1 DEF SafeInv, IInv, Lists
<1>6. /\ f \in Names(src) \cup Names(ver) /\ f \in Names(src) /\ f \notin Names(ver) /\ f.slash \in BOOLEAN
      /\ f.path \in DOMAIN src /\ Present(src, f.path) /\ f.slash = Is(src, f.path, "dir")
  BY <1>3, <1>4, <1>5, NamesOfTree DEF FNames
<1>7. Direct(target, f.path)
  BY <1>1, <1>2, <1>3, <1>4, <1>6, OnTheWay
<1>8. Under(target, r.fs, f.path) /\ (r.err = "ok" => ~ Present(r.fs, f.path))
  BY <1>5, <1>6, <1>7, EnforceUnlinkUnder
<1>9. /\ Walk(target, f.path) \in {"ok", "ENOENT"}
           /\ (f.slash /\ Present(target, f.path) => Is(target, f.path, "dir")) => r.err = "ok"
      /\ r.err = "ok" /\ f.slash /\ Present(target, f.path) => Is(target, f.path, "dir")
  BY <1>5, <1>6, <1>7, EnforceUnlinkGives
<1>10. ~ CannotApply => Walk(target, f.path) \in {"ok", "ENOENT"}
  <2> DEFINE d == Front(f.path)
  <2>1. DirOf(target, f.path) = d
    BY <1>7, AtDirect
  <2>2. d # << >> => Is(src, d, "dir")
    BY <1>5, <1>6, PathFacts
  <2> HIDE DEF d
  <2>3. ~ CannotApply /\ d # << >> /\ Present(target, d) => Is(target, d, "dir")
    BY <1>2, <2>2, DirStays
  <2> QED BY <2>1, <2>3 DEF Walk
<1>11. ~ CannotApply => (f.slash /\ Present(target, f.path) => Is(target, f.path, "dir"))
  BY <1>2, <1>6, DirStays
<1> HIDE DEF r
<1>12. Fits(f, r)
  BY <1>6, <1>8, <1>9, <1>10, <1>11 DEF Fits
<1>13. IsNext(f)
  BY <1>3, <1>4 DEF IsNext
<1> QED BY <1>1, <1>6, <1>12, <1>13, ExecutedFits

\* No command is named after the last.
LEMMA NamedBound ==
  ASSUME NEW s, NEW t, NEW srcs, NEW refs, NEW w, Walking(s, t, srcs, refs, w), w = DryWalk(srcs, refs),
         NEW k, NEW f, Named(srcs, refs, w, k, f)
  PROVE  k \in 1..(Len(refs) + DryRun(srcs, refs))
<1> DEFINE n == Len(refs)
           m == Len(srcs)
           count == Len(refs) + DryRun(srcs, refs)
<1>1. n \in Nat /\ m \in Nat
  BY DEF Walking, Listed
<1>2. /\ \A i \in 0..n : Ord(w, i) \in Nat /\ Ord(w, i) <= count
      /\ count \in Nat /\ count = Ord(w, n) + (m + 1 - w[n].pos)
  <2>1. 0 \in 0..n /\ n \in 0..n
    BY <1>1
  <2> QED BY <1>1, <2>1, CountOfWalk
<1>3. k \in Nat /\ k >= 1
  BY NamedOnce
<1>4. w[n].pos \in Nat
  <2>1. IsWalk(srcs, refs, w) /\ n \in 0..n
    BY <1>1 DEF Walking
  <2> QED BY <1>1, <2>1, OrdNat
<1> HIDE DEF count
<1>5. CASE \E i \in 1..Len(refs) : EntryAt(refs, w, i, k, f)
  <2>1. PICK i \in 1..n : k = Ord(w, i)
    BY <1>5 DEF EntryAt
  <2>2. i \in 0..n
    BY <1>1, <2>1
  <2>3. k <= count
    BY <1>2, <2>1, <2>2
  <2> QED BY <1>2, <1>3, <2>3 DEF count
<1>6. CASE \E i \in 0..Len(refs), j \in 1..Len(srcs) : GoneAt(srcs, refs, w, i, j, k, f)
  <2>1. PICK i \in 0..n, j \in 1..m : GoneAt(srcs, refs, w, i, j, k, f)
    BY <1>6
  <2>2. k <= count
    <3>1. CASE i < n
      <4>1. Among(refs, w, i, k)
        BY <2>1, GoneAmong
      <4>2. k < Ord(w, i + 1) /\ i + 1 \in 0..n
        BY <1>1, <3>1, <4>1 DEF Among
      <4>3. Ord(w, i + 1) \in Nat /\ Ord(w, i + 1) <= count
        BY <1>2, <4>2
      <4> DEFINE b == Ord(w, i + 1)
      <4> HIDE DEF b
      <4> QED BY <1>2, <1>3, <4>2, <4>3 DEF b
    <3>2. CASE i = n
      <4>1. k = Ord(w, n) + 1 + j - w[n].pos
        BY <2>1, <3>2 DEF GoneAt
      <4>2. Ord(w, n) \in Nat
        BY <1>1, <1>2
      <4> DEFINE b == Ord(w, n)
                 c == w[n].pos
      <4> HIDE DEF b, c, n, m
      <4> QED BY <1>1, <1>2, <1>3, <1>4, <2>1, <4>1, <4>2 DEF b, c
    <3> QED BY <1>1, <2>1, <3>1, <3>2
  <2> QED BY <1>2, <1>3, <2>2 DEF count
<1> QED BY <1>5, <1>6 DEF Named

\* After the last command, all names are past.
LEMMA AllPast ==
  ASSUME IInv, pc \in {"read", "apply"}, done = patch.count, NEW f \in Names(src) \cup Names(ver)
  PROVE  Past(f)
<1>1. Walking(src, ver, src_files, ref_files, Walked)
  BY ApplyWalk
<1>2. PICK k : Named(src_files, ref_files, Walked, k, f)
  BY <1>1, NamedSome
<1>3. k \in 1..(Len(ref_files) + DryRun(src_files, ref_files))
  BY <1>1, <1>2, NamedBound DEF Walked
<1>4. done = Len(ref_files) + DryRun(src_files, ref_files)
  BY DEF IInv, Headed, Writes
<1> QED BY <1>2, <1>3, <1>4 DEF Past

\* Inodes of one number are of one path.
LEMMA InoOfPath ==
  ASSUME NEW a \in Strs, NEW b \in Strs, NewIno(a) = NewIno(b)
  PROVE  a = b
<1>1. IsSeq(a) /\ IsSeq(b) /\ IsSeq(<<1>>) /\ Len(<<1>>) = 1
  <2>1. <<1>> \in Seq(Nat)
    OBVIOUS
  <2> QED BY <2>1 DEF IsSeq, Strs
<1> DEFINE one == <<1>>
<1> HIDE DEF one
<1>2. /\ Len(a) \in Nat /\ Len(one \o a) = 1 + Len(a)
      /\ \A k \in 1..Len(a) : (one \o a)[1 + k] = a[k]
  BY <1>1, Joined DEF one
<1>3. /\ Len(b) \in Nat /\ Len(one \o b) = 1 + Len(b)
      /\ \A k \in 1..Len(b) : (one \o b)[1 + k] = b[k]
  BY <1>1, Joined DEF one
<1>4. one \o a = one \o b
  BY DEF one, NewIno
<1>5. Len(a) = Len(b)
  <2> DEFINE m == Len(a)
             n == Len(b)
  <2>1. 1 + m = 1 + n
    BY <1>2, <1>3, <1>4
  <2> HIDE DEF m, n
  <2> QED BY <1>2, <1>3, <2>1 DEF m, n
<1>6. \A k \in 1..Len(a) : a[k] = b[k]
  BY <1>2, <1>3, <1>4, <1>5
<1> QED BY <1>5, <1>6, SameSeq DEF Strs

\* What a chain that ran to its end has made.
LEMMA EndRebuilt ==
  ASSUME FitInv, pc = "apply", done = patch.count, unflushed = 0, ~ LinkedSymlinks
  PROVE  /\ \A p \in Paths : Alike(target[p], ver[p])
         /\ \A p, q \in Paths : Is(ver, p, "reg") /\ Is(ver, q, "reg") =>
              (target[p].ino = target[q].ino <=> ver[p].ino = ver[q].ino)
<1>1. IInv /\ src \in Trees /\ ver \in Trees
  BY ApplyWalk DEF FitInv, SafeInv
<1>2. DOMAIN ver = Paths /\ DOMAIN target = Paths
  BY <1>1, SameNames DEF Paths, IInv, Stands
<1>3. ASSUME NEW p \in Paths, Present(ver, p)
      PROVE  Copied(target[p], p)
  <2>1. Name(ver, p) \in Names(ver)
    BY <1>2, <1>3 DEF Names
  <2>2. Made(p)
    BY <1>1, <1>3, <2>1, AllPast DEF Made
  <2> QED BY <2>2 DEF FitInv, Grown
<1>4. ASSUME NEW p \in Paths, ~ Present(ver, p)
      PROVE  ~ Present(target, p)
  <2> SUFFICES ASSUME Present(target, p)
               PROVE  FALSE
    OBVIOUS
  <2>1. inPlace /\ target[p] = src[p]
    BY <1>4 DEF FitInv, Kept, Made
  <2>2. Present(src, p)
    BY <2>1 DEF Present, Paths
  <2>3. Name(src, p) \in Names(src)
    BY <2>2 DEF Names, Paths
  <2>4. Past(Name(src, p))
    BY <1>1, <2>3, AllPast
  <2> QED BY <1>4, <2>2, <2>4 DEF FitInv, Cleared
<1>5. ASSUME NEW p \in Paths
      PROVE  Alike(target[p], ver[p])
  <2>1. CASE Present(ver, p)
    BY <1>3, <2>1 DEF Copied, Alike
  <2>2. CASE ~ Present(ver, p)
    <3>1. target[p].type = "none" /\ ver[p].type = "none"
      BY <1>2, <1>4, <2>2 DEF Present
    <3> QED BY <3>1 DEF Alike
  <2> QED BY <2>1, <2>2
<1>6. ASSUME NEW p \in Paths, Is(ver, p, "reg")
      PROVE  LET o == Origin(ver, ver[p].ino)
             IN  target[p].ino = NewIno(o.path) /\ o.path \in Strs /\ ver[o.path].ino = ver[p].ino
  <2> DEFINE f == Name(ver, p)
             o == Origin(ver, ver[p].ino)
  <2>1. Present(ver, p) /\ target[p].ino = NewIno(o.path)
    <3>1. Present(ver, p)
      BY <1>6 DEF Is, Present
    <3>2. Copied(target[p], p)
      BY <1>3, <3>1
    <3> QED BY <1>6, <3>1, <3>2 DEF Copied, Is
  <2>2. f \in Names(ver) /\ f.path = p
    BY <1>2, <2>1 DEF Names, Name
  <2>3. IsOrigin(ver, ver[p].ino, o)
    BY <1>1, <2>2, Origins
  <2> HIDE DEF o, f
  <2>4. o \in Names(ver) /\ ver[o.path].ino = ver[p].ino
    BY <2>3 DEF IsOrigin, SameInode
  <2>5. o.path \in DOMAIN ver
    BY <1>1, <2>4, NamesOfTree
  <2>6. o.path \in Strs
    BY <1>1, <2>5, PathFacts
  <2> QED BY <2>1, <2>4, <2>6 DEF o
<1>7. ASSUME NEW p \in Paths, NEW q \in Paths, Is(ver, p, "reg"), Is(ver, q, "reg")
      PROVE  target[p].ino = target[q].ino <=> ver[p].ino = ver[q].ino
  <2> DEFINE a == Origin(ver, ver[p].ino).path
             b == Origin(ver, ver[q].ino).path
  <2>1. target[p].ino = NewIno(a) /\ a \in Strs /\ ver[a].ino = ver[p].ino
    BY <1>6, <1>7
  <2>2. target[q].ino = NewIno(b) /\ b \in Strs /\ ver[b].ino = ver[q].ino
    BY <1>6, <1>7
  <2>3. ver[p].ino = ver[q].ino => a = b
    OBVIOUS
  <2> HIDE DEF a, b
  <2>4. target[p].ino = target[q].ino => a = b
    <3> SUFFICES ASSUME NewIno(a) = NewIno(b)
                 PROVE  a = b
      BY <2>1, <2>2
    <3> QED BY <2>1, <2>2, InoOfPath
  <2>5. ASSUME target[p].ino = target[q].ino
        PROVE  ver[p].ino = ver[q].ino
    BY <2>1, <2>2, <2>4, <2>5
  <2>6. ASSUME ver[p].ino = ver[q].ino
        PROVE  target[p].ino = target[q].ino
    BY <2>1, <2>2, <2>3, <2>6
  <2> QED BY <2>5, <2>6
<1> QED BY <1>5, <1>7

\* The end of the chain.
LEMMA EndFits ==
  ASSUME FitInv, SafeInv', EndChain
  PROVE  FitInv'
<1>1. /\ pc = "apply" /\ pc' = "cleanup"
      /\ UNCHANGED <<src, ver, patch, done, unflushed, target, Paths>>
  BY DEF EndChain, Leave, inputs, writer, Paths
<1>2. (err' = "ok" /\ done = patch.count) \/ err' = "PATCH_TRUNCATED"
  BY DEF EndChain, Leave
<1>3. Rebuilt'
  <2> SUFFICES ASSUME err' = "ok", unflushed = 0, ~ LinkedSymlinks
               PROVE  Rebuilt'
    BY <1>1 DEF Rebuilt, LinkedSymlinks, Is
  <2>1. done = patch.count
    BY <1>2
  <2>2. /\ \A p \in Paths : Alike(target[p], ver[p])
        /\ \A p, q \in Paths : Is(ver, p, "reg") /\ Is(ver, q, "reg") =>
             (target[p].ino = target[q].ino <=> ver[p].ino = ver[q].ino)
    BY <1>1, <2>1, EndRebuilt
  <2> QED BY <1>1, <2>2 DEF Rebuilt, Alike, Is
<1>4. Applies'
  BY <1>2 DEF Applies
<1>5. Untouched' /\ Grown' /\ Kept' /\ Cleared'
  BY <1>1 DEF Untouched, Grown, Kept, Cleared
<1> QED BY <1>3, <1>4, <1>5 DEF FitInv

\* The first command: nothing is past.
LEMMA ReadHeaderFits ==
  ASSUME FitInv, SafeInv', ReadHeader
  PROVE  FitInv'
<1>1. /\ pc = "read" /\ pc' = "apply" /\ UNCHANGED <<src, ver, inPlace, target, done, err, Paths>>
  BY DEF ReadHeader, inputs, Paths
<1>2. done' = 0
  BY <1>1 DEF FitInv, SafeInv, IInv, Lists
<1>3. ~ \E j \in 1..done' : TRUE
  BY <1>2
<1>4. \A p : ~ Made(p)' /\ ~ Past(Name(src, p))'
  BY <1>3 DEF Made, Past
<1>5. err = "ok" /\ (inPlace => target = src) /\ (~ inPlace => \A p \in Paths : ~ Present(target, p))
  BY <1>1 DEF FitInv, Untouched
<1>6. Grown'
  BY <1>1, <1>4, <1>5 DEF Grown
<1>7. Kept'
  <2> SUFFICES ASSUME NEW p \in Paths, Present(target, p)
               PROVE  inPlace /\ target[p] = src[p]
    BY <1>1 DEF Kept, Present
  <2> QED BY <1>5
<1>8. Cleared'
  BY <1>4 DEF Cleared
<1>9. Untouched' /\ Rebuilt' /\ Applies'
  BY <1>1 DEF Untouched, Rebuilt, Applies
<1> QED BY <1>6, <1>7, <1>8, <1>9 DEF FitInv

\* Steps before it leave the directory as it was; steps after it say nothing.
LEMMA OtherFits ==
  ASSUME FitInv, SafeInv', UNCHANGED <<inputs, target>>,
         \/ pc' \in {"done", "crashed"}
         \/ pc' = "cleanup" /\ err' \in {"IO_ERROR", "PATCH_TRUNCATED"}
         \/ /\ pc \in {"list", "header", "encode", "read"} /\ pc' \in {"header", "encode", "read"}
            /\ UNCHANGED err
  PROVE  FitInv'
<1>1. UNCHANGED <<src, ver, inPlace, Paths>>
  BY DEF inputs, Paths
<1>2. CASE pc' \in {"done", "crashed"}
  BY <1>2 DEF FitInv, Untouched, Grown, Kept, Cleared, Rebuilt, Applies
<1>3. CASE pc' = "cleanup" /\ err' \in {"IO_ERROR", "PATCH_TRUNCATED"}
  BY <1>3 DEF FitInv, Untouched, Grown, Kept, Cleared, Rebuilt, Applies
<1>4. CASE /\ pc \in {"list", "header", "encode", "read"} /\ pc' \in {"header", "encode", "read"}
           /\ UNCHANGED err
  <2>1. err = "ok" /\ (inPlace => target = src) /\ (~ inPlace => \A p \in Paths : ~ Present(target, p))
    BY <1>4 DEF FitInv, Untouched
  <2>2. Untouched'
    BY <1>1, <1>4, <2>1 DEF Untouched, Present
  <2>3. Grown' /\ Kept' /\ Cleared' /\ Rebuilt' /\ Applies'
    BY <1>4 DEF Grown, Kept, Cleared, Rebuilt, Applies
  <2> QED BY <2>2, <2>3 DEF FitInv
<1> QED BY <1>2, <1>3, <1>4

\* Nothing is rebuilt, and that is no error: without a command there is nothing
\* in the trees.
LEMMA NothingFits ==
  ASSUME FitInv, SafeInv', pc = "read", pc' = "cleanup", err' = "ok",
         UNCHANGED <<inputs, writer, target, done>>
  PROVE  FitInv'
<1>1. IInv /\ src \in Trees /\ ver \in Trees /\ done = 0
  BY DEF FitInv, SafeInv, IInv, Lists
<1>2. DOMAIN ver = Paths /\ DOMAIN target = Paths
  BY <1>1, SameNames DEF Paths, IInv, Stands
<1>3. UNCHANGED <<src, ver, patch, Paths>>
  BY DEF inputs, writer, Paths
<1>4. Rebuilt'
  <2> SUFFICES ASSUME done = patch.count
               PROVE  /\ \A p \in Paths : Alike(target[p], ver[p])
                      /\ \A p \in Paths : ~ Is(ver, p, "reg")
    BY <1>3 DEF Rebuilt, Alike, Is
  <2>1. ASSUME NEW f \in Names(src) \cup Names(ver)
        PROVE  FALSE
    <3>1. Past(f)
      BY <1>1, <2>1, AllPast
    <3> QED BY <1>1, <3>1 DEF Past
  <2>2. ASSUME NEW p \in Paths
        PROVE  ~ Present(src, p) /\ ~ Present(ver, p)
    BY <1>2, <2>1, <2>2 DEF Names, Paths
  <2>3. ASSUME NEW p \in Paths
        PROVE  ver[p].type = "none" /\ target[p].type = "none"
    <3>1. ~ Present(target, p)
      BY <1>2, <2>2, <2>3 DEF FitInv, Untouched, Paths, Present
    <3> QED BY <1>2, <2>2, <2>3, <3>1 DEF Present
  <2> QED BY <1>2, <2>3 DEF Alike, Is
<1>5. Untouched' /\ Grown' /\ Kept' /\ Cleared' /\ Applies'
  BY DEF Untouched, Grown, Kept, Cleared, Applies
<1> QED BY <1>4, <1>5 DEF FitInv

\* A stuttering step.
LEMMA StutterFits ==
  ASSUME FitInv, SafeInv', UNCHANGED vars
  PROVE  FitInv'
<1>1. UNCHANGED <<src, ver, inPlace, oneFs, pc, src_files, ref_files, patch, unflushed, target, done, err,
                  Paths, Walked>>
  BY DEF vars, inputs, writer, reader, Paths, Walked
<1>2. \A p : /\ Made(p)' <=> Made(p)
             /\ Past(Name(src, p))' <=> Past(Name(src, p))
  BY <1>1 DEF Made, Past, Named, EntryAt, GoneAt, Ord, Name, Is, Present
<1>3. Grown' /\ Kept' /\ Cleared'
  BY <1>1, <1>2 DEF FitInv, Grown, Kept, Cleared, Copied, LinkedSymlinks, Present, Is
<1>4. Untouched' /\ Rebuilt' /\ Applies'
  BY <1>1 DEF FitInv, Untouched, Rebuilt, Applies, LinkedSymlinks, CannotApply, Present, Is, IsFile, Alike
<1> QED BY <1>3, <1>4 DEF FitInv

\* In the beginning.
LEMMA InitFits ==
  ASSUME Init
  PROVE  FitInv
<1>1. SafeInv /\ pc = "list" /\ err = "ok"
  BY InitSafe DEF Init
<1>2. inPlace => target = src
  BY DEF Init
<1>3. ASSUME ~ inPlace, NEW p \in Paths
      PROVE  ~ Present(target, p)
  <2>1. target = Nothing
    BY <1>3 DEF Init
  <2> QED BY <2>1 DEF Nothing, Present, Absent
<1>4. Untouched
  BY <1>1, <1>2, <1>3 DEF Untouched
<1> QED BY <1>1, <1>4 DEF FitInv, Grown, Kept, Cleared, Rebuilt, Applies

\* Every step keeps it.
LEMMA NextFits ==
  ASSUME FitInv, [Next]_vars
  PROVE  FitInv'
<1>0. SafeInv'
  BY NextSafe DEF FitInv
<1>1. CASE List
  BY <1>0, <1>1, OtherFits DEF List, reader
<1>2. CASE WriteHeader
  BY <1>0, <1>2, OtherFits DEF WriteHeader, reader
<1>3. CASE EncodeNext
  BY <1>0, <1>3, OtherFits DEF EncodeNext, reader
<1>4. CASE EncodeTail
  BY <1>0, <1>4, OtherFits DEF EncodeTail, LastUnlinks, reader
<1>5. CASE WriteFails
  BY <1>0, <1>5, OtherFits DEF WriteFails, LastUnlinks, reader
<1>6. CASE ReadHeader
  BY <1>0, <1>6, ReadHeaderFits
<1>7. CASE SourceDiffers
  BY <1>0, <1>7, OtherFits DEF SourceDiffers, Returns
<1>8. CASE NoTempDir
  BY <1>0, <1>8, OtherFits DEF NoTempDir, Returns, Crashes, reader
<1>9. CASE RebuildFails
  <2>1. /\ pc = "read" /\ pc' = "cleanup" /\ UNCHANGED <<inputs, writer, target, done>>
        /\ err' \in {"IO_ERROR", "PATCH_TRUNCATED", "ok"}
    BY <1>9 DEF RebuildFails, Leave
  <2>2. CASE err' = "ok"
    BY <1>0, <2>1, <2>2, NothingFits
  <2>3. CASE err' # "ok"
    BY <1>0, <2>1, <2>3, OtherFits
  <2> QED BY <2>2, <2>3
<1>10. CASE ApplyReg
  BY <1>0, <1>10, RegFits
<1>11. CASE ApplyHardlink
  BY <1>0, <1>11, HardlinkFits
<1>12. CASE ApplyDir
  BY <1>0, <1>12, DirFits
<1>13. CASE ApplyNode
  BY <1>0, <1>13, NodeFits
<1>14. CASE ApplyUnlink
  BY <1>0, <1>14, UnlinkFits
<1>15. CASE EndChain
  BY <1>0, <1>15, EndFits
<1>16. CASE Cleanup
  BY <1>0, <1>16, OtherFits DEF Cleanup
<1>17. CASE UNCHANGED vars
  BY <1>0, <1>17, StutterFits
<1>18. CASE HeaderCut
  BY <1>0, <1>18, OtherFits DEF HeaderCut, Returns, Crashes, reader
<1>19. CASE NameCut
  BY <1>0, <1>19, OtherFits DEF NameCut, Crashes, reader
<1> QED BY <1>1, <1>2, <1>3, <1>4, <1>5, <1>6, <1>7, <1>8, <1>9, <1>10, <1>11, <1>12, <1>13, <1>14,
           <1>15, <1>16, <1>17, <1>18, <1>19 DEF Next

\* The invariant holds: while commands are executed, what is made is a copy of
\* the new tree, and the rest is as it was or gone.
THEOREM Fitting == Spec => []FitInv
<1>1. Init => FitInv
  BY InitFits
<1>2. FitInv /\ [Next]_vars => FitInv'
  BY NextFits
<1> QED BY <1>1, <1>2, PTL DEF Spec

\* A chain that ran to its end has made the directory the new tree, with its
\* contents, owners, modes, times and hard links, and nothing else - if the
\* rebuilt contents were all flushed (if not, the chain runs to its end too), and
\* no two names are one symlink.
THEOREM TreeRebuilt == Spec => []Rebuilt
<1>1. FitInv => Rebuilt
  BY DEF FitInv
<1> QED BY <1>1, Fitting, PTL

\* But for three cases, no command that was read fails for what is in its way or
\* missing, whatever changed its type between the trees and wherever the writing
\* of the patch stopped: a directory that becomes something else, a hard link
\* where something stands, and a file if the temporary directory is on another
\* file system.  (A command that is cut off ends the chain or the program.)
THEOREM ChainApplies == Spec => []Applies
<1>1. FitInv => Applies
  BY DEF FitInv
<1> QED BY <1>1, Fitting, PTL
=============================================================================
