----------------------------- MODULE HashProofs -----------------------------
(***************************************************************************)
(* Proofs about the hash of Differ: its buckets stay sorted, and what it   *)
(* has after an insert, a match or the cleansing is what it had, but for   *)
(* the one checksum (RHash_insert, RHash_insert_match and                  *)
(* rh_rbucket_cleanse in hash.c).                                          *)
(***************************************************************************)
EXTENDS ChecksumProofs

BucketType == [chksum : Seq(Nat), offset : Seq(Nat)]
HashType   == [0..(Buckets - 1) -> BucketType]

\* The checksums of a bucket ascend, and each has an offset.
Ordered(b) ==
  /\ Len(b.offset) = Len(b.chksum)
  /\ \A k, l \in 1..Len(b.chksum) : k < l => b.chksum[k] < b.chksum[l]

Sorted(b) == Ordered(b) /\ Len(b.chksum) < DepthWrap

\* A bucket has that offset under that checksum.
Holds(b, key, o) == \E k \in 1..Len(b.chksum) : b.chksum[k] = key /\ b.offset[k] = o

SortedHash(h) == h \in HashType /\ \A i \in 0..(Buckets - 1) : Sorted(h[i])

NoOffsets(h) == \A i \in 0..(Buckets - 1) : \A k \in 1..Len(h[i].offset) : h[i].offset[k] = 0

USE HashAssumption, SampleAssumption

-----------------------------------------------------------------------------
(* Sets and sequences *)

\* Min of a set of naturals is its least.
LEMMA MinIsLeast ==
  ASSUME NEW T \in SUBSET Nat, T # {}
  PROVE  Min(T) \in T /\ Min(T) \in Nat /\ \A y \in T : Min(T) <= y
<1> DEFINE P(x) == x \in T /\ \A y \in T : x <= y
<1>1. \E x : P(x)
  BY Least
<1>2. Min(T) = CHOOSE x : P(x)
  BY Zenon DEF Min
<1>3. P(CHOOSE x : P(x))
  <2> HIDE DEF P
  <2> QED BY <1>1
<1> QED BY <1>2, <1>3

\* Max of a bounded set of naturals is its greatest.
LEMMA MaxIsGreatest ==
  ASSUME NEW T \in SUBSET Nat, T # {}, NEW b \in Nat, \A x \in T : x <= b
  PROVE  Max(T) \in T /\ Max(T) \in Nat /\ \A y \in T : y <= Max(T)
<1> DEFINE P(x) == x \in T /\ \A y \in T : x >= y
<1>1. \E x : P(x)
  <2>1. PICK x \in T : \A y \in T : y <= x
    BY Greatest
  <2> QED BY <2>1
<1>2. Max(T) = CHOOSE x : P(x)
  BY Zenon DEF Max
<1>3. P(CHOOSE x : P(x))
  <2> HIDE DEF P
  <2> QED BY <1>1
<1> QED BY <1>2, <1>3

\* The lesser and the greater of two.
LEMMA MinOfTwo ==
  ASSUME NEW a \in Nat, NEW b \in Nat
  PROVE  Min({a, b}) = IF a <= b THEN a ELSE b
<1>1. Min({a, b}) \in {a, b} /\ Min({a, b}) <= a /\ Min({a, b}) <= b
  BY MinIsLeast
<1> QED BY <1>1

\* Max of two naturals.
LEMMA MaxOfTwo ==
  ASSUME NEW a \in Nat, NEW b \in Nat
  PROVE  Max({a, b}) = IF a <= b THEN b ELSE a
<1> DEFINE c == IF a <= b THEN b ELSE a
<1>1. c \in Nat /\ \A x \in {a, b} : x <= c
  OBVIOUS
<1>2. Max({a, b}) \in {a, b} /\ \A y \in {a, b} : y <= Max({a, b})
  BY <1>1, MaxIsGreatest
<1> QED BY <1>2

\* r is s with e put in at place i.
Spliced(S, s, i, e, r) ==
  /\ r \in Seq(S) /\ Len(r) = Len(s) + 1
  /\ \A k \in 1..(Len(s) + 1) : r[k] = IF k < i THEN s[k] ELSE IF k = i THEN e ELSE s[k - 1]

\* What is put in at a place moves up what is behind it.
LEMMA InsertedAt ==
  ASSUME NEW S, NEW s \in Seq(S), NEW e \in S, NEW i \in 1..(Len(s) + 1)
  PROVE  Spliced(S, s, i, e, InsertAt(s, i, e))
<1> DEFINE a == SubSeq(s, 1, i - 1)
           c == SubSeq(s, i, Len(s))
           ae == a \o <<e>>
           r == ae \o c
<1>1. Len(s) \in Nat /\ i \in Nat /\ 1 <= i /\ i <= Len(s) + 1
  OBVIOUS
<1>2. a \in Seq(S) /\ Len(a) = i - 1 /\ \A k \in 1..(i - 1) : a[k] = s[k]
  OBVIOUS
<1>3. c \in Seq(S) /\ Len(c) = Len(s) - i + 1 /\ \A k \in 1..(Len(s) - i + 1) : c[k] = s[i + k - 1]
  <2>1. CASE i <= Len(s)
    BY <1>1, <2>1
  <2>2. CASE i = Len(s) + 1
    BY <1>1, <2>2
  <2> QED BY <1>1, <2>1, <2>2
<1> HIDE DEF a, c
<1>4. ae \in Seq(S) /\ Len(ae) = i /\ \A k \in 1..i : ae[k] = IF k < i THEN s[k] ELSE e
  <2>1. ae \in Seq(S) /\ Len(ae) = i
    BY <1>1, <1>2
  <2>2. \A k \in 1..(i - 1) : ae[k] = a[k]
    BY <1>1, <1>2
  <2>3. ae[i] = e
    <3>1. a \in Seq(S) /\ i = Len(a) + 1
      BY <1>1, <1>2
    <3>2. (a \o <<e>>)[Len(a) + 1] = e
      BY <3>1
    <3> QED BY <3>1, <3>2
  <2> QED BY <1>1, <1>2, <2>1, <2>2, <2>3
<1> HIDE DEF ae
<1>5. r \in Seq(S) /\ Len(r) = Len(s) + 1
  <2>1. ae \in Seq(S) /\ c \in Seq(S)
    BY <1>3, <1>4
  <2>2. r \in Seq(S) /\ Len(r) = Len(ae) + Len(c)
    BY ONLY <2>1
  <2> QED BY <1>1, <1>3, <1>4, <2>2
<1>6. \A k \in 1..(Len(s) + 1) : r[k] = IF k <= i THEN ae[k] ELSE c[k - i]
  <2>1. ae \in Seq(S) /\ c \in Seq(S)
    BY <1>3, <1>4
  <2>2. ASSUME NEW k \in 1..(Len(ae) + Len(c))
        PROVE  r[k] = IF k <= Len(ae) THEN ae[k] ELSE c[k - Len(ae)]
    BY ONLY <2>1
  <2> QED BY <1>1, <1>3, <1>4, <2>2
<1>7. InsertAt(s, i, e) = r
  BY DEF InsertAt, a, c, ae
<1> HIDE DEF r
<1>8. ASSUME NEW k \in 1..(Len(s) + 1)
      PROVE  r[k] = IF k < i THEN s[k] ELSE IF k = i THEN e ELSE s[k - 1]
  <2>1. CASE k <= i
    BY <1>1, <1>4, <1>6, <2>1
  <2>2. CASE ~ (k <= i)
    <3>1. k - i \in 1..(Len(s) - i + 1) /\ i + (k - i) - 1 = k - 1
      BY <1>1, <2>2
    <3>2. c[k - i] = s[k - 1]
      BY <1>3, <3>1
    <3> QED BY <1>1, <1>6, <2>2, <3>2
  <2> QED BY <2>1, <2>2
<1> QED BY <1>5, <1>7, <1>8 DEF Spliced

\* One element of a sequence is replaced.
LEMMA Replaced ==
  ASSUME NEW s \in Seq(Nat), NEW e \in Nat, NEW i \in 1..Len(s)
  PROVE  /\ [s EXCEPT ![i] = e] \in Seq(Nat) /\ Len([s EXCEPT ![i] = e]) = Len(s)
         /\ \A k \in 1..Len(s) : [s EXCEPT ![i] = e][k] = IF k = i THEN e ELSE s[k]
<1> DEFINE n == Len(s)
           r == [x \in 1..n |-> IF x = i THEN e ELSE s[x]]
<1>1. n \in Nat /\ DOMAIN s = 1..n /\ \A x \in 1..n : s[x] \in Nat
  OBVIOUS
<1>2. r = [s EXCEPT ![i] = e]
  BY <1>1
<1> HIDE DEF n
<1>3. r \in Seq(Nat) /\ Len(r) = n
  BY <1>1
<1>4. \A k \in 1..n : r[k] = IF k = i THEN e ELSE s[k]
  OBVIOUS
<1> HIDE DEF r
<1> QED BY <1>2, <1>3, <1>4 DEF n

-----------------------------------------------------------------------------
(* Buckets *)

\* What a search of a bucket returns.
LEMMA Found ==
  ASSUME NEW b \in BucketType, NEW key \in Nat
  PROVE  /\ Find(b, key) \in 0..Len(b.chksum)
         /\ Find(b, key) # 0 => b.chksum[Find(b, key)] = key
         /\ Find(b, key) = 0 => \A k \in 1..Len(b.chksum) : b.chksum[k] # key
<1> DEFINE I == {i \in 1..Len(b.chksum) : b.chksum[i] = key}
<1>1. I \in SUBSET Nat
  OBVIOUS
<1>2. Find(b, key) = IF I # {} THEN Min(I) ELSE 0
  BY DEF Find, SelectInSeq
<1>3. I # {} => Min(I) \in I
  <2> HIDE DEF I
  <2> QED BY <1>1, MinIsLeast
<1> QED BY <1>2, <1>3

\* In a sorted bucket it finds the one place of the checksum.
LEMMA FoundIt ==
  ASSUME NEW b \in BucketType, Ordered(b), NEW key \in Nat, NEW o
  PROVE  Holds(b, key, o) <=> Find(b, key) # 0 /\ b.offset[Find(b, key)] = o
<1>1. /\ Find(b, key) \in 0..Len(b.chksum)
      /\ Find(b, key) # 0 => b.chksum[Find(b, key)] = key
      /\ Find(b, key) = 0 => \A k \in 1..Len(b.chksum) : b.chksum[k] # key
  BY Found
<1>2. Len(b.chksum) \in Nat /\ \A k \in 1..Len(b.chksum) : b.chksum[k] \in Nat
  BY DEF BucketType
<1>3. ASSUME NEW k \in 1..Len(b.chksum), b.chksum[k] = key
      PROVE  k = Find(b, key)
  <2> DEFINE f == Find(b, key)
  <2>1. f \in 1..Len(b.chksum) /\ b.chksum[f] = key
    BY <1>1, <1>3
  <2> HIDE DEF f
  <2>2. ~ (k < f) /\ ~ (f < k)
    BY <1>2, <1>3, <2>1 DEF Ordered
  <2>3. k = f
    BY <1>2, <2>1, <2>2
  <2> QED BY <2>3 DEF f
<1> QED BY <1>1, <1>2, <1>3 DEF Holds

\* The place behind the checksums that are less, before those that are greater.
LEMMA PlaceInBucket ==
  ASSUME NEW b \in BucketType, Ordered(b), NEW key \in Nat, Find(b, key) = 0
  PROVE  /\ InsertPos(b, key) \in 1..(Len(b.chksum) + 1)
         /\ \A k \in 1..Len(b.chksum) :
              IF k < InsertPos(b, key) THEN b.chksum[k] < key ELSE key < b.chksum[k]
<1> DEFINE n == Len(b.chksum)
           T == {k \in DOMAIN b.chksum : b.chksum[k] > key} \cup {n + 1}
           at == InsertPos(b, key)
<1>1. n \in Nat /\ DOMAIN b.chksum = 1..n /\ \A k \in 1..n : b.chksum[k] \in Nat
  BY DEF BucketType
<1>2. T \in SUBSET Nat /\ T # {}
  BY <1>1
<1>3. at = Min(T)
  BY DEF InsertPos
<1>4. at \in T /\ at \in Nat /\ \A k \in T : at <= k
  <2> HIDE DEF T, at
  <2> QED BY <1>2, <1>3, MinIsLeast
<1>5. at \in 1..(n + 1)
  BY <1>1, <1>4
<1>6. \A k \in 1..n : b.chksum[k] # key
  BY Found
<1>7. ASSUME NEW k \in 1..n
      PROVE  IF k < at THEN b.chksum[k] < key ELSE key < b.chksum[k]
  <2>1. CASE k < at
    <3>1. ~ (k \in T)
      BY <1>1, <1>4, <2>1
    <3> QED BY <1>1, <1>6, <2>1, <3>1
  <2>2. CASE k = at
    BY <1>1, <1>4, <2>2
  <2>3. CASE at < k
    <3>1. at \in 1..n /\ key < b.chksum[at]
      BY <1>1, <1>4, <1>5, <2>3
    <3>2. b.chksum[at] < b.chksum[k]
      BY <2>3, <3>1 DEF Ordered
    <3> QED BY <1>1, <2>3, <3>1, <3>2
  <2> QED BY <1>1, <1>5, <2>1, <2>2, <2>3
<1> QED BY <1>5, <1>7

\* What has a place in a sequence has the same, or the next, when a new element is in.
LEMMA MovedUp ==
  ASSUME NEW n \in Nat, NEW i \in 1..(n + 1), NEW k \in 1..n
  PROVE  /\ k < i => k \in 1..(n + 1) /\ k # i
         /\ ~ (k < i) => k + 1 \in 1..(n + 1) /\ ~ (k + 1 < i) /\ k + 1 # i /\ (k + 1) - 1 = k
OBVIOUS

\* HashInsert in the bucket: its checksums ascend still, it has what it had and the
\* new one.  With offsets that are all 0 the places need not be those of the checksums.
LEMMA InsertedInBucket ==
  ASSUME NEW b \in BucketType, Ordered(b), NEW key \in Nat, NEW off \in Nat,
         Find(b, key) = 0, NEW new,
         \/ new = [chksum |-> InsertAt(b.chksum, InsertPos(b, key), key),
                   offset |-> InsertAt(b.offset, InsertPos(b, key), off)]
         \/ /\ off = 0 /\ \A k \in 1..Len(b.offset) : b.offset[k] = 0
            /\ new = [chksum |-> InsertAt(b.chksum, InsertPos(b, key), key),
                      offset |-> Append(b.offset, 0)]
  PROVE  /\ new \in BucketType /\ Ordered(new) /\ Len(new.chksum) = Len(b.chksum) + 1
         /\ \A q, o \in Nat : Holds(new, q, o) <=> Holds(b, q, o) \/ (q = key /\ o = off)
         /\ (off = 0 /\ \A k \in 1..Len(b.offset) : b.offset[k] = 0)
              => \A k \in 1..Len(new.offset) : new.offset[k] = 0
<1> DEFINE n == Len(b.chksum)
           at == InsertPos(b, key)
           c == new.chksum
           f == new.offset
<1>1. /\ n \in Nat /\ b.chksum \in Seq(Nat) /\ b.offset \in Seq(Nat) /\ Len(b.offset) = n
      /\ \A k \in 1..n : b.chksum[k] \in Nat /\ b.offset[k] \in Nat
  BY DEF BucketType, Ordered
<1>2. /\ at \in 1..(n + 1)
      /\ \A k \in 1..n : IF k < at THEN b.chksum[k] < key ELSE key < b.chksum[k]
  BY PlaceInBucket
<1>3. /\ c = InsertAt(b.chksum, at, key)
      /\ new = [chksum |-> c, offset |-> f]
  OBVIOUS
<1> HIDE DEF at, c, f
<1>4. /\ c \in Seq(Nat) /\ Len(c) = n + 1
      /\ \A k \in 1..(n + 1) :
           c[k] = IF k < at THEN b.chksum[k] ELSE IF k = at THEN key ELSE b.chksum[k - 1]
  <2>1. b.chksum \in Seq(Nat) /\ at \in 1..(Len(b.chksum) + 1) /\ Len(b.chksum) = n /\ key \in Nat
    BY <1>1, <1>2
  <2> HIDE DEF n
  <2>2. Spliced(Nat, b.chksum, at, key, InsertAt(b.chksum, at, key))
    BY <2>1, InsertedAt
  <2>3. Spliced(Nat, b.chksum, at, key, c)
    BY <1>3, <2>2
  <2> QED BY <2>1, <2>3 DEF Spliced
<1>5. /\ f \in Seq(Nat) /\ Len(f) = n + 1
      /\ \A k \in 1..(n + 1) :
           f[k] = IF k < at THEN b.offset[k] ELSE IF k = at THEN off ELSE b.offset[k - 1]
  <2>1. CASE new = [chksum |-> InsertAt(b.chksum, InsertPos(b, key), key),
                    offset |-> InsertAt(b.offset, InsertPos(b, key), off)]
    <3>1. f = InsertAt(b.offset, at, off)
      BY <2>1 DEF at, f
    <3>2. /\ b.offset \in Seq(Nat) /\ at \in 1..(Len(b.offset) + 1) /\ Len(b.offset) = n
          /\ off \in Nat
      BY <1>1, <1>2
    <3> HIDE DEF n
    <3>3. Spliced(Nat, b.offset, at, off, InsertAt(b.offset, at, off))
      BY <3>2, InsertedAt
    <3>4. Spliced(Nat, b.offset, at, off, f)
      BY <3>1, <3>3
    <3> QED BY <3>2, <3>4 DEF Spliced
  <2>2. CASE /\ off = 0 /\ \A k \in 1..Len(b.offset) : b.offset[k] = 0
             /\ new = [chksum |-> InsertAt(b.chksum, InsertPos(b, key), key),
                       offset |-> Append(b.offset, 0)]
    <3>1. f = Append(b.offset, 0) /\ b.offset \in Seq(Nat) /\ Len(b.offset) = n
      BY <1>1, <2>2 DEF f
    <3> HIDE DEF n
    <3>2. f \in Seq(Nat) /\ Len(f) = n + 1 /\ \A k \in 1..(n + 1) : f[k] = 0
      <4>1. f \in Seq(Nat) /\ Len(f) = n + 1
        BY <3>1
      <4>2. \A k \in 1..n : f[k] = b.offset[k]
        BY <3>1
      <4>3. f[n + 1] = 0
        BY <3>1
      <4> QED BY <1>1, <2>2, <3>1, <4>1, <4>2, <4>3
    <3>3. \A k \in 1..(n + 1) : (k < at => k \in 1..n) /\ (~ (k < at) /\ k # at => k - 1 \in 1..n)
      BY <1>1, <1>2
    <3> QED BY <1>1, <2>2, <3>2, <3>3
  <2> QED BY <2>1, <2>2
<1> HIDE DEF n
<1>6. new \in BucketType /\ Len(new.chksum) = n + 1 /\ Len(new.offset) = n + 1
  BY <1>3, <1>4, <1>5 DEF BucketType, c, f
<1>7. ASSUME NEW k \in 1..(n + 1), NEW l \in 1..(n + 1), k < l
      PROVE  c[k] < c[l]
  <2>1. CASE l < at
    <3>1. k < at /\ k \in 1..n /\ l \in 1..n
      BY <1>1, <1>2, <1>7, <2>1
    <3> QED BY <1>4, <1>7, <2>1, <3>1 DEF Ordered, n
  <2>2. CASE l = at
    <3>1. k < at /\ k \in 1..n /\ ~ (l < at)
      BY <1>1, <1>2, <1>7, <2>2
    <3> QED BY <1>2, <1>4, <2>2, <3>1
  <2>3. CASE at < l
    <3>1. l - 1 \in 1..n /\ ~ (l - 1 < at) /\ ~ (l < at) /\ l # at
      BY <1>1, <1>2, <2>3
    <3>2. key < b.chksum[l - 1] /\ c[l] = b.chksum[l - 1]
      BY <1>2, <1>4, <3>1
    <3>3. CASE k < at
      <4>1. k \in 1..n
        BY <1>1, <1>2, <3>3
      <4>2. b.chksum[k] < key /\ c[k] = b.chksum[k]
        BY <1>2, <1>4, <3>3, <4>1
      <4> QED BY <1>1, <3>1, <3>2, <4>1, <4>2
    <3>4. CASE k = at
      <4>1. c[k] = key
        BY <1>2, <1>4, <3>4
      <4> QED BY <3>2, <4>1
    <3>5. CASE at < k
      <4>1. k - 1 \in 1..n /\ k - 1 < l - 1 /\ ~ (k < at) /\ k # at
        BY <1>1, <1>2, <1>7, <3>5
      <4>2. c[k] = b.chksum[k - 1]
        BY <1>4, <4>1
      <4> QED BY <3>1, <3>2, <4>1, <4>2 DEF Ordered, n
    <3> QED BY <1>1, <1>2, <3>3, <3>4, <3>5
  <2> QED BY <1>1, <1>2, <2>1, <2>2, <2>3
<1>8. Ordered(new)
  BY <1>6, <1>7 DEF Ordered, c
<1>9. ASSUME NEW q \in Nat, NEW o \in Nat
      PROVE  Holds(new, q, o) <=> Holds(b, q, o) \/ (q = key /\ o = off)
  <2>1. Holds(new, q, o) <=> \E k \in 1..(n + 1) : c[k] = q /\ f[k] = o
    BY <1>6 DEF Holds, c, f
  <2>2. ASSUME NEW k \in 1..(n + 1), c[k] = q, f[k] = o
        PROVE  Holds(b, q, o) \/ (q = key /\ o = off)
    <3>1. CASE k < at
      <4>1. k \in 1..n
        BY <1>1, <1>2, <3>1
      <4> QED BY <1>4, <1>5, <2>2, <3>1, <4>1 DEF Holds, n
    <3>2. CASE k = at
      <4>1. c[k] = key /\ f[k] = off
        BY <1>2, <1>4, <1>5, <3>2
      <4> QED BY <2>2, <4>1
    <3>3. CASE at < k
      <4>1. k - 1 \in 1..n /\ ~ (k < at) /\ k # at
        BY <1>1, <1>2, <3>3
      <4>2. c[k] = b.chksum[k - 1] /\ f[k] = b.offset[k - 1]
        BY <1>4, <1>5, <4>1
      <4> QED BY <2>2, <4>1, <4>2 DEF Holds, n
    <3> QED BY <1>1, <1>2, <3>1, <3>2, <3>3
  <2>3. ASSUME NEW k \in 1..n, b.chksum[k] = q, b.offset[k] = o
        PROVE  \E l \in 1..(n + 1) : c[l] = q /\ f[l] = o
    <3>1. CASE k < at
      <4>1. k \in 1..(n + 1) /\ c[k] = b.chksum[k] /\ f[k] = b.offset[k]
        BY <1>1, <1>2, <1>4, <1>5, <3>1, MovedUp
      <4> QED BY <2>3, <4>1
    <3>2. CASE ~ (k < at)
      <4>1. k + 1 \in 1..(n + 1) /\ ~ (k + 1 < at) /\ k + 1 # at /\ (k + 1) - 1 = k
        BY <1>1, <1>2, <3>2, MovedUp
      <4>2. c[k + 1] = b.chksum[k] /\ f[k + 1] = b.offset[k]
        BY <1>4, <1>5, <4>1
      <4> QED BY <2>3, <4>1, <4>2
    <3> QED BY <3>1, <3>2
  <2>4. at \in 1..(n + 1) /\ c[at] = key /\ f[at] = off
    BY <1>1, <1>2, <1>4, <1>5
  <2> QED BY <2>1, <2>2, <2>3, <2>4 DEF Holds, n
<1>10. (off = 0 /\ \A k \in 1..Len(b.offset) : b.offset[k] = 0)
         => \A k \in 1..Len(new.offset) : new.offset[k] = 0
  <2> SUFFICES ASSUME off = 0, \A k \in 1..n : b.offset[k] = 0, NEW k \in 1..(n + 1)
               PROVE  f[k] = 0
    BY <1>1, <1>6 DEF f
  <2>1. (k < at => k \in 1..n) /\ (~ (k < at) /\ k # at => k - 1 \in 1..n)
    BY <1>1, <1>2
  <2> QED BY <1>5, <2>1
<1> QED BY <1>6, <1>8, <1>9, <1>10 DEF n

-----------------------------------------------------------------------------
(* The hash *)

\* Where a checksum is: its bucket, and what the bucket keeps of it.
LEMMA PlaceOfSum ==
  ASSUME NEW s \in Nat
  PROVE  Index(s) \in 0..(Buckets - 1) /\ Key(s) \in 0..(Keys - 1) /\ Key(s) \in Nat
<1>1. \A x, y \in Nat : y # 0 => x % y \in 0..(y - 1) /\ x \div y \in Nat
  OBVIOUS
<1>2. s \div Buckets \in Nat /\ Index(s) \in 0..(Buckets - 1)
  BY <1>1 DEF Index
<1> DEFINE d == s \div Buckets
<1>3. Key(s) = d % Keys /\ d \in Nat
  BY <1>2 DEF Key
<1> HIDE DEF d
<1>4. d % Keys \in 0..(Keys - 1)
  BY <1>1, <1>3
<1> QED BY <1>2, <1>3, <1>4

\* What an insert has to do: h is the hash before it, r what it returns, e the offset
\* that goes in.
Inserts(h, s, e, r) ==
  /\ SortedHash(r.hash) /\ r.ok \in BOOLEAN /\ r.emptied \subseteq 0..(Buckets - 1)
  /\ NoOffsets(h) /\ e = 0 => NoOffsets(r.hash)
  /\ \A i \in 0..(Buckets - 1) : \A q, o \in Nat :
       Holds(r.hash[i], q, o) <=>
         /\ i \notin r.emptied
         /\ \/ Holds(h[i], q, o)
            \/ i = Index(s) /\ q = Key(s) /\ o = e /\ \A x \in Nat : ~ Holds(h[i], q, x)

\* RHash_insert: the first offset of a checksum stays, others come in at their
\* place, until the depth of the bucket is back at 0.
THEOREM Inserted ==
  ASSUME NEW h, SortedHash(h), NEW s \in Nat, NEW off \in Nat, Reversed => NoOffsets(h)
  PROVE  Inserts(h, s, IF Reversed THEN 0 ELSE off, HashInsert(h, s, off))
<1> DEFINE e == IF Reversed THEN 0 ELSE off
           i == Index(s)
           key == Key(s)
           b == h[i]
           r == HashInsert(h, s, off)
           new == [chksum |-> InsertAt(b.chksum, InsertPos(b, key), key),
                   offset |-> IF Reversed THEN Append(b.offset, 0)
                                         ELSE InsertAt(b.offset, InsertPos(b, key), off)]
           full == Len(new.chksum) % DepthWrap = 0
<1>1. i \in 0..(Buckets - 1) /\ key \in Nat
  BY PlaceOfSum
<1>2. b \in BucketType /\ Sorted(b) /\ Ordered(b)
  BY <1>1 DEF SortedHash, HashType, Sorted
<1>3. r = IF Find(b, key) # 0 THEN Unchanged(h)
          ELSE [hash |-> [h EXCEPT ![i] = IF full THEN EmptyBucket ELSE new],
                ok |-> TRUE, emptied |-> IF full THEN {i} ELSE {}]
  BY DEF HashInsert
<1>4. CASE Find(b, key) # 0
  <2>1. r.hash = h /\ r.ok = FALSE /\ r.emptied = {}
    BY <1>3, <1>4 DEF Unchanged
  <2>2. b.offset[Find(b, key)] \in Nat
    <3>1. Find(b, key) \in 0..Len(b.chksum)
      BY <1>1, <1>2, Found
    <3>2. Find(b, key) \in 1..Len(b.offset) /\ b.offset \in Seq(Nat)
      BY <1>2, <1>4, <3>1 DEF Ordered, BucketType
    <3> QED BY <3>2
  <2>3. Holds(b, key, b.offset[Find(b, key)])
    BY <1>1, <1>2, <1>4, FoundIt
  <2> HIDE DEF e, i, key, b, r
  <2>4. \A j \in 0..(Buckets - 1) : \A q, o \in Nat :
          Holds(r.hash[j], q, o) <=>
            /\ j \notin r.emptied
            /\ \/ Holds(h[j], q, o)
               \/ j = i /\ q = key /\ o = e /\ \A x \in Nat : ~ Holds(h[j], q, x)
    BY <2>1, <2>2, <2>3 DEF b
  <2>5. SortedHash(r.hash) /\ r.ok \in BOOLEAN /\ r.emptied \subseteq 0..(Buckets - 1)
    BY <2>1
  <2>6. NoOffsets(h) /\ e = 0 => NoOffsets(r.hash)
    BY <2>1
  <2> QED BY <2>4, <2>5, <2>6 DEF Inserts, e, i, key, r
<1>5. CASE Find(b, key) = 0
  <2>1. r = [hash |-> [h EXCEPT ![i] = IF full THEN EmptyBucket ELSE new],
             ok |-> TRUE, emptied |-> IF full THEN {i} ELSE {}]
    BY <1>3, <1>5
  <2>2. \/ new = [chksum |-> InsertAt(b.chksum, InsertPos(b, key), key),
                  offset |-> InsertAt(b.offset, InsertPos(b, key), e)]
        \/ /\ e = 0 /\ \A k \in 1..Len(b.offset) : b.offset[k] = 0
           /\ new = [chksum |-> InsertAt(b.chksum, InsertPos(b, key), key),
                     offset |-> Append(b.offset, 0)]
    BY <1>1 DEF NoOffsets
  <2>3. e \in Nat
    OBVIOUS
  <2>4. \A x \in Nat : ~ Holds(b, key, x)
    BY <1>1, <1>2, <1>5, FoundIt
  <2> HIDE DEF e, i, key, b, r, new, full
  <2>5. /\ new \in BucketType /\ Ordered(new) /\ Len(new.chksum) = Len(b.chksum) + 1
        /\ \A q, o \in Nat : Holds(new, q, o) <=> Holds(b, q, o) \/ (q = key /\ o = e)
        /\ (e = 0 /\ \A k \in 1..Len(b.offset) : b.offset[k] = 0)
             => \A k \in 1..Len(new.offset) : new.offset[k] = 0
    BY <1>1, <1>2, <1>5, <2>2, <2>3, InsertedInBucket
  <2>6. EmptyBucket \in BucketType /\ Sorted(EmptyBucket) /\ \A q, o : ~ Holds(EmptyBucket, q, o)
    <3>1. EmptyBucket \in BucketType
      BY DEF EmptyBucket, BucketType
    <3>2. Len(EmptyBucket.chksum) = 0 /\ Len(EmptyBucket.offset) = 0
      BY DEF EmptyBucket
    <3> QED BY <3>1, <3>2 DEF Sorted, Ordered, Holds
  <2>7. ~ full => Sorted(new)
    <3> SUFFICES ASSUME ~ full
                 PROVE  Len(new.chksum) < DepthWrap
      BY <2>5 DEF Sorted
    <3>1. Len(new.chksum) \in Nat /\ Len(new.chksum) <= DepthWrap
      BY <1>2, <2>5 DEF Sorted, BucketType
    <3>2. DepthWrap % DepthWrap = 0
      OBVIOUS
    <3>3. Len(new.chksum) # DepthWrap
      <4> SUFFICES ASSUME Len(new.chksum) = DepthWrap
                   PROVE  full
        OBVIOUS
      <4> QED BY <3>2, Zenon DEF full
    <3> QED BY <3>1, <3>3
  <2> DEFINE u == IF full THEN EmptyBucket ELSE new
  <2>8. r.hash = [h EXCEPT ![i] = u] /\ r.ok = TRUE /\ r.emptied = IF full THEN {i} ELSE {}
    BY <2>1
  <2>9. u \in BucketType /\ Sorted(u)
    BY <2>5, <2>6, <2>7
  <2>10. SortedHash(r.hash)
    <3> HIDE DEF u
    <3> QED BY <1>1, <2>8, <2>9 DEF SortedHash, HashType
  <2>11. /\ r.hash[i] = u
         /\ \A j \in 0..(Buckets - 1) : j # i => r.hash[j] = h[j]
    <3> HIDE DEF u
    <3> QED BY <1>1, <2>8 DEF SortedHash, HashType
  <2>12. \A j \in 0..(Buckets - 1) : \A q, o \in Nat :
           Holds(r.hash[j], q, o) <=>
             /\ j \notin r.emptied
             /\ \/ Holds(h[j], q, o)
                \/ j = i /\ q = key /\ o = e /\ \A x \in Nat : ~ Holds(h[j], q, x)
    <3> SUFFICES ASSUME NEW j \in 0..(Buckets - 1), NEW q \in Nat, NEW o \in Nat
                 PROVE  Holds(r.hash[j], q, o) <=>
                          /\ j \notin r.emptied
                          /\ \/ Holds(h[j], q, o)
                             \/ j = i /\ q = key /\ o = e /\ \A x \in Nat : ~ Holds(h[j], q, x)
      OBVIOUS
    <3>1. CASE j # i
      BY <2>8, <2>11, <3>1
    <3>2. CASE j = i /\ full
      BY <2>6, <2>8, <2>11, <3>2
    <3>3. CASE j = i /\ ~ full
      BY <2>4, <2>5, <2>8, <2>11, <3>3 DEF b
    <3> QED BY <3>1, <3>2, <3>3
  <2>13. NoOffsets(h) /\ e = 0 => NoOffsets(r.hash)
    <3> SUFFICES ASSUME NoOffsets(h), e = 0, NEW j \in 0..(Buckets - 1),
                        NEW k \in 1..Len(r.hash[j].offset)
                 PROVE  r.hash[j].offset[k] = 0
      BY DEF NoOffsets
    <3>1. CASE j # i
      BY <2>11, <3>1 DEF NoOffsets
    <3>2. CASE j = i /\ full
      <4>1. EmptyBucket.offset = << >>
        BY DEF EmptyBucket
      <4>2. Len(r.hash[j].offset) = 0
        BY <2>11, <3>2, <4>1
      <4> QED BY <4>2
    <3>3. CASE j = i /\ ~ full
      <4>1. \A l \in 1..Len(b.offset) : b.offset[l] = 0
        BY <1>1 DEF NoOffsets, b
      <4> QED BY <2>5, <2>11, <3>3, <4>1
    <3> QED BY <3>1, <3>2, <3>3
  <2>14. r.ok \in BOOLEAN /\ r.emptied \subseteq 0..(Buckets - 1)
    BY <1>1, <2>8
  <2> QED BY <2>10, <2>12, <2>13, <2>14 DEF Inserts, e, i, key, r
<1>6. Find(b, key) = 0 \/ Find(b, key) # 0
  OBVIOUS
<1> HIDE DEF e, r, b
<1> QED BY <1>4, <1>5, <1>6 DEF e, r

\* What the walk over the reference has to do: a checksum that has no offset gets one.
Answers(h, s, off, r) ==
  /\ SortedHash(r.hash) /\ r.ok \in BOOLEAN /\ r.emptied = {}
  /\ \A i \in 0..(Buckets - 1) : \A q, o \in Nat :
       Holds(r.hash[i], q, o) <=>
         IF i = Index(s) /\ q = Key(s) /\ Holds(h[i], q, 0) THEN o = off
                                                          ELSE Holds(h[i], q, o)

\* RHash_insert_match: other checksums keep what they have.
THEOREM Answered ==
  ASSUME NEW h, SortedHash(h), NEW s \in Nat, NEW off \in Nat
  PROVE  Answers(h, s, off, InsertMatch(h, s, off))
<1> DEFINE i == Index(s)
           key == Key(s)
           b == h[i]
           k == Find(b, key)
           r == InsertMatch(h, s, off)
<1>1. i \in 0..(Buckets - 1) /\ key \in Nat
  BY PlaceOfSum
<1>2. b \in BucketType /\ Sorted(b) /\ Ordered(b)
  BY <1>1 DEF SortedHash, HashType, Sorted
<1>3. /\ k \in 0..Len(b.chksum)
      /\ k # 0 => b.chksum[k] = key
      /\ k = 0 => \A l \in 1..Len(b.chksum) : b.chksum[l] # key
  BY <1>1, <1>2, Found
<1>4. \A o : Holds(b, key, o) <=> k # 0 /\ b.offset[k] = o
  BY <1>1, <1>2, FoundIt
<1>5. r = IF k = 0 THEN Unchanged(h)
          ELSE IF b.offset[k] # 0 THEN Unchanged(h)
          ELSE [hash |-> [h EXCEPT ![i].offset[k] = off], ok |-> TRUE, emptied |-> {}]
  BY DEF InsertMatch
<1>6. CASE k = 0 \/ b.offset[k] # 0
  <2>1. r.hash = h /\ r.ok = FALSE /\ r.emptied = {}
    BY <1>5, <1>6 DEF Unchanged
  <2>2. ~ Holds(b, key, 0)
    BY <1>4, <1>6
  <2> HIDE DEF i, key, b, r, k
  <2>3. \A j \in 0..(Buckets - 1) : \A q, o \in Nat :
          Holds(r.hash[j], q, o) <=>
            IF j = i /\ q = key /\ Holds(h[j], q, 0) THEN o = off ELSE Holds(h[j], q, o)
    BY <2>1, <2>2 DEF b
  <2> QED BY <2>1, <2>3 DEF Answers, i, key, r
<1>7. CASE k # 0 /\ b.offset[k] = 0
  <2>1. r = [hash |-> [h EXCEPT ![i].offset[k] = off], ok |-> TRUE, emptied |-> {}]
    BY <1>5, <1>7
  <2>2. /\ h \in HashType /\ b.chksum \in Seq(Nat) /\ b.offset \in Seq(Nat)
        /\ Len(b.offset) = Len(b.chksum) /\ k \in 1..Len(b.chksum)
    BY <1>2, <1>3, <1>7 DEF SortedHash, Ordered, BucketType
  <2> DEFINE u == [b EXCEPT !.offset[k] = off]
  <2>3. r.hash = [h EXCEPT ![i] = u] /\ r.ok = TRUE /\ r.emptied = {}
    BY <2>1
  <2>4. u.chksum = b.chksum /\ u.offset = [b.offset EXCEPT ![k] = off]
    BY <1>2 DEF BucketType
  <2>5. /\ u \in BucketType /\ u.offset \in Seq(Nat) /\ Len(u.offset) = Len(b.offset)
        /\ \A l \in 1..Len(b.chksum) : u.offset[l] = IF l = k THEN off ELSE b.offset[l]
    <3>1. /\ u.offset \in Seq(Nat) /\ Len(u.offset) = Len(b.offset)
          /\ \A l \in 1..Len(b.offset) : u.offset[l] = IF l = k THEN off ELSE b.offset[l]
      <4> DEFINE bo == b.offset
      <4>1. bo \in Seq(Nat) /\ k \in 1..Len(bo) /\ u.offset = [bo EXCEPT ![k] = off]
        BY <2>2, <2>4
      <4> HIDE DEF bo, u, k
      <4>2. /\ [bo EXCEPT ![k] = off] \in Seq(Nat) /\ Len([bo EXCEPT ![k] = off]) = Len(bo)
            /\ \A l \in 1..Len(bo) : [bo EXCEPT ![k] = off][l] = IF l = k THEN off ELSE bo[l]
        BY <4>1, Replaced
      <4> QED BY <4>1, <4>2 DEF bo
    <3>2. u \in BucketType
      BY <1>2, <2>4, <3>1 DEF BucketType
    <3> QED BY <2>2, <3>1, <3>2
  <2> HIDE DEF u
  <2>6. Sorted(u)
    BY <1>2, <2>4, <2>5 DEF Sorted, Ordered
  <2> HIDE DEF i, key, b, r, k
  <2>7. SortedHash(r.hash)
    BY <1>1, <2>2, <2>3, <2>5, <2>6 DEF SortedHash, HashType
  <2>8. r.hash[i] = u /\ \A j \in 0..(Buckets - 1) : j # i => r.hash[j] = h[j]
    BY <1>1, <2>2, <2>3 DEF HashType
  <2>9. \A q, o \in Nat : Holds(u, q, o) <=> IF q = key THEN o = off ELSE Holds(b, q, o)
    <3> SUFFICES ASSUME NEW q \in Nat, NEW o \in Nat
                 PROVE  Holds(u, q, o) <=> IF q = key THEN o = off ELSE Holds(b, q, o)
      OBVIOUS
    <3>1. Holds(u, q, o) <=> \E l \in 1..Len(b.chksum) : b.chksum[l] = q /\ u.offset[l] = o
      BY <2>4 DEF Holds
    <3>2. CASE q = key
      <4>1. ASSUME NEW l \in 1..Len(b.chksum), b.chksum[l] = key
            PROVE  l = k
        <5>1. b.chksum[k] = key
          BY <1>3, <1>7
        <5>2. ~ (l < k) /\ ~ (k < l)
          BY <1>1, <1>2, <2>2, <4>1, <5>1 DEF Ordered
        <5> QED BY <2>2, <5>2
      <4> QED BY <1>3, <1>7, <2>2, <2>5, <3>1, <3>2, <4>1
    <3>3. CASE q # key
      <4>1. \A l \in 1..Len(b.chksum) : b.chksum[l] = q => l # k
        BY <1>3, <1>7, <3>3
      <4> QED BY <2>5, <3>1, <3>3, <4>1 DEF Holds
    <3> QED BY <3>2, <3>3
  <2>10. \A j \in 0..(Buckets - 1) : \A q, o \in Nat :
           Holds(r.hash[j], q, o) <=>
             IF j = i /\ q = key /\ Holds(h[j], q, 0) THEN o = off ELSE Holds(h[j], q, o)
    BY <1>4, <1>7, <2>8, <2>9 DEF b
  <2> QED BY <2>3, <2>7, <2>10 DEF Answers, i, key, r
<1> HIDE DEF r, k, b
<1> QED BY <1>6, <1>7 DEF r

\* Nothing but what has an offset is left.
LEMMA CleanedBucket ==
  ASSUME NEW b \in BucketType, Sorted(b)
  PROVE  /\ CleanBucket(b) \in BucketType /\ Sorted(CleanBucket(b))
         /\ \A q, o \in Nat : Holds(CleanBucket(b), q, o) <=> Holds(b, q, o) /\ o # 0
<1> DEFINE N == Len(b.chksum)
           put(e, k) == IF b.offset[k] = 0 THEN e
                        ELSE [chksum |-> Append(e.chksum, b.chksum[k]),
                              offset |-> Append(e.offset, b.offset[k])]
           G == [p \in BucketType \X (1..N) |-> put(p[1], p[2])]
           Is(f) == f = [k \in 0..N |-> IF k = 0 THEN EmptyBucket ELSE put(f[k - 1], k)]
<1>1. /\ N \in Nat /\ b.chksum \in Seq(Nat) /\ b.offset \in Seq(Nat) /\ Len(b.offset) = N
      /\ \A k \in 1..N : b.chksum[k] \in Nat /\ b.offset[k] \in Nat
      /\ \A k, l \in 1..N : k < l => b.chksum[k] < b.chksum[l]
      /\ N < DepthWrap
  BY DEF BucketType, Sorted, Ordered
<1>2. EmptyBucket \in BucketType
  BY DEF EmptyBucket, BucketType
<1>3. ASSUME NEW e \in BucketType, NEW k \in 1..N
      PROVE  put(e, k) \in BucketType
  BY <1>1 DEF BucketType
<1> HIDE DEF N, put
<1>4. G \in [BucketType \X (1..N) -> BucketType]
  BY <1>3
<1>5. PICK f0 \in [0..N -> BucketType] : Iterates(f0, EmptyBucket, N, G)
  <2> HIDE DEF G
  <2> QED BY <1>1, <1>2, <1>4, Recursion
<1>6. Is(f0)
  <2>1. ASSUME NEW k \in 0..N
        PROVE  f0[k] = IF k = 0 THEN EmptyBucket ELSE put(f0[k - 1], k)
    <3>1. CASE k = 0
      BY <1>5, <3>1 DEF Iterates
    <3>2. CASE k # 0
      <4>1. k \in 1..N /\ k - 1 \in 0..N
        BY <1>1, <3>2
      <4>2. f0[k - 1] \in BucketType
        BY <4>1
      <4>3. G[<<f0[k - 1], k>>] = put(f0[k - 1], k)
        BY <4>1, <4>2
      <4> HIDE DEF G
      <4> QED BY <1>5, <3>2, <4>1, <4>3 DEF Iterates
    <3> QED BY <3>1, <3>2
  <2> QED BY <2>1
<1> DEFINE f == CHOOSE g : Is(g)
<1>7. Is(f)
  <2> HIDE DEF Is
  <2> QED BY <1>6
<1>8. CleanBucket(b) = f[N]
  BY Zenon DEF CleanBucket, N, put
<1> HIDE DEF f
<1>9. f[0] = EmptyBucket /\ \A k \in 1..N : f[k] = put(f[k - 1], k)
  <2>1. 0 \in 0..N /\ \A k \in 1..N : k \in 0..N /\ k # 0
    BY <1>1
  <2> QED BY <1>7, <2>1, Zenon
\* Of the first k there is what has an offset, and it is less than what follows.
<1> DEFINE Among(k, q, o) == \E l \in 1..k : b.chksum[l] = q /\ b.offset[l] = o
           Kept(e, k) ==
             /\ e \in BucketType /\ Ordered(e) /\ Len(e.chksum) <= k
             /\ \A q, o \in Nat : Holds(e, q, o) <=> o # 0 /\ Among(k, q, o)
             /\ \A x \in 1..Len(e.chksum) : \E l \in 1..k : e.chksum[x] = b.chksum[l]
           S == {k \in 0..N : Kept(f[k], k)}
<1>10. 0 \in S
  <2>1. EmptyBucket.chksum = << >> /\ EmptyBucket.offset = << >>
    BY DEF EmptyBucket
  <2>2. Len(EmptyBucket.chksum) = 0 /\ Len(EmptyBucket.offset) = 0
    BY <2>1
  <2>3. Ordered(EmptyBucket) /\ \A q, o : ~ Holds(EmptyBucket, q, o)
    BY <2>2 DEF Ordered, Holds
  <2> QED BY <1>1, <1>2, <1>9, <2>2, <2>3
<1>11. ASSUME NEW e, NEW k \in 0..(N - 1), Kept(e, k)
       PROVE  Kept(put(e, k + 1), k + 1)
  <2>1. /\ k + 1 \in 1..N /\ k \in Nat
        /\ \A l \in 1..k : l \in 1..(k + 1) /\ l \in 1..N /\ l < k + 1
        /\ \A l \in 1..(k + 1) : l \in 1..k \/ l = k + 1
    BY <1>1
  <2> DEFINE c == b.chksum[k + 1]
             o1 == b.offset[k + 1]
             v == put(e, k + 1)
  <2>2. c \in Nat /\ o1 \in Nat
    BY <1>1, <2>1
  <2>3. v = IF o1 = 0 THEN e ELSE [chksum |-> Append(e.chksum, c), offset |-> Append(e.offset, o1)]
    BY DEF put
  <2>4. /\ e.chksum \in Seq(Nat) /\ e.offset \in Seq(Nat) /\ Len(e.offset) = Len(e.chksum)
        /\ Len(e.chksum) \in Nat
    BY <1>11 DEF BucketType, Ordered
  <2>5. \A q, o \in Nat :
          Among(k + 1, q, o) <=> Among(k, q, o) \/ (c = q /\ o1 = o)
    BY <2>1
  <2> HIDE DEF c, o1, v, Among
  <2>6. CASE o1 = 0
    <3>1. v = e
      BY <2>3, <2>6
    <3>2. Len(e.chksum) <= k + 1
      BY <1>11, <2>1, <2>4
    <3>3. \A x \in 1..Len(e.chksum) : \E l \in 1..(k + 1) : e.chksum[x] = b.chksum[l]
      BY <1>11, <2>1
    <3>4. \A q, o \in Nat :
            Holds(e, q, o) <=> o # 0 /\ Among(k + 1, q, o)
      BY <1>11, <2>5, <2>6
    <3> QED BY <1>11, <3>1, <3>2, <3>3, <3>4 DEF v
  <2>7. CASE o1 # 0
    <3> DEFINE n == Len(e.chksum)
    <3>1. v = [chksum |-> Append(e.chksum, c), offset |-> Append(e.offset, o1)]
      BY <2>3, <2>7
    <3>2. /\ v.chksum \in Seq(Nat) /\ Len(v.chksum) = n + 1
          /\ \A x \in 1..n : v.chksum[x] = e.chksum[x]
          /\ v.chksum[n + 1] = c
      BY <2>2, <2>4, <3>1
    <3>3. /\ v.offset \in Seq(Nat) /\ Len(v.offset) = n + 1
          /\ \A x \in 1..n : v.offset[x] = e.offset[x]
          /\ v.offset[n + 1] = o1
      BY <2>2, <2>4, <3>1
    <3>4. v \in BucketType
      BY <3>1, <3>2, <3>3 DEF BucketType
    <3>5. \A x \in 1..n : e.chksum[x] < c
      <4> SUFFICES ASSUME NEW x \in 1..n
                   PROVE  e.chksum[x] < c
        OBVIOUS
      <4>1. PICK l \in 1..k : e.chksum[x] = b.chksum[l]
        BY <1>11
      <4>2. l \in 1..N /\ l < k + 1
        BY <2>1
      <4>3. b.chksum[l] < b.chksum[k + 1]
        BY <1>1, <2>1, <4>2
      <4> QED BY <4>1, <4>3 DEF c
    <3>6. n \in Nat /\ n <= k /\ \A x \in 1..(n + 1) : x \in 1..n \/ x = n + 1
      BY <1>11, <2>4
    <3> HIDE DEF n
    <3>7. Ordered(v)
      <4> SUFFICES ASSUME NEW x \in 1..(n + 1), NEW y \in 1..(n + 1), x < y
                   PROVE  v.chksum[x] < v.chksum[y]
        BY <3>2, <3>3 DEF Ordered
      <4>1. x \in 1..n
        BY <3>6
      <4>2. CASE y = n + 1
        BY <3>2, <3>5, <4>1, <4>2
      <4>3. CASE y \in 1..n
        <5>1. e.chksum[x] < e.chksum[y]
          BY <1>11, <4>1, <4>3 DEF Ordered, n
        <5> QED BY <3>2, <4>1, <4>3, <5>1
      <4> QED BY <3>6, <4>2, <4>3
    <3>8. \A q, o \in Nat : Holds(v, q, o) <=> Holds(e, q, o) \/ (c = q /\ o1 = o)
      <4> SUFFICES ASSUME NEW q \in Nat, NEW o \in Nat
                   PROVE  Holds(v, q, o) <=> Holds(e, q, o) \/ (c = q /\ o1 = o)
        OBVIOUS
      <4>1. Holds(v, q, o) <=> \E x \in 1..(n + 1) : v.chksum[x] = q /\ v.offset[x] = o
        BY <3>2 DEF Holds
      <4>2. Holds(e, q, o) <=> \E x \in 1..n : e.chksum[x] = q /\ e.offset[x] = o
        BY DEF Holds, n
      <4>3. n + 1 \in 1..(n + 1) /\ \A x \in 1..n : x \in 1..(n + 1)
        BY <3>6
      <4> QED BY <3>2, <3>3, <3>6, <4>1, <4>2, <4>3
    <3>9. \A q, o \in Nat :
            Holds(v, q, o) <=> o # 0 /\ Among(k + 1, q, o)
      BY <1>11, <2>5, <2>7, <3>8
    <3>10. \A x \in 1..(n + 1) : \E l \in 1..(k + 1) : v.chksum[x] = b.chksum[l]
      <4> SUFFICES ASSUME NEW x \in 1..(n + 1)
                   PROVE  \E l \in 1..(k + 1) : v.chksum[x] = b.chksum[l]
        OBVIOUS
      <4>1. CASE x = n + 1
        <5>1. v.chksum[x] = b.chksum[k + 1] /\ k + 1 \in 1..(k + 1)
          BY <2>1, <3>2, <4>1 DEF c
        <5> QED BY <5>1
      <4>2. CASE x \in 1..n
        <5>1. PICK l \in 1..k : e.chksum[x] = b.chksum[l]
          BY <1>11, <4>2 DEF n
        <5> QED BY <2>1, <3>2, <4>2, <5>1
      <4> QED BY <3>6, <4>1, <4>2
    <3> QED BY <3>2, <3>4, <3>6, <3>7, <3>9, <3>10 DEF v
  <2> QED BY <2>6, <2>7
<1>12. \A k \in 0..(N - 1) : k \in S => k + 1 \in S
  <2> SUFFICES ASSUME NEW k \in 0..(N - 1), Kept(f[k], k)
               PROVE  k + 1 \in S
    OBVIOUS
  <2>1. k + 1 \in 1..N /\ k + 1 \in 0..N /\ (k + 1) - 1 = k
    BY <1>1
  <2>2. f[k + 1] = put(f[k], k + 1)
    BY <1>9, <2>1
  <2> HIDE DEF Kept
  <2>3. Kept(put(f[k], k + 1), k + 1)
    BY <1>11
  <2> QED BY <2>1, <2>2, <2>3
<1>13. Kept(f[N], N)
  <2>1. N \in S
    <3> HIDE DEF S
    <3>1. N \in 0..N
      BY <1>1
    <3> QED BY <1>1, <1>10, <1>12, <3>1, UpTo
  <2> QED BY <2>1
<1>14. Sorted(f[N])
  <2>1. Len(f[N].chksum) \in Nat
    BY <1>13 DEF BucketType
  <2> QED BY <1>1, <1>13, <2>1 DEF Sorted
<1>15. \A q, o \in Nat : Holds(f[N], q, o) <=> Holds(b, q, o) /\ o # 0
  <2>1. \A q, o \in Nat : Holds(b, q, o) <=> Among(N, q, o)
    BY DEF Holds, N
  <2> HIDE DEF Among
  <2> QED BY <1>13, <2>1
<1> QED BY <1>8, <1>13, <1>14, <1>15

\* rh_rbucket_cleanse over all buckets: what has no offset goes, all else stays.
THEOREM CleansedAll ==
  ASSUME NEW h, SortedHash(h)
  PROVE  /\ SortedHash(Cleansed(h))
         /\ \A i \in 0..(Buckets - 1) : \A q, o \in Nat :
              Holds(Cleansed(h)[i], q, o) <=> Holds(h[i], q, o) /\ o # 0
<1>1. Cleansed(h) = [i \in 0..(Buckets - 1) |-> CleanBucket(h[i])]
  BY DEF Cleansed, SortedHash, HashType
<1>2. ASSUME NEW i \in 0..(Buckets - 1)
      PROVE  /\ CleanBucket(h[i]) \in BucketType /\ Sorted(CleanBucket(h[i]))
             /\ \A q, o \in Nat :
                  Holds(CleanBucket(h[i]), q, o) <=> Holds(h[i], q, o) /\ o # 0
  <2>1. h[i] \in BucketType /\ Sorted(h[i])
    BY DEF SortedHash, HashType
  <2> QED BY <2>1, CleanedBucket
<1>3. SortedHash(Cleansed(h))
  BY <1>1, <1>2 DEF SortedHash, HashType
<1> QED BY <1>1, <1>2, <1>3

\* What a look into the hash gives: what it holds, 0 for nothing.
LEMMA Looked ==
  ASSUME SortedHash(hash), NEW s \in Nat
  PROVE  /\ Lookup(s) \in Nat
         /\ Lookup(s) # 0 => Holds(hash[Index(s)], Key(s), Lookup(s))
         /\ \A o \in Nat : Holds(hash[Index(s)], Key(s), o) => Lookup(s) = o
<1> DEFINE b == hash[Index(s)]
           k == Find(b, Key(s))
<1>1. Index(s) \in 0..(Buckets - 1) /\ Key(s) \in Nat
  BY PlaceOfSum
<1>2. b \in BucketType /\ Ordered(b)
  BY <1>1 DEF SortedHash, HashType, Sorted
<1>3. k \in 0..Len(b.chksum)
  BY <1>1, <1>2, Found
<1>4. \A o : Holds(b, Key(s), o) <=> k # 0 /\ b.offset[k] = o
  BY <1>1, <1>2, FoundIt
<1>5. Lookup(s) = IF k = 0 THEN 0 ELSE b.offset[k]
  BY DEF Lookup
<1>6. k # 0 => b.offset[k] \in Nat
  BY <1>2, <1>3 DEF BucketType, Ordered
<1> HIDE DEF k
<1> QED BY <1>4, <1>5, <1>6
=============================================================================
