--------------------------- MODULE ChecksumProofs ---------------------------
(***************************************************************************)
(* Proofs about the rolling checksum of Differ: rolled on, over any pages, *)
(* it is the checksum of the bytes it remembers, and these are the last    *)
(* that were read.                                                         *)
(***************************************************************************)
EXTENDS Differ, SetInduction, TLAPS

\* What there is to a checksum: a byte for each place of the seed.
AdsType == [s1 : Nat, s2 : Nat, tail : 0..(SeedLen - 1), chars : [0..(SeedLen - 1) -> Nat]]

\* The checksum is that of the bytes it remembers.
TrueSum(a) == a.s1 = Afresh(SeedChars(a)).s1 /\ a.s2 = Afresh(SeedChars(a)).s2

\* What the two sums of a loop over the bytes are after each of them.
Tables(bytes, f, g) ==
  /\ f[0] = 0 /\ g[0] = 0
  /\ \A x \in 1..Len(bytes) : f[x] = f[x - 1] + bytes[x] /\ g[x] = g[x - 1] * Multi + f[x]
  /\ Afresh(bytes).s1 = f[Len(bytes)] /\ Afresh(bytes).s2 = g[Len(bytes)]

TrueAds == {a \in AdsType : TrueSum(a)}

USE SeedAssumption

-----------------------------------------------------------------------------
(* The loops as functions *)

\* A turn of a loop over the bytes leaves a natural number.
LEMMA NaturalStep == \A x, y, m \in Nat : x * m + y \in Nat
OBVIOUS

\* The loop of init_adler32_seed: what a byte weighs after x more.
LEMMA Weights ==
  \E w \in [0..(SeedLen - 1) -> Nat] :
    /\ w[0] = 1
    /\ \A x \in 1..(SeedLen - 1) : w[x] = w[x - 1] * Multi + 1
    /\ LastMulti = w[SeedLen - 1]
<1> DEFINE N == SeedLen - 1
           G == [p \in Nat \X (1..N) |-> p[1] * Multi + 1]
           Is(f) == f = [x \in 0..N |-> IF x = 0 THEN 1 ELSE f[x - 1] * Multi + 1]
<1>1. N \in Nat /\ G \in [Nat \X (1..N) -> Nat]
  <2>1. N \in Nat /\ Multi \in Nat
    OBVIOUS
  <2>2. \A p \in Nat \X (1..N) : p[1] * Multi + 1 \in Nat
    BY <2>1
  <2> QED BY <2>1, <2>2
<1>2. PICK f \in [0..N -> Nat] : Iterates(f, 1, N, G)
  <2>1. 1 \in Nat
    OBVIOUS
  <2> HIDE DEF G, N
  <2> QED BY <1>1, <2>1, Recursion
<1>3. Is(f)
  <2>1. ASSUME NEW x \in 0..N
        PROVE  f[x] = IF x = 0 THEN 1 ELSE f[x - 1] * Multi + 1
    <3>1. CASE x = 0
      BY <1>2, <3>1 DEF Iterates
    <3>2. CASE x # 0
      <4>1. <<f[x - 1], x>> \in Nat \X (1..N)
        BY <3>2
      <4>2. G[<<f[x - 1], x>>] = f[x - 1] * Multi + 1
        BY <4>1
      <4> HIDE DEF G
      <4> QED BY <1>2, <3>2, <4>2 DEF Iterates
    <3> QED BY <3>1, <3>2
  <2> QED BY <2>1
<1> DEFINE w == CHOOSE g : Is(g)
<1>4. Is(w)
  <2> HIDE DEF Is
  <2> QED BY <1>3
<1>5. LastMulti = w[SeedLen - 1]
  BY DEF LastMulti
<1> HIDE DEF w
<1>6. w[0] = 1 /\ \A x \in 1..N : w[x] = w[x - 1] * Multi + 1
  BY <1>1, <1>4
<1>7. \A x \in 0..N : w[x] \in Nat
  <2> DEFINE S == {x \in 0..N : w[x] \in Nat}
  <2>1. 0 \in S
    BY <1>6
  <2>2. \A x \in 0..(N - 1) : x \in S => x + 1 \in S
    <3> SUFFICES ASSUME NEW x \in 0..(N - 1), w[x] \in Nat
                 PROVE  w[x + 1] \in Nat
      OBVIOUS
    <3>1. x + 1 \in 1..N /\ (x + 1) - 1 = x
      OBVIOUS
    <3>2. w[x + 1] = w[x] * Multi + 1
      BY <1>6, <3>1
    <3>3. \A y \in Nat : y * Multi + 1 \in Nat
      OBVIOUS
    <3> QED BY <3>2, <3>3
  <2> HIDE DEF S
  <2>3. \A x \in 0..N : x \in S
    BY <1>1, <2>1, <2>2, UpTo
  <2> QED BY <2>3 DEF S
<1>8. w \in [0..N -> Nat]
  BY <1>4, <1>7
<1> QED BY <1>5, <1>6, <1>8

\* The loop of update_adler32_seed over a whole seed.
LEMMA Sums ==
  ASSUME NEW bytes \in Seq(Nat)
  PROVE  \E f, g \in [0..Len(bytes) -> Nat] : Tables(bytes, f, g)
<1> DEFINE N == Len(bytes)
           G == [p \in Nat \X (1..N) |-> p[1] + bytes[p[2]]]
           IsF(f) == f = [x \in 0..N |-> IF x = 0 THEN 0 ELSE f[x - 1] + bytes[x]]
<1>1. N \in Nat /\ G \in [Nat \X (1..N) -> Nat]
  <2>1. \A p \in Nat \X (1..N) : p[1] + bytes[p[2]] \in Nat
    OBVIOUS
  <2> QED BY <2>1
<1>2. PICK f0 \in [0..N -> Nat] : Iterates(f0, 0, N, G)
  <2>1. 0 \in Nat
    OBVIOUS
  <2> HIDE DEF G, N
  <2> QED BY <1>1, <2>1, Recursion
<1>3. IsF(f0)
  <2>1. ASSUME NEW x \in 0..N
        PROVE  f0[x] = IF x = 0 THEN 0 ELSE f0[x - 1] + bytes[x]
    <3>1. CASE x = 0
      BY <1>2, <3>1 DEF Iterates
    <3>2. CASE x # 0
      <4>1. x \in 1..N /\ x - 1 \in 0..N
        BY <1>1, <3>2
      <4>2. f0[x - 1] \in Nat
        BY <4>1
      <4>3. G[<<f0[x - 1], x>>] = f0[x - 1] + bytes[x]
        <5> HIDE DEF N
        <5> QED BY <4>1, <4>2
      <4> HIDE DEF G
      <4> QED BY <1>2, <3>2, <4>1, <4>3 DEF Iterates
    <3> QED BY <3>1, <3>2
  <2> QED BY <2>1
<1> DEFINE f == CHOOSE h : IsF(h)
<1>4. IsF(f)
  <2> HIDE DEF IsF
  <2> QED BY <1>3
<1> HIDE DEF f
<1>5. f[0] = 0 /\ \A x \in 1..N : f[x] = f[x - 1] + bytes[x]
  BY <1>1, <1>4
<1>6. f \in [0..N -> Nat]
  <2> DEFINE S == {x \in 0..N : f[x] \in Nat}
  <2>1. 0 \in S
    BY <1>5
  <2>2. \A x \in 0..(N - 1) : x \in S => x + 1 \in S
    <3> SUFFICES ASSUME NEW x \in 0..(N - 1), f[x] \in Nat
                 PROVE  f[x + 1] \in Nat
      OBVIOUS
    <3>1. x + 1 \in 1..N /\ (x + 1) - 1 = x
      OBVIOUS
    <3>2. f[x + 1] = f[x] + bytes[x + 1]
      BY <1>5, <3>1
    <3> QED BY <3>1, <3>2
  <2> HIDE DEF S
  <2>3. \A x \in 0..N : x \in S
    BY <1>1, <2>1, <2>2, UpTo
  <2>4. \A x \in 0..N : f[x] \in Nat
    BY <2>3 DEF S
  <2> QED BY <1>4, <2>4
<1> DEFINE H == [p \in Nat \X (1..N) |-> p[1] * Multi + f[p[2]]]
           IsG(g) == g = [x \in 0..N |-> IF x = 0 THEN 0 ELSE g[x - 1] * Multi + f[x]]
<1>7. H \in [Nat \X (1..N) -> Nat]
  <2>1. ASSUME NEW y \in Nat, NEW x \in 1..N
        PROVE  y * Multi + f[x] \in Nat
    <3>1. f[x] \in Nat
      BY <1>6
    <3> QED BY <3>1, NaturalStep
  <2> QED BY <2>1
<1>8. PICK g0 \in [0..N -> Nat] : Iterates(g0, 0, N, H)
  <2>1. 0 \in Nat
    OBVIOUS
  <2> HIDE DEF H, N
  <2> QED BY <1>1, <1>7, <2>1, Recursion
<1>9. IsG(g0)
  <2>1. ASSUME NEW x \in 0..N
        PROVE  g0[x] = IF x = 0 THEN 0 ELSE g0[x - 1] * Multi + f[x]
    <3>1. CASE x = 0
      BY <1>8, <3>1 DEF Iterates
    <3>2. CASE x # 0
      <4>1. <<g0[x - 1], x>> \in Nat \X (1..N)
        BY <3>2
      <4>2. H[<<g0[x - 1], x>>] = g0[x - 1] * Multi + f[x]
        BY <4>1
      <4> HIDE DEF H
      <4> QED BY <1>8, <3>2, <4>2 DEF Iterates
    <3> QED BY <3>1, <3>2
  <2> QED BY <2>1
<1> DEFINE g == CHOOSE h : IsG(h)
<1>10. IsG(g)
  <2> HIDE DEF IsG
  <2> QED BY <1>9
<1>11. Afresh(bytes).s1 = f[N] /\ Afresh(bytes).s2 = g[N]
  <2>1. Afresh(bytes) = [s1 |-> f[N], s2 |-> g[N], tail |-> 0,
                         chars |-> [x \in 0..(SeedLen - 1) |-> bytes[x + 1]]]
    BY Zenon DEF Afresh, f
  <2> QED BY <2>1
<1> HIDE DEF g
<1>12. g[0] = 0 /\ \A x \in 1..N : g[x] = g[x - 1] * Multi + f[x]
  <2>1. 0 \in 0..N /\ \A x \in 1..N : x \in 0..N /\ x # 0
    BY <1>1
  <2> QED BY <1>10, <2>1, Zenon
<1>13. g \in [0..N -> Nat]
  <2> DEFINE S == {x \in 0..N : g[x] \in Nat}
  <2>1. 0 \in S
    BY <1>12
  <2>2. \A x \in 0..(N - 1) : x \in S => x + 1 \in S
    <3> SUFFICES ASSUME NEW x \in 0..(N - 1), g[x] \in Nat
                 PROVE  g[x + 1] \in Nat
      OBVIOUS
    <3>1. x + 1 \in 1..N /\ (x + 1) - 1 = x /\ x + 1 \in 0..N
      OBVIOUS
    <3>2. g[x + 1] = g[x] * Multi + f[x + 1]
      BY <1>12, <3>1
    <3>3. f[x + 1] \in Nat
      BY <1>6, <3>1
    <3> QED BY <3>2, <3>3, NaturalStep
  <2> HIDE DEF S
  <2>3. \A x \in 0..N : x \in S
    BY <1>1, <2>1, <2>2, UpTo
  <2>4. \A x \in 0..N : g[x] \in Nat
    BY <2>3 DEF S
  <2> QED BY <1>10, <2>4
<1> QED BY <1>5, <1>6, <1>11, <1>12, <1>13 DEF Tables

-----------------------------------------------------------------------------
(* Rolling on *)

\* The arithmetic of Roll: what the first byte weighed is taken out.
LEMMA Distribute ==
  ASSUME NEW g \in Int, NEW l \in Int, NEW c \in Int, NEW f \in Int, NEW m \in Int
  PROVE  (g - l * c) * m + (f - c) = (g * m + f) - (l * m + 1) * c
OBVIOUS

\* When the first byte of w goes and b comes behind the last, the sums become
\* what update_adler32_seed makes them.
LEMMA Shifted ==
  ASSUME NEW w \in [1..SeedLen -> Nat], NEW v \in [1..SeedLen -> Nat],
         \A x \in 1..(SeedLen - 1) : v[x] = w[x + 1]
  PROVE  /\ Afresh(w).s1 \in Nat /\ Afresh(w).s2 \in Nat
         /\ Afresh(v).s1 \in Nat /\ Afresh(v).s2 \in Nat
         /\ LastMulti \in Nat
         /\ Afresh(v).s1 = Afresh(w).s1 - w[1] + v[SeedLen]
         /\ Afresh(v).s2 = (Afresh(w).s2 - LastMulti * w[1]) * Multi + Afresh(v).s1
<1> DEFINE n == SeedLen
<1>1. n \in Nat /\ n # 0 /\ 1 \in 1..n /\ n \in 1..n
  OBVIOUS
<1>2. w \in Seq(Nat) /\ Len(w) = n /\ v \in Seq(Nat) /\ Len(v) = n
  BY <1>1
<1>3. PICK W \in [0..(n - 1) -> Nat] :
        /\ W[0] = 1
        /\ \A x \in 1..(n - 1) : W[x] = W[x - 1] * Multi + 1
        /\ LastMulti = W[n - 1]
  BY Weights
<1>3a. PICK F, G \in [0..n -> Nat] : Tables(w, F, G)
  BY <1>2, Sums
<1>3b. PICK P, Q \in [0..n -> Nat] : Tables(v, P, Q)
  BY <1>2, Sums
<1>4. /\ F[0] = 0 /\ G[0] = 0
      /\ \A x \in 1..n : F[x] = F[x - 1] + w[x] /\ G[x] = G[x - 1] * Multi + F[x]
      /\ Afresh(w).s1 = F[n] /\ Afresh(w).s2 = G[n]
  BY <1>2, <1>3a DEF Tables
<1>5. /\ P[0] = 0 /\ Q[0] = 0
      /\ \A x \in 1..n : P[x] = P[x - 1] + v[x] /\ Q[x] = Q[x - 1] * Multi + P[x]
      /\ Afresh(v).s1 = P[n] /\ Afresh(v).s2 = Q[n]
  BY <1>2, <1>3b DEF Tables
<1> DEFINE c == w[1]
           S == {k \in 0..(n - 1) : P[k] = F[k + 1] - c /\ Q[k] = G[k + 1] - W[k] * c}
<1>6. c \in Nat
  BY <1>1
<1> HIDE DEF c
<1>7. 0 \in S
  <2>1. F[1] = F[0] + c /\ G[1] = G[0] * Multi + F[1]
    BY <1>1, <1>4 DEF c
  <2>2. F[1] = c
    BY <1>4, <1>6, <2>1
  <2>3. G[1] = c
    BY <1>4, <1>6, <2>1, <2>2
  <2>4. P[0] = F[0 + 1] - c
    BY <1>5, <1>6, <2>2
  <2>5. 1 * c = c /\ W[0] = 1
    BY <1>3, <1>6
  <2>6. Q[0] = G[0 + 1] - W[0] * c
    BY <1>5, <1>6, <2>3, <2>5
  <2> QED BY <1>1, <2>4, <2>6
<1>8. \A k \in 0..((n - 1) - 1) : k \in S => k + 1 \in S
  <2> SUFFICES ASSUME NEW k \in 0..((n - 1) - 1), k \in S
               PROVE  k + 1 \in S
    OBVIOUS
  <2>1. /\ k + 1 \in 0..(n - 1) /\ k + 1 \in 1..(n - 1) /\ k + 1 \in 1..n /\ k + 1 \in 0..n
        /\ k + 2 \in 1..n /\ k + 2 \in 0..n /\ k \in 0..n /\ k \in 0..(n - 1)
        /\ (k + 1) - 1 = k /\ (k + 2) - 1 = k + 1 /\ (k + 1) + 1 = k + 2
    BY <1>1
  <2>2. P[k] = F[k + 1] - c /\ Q[k] = G[k + 1] - W[k] * c
    OBVIOUS
  <2>3. P[k + 1] = P[k] + w[k + 2] /\ Q[k + 1] = Q[k] * Multi + P[k + 1]
    BY <1>5, <2>1
  <2>4. F[k + 2] = F[k + 1] + w[k + 2] /\ G[k + 2] = G[k + 1] * Multi + F[k + 2]
    BY <1>4, <2>1
  <2>5. W[k + 1] = W[k] * Multi + 1
    BY <1>3, <2>1
  <2>6. /\ F[k + 1] \in Int /\ F[k + 2] \in Int /\ G[k + 1] \in Int /\ W[k] \in Int
        /\ w[k + 2] \in Int
    BY <2>1
  <2>7. P[k + 1] = F[k + 2] - c /\ Q[k + 1] = G[k + 2] - W[k + 1] * c
    <3>1. c \in Int /\ Multi \in Int
      BY <1>6
    <3> DEFINE f1 == F[k + 1]  f2 == F[k + 2]  g1 == G[k + 1]  g2 == G[k + 2]
               p1 == P[k]  p2 == P[k + 1]  q1 == Q[k]  q2 == Q[k + 1]
               l1 == W[k]  l2 == W[k + 1]  x == w[k + 2]
    <3>2. /\ f1 \in Int /\ g1 \in Int /\ l1 \in Int /\ x \in Int
          /\ f2 = f1 + x /\ g2 = g1 * Multi + f2 /\ l2 = l1 * Multi + 1
          /\ p1 = f1 - c /\ q1 = g1 - l1 * c
          /\ p2 = p1 + x /\ q2 = q1 * Multi + p2
      BY <2>2, <2>3, <2>4, <2>5, <2>6
    <3> HIDE DEF f1, f2, g1, g2, p1, p2, q1, q2, l1, l2, x
    <3>3. p2 = f2 - c /\ f2 \in Int
      BY <3>1, <3>2
    <3>4. (g1 - l1 * c) * Multi + (f2 - c) = (g1 * Multi + f2) - (l1 * Multi + 1) * c
      BY <3>1, <3>2, <3>3, Distribute
    <3>5. q2 = g2 - l2 * c
      BY <3>2, <3>3, <3>4
    <3> QED BY <3>3, <3>5 DEF f1, f2, g1, g2, p1, p2, q1, q2, l1, l2, x
  <2> QED BY <2>1, <2>7
<1>9. n - 1 \in S
  <2>1. n - 1 \in Nat /\ n - 1 \in 0..(n - 1)
    BY <1>1
  <2> HIDE DEF S, n
  <2> QED BY <1>7, <1>8, <2>1, UpTo
<1>10. /\ n - 1 \in 0..n /\ (n - 1) + 1 = n /\ n - 1 \in 0..(n - 1) /\ n \in 0..n
  BY <1>1
<1>11. P[n - 1] = F[n] - c /\ Q[n - 1] = G[n] - W[n - 1] * c
  BY <1>9, <1>10
<1>12. P[n] = P[n - 1] + v[n] /\ Q[n] = Q[n - 1] * Multi + P[n]
  BY <1>1, <1>5
<1>13. F[n] \in Nat /\ G[n] \in Nat /\ P[n] \in Nat /\ Q[n] \in Nat /\ W[n - 1] \in Nat /\ v[n] \in Nat
  BY <1>1, <1>10
<1> HIDE DEF n
<1>14. P[n] = F[n] - c + v[n]
  BY <1>6, <1>11, <1>12, <1>13
<1>15. Q[n] = (G[n] - W[n - 1] * c) * Multi + P[n]
  BY <1>11, <1>12
<1> QED BY <1>3, <1>4, <1>5, <1>13, <1>14, <1>15 DEF c, n

\* A place in a ring of n, y places on.
LEMMA Ring ==
  ASSUME NEW n \in Nat, n # 0, NEW t \in 0..(n - 1), NEW y \in 0..n
  PROVE  (t + y) % n = IF t + y < n THEN t + y ELSE t + y - n
<1>1. CASE t + y < n
  BY <1>1
<1>2. CASE n <= t + y
  <2> DEFINE q == (t + y) \div n
             m == (t + y) % n
  <2>1. q \in Int /\ m \in 0..(n - 1) /\ t + y = n * q + m
    OBVIOUS
  <2> HIDE DEF q
  <2>2. q >= 2 => n * q >= n + n
    BY <2>1
  <2>3. q <= 0 => n * q <= 0
    BY <2>1
  <2>4. q = 1
    <3> DEFINE z == n * q
    <3>1. z \in Int
      BY <2>1
    <3> HIDE DEF z, m
    <3>2. t + y = z + m /\ (q >= 2 => z >= n + n) /\ (q <= 0 => z <= 0)
      BY <2>1, <2>2, <2>3 DEF z
    <3> QED BY <1>2, <2>1, <3>1, <3>2
  <2> QED BY <2>1, <2>4
<1> QED BY <1>1, <1>2

\* The bytes that are remembered: so many as the seed has.
LEMMA CharsType ==
  ASSUME NEW a \in AdsType
  PROVE  /\ SeedChars(a) \in [1..SeedLen -> Nat]
         /\ SeedChars(a)[1] = a.chars[a.tail]
<1>1. SeedLen \in Nat /\ SeedLen # 0 /\ a.tail \in 0..(SeedLen - 1) /\ a.tail \in Int
  BY DEF AdsType
<1>2. ASSUME NEW x \in 1..SeedLen
      PROVE  a.chars[(a.tail + x - 1) % SeedLen] \in Nat
  <2>1. (a.tail + x - 1) % SeedLen \in 0..(SeedLen - 1)
    BY <1>1
  <2> QED BY <2>1 DEF AdsType
<1>3. (a.tail + 1 - 1) % SeedLen = a.tail
  BY <1>1
<1>4. SeedChars(a) = [x \in 1..SeedLen |-> a.chars[(a.tail + x - 1) % SeedLen]]
  BY DEF SeedChars
<1>5. SeedChars(a)[1] = a.chars[(a.tail + 1 - 1) % SeedLen]
  BY <1>1, <1>4
<1> QED BY <1>2, <1>3, <1>4, <1>5

\* A byte more: the oldest goes, the others move up, and the checksum is true.
LEMMA RollOnce ==
  ASSUME NEW a \in TrueAds, NEW b \in Nat
  PROVE  /\ Roll(a, b) \in TrueAds
         /\ \A x \in 1..(SeedLen - 1) : SeedChars(Roll(a, b))[x] = SeedChars(a)[x + 1]
         /\ SeedChars(Roll(a, b))[SeedLen] = b
<1> DEFINE n == SeedLen
           r == Roll(a, b)
           old == a.chars[a.tail]
           s1 == a.s1 - old + b
           s2 == (a.s2 - LastMulti * old) * Multi + s1
           tl == (a.tail + 1) % n
           cs == [a.chars EXCEPT ![a.tail] = b]
<1>1. n \in Nat /\ n # 0 /\ a \in AdsType /\ a.tail \in 0..(n - 1) /\ a.chars \in [0..(n - 1) -> Nat]
  BY DEF AdsType, TrueAds
<1>2. r = [s1 |-> s1, s2 |-> s2, tail |-> tl, chars |-> cs]
  BY DEF Roll
<1>3. tl = (IF a.tail + 1 < n THEN a.tail + 1 ELSE a.tail + 1 - n) /\ tl \in 0..(n - 1)
  <2>1. 1 \in 0..n
    BY <1>1
  <2>2. tl = IF a.tail + 1 < n THEN a.tail + 1 ELSE a.tail + 1 - n
    BY <1>1, <2>1, Ring
  <2> QED BY <1>1, <2>2
<1>4. cs \in [0..(n - 1) -> Nat]
  BY <1>1
<1> HIDE DEF s1, s2, tl, cs, n
<1>5. r.tail = tl /\ r.chars = cs /\ r.s1 = s1 /\ r.s2 = s2
  BY <1>2
<1>6. SeedChars(r) = [x \in 1..n |-> cs[(tl + x - 1) % n]]
  BY <1>5 DEF SeedChars, n
<1>7. SeedChars(a) = [x \in 1..n |-> a.chars[(a.tail + x - 1) % n]]
  BY DEF SeedChars, n
<1>8. ASSUME NEW x \in 1..(n - 1)
      PROVE  SeedChars(r)[x] = SeedChars(a)[x + 1]
  <2> DEFINE i == (a.tail + x) % n
  <2>1. x \in 0..n /\ x - 1 \in 0..n /\ x \in 1..n /\ x + 1 \in 1..n
    BY <1>1
  <2>2. i = IF a.tail + x < n THEN a.tail + x ELSE a.tail + x - n
    BY <1>1, <2>1, Ring
  <2>3. (tl + (x - 1)) % n = IF tl + (x - 1) < n THEN tl + (x - 1) ELSE tl + (x - 1) - n
    BY <1>1, <1>3, <2>1, Ring
  <2> DEFINE j == (tl + (x - 1)) % n
  <2> HIDE DEF i, j
  <2>4. j = i /\ i # a.tail /\ i \in 0..(n - 1)
    <3>1. j = IF tl + (x - 1) < n THEN tl + (x - 1) ELSE tl + (x - 1) - n
      BY <2>3 DEF j
    <3>2. x \in Int /\ 0 < x /\ x < n
      BY <1>1
    <3> DEFINE t == a.tail
    <3>3. /\ t \in 0..(n - 1) /\ n \in Nat
          /\ tl = IF t + 1 < n THEN t + 1 ELSE t + 1 - n
          /\ i = IF t + x < n THEN t + x ELSE t + x - n
      BY <1>1, <1>3, <2>2
    <3> HIDE DEF t
    <3>4. CASE t + 1 < n
      BY <3>1, <3>2, <3>3, <3>4 DEF t
    <3>5. CASE t + 1 = n
      <4>1. tl = 0 /\ j = x - 1 /\ i = x - 1
        BY <3>1, <3>2, <3>3, <3>5
      <4> QED BY <3>2, <3>3, <3>5, <4>1 DEF t
    <3> QED BY <3>3, <3>4, <3>5
  <2>5. tl + x - 1 = tl + (x - 1) /\ a.tail + (x + 1) - 1 = a.tail + x
    BY <1>1, <1>3
  <2>6. SeedChars(r)[x] = cs[i]
    BY <1>6, <2>1, <2>4, <2>5 DEF j
  <2>7. SeedChars(a)[x + 1] = a.chars[i]
    BY <1>7, <2>1, <2>5 DEF i
  <2>8. cs[i] = a.chars[i]
    BY <1>1, <2>4 DEF cs
  <2> QED BY <2>6, <2>7, <2>8
<1>9. SeedChars(r)[n] = b
  <2>1. n - 1 \in 0..n /\ n \in 1..n
    BY <1>1
  <2>2. (tl + (n - 1)) % n = IF tl + (n - 1) < n THEN tl + (n - 1) ELSE tl + (n - 1) - n
    BY <1>1, <1>3, <2>1, Ring
  <2>3. (tl + (n - 1)) % n = a.tail
    <3> DEFINE j == (tl + (n - 1)) % n
    <3>1. j = IF tl + (n - 1) < n THEN tl + (n - 1) ELSE tl + (n - 1) - n
      BY <2>2
    <3> HIDE DEF j
    <3>2. j = a.tail
      BY <1>1, <1>3, <3>1
    <3> QED BY <3>2 DEF j
  <2>4. tl + n - 1 = tl + (n - 1)
    BY <1>1, <1>3
  <2>5. SeedChars(r)[n] = cs[a.tail]
    BY <1>6, <2>1, <2>3, <2>4
  <2> QED BY <1>1, <2>5 DEF cs
<1>10. SeedChars(a) \in [1..n -> Nat] /\ SeedChars(a)[1] = old
  BY <1>1, CharsType DEF n
<1>11. SeedChars(r) \in [1..n -> Nat]
  <2>1. ASSUME NEW x \in 1..n
        PROVE  cs[(tl + x - 1) % n] \in Nat
    <3>1. tl + x - 1 \in Nat
      BY <1>1, <1>3
    <3>2. \A y \in Nat : y % n \in 0..(n - 1)
      BY <1>1
    <3>3. (tl + x - 1) % n \in 0..(n - 1)
      BY <3>1, <3>2
    <3> QED BY <1>4, <3>3
  <2> QED BY <1>6, <2>1
<1>12. a.s1 = Afresh(SeedChars(a)).s1 /\ a.s2 = Afresh(SeedChars(a)).s2
  BY DEF TrueAds, TrueSum
<1> DEFINE w == SeedChars(a)
           v == SeedChars(r)
<1> HIDE DEF w, v
<1>13. /\ Afresh(v).s1 \in Nat /\ Afresh(v).s2 \in Nat
       /\ Afresh(v).s1 = Afresh(w).s1 - w[1] + v[SeedLen]
       /\ Afresh(v).s2 = (Afresh(w).s2 - LastMulti * w[1]) * Multi + Afresh(v).s1
  <2>1. w \in [1..SeedLen -> Nat] /\ v \in [1..SeedLen -> Nat] /\ \A x \in 1..(SeedLen - 1) : v[x] = w[x + 1]
    BY <1>8, <1>10, <1>11 DEF w, v, n
  <2> QED BY <2>1, Shifted
<1>14. s1 = Afresh(v).s1 /\ s2 = Afresh(v).s2
  <2>1. w[1] = old /\ v[SeedLen] = b /\ Afresh(w).s1 = a.s1 /\ Afresh(w).s2 = a.s2
    BY <1>9, <1>10, <1>12 DEF w, v, n
  <2> QED BY <1>13, <2>1 DEF s1, s2
<1>15. r \in AdsType
  BY <1>2, <1>3, <1>4, <1>13, <1>14 DEF AdsType, n
<1>16. TrueSum(r)
  BY <1>5, <1>14 DEF TrueSum, v
<1> QED BY <1>8, <1>9, <1>15, <1>16 DEF TrueAds, n

\* A whole seed: its bytes are remembered, and the sums are theirs by definition.
LEMMA StartedAfresh ==
  ASSUME NEW bytes \in Seq(Nat), Len(bytes) = SeedLen
  PROVE  /\ Afresh(bytes) \in TrueAds
         /\ SeedChars(Afresh(bytes)) = bytes
<1> DEFINE n == SeedLen
           r == Afresh(bytes)
<1>1. n \in Nat /\ n # 0
  OBVIOUS
<1>2. r.s1 \in Nat /\ r.s2 \in Nat
  <2>1. PICK f, g \in [0..Len(bytes) -> Nat] : Tables(bytes, f, g)
    BY Sums
  <2>2. n \in 0..Len(bytes)
    OBVIOUS
  <2> QED BY <2>1, <2>2 DEF Tables
<1>3. /\ r = [s1 |-> r.s1, s2 |-> r.s2, tail |-> 0,
              chars |-> [x \in 0..(n - 1) |-> bytes[x + 1]]]
      /\ r.tail = 0 /\ r.chars = [x \in 0..(n - 1) |-> bytes[x + 1]]
  BY DEF Afresh
<1> HIDE DEF r
<1>4. r.chars \in [0..(n - 1) -> Nat]
  <2>1. ASSUME NEW x \in 0..(n - 1)
        PROVE  bytes[x + 1] \in Nat
    <3>1. x + 1 \in 1..Len(bytes)
      OBVIOUS
    <3> QED BY <3>1
  <2> QED BY <1>3, <2>1
<1>5. r \in AdsType
  <2>1. 0 \in 0..(n - 1)
    BY <1>1
  <2> HIDE DEF n
  <2> QED BY <1>2, <1>3, <1>4, <2>1 DEF AdsType, n
<1>6. SeedChars(r) = bytes
  <2>1. SeedChars(r) = [x \in 1..n |-> r.chars[(0 + x - 1) % n]]
    BY <1>3 DEF SeedChars
  <2>2. ASSUME NEW x \in 1..n
        PROVE  SeedChars(r)[x] = bytes[x]
    <3>1. x - 1 \in 0..(n - 1) /\ 0 + x - 1 = x - 1 /\ (x - 1) + 1 = x
      OBVIOUS
    <3>2. (x - 1) % n = x - 1
      BY <1>1, <3>1
    <3>3. SeedChars(r)[x] = r.chars[x - 1]
      BY <2>1, <3>1, <3>2
    <3> QED BY <1>3, <3>1, <3>3
  <2>3. bytes = [x \in 1..n |-> bytes[x]]
    BY <1>1
  <2> QED BY <2>1, <2>2, <2>3
<1>7. TrueSum(r)
  BY <1>6 DEF TrueSum, r
<1> QED BY <1>5, <1>6, <1>7 DEF TrueAds, r

\* The empty seed: no bytes yet are as many zeros.
LEMMA NewSeedTrue == NewSeed \in TrueAds
<1> DEFINE n == SeedLen
           zeros == [x \in 1..n |-> 0]
<1>1. n \in Nat /\ n # 0
  OBVIOUS
<1>2. zeros \in Seq(Nat) /\ Len(zeros) = n
  BY <1>1
<1>3. SeedChars(NewSeed) = zeros
  <2>1. ASSUME NEW x \in 1..n
        PROVE  NewSeed.chars[(0 + x - 1) % n] = 0
    <3>1. x - 1 \in 0..(n - 1) /\ 0 + x - 1 = x - 1
      OBVIOUS
    <3>2. (x - 1) % n = x - 1
      BY <1>1, <3>1
    <3> QED BY <3>1, <3>2 DEF NewSeed
  <2>2. SeedChars(NewSeed) = [x \in 1..n |-> NewSeed.chars[(0 + x - 1) % n]]
    BY DEF SeedChars, NewSeed
  <2> QED BY <2>1, <2>2
<1> HIDE DEF zeros, n
<1>4. PICK f, g \in [0..Len(zeros) -> Nat] : Tables(zeros, f, g)
  BY <1>2, Sums
<1>5. /\ f[0] = 0 /\ g[0] = 0
      /\ \A x \in 1..n : f[x] = f[x - 1] + zeros[x] /\ g[x] = g[x - 1] * Multi + f[x]
      /\ Afresh(zeros).s1 = f[n] /\ Afresh(zeros).s2 = g[n]
  BY <1>2, <1>4 DEF Tables
<1> DEFINE S == {k \in 0..n : f[k] = 0 /\ g[k] = 0}
<1>6. 0 \in S
  BY <1>1, <1>5
<1>7. \A k \in 0..(n - 1) : k \in S => k + 1 \in S
  <2> SUFFICES ASSUME NEW k \in 0..(n - 1), f[k] = 0, g[k] = 0
               PROVE  k + 1 \in S
    OBVIOUS
  <2>1. k + 1 \in 1..n /\ k + 1 \in 0..n /\ (k + 1) - 1 = k
    BY <1>1
  <2>2. zeros[k + 1] = 0
    BY <2>1 DEF zeros
  <2>3. f[k + 1] = 0
    BY <1>5, <2>1, <2>2
  <2>4. g[k + 1] = 0
    BY <1>5, <2>1, <2>3
  <2> QED BY <2>1, <2>3, <2>4
<1>8. n \in S
  <2> HIDE DEF S
  <2>1. n \in 0..n
    BY <1>1
  <2> QED BY <1>1, <1>6, <1>7, <2>1, UpTo
<1>9. Afresh(zeros).s1 = 0 /\ Afresh(zeros).s2 = 0
  BY <1>5, <1>8
<1>10. NewSeed \in AdsType
  BY DEF NewSeed, AdsType
<1>11. NewSeed.s1 = 0 /\ NewSeed.s2 = 0
  BY DEF NewSeed
<1> QED BY <1>3, <1>9, <1>10, <1>11 DEF TrueAds, TrueSum

\* What is remembered after some bytes more: these, behind the last of those before.
After(a, bytes, r) ==
  /\ r \in TrueAds
  /\ \A x \in 1..SeedLen :
       SeedChars(r)[x] = IF x <= SeedLen - Len(bytes) THEN SeedChars(a)[x + Len(bytes)]
                                                      ELSE bytes[x - (SeedLen - Len(bytes))]

\* update_adler32_seed on less than a seed.
LEMMA RolledOn ==
  ASSUME NEW a \in TrueAds, NEW bytes \in Seq(Nat), Len(bytes) < SeedLen
  PROVE  After(a, bytes, Rolled(a, bytes))
<1> DEFINE n == SeedLen
           N == Len(bytes)
           G == [p \in TrueAds \X (1..N) |-> Roll(p[1], bytes[p[2]])]
           Is(f) == f = [x \in 0..N |-> IF x = 0 THEN a ELSE Roll(f[x - 1], bytes[x])]
<1>1. n \in Nat /\ n # 0 /\ N \in Nat /\ N < n /\ \A x \in 1..N : bytes[x] \in Nat
  OBVIOUS
<1>2. G \in [TrueAds \X (1..N) -> TrueAds]
  <2>1. ASSUME NEW b \in TrueAds, NEW x \in 1..N
        PROVE  Roll(b, bytes[x]) \in TrueAds
    BY <1>1, RollOnce
  <2> HIDE DEF N
  <2> QED BY <2>1
<1> HIDE DEF N
<1>3. PICK f0 \in [0..N -> TrueAds] : Iterates(f0, a, N, G)
  <2> HIDE DEF G
  <2> QED BY <1>1, <1>2, Recursion
<1>4. Is(f0)
  <2>1. ASSUME NEW x \in 0..N
        PROVE  f0[x] = IF x = 0 THEN a ELSE Roll(f0[x - 1], bytes[x])
    <3>1. CASE x = 0
      BY <1>3, <3>1 DEF Iterates
    <3>2. CASE x # 0
      <4>1. x \in 1..N /\ x - 1 \in 0..N
        BY <1>1, <3>2
      <4>2. f0[x - 1] \in TrueAds
        BY <4>1
      <4>3. G[<<f0[x - 1], x>>] = Roll(f0[x - 1], bytes[x])
        BY <4>1, <4>2
      <4> HIDE DEF G
      <4> QED BY <1>3, <3>2, <4>1, <4>3 DEF Iterates
    <3> QED BY <3>1, <3>2
  <2> QED BY <2>1
<1> DEFINE f == CHOOSE h : Is(h)
<1>5. Is(f)
  <2> HIDE DEF Is
  <2> QED BY <1>4
<1>6. Rolled(a, bytes) = f[N]
  BY DEF Rolled, N
<1> HIDE DEF f
<1>7. f[0] = a /\ \A x \in 1..N : f[x] = Roll(f[x - 1], bytes[x])
  <2>1. 0 \in 0..N /\ \A x \in 1..N : x \in 0..N /\ x # 0
    BY <1>1
  <2> QED BY <1>5, <2>1, Zenon
<1> DEFINE Shown(k) ==
             \A x \in 1..n :
               SeedChars(f[k])[x] = IF x <= n - k THEN SeedChars(a)[x + k] ELSE bytes[x - (n - k)]
           S == {k \in 0..N : f[k] \in TrueAds /\ Shown(k)}
<1>8. 0 \in S
  <2>1. ASSUME NEW x \in 1..n
        PROVE  x <= n - 0 /\ x + 0 = x
    BY <1>1
  <2> QED BY <1>1, <1>7, <2>1
<1>9. \A k \in 0..(N - 1) : k \in S => k + 1 \in S
  <2> SUFFICES ASSUME NEW k \in 0..(N - 1), f[k] \in TrueAds, Shown(k)
               PROVE  k + 1 \in S
    OBVIOUS
  <2>1. k + 1 \in 1..N /\ k + 1 \in 0..N /\ (k + 1) - 1 = k /\ k \in Nat
    BY <1>1
  <2>2. f[k + 1] = Roll(f[k], bytes[k + 1]) /\ bytes[k + 1] \in Nat
    BY <1>1, <1>7, <2>1
  <2> DEFINE old == f[k]
             new == f[k + 1]
  <2>3. /\ new \in TrueAds
        /\ \A x \in 1..(n - 1) : SeedChars(new)[x] = SeedChars(old)[x + 1]
        /\ SeedChars(new)[n] = bytes[k + 1]
    <3> DEFINE b == bytes[k + 1]
    <3>1. old \in TrueAds /\ b \in Nat /\ new = Roll(old, b)
      BY <2>2
    <3> HIDE DEF old, new, b
    <3>2. /\ Roll(old, b) \in TrueAds
          /\ \A x \in 1..(SeedLen - 1) : SeedChars(Roll(old, b))[x] = SeedChars(old)[x + 1]
          /\ SeedChars(Roll(old, b))[SeedLen] = b
      BY <3>1, RollOnce
    <3> QED BY <3>1, <3>2 DEF b
  <2> HIDE DEF old, new
  <2>4. ASSUME NEW x \in 1..n
        PROVE  SeedChars(new)[x] = IF x <= n - (k + 1) THEN SeedChars(a)[x + (k + 1)]
                                                       ELSE bytes[x - (n - (k + 1))]
    <3>1. CASE x = n
      <4>1. ~ (x <= n - (k + 1)) /\ x - (n - (k + 1)) = k + 1
        BY <1>1, <2>1, <3>1
      <4> QED BY <2>3, <3>1, <4>1
    <3>2. CASE x # n
      <4>1. x \in 1..(n - 1) /\ x + 1 \in 1..n
        BY <1>1, <3>2
      <4>2. SeedChars(old)[x + 1] = IF x + 1 <= n - k THEN SeedChars(a)[(x + 1) + k]
                                                      ELSE bytes[(x + 1) - (n - k)]
        BY <4>1 DEF old
      <4>3. /\ x + 1 <= n - k <=> x <= n - (k + 1)
            /\ (x + 1) + k = x + (k + 1) /\ (x + 1) - (n - k) = x - (n - (k + 1))
        BY <1>1, <2>1
      <4> QED BY <2>3, <4>1, <4>2, <4>3
    <3> QED BY <3>1, <3>2
  <2> QED BY <2>1, <2>3, <2>4 DEF new
<1>10. N \in S
  <2> HIDE DEF S
  <2>1. N \in 0..N
    BY <1>1
  <2> QED BY <1>1, <1>8, <1>9, <2>1, UpTo
<1>11. f[N] \in TrueAds /\ Shown(N)
  BY <1>10
<1> QED BY <1>6, <1>11 DEF After, N

\* update_adler32_seed, in both its branches, on at most the bytes of a seed: the
\* checksum is again that of the bytes it remembers, and these are the last ones.
THEOREM Updated ==
  ASSUME NEW a \in TrueAds, NEW bytes \in Seq(Nat), Len(bytes) <= SeedLen
  PROVE  After(a, bytes, Update(a, bytes))
<1>1. CASE Len(bytes) = SeedLen
  <2>1. Update(a, bytes) = Afresh(bytes)
    BY <1>1 DEF Update
  <2>2. Afresh(bytes) \in TrueAds /\ SeedChars(Afresh(bytes)) = bytes
    BY <1>1, StartedAfresh
  <2>3. ASSUME NEW x \in 1..SeedLen
        PROVE  ~ (x <= SeedLen - Len(bytes)) /\ x - (SeedLen - Len(bytes)) = x
    BY <1>1
  <2> QED BY <2>1, <2>2, <2>3 DEF After
<1>2. CASE Len(bytes) # SeedLen
  <2>1. Update(a, bytes) = Rolled(a, bytes) /\ Len(bytes) < SeedLen
    BY <1>2 DEF Update
  <2> QED BY <2>1, RolledOn
<1> QED BY <1>1, <1>2
=============================================================================
