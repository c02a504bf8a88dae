---------------------------- MODULE SetInduction ----------------------------
(***************************************************************************)
(* Induction over the naturals, for sets.                                  *)
(*                                                                         *)
(* The induction theorems of the library are about an operator and cannot  *)
(* be used with the provers there are; those about sets can: what is to be *)
(* shown of all naturals is shown of the set of those it holds for.        *)
(***************************************************************************)
EXTENDS Integers, WellFoundedInduction, TLAPS

\* A set of natural numbers that is not empty has a least element.
LEMMA Least ==
  ASSUME NEW T \in SUBSET Nat, T # {}
  PROVE  \E x \in T : \A y \in T : x <= y
<1> DEFINE R == {ss \in Nat \X Nat : ss[1] < ss[2]}
<1>1. IsWellFoundedOn(OpToRel(<, Nat), Nat)
  BY NatLessThanWellFounded
<1>2. OpToRel(<, Nat) = R
  BY DEF OpToRel
<1>3. IsWellFoundedOn(R, Nat)
  BY <1>1, <1>2
<1>4. \A x, y \in Nat : y < x => <<y, x>> \in R
  <2> SUFFICES ASSUME NEW x \in Nat, NEW y \in Nat, y < x
               PROVE  <<y, x>> \in R
    OBVIOUS
  <2> DEFINE p == <<y, x>>
  <2>1. p \in Nat \X Nat /\ p[1] = y /\ p[2] = x
    OBVIOUS
  <2> HIDE DEF p
  <2>2. p[1] < p[2]
    BY <2>1
  <2>3. p \in R
    BY <2>1, <2>2
  <2> QED BY <2>3 DEF p
<1> HIDE DEF R
<1>5. PICK x \in T : \A y \in T : ~(<<y, x>> \in R)
  BY <1>3, WFMin
<1>6. \A y \in T : x <= y
  <2> TAKE y \in T
  <2>1. x \in Nat /\ y \in Nat
    OBVIOUS
  <2>2. ~(y < x)
    BY <1>4, <1>5, <2>1
  <2> QED BY <2>1, <2>2
<1> QED BY <1>6

\* A set of natural numbers that has an upper bound and is not empty has a
\* greatest element.
LEMMA Greatest ==
  ASSUME NEW T \in SUBSET Nat, T # {}, NEW b \in Nat, \A x \in T : x <= b
  PROVE  \E x \in T : \A y \in T : y <= x
<1> DEFINE D == {d \in Nat : \E x \in T : d = b - x}
<1>1. PICK z \in T : TRUE
  OBVIOUS
<1>2. b - z \in D
  <2>1. z \in Nat /\ z <= b
    BY <1>1
  <2>2. b - z \in Nat
    BY <2>1
  <2> QED BY <1>1, <2>2
<1>3. D \in SUBSET Nat /\ D # {}
  BY <1>2
<1>4. PICK d \in D : \A e \in D : d <= e
  BY <1>3, Least
<1>5. PICK x \in T : d = b - x
  BY <1>4
<1>6. \A y \in T : y <= x
  <2> SUFFICES ASSUME NEW y \in T
               PROVE  y <= x
    OBVIOUS
  <2>1. x \in Nat /\ y \in Nat /\ y <= b
    BY <1>5
  <2>2. b - y \in Nat
    BY <2>1
  <2>3. b - y \in D
    BY <2>2
  <2>4. d <= b - y
    BY <1>4, <2>3
  <2> QED BY <1>5, <2>1, <2>4
<1> QED BY <1>5, <1>6

\* What holds of 0, and of n + 1 when it holds of n, holds up to N.
LEMMA UpTo ==
  ASSUME NEW N \in Nat, NEW S, 0 \in S,
         \A n \in 0..(N - 1) : n \in S => n + 1 \in S
  PROVE  \A n \in 0..N : n \in S
<1> DEFINE T == {n \in 0..N : n \notin S}
<1> SUFFICES ASSUME T # {}
             PROVE  FALSE
  OBVIOUS
<1>1. T \in SUBSET Nat
  OBVIOUS
<1>2. PICK x \in T : \A y \in T : x <= y
  BY <1>1, Least
<1>3. x \in 0..N /\ x \notin S /\ x # 0
  BY <1>2
<1>4. x - 1 \in 0..(N - 1) /\ x - 1 \in 0..N /\ (x - 1) + 1 = x
  BY <1>3
<1>5. x - 1 \in S
  <2> SUFFICES ASSUME x - 1 \notin S
               PROVE  FALSE
    OBVIOUS
  <2>1. x - 1 \in T
    BY <1>4
  <2> QED BY <1>2, <1>3, <2>1
<1> QED BY <1>3, <1>4, <1>5

\* f begins at a, and G gives what it is for x from what it is for x - 1.
Iterates(f, a, N, G) == f[0] = a /\ \A x \in 1..N : f[x] = G[<<f[x - 1], x>>]

\* A function that is given for 0, and for x from what it is for x - 1, exists.
LEMMA Recursion ==
  ASSUME NEW X, NEW a \in X, NEW N \in Nat, NEW G \in [X \X (1..N) -> X]
  PROVE  \E f \in [0..N -> X] : Iterates(f, a, N, G)
<1> DEFINE Upto(f, n) == f[0] = a /\ \A x \in 1..n : f[x] = G[<<f[x - 1], x>>]
           S == {n \in 0..N : \E f \in [0..n -> X] : Upto(f, n)}
<1>1. 0 \in S
  <2> DEFINE f == [x \in 0..0 |-> a]
  <2>1. f \in [0..0 -> X] /\ Upto(f, 0)
    OBVIOUS
  <2> HIDE DEF f, Upto
  <2>2. \E h \in [0..0 -> X] : Upto(h, 0)
    BY <2>1
  <2>3. 0 \in 0..N
    OBVIOUS
  <2> QED BY <2>2, <2>3
<1>2. \A n \in 0..(N - 1) : n \in S => n + 1 \in S
  <2> SUFFICES ASSUME NEW n \in 0..(N - 1), n \in S
               PROVE  n + 1 \in S
    OBVIOUS
  <2>1. PICK f \in [0..n -> X] : Upto(f, n)
    OBVIOUS
  <2> DEFINE g == [x \in 0..(n + 1) |-> IF x = n + 1 THEN G[<<f[n], n + 1>>] ELSE f[x]]
  <2>2. f[n] \in X /\ n + 1 \in 1..N /\ n + 1 \in 0..N
    OBVIOUS
  <2>3. G[<<f[n], n + 1>>] \in X
    BY <2>2
  <2>4. g \in [0..(n + 1) -> X]
    BY <2>3
  <2>5. Upto(g, n + 1)
    <3>1. g[0] = a
      BY <2>1
    <3>2. ASSUME NEW x \in 1..(n + 1)
          PROVE  g[x] = G[<<g[x - 1], x>>]
      <4>1. x - 1 \in 0..n /\ x - 1 \in 0..(n + 1) /\ x \in 0..(n + 1) /\ x - 1 # n + 1
        OBVIOUS
      <4>2. g[x - 1] = f[x - 1]
        BY <4>1
      <4>3. CASE x = n + 1
        BY <4>1, <4>2, <4>3
      <4>4. CASE x # n + 1
        <5>1. x \in 1..n
          BY <4>4
        <5>2. f[x] = G[<<f[x - 1], x>>]
          BY <2>1, <5>1
        <5> QED BY <4>1, <4>2, <4>4, <5>2
      <4> QED BY <4>3, <4>4
    <3> QED BY <3>1, <3>2
  <2> QED BY <2>2, <2>4, <2>5
<1>3. N \in S
  <2> HIDE DEF S
  <2>1. \A n \in 0..N : n \in S
    BY <1>1, <1>2, UpTo
  <2> QED BY <2>1
<1>4. PICK f \in [0..N -> X] : Upto(f, N)
  BY <1>3
<1> QED BY <1>4 DEF Iterates
=============================================================================
