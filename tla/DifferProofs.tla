---------------------------- MODULE DifferProofs ----------------------------
(***************************************************************************)
(* Proofs about Differ, for all files, sizes of seeds and of the hash: the *)
(* checksum that is hashed or looked up is that of its place, matches are  *)
(* copies of what they stand for, and of what the hash could have given    *)
(* nothing is missed.                                                      *)
(*                                                                         *)
(* The last rests on an exact account of the hash (Account): under each    *)
(* checksum the least offset that was handed to it, as long as the bucket  *)
(* was not emptied; and on what the search passed over (PassedOver).       *)
(***************************************************************************)
EXTENDS HashProofs

Places  == (0..(Buckets - 1)) \X (0..(Keys - 1))
Matches == [src_pos : Nat, ver_pos : Nat, len : Nat]

Types ==
  /\ case \in Cases /\ sample_rate \in SampleRates
  /\ phase \in {"insert", "walk", "search", "done", "failed"}
  /\ gap \in DOMAIN case.gaps
  /\ ads \in TrueAds
  /\ pos \in Nat /\ todo \in 0..SeedLen
  /\ SortedHash(hash)
  /\ va \in 0..Len(Window) /\ vs \in 0..Len(Window) /\ vc \in 0..Len(Window)
  /\ buff \in Seq(Matches)
  /\ asked \subseteq Places /\ tried \in SUBSET Nat /\ emptied \subseteq 0..(Buckets - 1)
  /\ phase = "walk" => Reversed

\* A block is read on to its end, or not even to the end of its first seed, when
\* the reference is too short for that.
BlockPlace ==
  /\ phase \in {"insert", "walk"} =>
       /\ pos <= Len(File) /\ SeedLen <= pos + todo
       /\ pos + todo <= BlockEnd \/ (OverRef /\ Len(case.ref) < SeedLen /\ pos + todo = SeedLen)
  /\ phase = "failed" => pos < SeedLen /\ pos <= Len(case.ref)
  /\ phase \in {"search", "done"} => pos = 0

\* What the seed remembers since the block or the last match are the bytes read last.
CharsRead ==
  \A x \in 1..SeedLen :
    /\ phase \in {"insert", "walk"} /\ x > todo => SeedChars(ads)[x] = File[pos - SeedLen + x]
    /\ phase = "search" /\ va - SeedLen + x > vc => SeedChars(ads)[x] = Window[va - SeedLen + x]

\* The seed is behind what is encoded, and read at most to its end.
WindowPlace ==
  IF phase \in {"search", "done"}
  THEN /\ va <= vc + SeedLen /\ vs <= vc
       /\ phase = "done" => ~ SeedRead /\ From = Len(Window)
  ELSE va = 0 /\ vs = 0 /\ vc = 0

\* A match copies what it stands for, in the window and before end.
TrueCopy(m, end) ==
  /\ m.len > 0 /\ Lo <= m.ver_pos /\ m.ver_pos + m.len <= end
  /\ m.src_pos + m.len <= Len(case.ref)
  /\ \A k \in 1..m.len : case.ver[m.ver_pos + k] = case.ref[m.src_pos + k]

Apart(list) ==
  \A i, j \in 1..Len(list) : i < j => list[i].ver_pos + list[i].len <= list[j].ver_pos

\* The last goes on as long as the files agree.
LastGrown(m) ==
  LET rs == m.src_pos + m.len
  IN  /\ m.ver_pos + m.len = Lo + vs
      /\ vs < Len(Window) /\ rs < Len(case.ref) => Window[vs + 1] # case.ref[rs + 1]

Copies ==
  phase \in {"search", "done"} =>
    /\ \A i \in 1..Len(buff) : TrueCopy(buff[i], Lo + vs)
    /\ Apart(buff)
    /\ buff # << >> => LastGrown(buff[Len(buff)])

\* What comes next is behind all that was handed to the hash.
TriedBefore ==
  /\ phase \in {"insert", "walk"} /\ OverRef => \A o \in tried : o + SeedLen < pos + todo
  /\ phase = "insert" /\ Reversed => tried = {}

\* At each offset the reference has a seed.
Fit(c, h) ==
  \A i \in 0..(Buckets - 1) : \A q, o \in Nat :
    Holds(h[i], q, o) => o = 0 \/ o + SeedLen <= Len(c.ref)

OffsetsFit == Fit(case, hash)

\* The offsets at which the reference has a seed that belongs there.
Hits(c, offsets, p) ==
  {o \in offsets : Place(Bytes(c.ref, o, SeedLen)) = p /\ (c.kind = "rbucket" => o # 0)}

\* While the reference is hashed: the least of them, exactly.
RefAccount(c, h, offsets, out) ==
  \A p \in Places : p[1] \notin out =>
    \A o \in Nat : Holds(h[p[1]], p[2], o) <=> Hits(c, offsets, p) # {} /\ o = Min(Hits(c, offsets, p))

\* While the gaps are: what they ask for, without an offset.
GapAccount(h, places, out) ==
  NoOffsets(h) /\ \A p \in places : p[1] \notin out => Holds(h[p[1]], p[2], 0)

\* In the walk: what the gaps ask for has its least offset, or waits for one.
WalkAccount(c, h, places, offsets, out) ==
  \A p \in places : p[1] \notin out =>
    Holds(h[p[1]], p[2], IF Hits(c, offsets, p) = {} THEN 0 ELSE Min(Hits(c, offsets, p)))

\* In the search: what could have been found has its least offset.
Known(c, h, places, offsets, out) ==
  \A p \in Places :
    p[1] \notin out /\ Hits(c, offsets, p) # {} /\ (c.kind = "rbucket" => p \in places) =>
      Holds(h[p[1]], p[2], Min(Hits(c, offsets, p)))

Account ==
  /\ phase = "insert" /\ ~ Reversed => RefAccount(case, hash, tried, emptied)
  /\ phase = "insert" /\ Reversed => GapAccount(hash, asked, emptied)
  /\ phase = "walk" => WalkAccount(case, hash, asked, tried, emptied)
  /\ phase \in {"search", "done"} => Known(case, hash, asked, tried, emptied)

\* The hash gives nothing for that seed.
NotGiven(seed) ==
  Lookup(SumOf(seed)) = 0 \/ Bytes(case.ref, Lookup(SumOf(seed)), SeedLen) # seed

Covered(list, v) ==
  \E i \in 1..Len(list) : list[i].ver_pos <= v /\ v < list[i].ver_pos + list[i].len

\* The bytes before vc are those of a match, or begin a seed that the hash does not give.
PassedOver ==
  phase \in {"search", "done"} =>
    \A p \in 0..(vc - 1) :
      \/ Covered(buff, Lo + p)
      \/ Len(Window) < p + SeedLen
      \/ NotGiven(Bytes(Window, p, SeedLen))

IInv ==
  /\ Types /\ BlockPlace /\ CharsRead /\ WindowPlace /\ Copies /\ TriedBefore
  /\ OffsetsFit /\ Account /\ PassedOver

USE SeedAssumption, HashAssumption, SampleAssumption

-----------------------------------------------------------------------------
(* Bytes and seeds *)

\* r has the n elements of f from o on.
IsPart(S, f, o, n, r) == r \in Seq(S) /\ Len(r) = n /\ \A x \in 1..n : r[x] = f[o + x]

\* What SubSeq gives, for any elements.
LEMMA PartOf ==
  ASSUME NEW S, NEW f \in Seq(S), NEW o \in Nat, NEW n \in Nat, o + n <= Len(f)
  PROVE  IsPart(S, f, o, n, SubSeq(f, o + 1, o + n))
<1>1. Len(f) \in Nat
  OBVIOUS
<1>2. CASE n = 0
  <2>1. SubSeq(f, o + 1, o + n) = << >>
    BY <1>2
  <2> QED BY <1>2, <2>1 DEF IsPart
<1>3. CASE n # 0
  <2> DEFINE l == o + 1
             u == o + n
  <2>1. l \in 1..Len(f) /\ u \in l..Len(f) /\ u - l + 1 = n /\ u \in Nat /\ l \in Nat
    BY <1>1, <1>3
  <2>2. \A x \in 1..n : x \in 1..(u - l + 1) /\ l + x - 1 = o + x
    BY <2>1
  <2> HIDE DEF l, u
  <2>3. /\ SubSeq(f, l, u) \in Seq(S) /\ Len(SubSeq(f, l, u)) = u - l + 1
        /\ \A x \in 1..(u - l + 1) : SubSeq(f, l, u)[x] = f[l + x - 1]
    BY <2>1
  <2> QED BY <2>1, <2>2, <2>3 DEF IsPart, l, u
<1> QED BY <1>2, <1>3

\* A part of a file.
LEMMA BytesAt ==
  ASSUME NEW f \in Seq(Nat), NEW o \in Nat, NEW n \in Nat, o + n <= Len(f)
  PROVE  /\ Bytes(f, o, n) \in Seq(Nat) /\ Len(Bytes(f, o, n)) = n
         /\ \A x \in 1..n : Bytes(f, o, n)[x] = f[o + x]
<1>1. IsPart(Nat, f, o, n, SubSeq(f, o + 1, o + n))
  BY PartOf
<1>2. IsPart(Nat, f, o, n, Bytes(f, o, n))
  BY <1>1 DEF Bytes
<1> QED BY <1>2 DEF IsPart

\* n bytes of f from a on are those of g from b on.
Agree(f, a, g, b, n) == \A x \in 1..n : f[a + x] = g[b + x]

\* Parts of two files are equal when their bytes are.
LEMMA SameBytes ==
  ASSUME NEW f \in Seq(Nat), NEW a \in Nat, NEW g \in Seq(Nat), NEW b \in Nat, NEW n \in Nat,
         a + n <= Len(f), b + n <= Len(g)
  PROVE  Bytes(f, a, n) = Bytes(g, b, n) <=> Agree(f, a, g, b, n)
<1> DEFINE s == Bytes(f, a, n)
           t == Bytes(g, b, n)
<1>1. s \in Seq(Nat) /\ Len(s) = n /\ \A x \in 1..n : s[x] = f[a + x]
  BY BytesAt
<1>2. t \in Seq(Nat) /\ Len(t) = n /\ \A x \in 1..n : t[x] = g[b + x]
  BY BytesAt
<1> HIDE DEF s, t
<1>3. s = t <=> \A x \in 1..n : s[x] = t[x]
  BY <1>1, <1>2
<1>4. s = t <=> \A x \in 1..n : f[a + x] = g[b + x]
  BY <1>1, <1>2, <1>3
<1> QED BY <1>4 DEF s, t, Agree

\* The checksum of a whole seed.
LEMMA SumOfSeed ==
  ASSUME NEW bytes \in Seq(Nat), Len(bytes) = SeedLen
  PROVE  SumOf(bytes) \in Nat /\ Place(bytes) \in Places
<1>1. Afresh(bytes) \in TrueAds
  BY StartedAfresh
<1>2. SumOf(bytes) \in Nat
  BY <1>1 DEF SumOf, TrueAds, AdsType
<1> QED BY <1>2, PlaceOfSum DEF Place, Places

\* A seed that remembers the bytes of a place is the seed of the place.
LEMMA SeedAt ==
  ASSUME NEW a \in TrueAds, NEW f \in Seq(Nat), NEW o \in Nat, o + SeedLen <= Len(f),
         \A x \in 1..SeedLen : SeedChars(a)[x] = f[o + x]
  PROVE  /\ SeedChars(a) = Bytes(f, o, SeedLen)
         /\ a.s2 = SumOf(Bytes(f, o, SeedLen)) /\ a.s2 \in Nat
<1> DEFINE b == Bytes(f, o, SeedLen)
<1>1. b \in Seq(Nat) /\ Len(b) = SeedLen /\ \A x \in 1..SeedLen : b[x] = f[o + x]
  BY BytesAt
<1> HIDE DEF b
<1>2. SeedChars(a) \in [1..SeedLen -> Nat]
  BY CharsType DEF TrueAds
<1>3. SeedChars(a) = b
  <2>1. b \in [1..SeedLen -> Nat]
    BY <1>1
  <2>2. \A x \in 1..SeedLen : SeedChars(a)[x] = b[x]
    BY <1>1
  <2> QED BY <1>2, <2>1, <2>2
<1>4. a.s2 = SumOf(b) /\ a.s2 \in Nat
  BY <1>3 DEF TrueAds, TrueSum, SumOf, AdsType
<1> QED BY <1>3, <1>4 DEF b

\* What is remembered when n bytes of a file are read.
LEMMA Read ==
  ASSUME NEW a \in TrueAds, NEW f \in Seq(Nat), NEW o \in Nat, NEW n \in 1..SeedLen, o + n <= Len(f)
  PROVE  /\ Update(a, Bytes(f, o, n)) \in TrueAds
         /\ \A x \in 1..SeedLen :
              SeedChars(Update(a, Bytes(f, o, n)))[x]
                = IF x <= SeedLen - n THEN SeedChars(a)[x + n] ELSE f[o + n - SeedLen + x]
<1> DEFINE b == Bytes(f, o, n)
           u == Update(a, b)
<1>1. b \in Seq(Nat) /\ Len(b) = n /\ \A x \in 1..n : b[x] = f[o + x]
  BY BytesAt
<1> HIDE DEF b
<1>2. After(a, b, u)
  BY <1>1, Updated
<1> HIDE DEF u
<1>3. u \in TrueAds
  BY <1>2 DEF After
<1>4. ASSUME NEW x \in 1..SeedLen
      PROVE  SeedChars(u)[x] = IF x <= SeedLen - n THEN SeedChars(a)[x + n] ELSE f[o + n - SeedLen + x]
  <2>1. SeedChars(u)[x] = IF x <= SeedLen - n THEN SeedChars(a)[x + n] ELSE b[x - (SeedLen - n)]
    BY <1>1, <1>2 DEF After
  <2>2. CASE x <= SeedLen - n
    BY <2>1, <2>2
  <2>3. CASE ~ (x <= SeedLen - n)
    <3>1. x - (SeedLen - n) \in 1..n /\ o + (x - (SeedLen - n)) = o + n - SeedLen + x
      BY <2>3
    <3> QED BY <1>1, <2>1, <2>3, <3>1
  <2> QED BY <2>2, <2>3
<1> QED BY <1>3, <1>4 DEF b, u

\* The files of a case, its gaps, and the window of one of them.
LEMMA CaseFacts ==
  ASSUME case \in Cases
  PROVE  /\ case.ref \in Seq(Nat) /\ case.ver \in Seq(Nat)
         /\ Len(case.gaps) \in Nat \ {0} /\ DOMAIN case.gaps = 1..Len(case.gaps)
         /\ case.kind \in {"bucket", "rbucket"}
         /\ \A i \in 1..Len(case.gaps) :
              /\ case.gaps[i][1] \in Nat /\ case.gaps[i][2] \in Nat
              /\ case.gaps[i][1] <= case.gaps[i][2] /\ case.gaps[i][2] <= Len(case.ver)
              /\ Reversed => case.gaps[i][1] + SeedLen <= case.gaps[i][2]
         /\ ~ Reversed => case.gaps[1][1] = 0 /\ Len(case.gaps) = 1
<1>1. /\ case.kind \in {"bucket", "rbucket"} /\ {case.ref, case.ver} \subseteq Seq(Nat)
      /\ case.gaps \in Seq(Nat \X Nat) \ {<<>>}
      /\ case.kind = "bucket" => case.gaps = <<<<0, Len(case.ver)>>>>
      /\ \A i \in DOMAIN case.gaps :
           /\ case.gaps[i][1] <= case.gaps[i][2] /\ case.gaps[i][2] <= Len(case.ver)
           /\ case.kind = "rbucket" => case.gaps[i][1] + SeedLen <= case.gaps[i][2]
  BY CaseAssumption
<1>2. Len(case.gaps) \in Nat \ {0} /\ DOMAIN case.gaps = 1..Len(case.gaps)
  BY <1>1
<1>3. \A i \in 1..Len(case.gaps) : case.gaps[i] \in Nat \X Nat
  BY <1>1
<1>4. \A i \in 1..Len(case.gaps) : case.gaps[i][1] \in Nat /\ case.gaps[i][2] \in Nat
  BY <1>3
<1>5. ~ Reversed => case.gaps[1][1] = 0 /\ Len(case.gaps) = 1
  <2> SUFFICES ASSUME ~ Reversed
               PROVE  case.gaps[1][1] = 0 /\ Len(case.gaps) = 1
    OBVIOUS
  <2>1. case.gaps = <<<<0, Len(case.ver)>>>>
    BY <1>1 DEF Reversed
  <2> QED BY <2>1
<1> QED BY <1>1, <1>2, <1>4, <1>5 DEF Reversed

\* The window of a gap has the bytes of the version from Lo on.
LEMMA WindowFacts ==
  ASSUME case \in Cases, gap \in DOMAIN case.gaps
  PROVE  /\ Lo \in Nat /\ Hi \in Nat /\ Lo <= Hi /\ Hi <= Len(case.ver)
         /\ Window \in Seq(Nat) /\ Len(Window) = Hi - Lo /\ Len(Window) \in Nat
         /\ \A x \in 1..Len(Window) : Window[x] = case.ver[Lo + x]
         /\ Reversed => Lo + SeedLen <= Hi
<1>1. /\ Lo \in Nat /\ Hi \in Nat /\ Lo <= Hi /\ Hi <= Len(case.ver)
      /\ Reversed => Lo + SeedLen <= Hi
  BY CaseFacts DEF Lo, Hi
<1>2. case.ver \in Seq(Nat) /\ Len(case.ver) \in Nat
  BY CaseFacts
<1> HIDE DEF Lo, Hi
<1> DEFINE n == Hi - Lo
<1>3. n \in Nat /\ Lo + n <= Len(case.ver)
  BY <1>1, <1>2
<1>4. Window = Bytes(case.ver, Lo, n)
  BY DEF Window
<1> HIDE DEF n
<1>5. /\ Bytes(case.ver, Lo, n) \in Seq(Nat) /\ Len(Bytes(case.ver, Lo, n)) = n
      /\ \A x \in 1..n : Bytes(case.ver, Lo, n)[x] = case.ver[Lo + x]
  BY <1>1, <1>2, <1>3, BytesAt
<1>6. Window \in Seq(Nat) /\ Len(Window) = n /\ \A x \in 1..n : Window[x] = case.ver[Lo + x]
  BY <1>4, <1>5
<1> QED BY <1>1, <1>3, <1>6 DEF n

\* The window of a gap has a length.
LEMMA WindowLen ==
  ASSUME NEW c \in Cases, NEW g \in DOMAIN c.gaps
  PROVE  Len(Bytes(c.ver, c.gaps[g][1], c.gaps[g][2] - c.gaps[g][1])) \in Nat
<1>1. /\ {c.ref, c.ver} \subseteq Seq(Nat) /\ c.gaps \in Seq(Nat \X Nat)
      /\ c.gaps[g][1] <= c.gaps[g][2] /\ c.gaps[g][2] <= Len(c.ver)
  BY CaseAssumption
<1>2. c.gaps[g] \in Nat \X Nat
  BY <1>1
<1> DEFINE lo == c.gaps[g][1]
           hi == c.gaps[g][2]
<1>3. lo \in Nat /\ hi \in Nat /\ lo <= hi /\ hi <= Len(c.ver) /\ c.ver \in Seq(Nat)
  BY <1>1, <1>2
<1> HIDE DEF lo, hi
<1>4. hi - lo \in Nat /\ lo + (hi - lo) <= Len(c.ver)
  BY <1>3
<1>5. Len(Bytes(c.ver, lo, hi - lo)) = hi - lo
  BY <1>3, <1>4, BytesAt
<1> QED BY <1>4, <1>5 DEF lo, hi

-----------------------------------------------------------------------------
(* The account of the hash *)

\* A sorted bucket has one offset under a checksum.
LEMMA HoldsOnce ==
  ASSUME NEW h, SortedHash(h), NEW i \in 0..(Buckets - 1), NEW q \in Nat, NEW o, NEW p,
         Holds(h[i], q, o), Holds(h[i], q, p)
  PROVE  o = p
<1>1. h[i] \in BucketType /\ Ordered(h[i])
  BY DEF SortedHash, HashType, Sorted
<1> QED BY <1>1, FoundIt

\* The offsets a seed has are naturals; those of a reverse hash are not 0.
LEMMA HitsAre ==
  ASSUME NEW c, NEW offsets \in SUBSET Nat, NEW p
  PROVE  /\ Hits(c, offsets, p) \in SUBSET Nat
         /\ Hits(c, offsets, p) # {} =>
              /\ Min(Hits(c, offsets, p)) \in Nat /\ Min(Hits(c, offsets, p)) \in offsets
              /\ c.kind = "rbucket" => Min(Hits(c, offsets, p)) # 0
<1> DEFINE H == Hits(c, offsets, p)
<1>1. H \in SUBSET Nat /\ H \subseteq offsets /\ \A o \in H : c.kind = "rbucket" => o # 0
  BY DEF Hits
<1> HIDE DEF H
<1>2. H # {} => Min(H) \in H /\ Min(H) \in Nat
  BY <1>1, MinIsLeast
<1> QED BY <1>1, <1>2 DEF H

\* What becomes of the offsets there when one more comes.
Grown(c, offsets, o, p) ==
  LET old == Hits(c, offsets, p)
      new == Hits(c, offsets \cup {o}, p)
      hit == Place(Bytes(c.ref, o, SeedLen)) = p /\ (c.kind = "rbucket" => o # 0)
  IN  /\ old # {} => new # {} /\ Min(new) = Min(old)
      /\ old = {} /\ hit => new # {} /\ Min(new) = o
      /\ old = {} /\ ~ hit => new = {}

\* One offset more, behind the others: it counts where there was none.
LEMMA HitsGrow ==
  ASSUME NEW c, NEW offsets \in SUBSET Nat, NEW o \in Nat, \A x \in offsets : x < o, NEW p
  PROVE  Grown(c, offsets, o, p)
<1> DEFINE old == Hits(c, offsets, p)
           new == Hits(c, offsets \cup {o}, p)
           hit == Place(Bytes(c.ref, o, SeedLen)) = p /\ (c.kind = "rbucket" => o # 0)
<1>1. new = IF hit THEN old \cup {o} ELSE old
  BY DEF Hits
<1>2. old \in SUBSET Nat /\ \A x \in old : x < o
  BY DEF Hits
<1> HIDE DEF old, new, hit
<1>3. ASSUME old # {}
      PROVE  new # {} /\ Min(new) = Min(old)
  <2>1. Min(old) \in old /\ Min(old) \in Nat /\ \A y \in old : Min(old) <= y
    BY <1>2, <1>3, MinIsLeast
  <2>2. new \in SUBSET Nat /\ new # {}
    BY <1>1, <1>2, <1>3
  <2>3. Min(new) \in new /\ Min(new) \in Nat /\ \A y \in new : Min(new) <= y
    BY <2>2, MinIsLeast
  <2> DEFINE m == Min(old)
             n == Min(new)
  <2>4. /\ m \in Nat /\ n \in Nat /\ m < o /\ n <= m
        /\ n = o \/ m <= n
    BY <1>1, <1>2, <2>1, <2>3
  <2> HIDE DEF m, n
  <2>5. m = n
    BY <2>4
  <2> QED BY <2>2, <2>5 DEF m, n
<1>4. ASSUME old = {}, hit
      PROVE  new # {} /\ Min(new) = o
  <2>1. new = {o}
    BY <1>1, <1>4
  <2>2. Min({o}) \in {o}
    BY MinIsLeast
  <2> QED BY <2>1, <2>2
<1>5. old = {} /\ ~ hit => new = {}
  BY <1>1
<1> QED BY <1>3, <1>4, <1>5 DEF Grown, old, new, hit

\* A seed of the reference is inserted.
LEMMA RefInserted ==
  ASSUME NEW c, c.kind # "rbucket", NEW h, NEW offsets \in SUBSET Nat, NEW out,
         NEW s \in Nat, NEW o \in Nat, \A x \in offsets : x < o,
         Place(Bytes(c.ref, o, SeedLen)) = <<Index(s), Key(s)>>,
         RefAccount(c, h, offsets, out), NEW r, Inserts(h, s, o, r)
  PROVE  RefAccount(c, r.hash, offsets \cup {o}, out \cup r.emptied)
<1> SUFFICES ASSUME NEW p \in Places, p[1] \notin out, p[1] \notin r.emptied, NEW q \in Nat
             PROVE  Holds(r.hash[p[1]], p[2], q) <=>
                      Hits(c, offsets \cup {o}, p) # {} /\ q = Min(Hits(c, offsets \cup {o}, p))
  BY DEF RefAccount
<1> DEFINE old == Hits(c, offsets, p)
           new == Hits(c, offsets \cup {o}, p)
           here == <<Index(s), Key(s)>> = p
<1>1. p[1] \in 0..(Buckets - 1) /\ p[2] \in Nat /\ (here <=> p[1] = Index(s) /\ p[2] = Key(s))
  BY DEF Places
<1>2. Holds(r.hash[p[1]], p[2], q) <=>
        \/ Holds(h[p[1]], p[2], q)
        \/ here /\ q = o /\ \A x \in Nat : ~ Holds(h[p[1]], p[2], x)
  BY <1>1 DEF Inserts
<1>3. \A x \in Nat : Holds(h[p[1]], p[2], x) <=> old # {} /\ x = Min(old)
  BY DEF RefAccount
<1>4. /\ old # {} => new # {} /\ Min(new) = Min(old)
      /\ old = {} /\ here => new # {} /\ Min(new) = o
      /\ old = {} /\ ~ here => new = {}
  <2> DEFINE hit == Place(Bytes(c.ref, o, SeedLen)) = p /\ (c.kind = "rbucket" => o # 0)
  <2>1. /\ old # {} => new # {} /\ Min(new) = Min(old)
        /\ old = {} /\ hit => new # {} /\ Min(new) = o
        /\ old = {} /\ ~ hit => new = {}
    <3>1. Grown(c, offsets, o, p)
      BY HitsGrow
    <3> QED BY <3>1 DEF Grown
  <2>2. hit <=> here
    OBVIOUS
  <2> HIDE DEF hit, here, old, new
  <2> QED BY <2>1, <2>2
<1>5. old # {} => Min(old) \in Nat
  BY HitsAre
<1> HIDE DEF old, new, here
<1>6. CASE old # {}
  BY <1>2, <1>3, <1>4, <1>5, <1>6 DEF new
<1>7. CASE old = {}
  BY <1>2, <1>3, <1>4, <1>7 DEF new
<1> QED BY <1>6, <1>7

\* What is known of the reference is known in the search.
LEMMA RefKnown ==
  ASSUME NEW c, NEW h, NEW offsets \in SUBSET Nat, NEW out, NEW places,
         RefAccount(c, h, offsets, out)
  PROVE  Known(c, h, places, offsets, out)
<1> SUFFICES ASSUME NEW p \in Places, p[1] \notin out, Hits(c, offsets, p) # {}
             PROVE  Holds(h[p[1]], p[2], Min(Hits(c, offsets, p)))
  BY DEF Known
<1>1. Min(Hits(c, offsets, p)) \in Nat
  BY HitsAre
<1> QED BY <1>1 DEF RefAccount

\* A seed of a gap is inserted.
LEMMA GapInserted ==
  ASSUME NEW h, NEW places \in SUBSET Places, NEW out, NEW s \in Nat, SortedHash(h),
         GapAccount(h, places, out), NEW r, Inserts(h, s, 0, r)
  PROVE  GapAccount(r.hash, places \cup {<<Index(s), Key(s)>>}, out \cup r.emptied)
<1>1. NoOffsets(r.hash)
  BY DEF GapAccount, Inserts
<1>2. Index(s) \in 0..(Buckets - 1) /\ Key(s) \in Nat
  BY PlaceOfSum
<1>3. ASSUME NEW i \in 0..(Buckets - 1), NEW q \in Nat, NEW x \in Nat, Holds(h[i], q, x)
      PROVE  x = 0
  <2>1. Len(h[i].offset) = Len(h[i].chksum)
    BY DEF SortedHash, Sorted, Ordered
  <2> QED BY <1>3, <2>1 DEF GapAccount, NoOffsets, Holds
<1>4. ASSUME NEW p \in places \cup {<<Index(s), Key(s)>>}, p[1] \notin out, p[1] \notin r.emptied
      PROVE  Holds(r.hash[p[1]], p[2], 0)
  <2>1. p[1] \in 0..(Buckets - 1) /\ p[2] \in Nat
    BY <1>2 DEF Places
  <2>2. Holds(r.hash[p[1]], p[2], 0) <=>
          \/ Holds(h[p[1]], p[2], 0)
          \/ p[1] = Index(s) /\ p[2] = Key(s) /\ \A x \in Nat : ~ Holds(h[p[1]], p[2], x)
    BY <1>4, <2>1 DEF Inserts
  <2>3. CASE p \in places
    BY <1>4, <2>2, <2>3 DEF GapAccount
  <2>4. CASE p = <<Index(s), Key(s)>>
    BY <1>3, <2>1, <2>2, <2>4
  <2> QED BY <2>3, <2>4
<1> QED BY <1>1, <1>4 DEF GapAccount

\* Before the walk nothing has an offset.
LEMMA GapWalk ==
  ASSUME NEW c, NEW h, NEW places, NEW out, GapAccount(h, places, out)
  PROVE  WalkAccount(c, h, places, {}, out)
BY DEF GapAccount, WalkAccount, Hits

\* The walk meets a seed of the reference.
LEMMA WalkAnswered ==
  ASSUME NEW c, c.kind = "rbucket", NEW h, SortedHash(h), NEW places \in SUBSET Places,
         NEW offsets \in SUBSET Nat, NEW out,
         NEW s \in Nat, NEW o \in Nat, \A x \in offsets : x < o,
         Place(Bytes(c.ref, o, SeedLen)) = <<Index(s), Key(s)>>,
         WalkAccount(c, h, places, offsets, out), NEW r, Answers(h, s, o, r)
  PROVE  WalkAccount(c, r.hash, places, offsets \cup {o}, out)
<1> SUFFICES ASSUME NEW p \in places, p[1] \notin out
             PROVE  Holds(r.hash[p[1]], p[2],
                          IF Hits(c, offsets \cup {o}, p) = {} THEN 0
                          ELSE Min(Hits(c, offsets \cup {o}, p)))
  BY DEF WalkAccount
<1> DEFINE old == Hits(c, offsets, p)
           new == Hits(c, offsets \cup {o}, p)
           here == <<Index(s), Key(s)>> = p
<1>1. p[1] \in 0..(Buckets - 1) /\ p[2] \in Nat /\ (here <=> p[1] = Index(s) /\ p[2] = Key(s))
  BY DEF Places
<1>2. \A q \in Nat :
        Holds(r.hash[p[1]], p[2], q) <=>
          IF here /\ Holds(h[p[1]], p[2], 0) THEN q = o ELSE Holds(h[p[1]], p[2], q)
  BY <1>1 DEF Answers
<1>3. Holds(h[p[1]], p[2], IF old = {} THEN 0 ELSE Min(old))
  BY DEF WalkAccount
<1>4. /\ old # {} => new # {} /\ Min(new) = Min(old)
      /\ old = {} /\ here /\ o # 0 => new # {} /\ Min(new) = o
      /\ old = {} /\ ~ (here /\ o # 0) => new = {}
  <2> DEFINE hit == Place(Bytes(c.ref, o, SeedLen)) = p /\ (c.kind = "rbucket" => o # 0)
  <2>1. /\ old # {} => new # {} /\ Min(new) = Min(old)
        /\ old = {} /\ hit => new # {} /\ Min(new) = o
        /\ old = {} /\ ~ hit => new = {}
    <3>1. Grown(c, offsets, o, p)
      BY HitsGrow
    <3> QED BY <3>1 DEF Grown
  <2>2. hit <=> here /\ o # 0
    OBVIOUS
  <2> HIDE DEF hit, here, old, new
  <2> QED BY <2>1, <2>2
<1>5. old # {} => Min(old) \in Nat /\ Min(old) # 0
  BY HitsAre
<1>6. \A x, y : Holds(h[p[1]], p[2], x) /\ Holds(h[p[1]], p[2], y) => x = y
  BY <1>1, HoldsOnce
<1> HIDE DEF old, new, here
<1>7. CASE old # {}
  <2>1. ~ Holds(h[p[1]], p[2], 0)
    BY <1>3, <1>5, <1>6, <1>7
  <2> QED BY <1>2, <1>3, <1>4, <1>5, <1>7, <2>1 DEF new
<1>8. CASE old = {}
  <2>1. Holds(h[p[1]], p[2], 0)
    BY <1>3, <1>8
  <2>2. CASE here /\ o # 0
    BY <1>2, <1>4, <1>8, <2>1, <2>2 DEF new
  <2>3. CASE ~ (here /\ o # 0)
    BY <1>2, <1>4, <1>8, <2>1, <2>3 DEF new
  <2> QED BY <2>2, <2>3
<1> QED BY <1>7, <1>8

\* Behind the walk what has no offset goes.
LEMMA WalkCleansed ==
  ASSUME NEW c, c.kind = "rbucket", NEW h, SortedHash(h), NEW places \in SUBSET Places,
         NEW offsets \in SUBSET Nat, NEW out, WalkAccount(c, h, places, offsets, out)
  PROVE  Known(c, Cleansed(h), places, offsets, out)
<1> SUFFICES ASSUME NEW p \in Places, p[1] \notin out, Hits(c, offsets, p) # {}, p \in places
             PROVE  Holds(Cleansed(h)[p[1]], p[2], Min(Hits(c, offsets, p)))
  BY DEF Known
<1> DEFINE m == Min(Hits(c, offsets, p))
<1>1. m \in Nat /\ m # 0
  BY HitsAre
<1>2. p[1] \in 0..(Buckets - 1) /\ p[2] \in Nat
  BY DEF Places
<1>3. Holds(h[p[1]], p[2], m)
  BY DEF WalkAccount
<1> HIDE DEF m
<1>4. Holds(Cleansed(h)[p[1]], p[2], m)
  BY <1>1, <1>2, <1>3, CleansedAll
<1> QED BY <1>4 DEF m

-----------------------------------------------------------------------------
(* The steps of a block *)

\* Where a block is, and what it is given to read.
LEMMA BlockFacts ==
  ASSUME Types, BlockPlace, phase \in {"insert", "walk"}
  PROVE  /\ File \in Seq(Nat) /\ Len(File) \in Nat /\ BlockEnd \in Nat /\ BlockEnd <= Len(File)
         /\ pos <= Len(File) /\ SeedLen <= pos + todo
         /\ todo = 0 => pos <= BlockEnd /\ pos - SeedLen \in Nat /\ (pos - SeedLen) + SeedLen = pos
<1>1. /\ case.ref \in Seq(Nat) /\ case.ver \in Seq(Nat)
      /\ Hi \in Nat /\ Hi <= Len(case.ver)
  BY CaseFacts, WindowFacts DEF Types
<1>2. /\ File \in Seq(Nat) /\ Len(File) \in Nat /\ BlockEnd \in Nat /\ BlockEnd <= Len(File)
      /\ OverRef => File = case.ref /\ BlockEnd = Len(case.ref)
  BY <1>1 DEF File, BlockEnd
<1>3. pos \in Nat /\ todo \in Nat
  BY DEF Types
<1> QED BY <1>2, <1>3 DEF BlockPlace

\* What a step leaves alone when it leaves the case, the phase and the gap.
LEMMA SameCase ==
  ASSUME UNCHANGED <<case, phase, gap>>
  PROVE  UNCHANGED <<Reversed, OverRef, Lo, Hi, Window, File, BlockEnd>>
BY DEF Reversed, OverRef, Lo, Hi, Window, File, BlockEnd

\* ReadBlock: what is remembered moves with what is read.
LEMMA ReadBlockKeeps ==
  ASSUME IInv, ReadBlock
  PROVE  IInv'
<1>1. /\ Types /\ BlockPlace /\ phase \in {"insert", "walk"}
      /\ UNCHANGED <<case, sample_rate, phase, gap, hash, va, vs, vc, buff, asked, tried, emptied>>
  BY DEF IInv, ReadBlock, inputs, search, ghost
<1>2. UNCHANGED <<Reversed, OverRef, Lo, Hi, Window, File, BlockEnd>>
  BY <1>1, SameCase
<1>3. PICK n \in 1..todo :
        /\ pos + n <= Len(File)
        /\ ads' = Update(ads, Bytes(File, pos, n))
        /\ pos' = pos + n /\ todo' = todo - n
  BY DEF ReadBlock
<1>4. pos \in Nat /\ todo \in 0..SeedLen /\ n \in 1..SeedLen /\ ads \in TrueAds
  BY <1>1 DEF Types
<1>5. /\ File \in Seq(Nat) /\ Len(File) \in Nat /\ BlockEnd \in Nat /\ SeedLen <= pos + todo
  BY <1>1, BlockFacts
<1>6. /\ pos' \in Nat /\ todo' \in 0..SeedLen /\ pos' + todo' = pos + todo
      /\ pos' <= Len(File)
  BY <1>3, <1>4
<1>7. /\ ads' \in TrueAds
      /\ \A x \in 1..SeedLen :
           SeedChars(ads')[x] = IF x <= SeedLen - n THEN SeedChars(ads)[x + n]
                                                    ELSE File[pos + n - SeedLen + x]
  <2> DEFINE u == Update(ads, Bytes(File, pos, n))
  <2>1. /\ u \in TrueAds
        /\ \A x \in 1..SeedLen :
             SeedChars(u)[x] = IF x <= SeedLen - n THEN SeedChars(ads)[x + n]
                                                   ELSE File[pos + n - SeedLen + x]
    BY <1>3, <1>4, <1>5, Read
  <2> HIDE DEF u
  <2>2. ads' = u
    BY <1>3 DEF u
  <2> QED BY <2>1, <2>2
<1>8. Types'
  BY <1>1, <1>2, <1>6, <1>7 DEF Types
<1>9. BlockPlace'
  BY <1>1, <1>2, <1>5, <1>6 DEF BlockPlace
<1>10. CharsRead'
  <2> SUFFICES ASSUME NEW x \in 1..SeedLen, x > todo'
               PROVE  SeedChars(ads')[x] = File[pos' - SeedLen + x]
    BY <1>1, <1>2 DEF CharsRead
  <2>1. CASE x <= SeedLen - n
    <3>1. x + n \in 1..SeedLen /\ x + n > todo /\ pos - SeedLen + (x + n) = pos' - SeedLen + x
      BY <1>3, <1>4, <2>1
    <3>2. SeedChars(ads)[x + n] = File[pos - SeedLen + (x + n)]
      BY <1>1, <3>1 DEF IInv, CharsRead
    <3> QED BY <1>7, <2>1, <3>1, <3>2
  <2>2. CASE ~ (x <= SeedLen - n)
    <3>1. pos' - SeedLen + x = pos + n - SeedLen + x
      BY <1>3, <1>4
    <3> QED BY <1>7, <2>2, <3>1
  <2> QED BY <2>1, <2>2
<1>11. WindowPlace' /\ Copies' /\ PassedOver'
  BY <1>1 DEF IInv, WindowPlace, Copies, PassedOver
<1>12. TriedBefore'
  BY <1>1, <1>2, <1>6 DEF IInv, TriedBefore
<1>13. OffsetsFit'
  BY <1>1 DEF IInv, OffsetsFit
<1>14. Account'
  BY <1>1, <1>2 DEF IInv, Account
<1> QED BY <1>8, <1>9, <1>10, <1>11, <1>12, <1>13, <1>14 DEF IInv

\* TooShort: only a reference that has no seed ends a block.
LEMMA TooShortKeeps ==
  ASSUME IInv, TooShort
  PROVE  IInv'
<1>1. /\ Types /\ BlockPlace /\ phase \in {"insert", "walk"} /\ phase' = "failed"
      /\ todo > 0 /\ pos = Len(File)
      /\ UNCHANGED <<case, sample_rate, gap, ads, pos, todo, hash, va, vs, vc, buff, asked, tried, emptied>>
  BY DEF IInv, TooShort, inputs, block, search, ghost
<1>2. UNCHANGED <<Lo, Hi, Window, Reversed>>
  BY <1>1 DEF Lo, Hi, Window, Reversed
<1>3. pos < SeedLen /\ pos <= Len(case.ref)
  <2>1. /\ pos \in Nat /\ todo \in Nat /\ Len(File) \in Nat /\ BlockEnd \in Nat
        /\ BlockEnd <= Len(File)
    BY <1>1, BlockFacts DEF Types
  <2>2. ~ (pos + todo <= BlockEnd)
    BY <1>1, <2>1
  <2>3. OverRef /\ Len(case.ref) < SeedLen
    BY <1>1, <2>2 DEF BlockPlace
  <2>4. File = case.ref
    BY <2>3 DEF File
  <2> QED BY <1>1, <2>1, <2>3, <2>4
<1>4. Types'
  BY <1>1, <1>2 DEF Types
<1>5. BlockPlace'
  BY <1>1, <1>3 DEF BlockPlace
<1>6. CharsRead' /\ WindowPlace' /\ Copies' /\ PassedOver' /\ TriedBefore' /\ Account'
  BY <1>1 DEF IInv, CharsRead, WindowPlace, Copies, PassedOver, TriedBefore, Account
<1>7. OffsetsFit'
  BY <1>1 DEF IInv, OffsetsFit
<1> QED BY <1>4, <1>5, <1>6, <1>7 DEF IInv

\* At the begin of a search nothing is read and nothing passed over.
LEMMA SearchBegun ==
  ASSUME StartSearch, phase' = "search"
  PROVE  BlockPlace' /\ CharsRead' /\ WindowPlace' /\ Copies' /\ PassedOver' /\ TriedBefore'
<1>1. /\ ads' = NewSeed /\ va' = 0 /\ vs' = 0 /\ vc' = 0 /\ buff' = << >>
      /\ pos' = 0 /\ todo' = 0
  BY DEF StartSearch
<1>2. BlockPlace' /\ TriedBefore'
  BY <1>1 DEF BlockPlace, TriedBefore
<1>3. CharsRead'
  <2> SUFFICES ASSUME NEW x \in 1..SeedLen, va' - SeedLen + x > vc'
               PROVE  FALSE
    BY DEF CharsRead
  <2> QED BY <1>1
<1>4. WindowPlace'
  BY <1>1 DEF WindowPlace
<1>5. Copies'
  <2>1. Len(buff') = 0
    BY <1>1
  <2> QED BY <1>1, <2>1 DEF Copies, Apart
<1>6. PassedOver'
  <2>1. 0..(vc' - 1) = {}
    BY <1>1
  <2> QED BY <2>1 DEF PassedOver
<1> QED BY <1>2, <1>3, <1>4, <1>5, <1>6

\* What is known of the hash h at the end of a block, when what was handed to it
\* is counted.
Accounted(h) ==
  /\ SortedHash(h) /\ Fit(case, h)
  /\ asked' \subseteq Places /\ tried' \in SUBSET Nat /\ emptied' \subseteq 0..(Buckets - 1)
  /\ phase = "insert" /\ ~ Reversed => RefAccount(case, h, tried', emptied')
  /\ phase = "insert" /\ Reversed => GapAccount(h, asked', emptied') /\ tried' = {}
  /\ phase = "walk" => WalkAccount(case, h, asked', tried', emptied')

\* EndBlock: to the next gap, the walk or the search.
LEMMA EndBlockKeeps ==
  ASSUME IInv, phase \in {"insert", "walk"}, NEW h, EndBlock(h), Accounted(h), UNCHANGED inputs
  PROVE  IInv'
<1>1. /\ Types /\ UNCHANGED <<case, sample_rate, Reversed>>
      /\ case \in Cases /\ gap \in DOMAIN case.gaps
  BY DEF IInv, Types, inputs, Reversed
<1>2. /\ case.ref \in Seq(Nat) /\ case.ver \in Seq(Nat)
      /\ Len(case.gaps) \in Nat \ {0} /\ DOMAIN case.gaps = 1..Len(case.gaps)
      /\ \A i \in 1..Len(case.gaps) :
           /\ case.gaps[i][1] \in Nat /\ case.gaps[i][2] \in Nat
           /\ case.gaps[i][1] <= case.gaps[i][2] /\ case.gaps[i][2] <= Len(case.ver)
           /\ Reversed => case.gaps[i][1] + SeedLen <= case.gaps[i][2]
  BY <1>1, CaseFacts
<1>3. SortedHash(h) /\ Fit(case, h)
  BY DEF Accounted
<1>4. /\ asked' \subseteq Places /\ tried' \in SUBSET Nat /\ emptied' \subseteq 0..(Buckets - 1)
  BY DEF Accounted
<1>5. CASE /\ phase = "insert" /\ Reversed /\ gap < Len(case.gaps)
           /\ gap' = gap + 1 /\ hash' = h
           /\ StartBlock(case.gaps[gap + 1][1])
           /\ UNCHANGED <<phase, search>>
  <2>1. /\ phase' = "insert" /\ Reversed /\ gap' \in DOMAIN case.gaps
        /\ UNCHANGED <<va, vs, vc, buff>>
    BY <1>1, <1>2, <1>5 DEF search
  <2>2. ads' = NewSeed /\ pos' = case.gaps[gap'][1] /\ todo' = SeedLen /\ hash' = h
    BY <1>5 DEF StartBlock
  <2>3. ~ OverRef' /\ File' = case.ver /\ BlockEnd' = case.gaps[gap'][2]
    BY <1>1, <2>1 DEF OverRef, File, BlockEnd, Hi
  <2>4. va' = 0 /\ vs' = 0 /\ vc' = 0
    BY <1>5, <2>1 DEF IInv, WindowPlace
  <2>5. Types'
    <3>1. Len(Window') \in Nat
      BY <1>1, <2>1, WindowLen DEF Window, Lo, Hi
    <3> QED BY <1>1, <1>2, <1>3, <1>4, <2>1, <2>2, <2>4, <3>1, NewSeedTrue DEF Types
  <2>6. BlockPlace'
    BY <1>1, <1>2, <2>1, <2>2, <2>3 DEF BlockPlace
  <2>7. CharsRead' /\ WindowPlace' /\ Copies' /\ PassedOver'
    BY <2>1, <2>2, <2>4 DEF CharsRead, WindowPlace, Copies, PassedOver
  <2>8. TriedBefore'
    BY <1>5, <2>3 DEF TriedBefore, Accounted
  <2>9. OffsetsFit' /\ Account'
    BY <1>1, <1>3, <1>5, <2>1, <2>2 DEF OffsetsFit, Account, Accounted
  <2> QED BY <2>5, <2>6, <2>7, <2>8, <2>9 DEF IInv
<1>6. CASE /\ phase = "insert" /\ Reversed /\ gap = Len(case.gaps)
           /\ phase' = "walk" /\ gap' = 1 /\ hash' = h
           /\ StartBlock(0)
           /\ UNCHANGED search
  <2>1. gap' \in DOMAIN case.gaps /\ UNCHANGED <<va, vs, vc, buff>>
    BY <1>2, <1>6 DEF search
  <2>2. ads' = NewSeed /\ pos' = 0 /\ todo' = SeedLen /\ hash' = h
    BY <1>6 DEF StartBlock
  <2>3. OverRef' /\ File' = case.ref /\ BlockEnd' = Len(case.ref)
    BY <1>1, <1>6 DEF OverRef, File, BlockEnd
  <2>4. va' = 0 /\ vs' = 0 /\ vc' = 0
    BY <1>6, <2>1 DEF IInv, WindowPlace
  <2>5. Types'
    <3>1. Len(Window') \in Nat
      BY <1>1, <2>1, WindowLen DEF Window, Lo, Hi
    <3> QED BY <1>1, <1>2, <1>3, <1>4, <1>6, <2>1, <2>2, <2>4, <3>1, NewSeedTrue DEF Types
  <2>6. BlockPlace'
    BY <1>1, <1>2, <1>6, <2>2, <2>3 DEF BlockPlace
  <2>7. CharsRead' /\ WindowPlace' /\ Copies' /\ PassedOver'
    BY <1>6, <2>2, <2>4 DEF CharsRead, WindowPlace, Copies, PassedOver
  <2>8. TriedBefore'
    BY <1>6 DEF TriedBefore, Accounted
  <2>9. OffsetsFit'
    BY <1>1, <1>3, <2>2 DEF OffsetsFit
  <2>10. Account'
    <3>1. GapAccount(h, asked', emptied') /\ tried' = {}
      BY <1>6 DEF Accounted
    <3>2. WalkAccount(case, h, asked', tried', emptied')
      BY <3>1, GapWalk
    <3> QED BY <1>1, <1>6, <2>2, <3>2 DEF Account
  <2> QED BY <2>5, <2>6, <2>7, <2>8, <2>9, <2>10 DEF IInv
<1>7. CASE /\ phase = "walk" \/ ~ Reversed
           /\ phase' = "search" /\ gap' = 1
           /\ hash' = IF Reversed THEN Cleansed(h) ELSE h
           /\ StartSearch
  <2>1. gap' \in DOMAIN case.gaps
    BY <1>2, <1>7
  <2>2. /\ ads' = NewSeed /\ va' = 0 /\ vs' = 0 /\ vc' = 0 /\ buff' = << >>
        /\ pos' = 0 /\ todo' = 0
    BY <1>7 DEF StartSearch
  <2>3. /\ SortedHash(hash') /\ Fit(case, hash')
        /\ Known(case, hash', asked', tried', emptied')
    <3>1. CASE Reversed
      <4>1. phase = "walk" /\ case.kind = "rbucket" /\ hash' = Cleansed(h)
        BY <1>7, <3>1 DEF Reversed
      <4>2. /\ SortedHash(Cleansed(h))
            /\ \A i \in 0..(Buckets - 1) : \A q, o \in Nat :
                 Holds(Cleansed(h)[i], q, o) <=> Holds(h[i], q, o) /\ o # 0
        BY <1>3, CleansedAll
      <4>3. WalkAccount(case, h, asked', tried', emptied')
        BY <4>1 DEF Accounted
      <4>4. Known(case, Cleansed(h), asked', tried', emptied')
        BY <1>3, <1>4, <4>1, <4>3, WalkCleansed
      <4>5. Fit(case, Cleansed(h))
        BY <1>3, <4>2 DEF Fit
      <4> QED BY <4>1, <4>2, <4>4, <4>5
    <3>2. CASE ~ Reversed
      <4>1. phase = "insert" /\ hash' = h
        BY <1>1, <1>7, <3>2 DEF Types
      <4>2. RefAccount(case, h, tried', emptied')
        BY <3>2, <4>1 DEF Accounted
      <4>3. Known(case, h, asked', tried', emptied')
        BY <1>4, <4>2, RefKnown
      <4> QED BY <1>3, <4>1, <4>3
    <3> QED BY <3>1, <3>2
  <2>4. Types'
    <3>1. << >> \in Seq(Matches)
      OBVIOUS
    <3>2. Len(Window') \in Nat
      BY <1>1, <2>1, WindowLen DEF Window, Lo, Hi
    <3> QED BY <1>1, <1>2, <1>4, <1>7, <2>1, <2>2, <2>3, <3>1, <3>2, NewSeedTrue DEF Types
  <2>5. BlockPlace' /\ CharsRead' /\ WindowPlace' /\ Copies' /\ PassedOver' /\ TriedBefore'
    BY <1>7, SearchBegun
  <2>6. OffsetsFit' /\ Account'
    BY <1>1, <1>7, <2>3 DEF OffsetsFit, Account
  <2> QED BY <2>4, <2>5, <2>6 DEF IInv
<1> QED BY <1>5, <1>6, <1>7 DEF EndBlock

\* NoPage: of an empty reference nothing is in the hash.
LEMMA NoPageKeeps ==
  ASSUME IInv, NoPage
  PROVE  IInv'
<1>1. /\ phase \in {"insert", "walk"} /\ OverRef /\ EndBlock(hash)
      /\ UNCHANGED inputs /\ UNCHANGED <<asked, tried, emptied>>
  BY DEF NoPage, ghost
<1>2. Accounted(hash)
  BY <1>1 DEF IInv, Types, OffsetsFit, Account, Accounted, OverRef
<1> QED BY <1>1, <1>2, EndBlockKeeps

\* What a step hands to the hash is the seed of the bytes read last.
LEMMA SeedHanded ==
  ASSUME IInv, phase \in {"insert", "walk"}, todo = 0
  PROVE  /\ SeedChars(ads) = Bytes(File, pos - SeedLen, SeedLen)
         /\ ads.s2 = SumOf(Bytes(File, pos - SeedLen, SeedLen)) /\ ads.s2 \in Nat
         /\ Place(Bytes(File, pos - SeedLen, SeedLen)) = <<Index(ads.s2), Key(ads.s2)>>
<1> DEFINE o == pos - SeedLen
<1>1. /\ File \in Seq(Nat) /\ pos <= Len(File) /\ Len(File) \in Nat
      /\ o \in Nat /\ o + SeedLen = pos
  BY BlockFacts DEF IInv
<1>2. ads \in TrueAds
  BY DEF IInv, Types
<1>3. ASSUME NEW x \in 1..SeedLen
      PROVE  SeedChars(ads)[x] = File[o + x]
  <2>1. x > todo
    OBVIOUS
  <2> QED BY <2>1 DEF IInv, CharsRead
<1> HIDE DEF o
<1>4. o + SeedLen <= Len(File)
  BY <1>1
<1>5. /\ SeedChars(ads) = Bytes(File, o, SeedLen)
      /\ ads.s2 = SumOf(Bytes(File, o, SeedLen)) /\ ads.s2 \in Nat
  BY <1>1, <1>2, <1>3, <1>4, SeedAt
<1> QED BY <1>5 DEF Place, o

\* Skip and Step: where the next seed ends, what it has left of this one.
LEMMA StepAhead ==
  ASSUME sample_rate \in SampleRates, NEW ok \in BOOLEAN
  PROVE  /\ Skip(ok) \in Nat /\ Step(ok) \in 1..SeedLen
         /\ Skip(ok) = 0 \/ Step(ok) = SeedLen
<1>1. sample_rate \in Nat /\ sample_rate # 0
  OBVIOUS
<1>2. Min({sample_rate, SeedLen}) = IF sample_rate <= SeedLen THEN sample_rate ELSE SeedLen
  BY <1>1, MinOfTwo
<1> QED BY <1>1, <1>2 DEF Skip, Step

\* What Insert does to the hash is accounted for, in each of its three uses.
LEMMA InsertAccounted ==
  ASSUME IInv, phase \in {"insert", "walk"}, todo = 0, NEW r,
         r = IF phase = "walk" THEN InsertMatch(hash, ads.s2, pos - SeedLen)
                               ELSE HashInsert(hash, ads.s2, pos - SeedLen),
         asked' = IF OverRef THEN asked ELSE asked \cup {<<Index(ads.s2), Key(ads.s2)>>},
         tried' = IF OverRef THEN tried \cup {pos - SeedLen} ELSE tried,
         emptied' = emptied \cup r.emptied
  PROVE  Accounted(r.hash) /\ r.ok \in BOOLEAN
<1> DEFINE o == pos - SeedLen
           s == ads.s2
<1>1. /\ s \in Nat /\ Place(Bytes(File, o, SeedLen)) = <<Index(s), Key(s)>>
      /\ <<Index(s), Key(s)>> \in Places
  BY SeedHanded, PlaceOfSum DEF Places
<1>2. /\ o \in Nat /\ o + SeedLen = pos /\ pos <= Len(File)
  BY BlockFacts DEF IInv
<1>3. /\ SortedHash(hash) /\ Fit(case, hash) /\ Types
      /\ asked \in SUBSET Places /\ tried \in SUBSET Nat /\ emptied \subseteq 0..(Buckets - 1)
  BY DEF IInv, Types, OffsetsFit
<1>4. OverRef => File = case.ref /\ \A x \in tried : x < o
  <2> SUFFICES ASSUME OverRef
               PROVE  File = case.ref /\ \A x \in tried : x < o
    OBVIOUS
  <2>1. \A x \in tried : x + SeedLen < pos + todo /\ x \in Nat
    BY <1>3 DEF IInv, TriedBefore
  <2>2. \A x \in tried : x < o
    BY <1>2, <2>1
  <2> QED BY <2>2 DEF File
<1>5. /\ r = IF phase = "walk" THEN InsertMatch(hash, s, o) ELSE HashInsert(hash, s, o)
      /\ asked' = IF OverRef THEN asked ELSE asked \cup {<<Index(s), Key(s)>>}
      /\ tried' = IF OverRef THEN tried \cup {o} ELSE tried
  OBVIOUS
<1> HIDE DEF o, s
<1>6. CASE phase = "walk"
  <2>1. Reversed /\ OverRef /\ case.kind = "rbucket"
    BY <1>3, <1>6 DEF Types, OverRef, Reversed
  <2>2. Answers(hash, s, o, InsertMatch(hash, s, o))
    BY <1>1, <1>2, <1>3, Answered
  <2>3. Answers(hash, s, o, r)
    BY <1>5, <1>6, <2>2
  <2>4. SortedHash(r.hash) /\ r.ok \in BOOLEAN /\ r.emptied = {}
    BY <2>3 DEF Answers
  <2>5. asked' = asked /\ tried' = tried \cup {o} /\ emptied' = emptied
    BY <1>5, <2>1, <2>4
  <2>6. Fit(case, r.hash)
    <3> SUFFICES ASSUME NEW i \in 0..(Buckets - 1), NEW q \in Nat, NEW x \in Nat,
                        Holds(r.hash[i], q, x)
                 PROVE  x = 0 \/ x + SeedLen <= Len(case.ref)
      BY DEF Fit
    <3>1. x = o \/ Holds(hash[i], q, x)
      BY <2>3 DEF Answers
    <3> QED BY <1>2, <1>3, <1>4, <2>1, <3>1 DEF Fit
  <2>7. WalkAccount(case, hash, asked, tried, emptied)
    BY <1>6 DEF IInv, Account
  <2>8. WalkAccount(case, r.hash, asked, tried \cup {o}, emptied)
    BY <1>1, <1>2, <1>3, <1>4, <2>1, <2>3, <2>7, WalkAnswered
  <2>9. tried' \in SUBSET Nat
    BY <1>2, <1>3, <2>5
  <2> QED BY <1>3, <1>6, <2>4, <2>5, <2>6, <2>8, <2>9 DEF Accounted
<1>7. CASE phase = "insert"
  <2> DEFINE e == IF Reversed THEN 0 ELSE o
  <2>1. Reversed => GapAccount(hash, asked, emptied) /\ NoOffsets(hash) /\ tried = {}
    BY <1>7 DEF IInv, Account, GapAccount, TriedBefore
  <2>2. Inserts(hash, s, e, HashInsert(hash, s, o))
    BY <1>1, <1>2, <1>3, <2>1, Inserted
  <2>3. Inserts(hash, s, e, r) /\ e \in Nat
    BY <1>2, <1>5, <1>7, <2>2
  <2> HIDE DEF e
  <2>4. SortedHash(r.hash) /\ r.ok \in BOOLEAN /\ r.emptied \subseteq 0..(Buckets - 1)
    BY <2>3 DEF Inserts
  <2>5. Fit(case, r.hash)
    <3> SUFFICES ASSUME NEW i \in 0..(Buckets - 1), NEW q \in Nat, NEW x \in Nat,
                        Holds(r.hash[i], q, x)
                 PROVE  x = 0 \/ x + SeedLen <= Len(case.ref)
      BY DEF Fit
    <3>1. x = e \/ Holds(hash[i], q, x)
      BY <2>3 DEF Inserts
    <3>2. e = 0 \/ e + SeedLen <= Len(case.ref)
      BY <1>2, <1>4 DEF e, OverRef
    <3> QED BY <1>3, <3>1, <3>2 DEF Fit
  <2>6. emptied' \subseteq 0..(Buckets - 1)
    BY <1>3, <2>4
  <2>7. CASE Reversed
    <3>1. ~ OverRef /\ e = 0
      BY <1>7, <2>7 DEF OverRef, e
    <3>2. asked' = asked \cup {<<Index(s), Key(s)>>} /\ tried' = {}
      BY <1>5, <2>1, <2>7, <3>1
    <3>3. GapAccount(r.hash, asked \cup {<<Index(s), Key(s)>>}, emptied \cup r.emptied)
      <4>1. Inserts(hash, s, 0, r)
        BY <2>3, <3>1
      <4> QED BY <1>1, <1>3, <2>1, <2>7, <4>1, GapInserted
    <3> QED BY <1>1, <1>3, <1>7, <2>4, <2>5, <2>6, <2>7, <3>2, <3>3 DEF Accounted
  <2>8. CASE ~ Reversed
    <3>1. OverRef /\ e = o /\ case.kind # "rbucket"
      BY <2>8 DEF OverRef, e, Reversed
    <3>2. asked' = asked /\ tried' = tried \cup {o}
      BY <1>5, <3>1
    <3>3. RefAccount(case, r.hash, tried \cup {o}, emptied \cup r.emptied)
      <4>1. Inserts(hash, s, o, r)
        BY <2>3, <3>1
      <4>2. RefAccount(case, hash, tried, emptied)
        BY <1>7, <2>8 DEF IInv, Account
      <4>3. Place(Bytes(case.ref, o, SeedLen)) = <<Index(s), Key(s)>> /\ \A x \in tried : x < o
        BY <1>1, <1>4, <3>1
      <4> QED BY <1>1, <1>2, <1>3, <3>1, <4>1, <4>2, <4>3, RefInserted
    <3> QED BY <1>2, <1>3, <1>7, <2>4, <2>5, <2>6, <2>8, <3>2, <3>3 DEF Accounted
  <2> QED BY <2>7, <2>8
<1> QED BY <1>6, <1>7

\* Insert: the next seed of the block, or its end.
LEMMA InsertKeeps ==
  ASSUME IInv, Insert
  PROVE  IInv'
<1> DEFINE r == IF phase = "walk" THEN InsertMatch(hash, ads.s2, pos - SeedLen)
                                  ELSE HashInsert(hash, ads.s2, pos - SeedLen)
<1>1. /\ phase \in {"insert", "walk"} /\ todo = 0
      /\ IF pos + Skip(r.ok) + Step(r.ok) > BlockEnd
         THEN EndBlock(r.hash)
         ELSE /\ hash' = r.hash
              /\ pos' = pos + Skip(r.ok) /\ todo' = Step(r.ok)
              /\ UNCHANGED <<phase, gap, ads, search>>
      /\ asked' = IF OverRef THEN asked ELSE asked \cup {<<Index(ads.s2), Key(ads.s2)>>}
      /\ tried' = IF OverRef THEN tried \cup {pos - SeedLen} ELSE tried
      /\ emptied' = emptied \cup r.emptied
      /\ UNCHANGED inputs
  BY DEF Insert
<1> HIDE DEF r
<1>2. Accounted(r.hash) /\ r.ok \in BOOLEAN
  <2>1. r = IF phase = "walk" THEN InsertMatch(hash, ads.s2, pos - SeedLen)
                              ELSE HashInsert(hash, ads.s2, pos - SeedLen)
    BY DEF r
  <2> QED BY <1>1, <2>1, InsertAccounted
<1>3. CASE pos + Skip(r.ok) + Step(r.ok) > BlockEnd
  BY <1>1, <1>2, <1>3, EndBlockKeeps
<1>4. CASE ~ (pos + Skip(r.ok) + Step(r.ok) > BlockEnd)
  <2>1. /\ hash' = r.hash /\ pos' = pos + Skip(r.ok) /\ todo' = Step(r.ok)
        /\ UNCHANGED <<case, sample_rate, phase, gap, ads, va, vs, vc, buff>>
    BY <1>1, <1>4 DEF search, inputs
  <2>2. UNCHANGED <<Reversed, OverRef, Lo, Hi, Window, File, BlockEnd>>
    BY <2>1, SameCase
  <2>3. Types /\ BlockPlace /\ sample_rate \in SampleRates /\ pos \in Nat
    BY DEF IInv, Types
  <2>4. /\ Skip(r.ok) \in Nat /\ Step(r.ok) \in 1..SeedLen
        /\ Skip(r.ok) = 0 \/ Step(r.ok) = SeedLen
    BY <1>2, <2>3, StepAhead
  <2>5. /\ Len(File) \in Nat /\ BlockEnd \in Nat /\ BlockEnd <= Len(File)
        /\ SeedLen <= pos /\ pos - SeedLen \in Nat
    BY <1>1, <2>3, BlockFacts
  <2>6. /\ pos' \in Nat /\ todo' \in 1..SeedLen /\ pos' + todo' <= BlockEnd
        /\ pos' <= Len(File) /\ SeedLen <= pos' + todo' /\ pos < pos' + todo'
        /\ pos' = pos \/ todo' = SeedLen
    BY <1>4, <2>1, <2>3, <2>4, <2>5
  <2>7. Types'
    <3>1. /\ SortedHash(r.hash) /\ asked' \subseteq Places /\ tried' \in SUBSET Nat
          /\ emptied' \subseteq 0..(Buckets - 1)
      BY <1>2 DEF Accounted
    <3> QED BY <2>1, <2>2, <2>3, <2>6, <3>1 DEF Types
  <2>8. BlockPlace'
    BY <1>1, <2>1, <2>2, <2>6 DEF BlockPlace
  <2>9. CharsRead'
    <3> SUFFICES ASSUME NEW x \in 1..SeedLen, x > todo'
                 PROVE  SeedChars(ads)[x] = File[pos' - SeedLen + x]
      BY <1>1, <2>1, <2>2 DEF CharsRead
    <3>1. pos' = pos
      BY <2>6
    <3>2. x > todo
      BY <1>1
    <3> QED BY <1>1, <3>1, <3>2 DEF IInv, CharsRead
  <2>10. WindowPlace' /\ Copies' /\ PassedOver'
    BY <1>1, <2>1 DEF IInv, WindowPlace, Copies, PassedOver
  <2>11. TriedBefore'
    <3>1. phase = "insert" /\ Reversed => tried' = {}
      BY <1>2 DEF Accounted
    <3>2. ASSUME OverRef, NEW x \in tried'
          PROVE  x + SeedLen < pos' + todo'
      <4>1. x \in Nat
        BY <1>2, <3>2 DEF Accounted
      <4>2. CASE x = pos - SeedLen
        <5>1. pos \in Nat /\ pos < pos' + todo'
          BY <2>3, <2>6
        <5>2. (pos - SeedLen) + SeedLen = pos
          BY <5>1
        <5>3. x + SeedLen = pos
          BY <4>2, <5>2
        <5> QED BY <5>1, <5>3
      <4>3. CASE x \in tried
        <5>1. x + SeedLen < pos + todo
          BY <1>1, <3>2, <4>3 DEF IInv, TriedBefore
        <5> QED BY <1>1, <2>3, <2>6, <4>1, <5>1
      <4> QED BY <1>1, <3>2, <4>2, <4>3
    <3> QED BY <2>1, <2>2, <3>1, <3>2 DEF TriedBefore
  <2>12. OffsetsFit' /\ Account'
    BY <1>1, <1>2, <2>1, <2>2 DEF OffsetsFit, Account, Accounted
  <2> QED BY <2>7, <2>8, <2>9, <2>10, <2>11, <2>12 DEF IInv
<1> QED BY <1>3, <1>4

-----------------------------------------------------------------------------
(* The steps of a search *)

\* What the steps in a window leave alone.
LEMMA SearchingKeeps ==
  ASSUME IInv, Searching, UNCHANGED phase
  PROVE  /\ phase = "search" /\ UNCHANGED <<case, sample_rate, gap, pos, todo, hash, asked, tried, emptied>>
         /\ UNCHANGED <<Reversed, OverRef, Lo, Hi, Window, File, BlockEnd>>
         /\ BlockPlace' /\ TriedBefore' /\ OffsetsFit' /\ Account'
         /\ \A p : NotGiven(Bytes(Window, p, SeedLen))' <=> NotGiven(Bytes(Window, p, SeedLen))
<1>1. /\ phase = "search" /\ phase' = "search"
      /\ UNCHANGED <<case, sample_rate, gap, pos, todo, hash, asked, tried, emptied>>
  BY DEF Searching, inputs, block, ghost
<1>2. UNCHANGED <<Reversed, OverRef, Lo, Hi, Window, File, BlockEnd>>
  BY <1>1, SameCase
<1>3. BlockPlace' /\ TriedBefore'
  BY <1>1 DEF IInv, BlockPlace, TriedBefore
<1>4. OffsetsFit' /\ Account'
  BY <1>1, <1>2 DEF IInv, OffsetsFit, Account
<1>5. \A p : NotGiven(Bytes(Window, p, SeedLen))' <=> NotGiven(Bytes(Window, p, SeedLen))
  BY <1>1, <1>2 DEF NotGiven, Lookup
<1> QED BY <1>1, <1>2, <1>3, <1>4, <1>5

\* ReadWindow: at most to the end of the seed; what a match took is not read.
LEMMA ReadWindowKeeps ==
  ASSUME IInv, ReadWindow
  PROVE  IInv'
<1>1. /\ Types /\ Searching /\ UNCHANGED <<phase, vs, vc, buff>>
  BY DEF IInv, ReadWindow
<1>2. /\ phase = "search" /\ UNCHANGED <<case, sample_rate, gap, pos, todo, hash, asked, tried, emptied>>
      /\ UNCHANGED <<Reversed, OverRef, Lo, Hi, Window, File, BlockEnd>>
      /\ BlockPlace' /\ TriedBefore' /\ OffsetsFit' /\ Account'
      /\ \A p : NotGiven(Bytes(Window, p, SeedLen))' <=> NotGiven(Bytes(Window, p, SeedLen))
  BY <1>1, SearchingKeeps
<1>3. /\ Window \in Seq(Nat) /\ Len(Window) \in Nat
      /\ va \in 0..Len(Window) /\ vc \in 0..Len(Window) /\ ads \in TrueAds
  BY <1>1, WindowFacts DEF Types
<1>4. /\ From = IF va <= vc THEN vc ELSE va
      /\ Min({Len(Window), vc + SeedLen}) = IF Len(Window) <= vc + SeedLen THEN Len(Window) ELSE vc + SeedLen
  <2>1. va \in Nat /\ vc \in Nat /\ vc + SeedLen \in Nat
    BY <1>3
  <2>2. Max({va, vc}) = IF va <= vc THEN vc ELSE va
    BY <2>1, MaxOfTwo
  <2>3. Min({Len(Window), vc + SeedLen}) = IF Len(Window) <= vc + SeedLen THEN Len(Window) ELSE vc + SeedLen
    BY <1>3, <2>1, MinOfTwo
  <2> QED BY <2>2, <2>3 DEF From
<1>5. PICK n \in 1..Min({Len(Window), vc + SeedLen}) :
        /\ From + n <= Min({Len(Window), vc + SeedLen})
        /\ ads' = Update(ads, Bytes(Window, From, n))
        /\ va' = From + n
  BY DEF ReadWindow
<1>6. /\ n \in 1..SeedLen /\ From \in Nat /\ va <= From /\ vc <= From
      /\ From + n <= Len(Window) /\ From + n <= vc + SeedLen
      /\ va' = From + n /\ (From = va \/ From = vc)
  BY <1>3, <1>4, <1>5
<1>7. /\ ads' \in TrueAds
      /\ \A x \in 1..SeedLen :
           SeedChars(ads')[x] = IF x <= SeedLen - n THEN SeedChars(ads)[x + n]
                                                    ELSE Window[From + n - SeedLen + x]
  <2> DEFINE u == Update(ads, Bytes(Window, From, n))
  <2>1. /\ u \in TrueAds
        /\ \A x \in 1..SeedLen :
             SeedChars(u)[x] = IF x <= SeedLen - n THEN SeedChars(ads)[x + n]
                                                   ELSE Window[From + n - SeedLen + x]
    BY <1>3, <1>6, Read
  <2> HIDE DEF u
  <2>2. ads' = u
    BY <1>5 DEF u
  <2> QED BY <2>1, <2>2
<1>8. Types'
  BY <1>1, <1>2, <1>3, <1>6, <1>7 DEF Types
<1>9. CharsRead'
  <2> SUFFICES ASSUME NEW x \in 1..SeedLen, va' - SeedLen + x > vc
               PROVE  SeedChars(ads')[x] = Window[va' - SeedLen + x]
    BY <1>1, <1>2 DEF CharsRead
  <2>1. CASE x <= SeedLen - n
    <3>1. From = va
      BY <1>3, <1>6, <2>1
    <3>2. x + n \in 1..SeedLen /\ va - SeedLen + (x + n) > vc /\ va - SeedLen + (x + n) = va' - SeedLen + x
      BY <1>3, <1>6, <2>1, <3>1
    <3>3. SeedChars(ads)[x + n] = Window[va - SeedLen + (x + n)]
      BY <1>2, <3>2 DEF IInv, CharsRead
    <3> QED BY <1>7, <2>1, <3>2, <3>3
  <2>2. CASE ~ (x <= SeedLen - n)
    <3>1. va' - SeedLen + x = From + n - SeedLen + x
      BY <1>6
    <3> QED BY <1>7, <2>2, <3>1
  <2> QED BY <2>1, <2>2
<1>10. WindowPlace'
  BY <1>1, <1>2, <1>6 DEF IInv, WindowPlace
<1>11. Copies'
  BY <1>1, <1>2 DEF IInv, Copies, TrueCopy, Apart, LastGrown
<1>12. PassedOver'
  BY <1>1, <1>2 DEF IInv, PassedOver, Covered
<1> QED BY <1>2, <1>8, <1>9, <1>10, <1>11, <1>12 DEF IInv

\* What is looked up is the seed at vc.
LEMMA SeedLooked ==
  ASSUME IInv, phase = "search", SeedRead
  PROVE  /\ vc + SeedLen <= Len(Window) /\ vc \in Nat
         /\ SeedChars(ads) = Bytes(Window, vc, SeedLen)
         /\ ads.s2 = SumOf(Bytes(Window, vc, SeedLen)) /\ ads.s2 \in Nat
<1>1. /\ Window \in Seq(Nat) /\ Len(Window) \in Nat
      /\ va \in 0..Len(Window) /\ vc \in 0..Len(Window) /\ ads \in TrueAds
  BY WindowFacts DEF IInv, Types
<1>2. va = vc + SeedLen /\ vc + SeedLen <= Len(Window) /\ vc \in Nat
  BY <1>1 DEF SeedRead
<1>3. ASSUME NEW x \in 1..SeedLen
      PROVE  SeedChars(ads)[x] = Window[vc + x]
  <2>1. va - SeedLen + x > vc /\ va - SeedLen + x = vc + x
    BY <1>2
  <2> QED BY <2>1 DEF IInv, CharsRead
<1> QED BY <1>1, <1>2, <1>3, SeedAt

\* NoMatch: the seed that is passed over is none the hash gives.
LEMMA NoMatchKeeps ==
  ASSUME IInv, NoMatch
  PROVE  IInv'
<1>1. /\ Types /\ Searching /\ SeedRead /\ ~ Agrees(Lookup(ads.s2))
      /\ vc' = vc + 1 /\ UNCHANGED <<phase, ads, va, vs, buff>>
  BY DEF IInv, NoMatch, Missed
<1>2. /\ phase = "search" /\ UNCHANGED <<case, sample_rate, gap, pos, todo, hash, asked, tried, emptied>>
      /\ UNCHANGED <<Reversed, OverRef, Lo, Hi, Window, File, BlockEnd>>
      /\ BlockPlace' /\ TriedBefore' /\ OffsetsFit' /\ Account'
      /\ \A p : NotGiven(Bytes(Window, p, SeedLen))' <=> NotGiven(Bytes(Window, p, SeedLen))
  BY <1>1, SearchingKeeps
<1>3. /\ vc + SeedLen <= Len(Window) /\ vc \in Nat /\ Len(Window) \in Nat
      /\ SeedChars(ads) = Bytes(Window, vc, SeedLen)
      /\ ads.s2 = SumOf(Bytes(Window, vc, SeedLen))
  BY <1>1, <1>2, SeedLooked, WindowFacts DEF Types
<1>4. va \in Nat /\ vs \in Nat /\ va = vc + SeedLen /\ vs <= vc
  BY <1>1, <1>2 DEF IInv, Types, WindowPlace, SeedRead
<1>5. Types'
  BY <1>1, <1>2, <1>3 DEF Types
<1>6. CharsRead'
  <2> SUFFICES ASSUME NEW x \in 1..SeedLen, va - SeedLen + x > vc + 1
               PROVE  SeedChars(ads)[x] = Window[va - SeedLen + x]
    BY <1>1, <1>2 DEF CharsRead
  <2>1. va - SeedLen + x > vc
    BY <1>3, <1>4
  <2> QED BY <1>2, <2>1 DEF IInv, CharsRead
<1>7. WindowPlace'
  BY <1>1, <1>2, <1>3, <1>4 DEF WindowPlace
<1>8. Copies'
  BY <1>1, <1>2 DEF IInv, Copies, TrueCopy, Apart, LastGrown
<1>9. PassedOver'
  <2>1. NotGiven(Bytes(Window, vc, SeedLen))
    BY <1>1, <1>3 DEF Agrees, NotGiven
  <2>2. ASSUME NEW p \in 0..(vc + 1 - 1)
        PROVE  \/ Covered(buff, Lo + p)
               \/ Len(Window) < p + SeedLen
               \/ NotGiven(Bytes(Window, p, SeedLen))
    <3>1. CASE p = vc
      BY <2>1, <3>1
    <3>2. CASE p # vc
      <4>1. p \in 0..(vc - 1)
        BY <1>3, <3>2
      <4> QED BY <1>2, <4>1 DEF IInv, PassedOver
    <3> QED BY <3>1, <3>2
  <2>3. \A p \in 0..(vc' - 1) :
          \/ Covered(buff, Lo + p)'
          \/ (Len(Window) < p + SeedLen)'
          \/ NotGiven(Bytes(Window, p, SeedLen))'
    <3> TAKE p \in 0..(vc' - 1)
    <3>1. \/ Covered(buff, Lo + p)
          \/ Len(Window) < p + SeedLen
          \/ NotGiven(Bytes(Window, p, SeedLen))
      <4>1. vc' = vc + 1 /\ vc \in Nat
        BY <1>1, <1>3
      <4>2. p \in 0..(vc + 1 - 1)
        BY <4>1
      <4> QED BY <2>2, <4>2
    <3>2. Covered(buff, Lo + p)' <=> Covered(buff, Lo + p)
      BY <1>1, <1>2 DEF Covered
    <3>3. NotGiven(Bytes(Window, p, SeedLen))' <=> NotGiven(Bytes(Window, p, SeedLen))
      BY <1>2
    <3>4. Window' = Window
      BY <1>2
    <3> HIDE <1>1, <1>2
    <3> QED BY <3>1, <3>2, <3>3, <3>4
  <2> QED BY <2>3 DEF PassedOver
<1> QED BY <1>2, <1>5, <1>6, <1>7, <1>8, <1>9 DEF IInv

\* SearchEnds: the next window, or the end.
LEMMA SearchEndsKeeps ==
  ASSUME IInv, SearchEnds
  PROVE  IInv'
<1>1. /\ Types /\ phase = "search" /\ ~ SeedRead /\ From = Len(Window)
      /\ UNCHANGED <<case, sample_rate, hash, asked, tried, emptied>>
  BY DEF IInv, SearchEnds, inputs, ghost
<1>2. UNCHANGED Reversed
  BY <1>1 DEF Reversed
<1>3. CASE gap < Len(case.gaps) /\ gap' = gap + 1 /\ StartSearch /\ UNCHANGED phase
  <2>1. gap' \in DOMAIN case.gaps
    BY <1>1, <1>3, CaseFacts DEF Types
  <2>2. /\ ads' = NewSeed /\ va' = 0 /\ vs' = 0 /\ vc' = 0 /\ buff' = << >>
        /\ pos' = 0 /\ todo' = 0
    BY <1>3 DEF StartSearch
  <2>3. Types'
    <3>1. << >> \in Seq(Matches)
      OBVIOUS
    <3>2. Len(Window') \in Nat
      BY <1>1, <2>1, WindowLen DEF Window, Lo, Hi, Types
    <3> QED BY <1>1, <1>2, <1>3, <2>1, <2>2, <3>1, <3>2, NewSeedTrue DEF Types
  <2>4. BlockPlace' /\ CharsRead' /\ WindowPlace' /\ Copies' /\ PassedOver' /\ TriedBefore'
    BY <1>1, <1>3, SearchBegun
  <2>5. OffsetsFit' /\ Account'
    BY <1>1, <1>2, <1>3 DEF IInv, OffsetsFit, Account
  <2> QED BY <2>3, <2>4, <2>5 DEF IInv
<1>4. CASE phase' = "done" /\ UNCHANGED <<gap, ads, block, search>>
  <2>1. UNCHANGED <<gap, ads, pos, todo, va, vs, vc, buff>>
    BY <1>4 DEF block, search
  <2>2. UNCHANGED <<Lo, Hi, Window>>
    BY <1>1, <2>1 DEF Lo, Hi, Window
  <2>3. Types'
    BY <1>1, <1>2, <1>4, <2>1, <2>2 DEF Types
  <2>4. BlockPlace' /\ CharsRead' /\ TriedBefore'
    BY <1>1, <1>4, <2>1 DEF IInv, BlockPlace, CharsRead, TriedBefore
  <2>5. WindowPlace'
    BY <1>1, <1>4, <2>1, <2>2 DEF IInv, WindowPlace, SeedRead, From
  <2>6. Copies'
    BY <1>1, <1>4, <2>1, <2>2 DEF IInv, Copies, TrueCopy, Apart, LastGrown
  <2>7. PassedOver'
    BY <1>1, <1>4, <2>1, <2>2 DEF IInv, PassedOver, Covered, NotGiven, Lookup
  <2>8. OffsetsFit' /\ Account'
    BY <1>1, <1>2, <1>4 DEF IInv, OffsetsFit, Account
  <2> QED BY <2>3, <2>4, <2>5, <2>6, <2>7, <2>8 DEF IInv
<1> QED BY <1>3, <1>4 DEF SearchEnds

\* What Back and Forward find, and that Forward goes on as long as the files agree.
LEMMA BackAgrees ==
  ASSUME Types, NEW o \in Nat, o <= Len(case.ref)
  PROVE  /\ Back(o) \in Nat /\ Back(o) <= vc /\ Back(o) <= o
         /\ \A x \in 1..Back(o) : Window[vc - Back(o) + x] = case.ref[o - Back(o) + x]
<1> DEFINE T == {k \in 0..Min({vc, o}) : Bytes(Window, vc - k, k) = Bytes(case.ref, o - k, k)}
           b == Back(o)
<1>1. /\ Window \in Seq(Nat) /\ case.ref \in Seq(Nat) /\ Len(Window) \in Nat /\ Len(case.ref) \in Nat
      /\ vc \in Nat /\ vc <= Len(Window)
  BY WindowFacts, CaseFacts DEF Types
<1>2. Min({vc, o}) = IF vc <= o THEN vc ELSE o
  BY <1>1, MinOfTwo
<1>3. T \in SUBSET Nat /\ \A k \in T : k <= Min({vc, o})
  BY <1>1, <1>2
<1>4. 0 \in T
  <2>1. vc - 0 = vc /\ o - 0 = o /\ 0 \in Nat
    BY <1>1
  <2>2. Bytes(Window, vc, 0) = Bytes(case.ref, o, 0)
    <3>1. Agree(Window, vc, case.ref, o, 0)
      BY DEF Agree
    <3> QED BY <1>1, <3>1, SameBytes
  <2> QED BY <1>1, <1>2, <2>1, <2>2
<1>5. b = Max(T)
  BY DEF Back
<1>6. Min({vc, o}) \in Nat
  BY <1>1, <1>2
<1>7. b \in T
  <2> HIDE DEF T, b
  <2> QED BY <1>3, <1>4, <1>5, <1>6, MaxIsGreatest
<1>8. /\ b \in Nat /\ b <= vc /\ b <= o
      /\ Bytes(Window, vc - b, b) = Bytes(case.ref, o - b, b)
  BY <1>1, <1>2, <1>7
<1> HIDE DEF b
<1>9. /\ vc - b \in Nat /\ o - b \in Nat /\ (vc - b) + b <= Len(Window) /\ (o - b) + b <= Len(case.ref)
  BY <1>1, <1>8
<1>10. \A x \in 1..b : Window[(vc - b) + x] = case.ref[(o - b) + x]
  <2> DEFINE w == vc - b
             s == o - b
  <2>1. /\ w \in Nat /\ s \in Nat /\ w + b <= Len(Window) /\ s + b <= Len(case.ref)
        /\ Bytes(Window, w, b) = Bytes(case.ref, s, b)
    BY <1>8, <1>9
  <2> HIDE DEF w, s
  <2>2. Agree(Window, w, case.ref, s, b)
    BY <1>1, <1>8, <2>1, SameBytes
  <2> QED BY <2>2 DEF Agree, w, s
<1> QED BY <1>8, <1>10 DEF b

\* Forward (diff-algs.c, lines 163 to 213): as far as both files go and agree, and no further.
LEMMA ForwardAgrees ==
  ASSUME Types, NEW v \in Nat, v <= Len(Window), NEW r \in Nat, r <= Len(case.ref)
  PROVE  /\ Forward(v, r) \in Nat
         /\ v + Forward(v, r) <= Len(Window) /\ r + Forward(v, r) <= Len(case.ref)
         /\ \A x \in 1..Forward(v, r) : Window[v + x] = case.ref[r + x]
         /\ v + Forward(v, r) < Len(Window) /\ r + Forward(v, r) < Len(case.ref) =>
              Window[v + Forward(v, r) + 1] # case.ref[r + Forward(v, r) + 1]
<1> DEFINE m == Min({Len(Window) - v, Len(case.ref) - r})
           T == {k \in 0..m : Bytes(Window, v, k) = Bytes(case.ref, r, k)}
           f == Forward(v, r)
<1>1. /\ Window \in Seq(Nat) /\ case.ref \in Seq(Nat) /\ Len(Window) \in Nat /\ Len(case.ref) \in Nat
  BY WindowFacts, CaseFacts DEF Types
<1>2. /\ m \in Nat /\ m = IF Len(Window) - v <= Len(case.ref) - r THEN Len(Window) - v
                                                                 ELSE Len(case.ref) - r
  <2>1. Len(Window) - v \in Nat /\ Len(case.ref) - r \in Nat
    BY <1>1
  <2> QED BY <2>1, MinOfTwo
<1>3. f = Max(T)
  BY DEF Forward
<1> HIDE DEF m, f
<1>4. T \in SUBSET Nat /\ \A k \in T : k <= m
  BY <1>2
<1>5. \A k \in 0..m : v + k <= Len(Window) /\ r + k <= Len(case.ref) /\ k \in Nat
  BY <1>1, <1>2
<1>6. \A k \in 0..m : k \in T <=> Agree(Window, v, case.ref, r, k)
  <2> SUFFICES ASSUME NEW k \in 0..m
               PROVE  Bytes(Window, v, k) = Bytes(case.ref, r, k) <=> Agree(Window, v, case.ref, r, k)
    OBVIOUS
  <2>1. k \in Nat /\ v + k <= Len(Window) /\ r + k <= Len(case.ref)
    BY <1>5
  <2> QED BY <1>1, <2>1, SameBytes
<1> HIDE DEF T
<1>7. 0 \in T
  BY <1>2, <1>6 DEF Agree
<1>8. f \in T /\ \A k \in T : k <= f
  BY <1>2, <1>3, <1>4, <1>7, MaxIsGreatest
<1>9. f \in 0..m /\ f \in Nat
  <2>1. f \in Nat /\ f <= m
    BY <1>4, <1>8
  <2> QED BY <1>2, <2>1
<1>10. \A x \in 1..f : Window[v + x] = case.ref[r + x]
  BY <1>6, <1>8, <1>9 DEF Agree
<1>11. ASSUME v + f < Len(Window), r + f < Len(case.ref), Window[v + f + 1] = case.ref[r + f + 1]
       PROVE  FALSE
  <2>1. f + 1 \in 0..m
    <3> DEFINE a == Len(Window)
               c == Len(case.ref)
    <3>1. /\ a \in Nat /\ c \in Nat /\ m \in Nat /\ f \in Nat
          /\ m = IF a - v <= c - r THEN a - v ELSE c - r
          /\ v + f < a /\ r + f < c
      BY <1>1, <1>2, <1>9, <1>11
    <3> HIDE DEF a, c
    <3> QED BY <3>1
  <2>2. ASSUME NEW x \in 1..(f + 1)
        PROVE  Window[v + x] = case.ref[r + x]
    <3>1. CASE x = f + 1
      <4>1. v + x = v + f + 1 /\ r + x = r + f + 1
        BY <1>9, <3>1
      <4> QED BY <1>11, <4>1
    <3>2. CASE x # f + 1
      <4>1. x \in 1..f
        BY <1>9, <3>2
      <4> QED BY <1>10, <4>1
    <3> QED BY <3>1, <3>2
  <2>3. f + 1 \in T
    BY <1>6, <2>1, <2>2 DEF Agree
  <2>4. f + 1 <= f
    BY <1>8, <2>3
  <2> QED BY <1>9, <2>4
<1>12. v + f <= Len(Window) /\ r + f <= Len(case.ref)
  BY <1>5, <1>9
<1> QED BY <1>9, <1>10, <1>11, <1>12 DEF f

\* What is left of a list of matches before end: it is apart, copies what it
\* copied, and leaves no byte before end uncovered that was covered.
KeptUpTo(list, end, t) ==
  /\ t \in Seq(Matches) /\ \A i \in 1..Len(t) : TrueCopy(t[i], end)
  /\ Apart(t)
  /\ \A v \in Nat : v < end /\ Covered(list, v) => Covered(t, v)

\* DCB_llm_truncate
LEMMA TruncatedKeeps ==
  ASSUME Types, NEW list \in Seq(Matches), NEW last, \A i \in 1..Len(list) : TrueCopy(list[i], last),
         Apart(list), NEW end \in Nat
  PROVE  KeptUpTo(list, end, Truncated(list, end))
<1> DEFINE n == Len(list)
           I == {i \in DOMAIN list : list[i].ver_pos < end}
           kept == Max({0} \cup I)
           short(i) == [list[i] EXCEPT !.len = Min({@, end - list[i].ver_pos})]
           t == [i \in 1..kept |-> short(i)]
<1>1. /\ n \in Nat /\ DOMAIN list = 1..n
      /\ \A i \in 1..n : /\ list[i] \in Matches /\ list[i].len > 0
                         /\ list[i].src_pos \in Nat /\ list[i].ver_pos \in Nat /\ list[i].len \in Nat
  <2>1. \A i \in 1..n : list[i] \in Matches
    OBVIOUS
  <2> QED BY <2>1 DEF Matches, TrueCopy
<1>2. /\ kept \in {0} \cup I /\ kept \in Nat /\ \A i \in {0} \cup I : i <= kept
  <2>1. {0} \cup I \in SUBSET Nat /\ {0} \cup I # {} /\ \A i \in {0} \cup I : i <= n
    BY <1>1
  <2> HIDE DEF I, n
  <2> QED BY <1>1, <2>1, MaxIsGreatest
<1>3. t = Truncated(list, end)
  BY DEF Truncated
<1> HIDE DEF kept
<1>4. kept <= n
  BY <1>1, <1>2
<1>5. ASSUME NEW i \in 1..kept
      PROVE  i \in 1..n /\ list[i].ver_pos < end
  <2>1. i \in 1..n /\ kept \in 1..n /\ list[kept].ver_pos < end
    BY <1>1, <1>2, <1>4
  <2>2. CASE i = kept
    BY <2>1, <2>2
  <2>3. CASE i < kept
    <3>1. list[i].ver_pos + list[i].len <= list[kept].ver_pos
      BY <2>1, <2>3 DEF Apart
    <3> QED BY <1>1, <2>1, <3>1
  <2> QED BY <1>2, <2>2, <2>3
<1>6. ASSUME NEW i \in 1..kept
      PROVE  /\ short(i) \in Matches /\ short(i).src_pos = list[i].src_pos
             /\ short(i).ver_pos = list[i].ver_pos
             /\ short(i).len > 0 /\ short(i).len <= list[i].len /\ short(i).len \in Nat
             /\ short(i).ver_pos + short(i).len <= end
             /\ short(i).len = list[i].len \/ short(i).ver_pos + short(i).len = end
  <2> DEFINE m == list[i]
             l == Min({m.len, end - m.ver_pos})
  <2>1. /\ m \in Matches /\ m.ver_pos < end /\ m.len > 0 /\ m.ver_pos \in Nat /\ m.len \in Nat
    BY <1>1, <1>5
  <2>2. end - m.ver_pos \in Nat
    BY <2>1
  <2>3. l = IF m.len <= end - m.ver_pos THEN m.len ELSE end - m.ver_pos
    BY <2>1, <2>2, MinOfTwo
  <2>4. short(i) = [m EXCEPT !.len = l]
    OBVIOUS
  <2> HIDE DEF m, l, short
  <2>5. l \in Nat /\ l > 0 /\ l <= m.len /\ m.ver_pos + l <= end /\ (l = m.len \/ m.ver_pos + l = end)
    BY <2>1, <2>2, <2>3
  <2>6. /\ short(i) \in Matches /\ short(i).src_pos = m.src_pos
        /\ short(i).ver_pos = m.ver_pos /\ short(i).len = l
    BY <2>1, <2>4, <2>5 DEF Matches
  <2> QED BY <2>5, <2>6 DEF m
<1> HIDE DEF short
<1>7. t \in Seq(Matches) /\ Len(t) = kept
  <2>1. \A i \in 1..kept : short(i) \in Matches
    BY <1>6
  <2> QED BY <1>2, <2>1
<1>8. \A i \in 1..kept : t[i] = short(i)
  OBVIOUS
<1> HIDE DEF t
<1>9. ASSUME NEW i \in 1..Len(t)
      PROVE  TrueCopy(t[i], end)
  <2>1. i \in 1..kept /\ i \in 1..n /\ t[i] = short(i)
    BY <1>5, <1>7, <1>8
  <2>2. TrueCopy(list[i], last)
    BY <2>1
  <2>3. /\ t[i].src_pos = list[i].src_pos /\ t[i].ver_pos = list[i].ver_pos
        /\ t[i].len > 0 /\ t[i].len <= list[i].len /\ t[i].len \in Nat
        /\ t[i].ver_pos + t[i].len <= end
    BY <1>6, <2>1
  <2>4. list[i].len \in Nat /\ list[i].src_pos \in Nat /\ Len(case.ref) \in Nat
    BY <1>1, <2>1, CaseFacts DEF Types
  <2>5. t[i].src_pos + t[i].len <= Len(case.ref)
    BY <2>2, <2>3, <2>4 DEF TrueCopy
  <2>6. \A k \in 1..t[i].len : k \in 1..list[i].len
    BY <2>3, <2>4
  <2> QED BY <2>2, <2>3, <2>5, <2>6 DEF TrueCopy
<1>10. Apart(t)
  <2> SUFFICES ASSUME NEW i \in 1..kept, NEW j \in 1..kept, i < j
               PROVE  t[i].ver_pos + t[i].len <= t[j].ver_pos
    BY <1>7 DEF Apart
  <2>1. list[i].ver_pos + list[i].len <= list[j].ver_pos
    BY <1>5 DEF Apart
  <2>2. /\ t[i].ver_pos = list[i].ver_pos /\ t[i].len <= list[i].len /\ t[i].len \in Nat
        /\ t[j].ver_pos = list[j].ver_pos
    BY <1>6, <1>8
  <2>3. /\ list[i].ver_pos \in Nat /\ list[i].len \in Nat /\ list[j].ver_pos \in Nat
    BY <1>1, <1>5
  <2> QED BY <2>1, <2>2, <2>3
<1>11. ASSUME NEW v \in Nat, v < end, Covered(list, v)
       PROVE  Covered(t, v)
  <2>1. PICK i \in 1..n : list[i].ver_pos <= v /\ v < list[i].ver_pos + list[i].len
    BY <1>11 DEF Covered
  <2>2. list[i].ver_pos < end
    BY <1>1, <1>11, <2>1
  <2>3. i \in 1..kept
    <3>1. i \in I
      BY <1>1, <2>2
    <3>2. i <= kept
      BY <1>2, <3>1
    <3> QED BY <1>2, <3>2
  <2>4. /\ t[i].ver_pos = list[i].ver_pos
        /\ t[i].len = list[i].len \/ t[i].ver_pos + t[i].len = end
    BY <1>6, <1>8, <2>3
  <2>5. t[i].ver_pos <= v /\ v < t[i].ver_pos + t[i].len
    BY <1>11, <2>1, <2>4
  <2> QED BY <1>7, <2>3, <2>5 DEF Covered
<1>12. KeptUpTo(list, end, t)
  BY <1>7, <1>9, <1>10, <1>11 DEF KeptUpTo
<1> QED BY <1>3, <1>12

\* What a new match takes over leaves the old ones.
LEMMA LeftOver ==
  ASSUME IInv, phase = "search", NEW v \in Nat
  PROVE  KeptUpTo(buff, Lo + v, IF vs <= v THEN buff ELSE Truncated(buff, Lo + v))
<1>1. /\ Types /\ buff \in Seq(Matches) /\ vs \in Nat /\ Lo \in Nat
      /\ \A i \in 1..Len(buff) : TrueCopy(buff[i], Lo + vs)
      /\ Apart(buff)
  BY WindowFacts DEF IInv, Types, Copies
<1>2. CASE vs <= v
  <2>1. ASSUME NEW i \in 1..Len(buff)
        PROVE  TrueCopy(buff[i], Lo + v)
    <3>1. TrueCopy(buff[i], Lo + vs) /\ buff[i] \in Matches
      BY <1>1
    <3>2. buff[i].ver_pos + buff[i].len \in Nat
      BY <3>1 DEF Matches
    <3>3. buff[i].ver_pos + buff[i].len <= Lo + v
      BY <1>1, <1>2, <3>1, <3>2 DEF TrueCopy
    <3> QED BY <3>1, <3>3 DEF TrueCopy
  <2> QED BY <1>1, <1>2, <2>1 DEF KeptUpTo
<1>3. CASE ~ (vs <= v)
  <2>1. Lo + v \in Nat
    BY <1>1
  <2>2. KeptUpTo(buff, Lo + v, Truncated(buff, Lo + v))
    BY <1>1, <2>1, TruncatedKeeps
  <2> QED BY <1>3, <2>2
<1> QED BY <1>2, <1>3

\* u is what is left of the list, and m.
Extended(list, m, end, u) ==
  /\ u \in Seq(Matches) /\ \A i \in 1..Len(u) : TrueCopy(u[i], end)
  /\ Apart(u) /\ u # << >> /\ u[Len(u)] = m
  /\ \A v \in Nat : v < end /\ (Covered(list, v) \/ m.ver_pos <= v) => Covered(u, v)

\* A match goes behind what is left.
LEMMA MatchAdded ==
  ASSUME NEW list, NEW m \in Matches, NEW t, KeptUpTo(list, m.ver_pos, t), TrueCopy(m, m.ver_pos + m.len)
  PROVE  Extended(list, m, m.ver_pos + m.len, Append(t, m))
<1> DEFINE n == Len(t)
           end == m.ver_pos + m.len
           u == Append(t, m)
<1>1. /\ t \in Seq(Matches) /\ n \in Nat /\ m.ver_pos \in Nat /\ m.len \in Nat /\ m.len > 0
      /\ \A i \in 1..n : TrueCopy(t[i], m.ver_pos) /\ t[i] \in Matches
  <2>1. t \in Seq(Matches) /\ \A i \in 1..n : TrueCopy(t[i], m.ver_pos)
    BY DEF KeptUpTo
  <2>2. m.ver_pos \in Nat /\ m.len \in Nat
    BY DEF Matches
  <2>3. m.len > 0
    BY DEF TrueCopy
  <2>4. n \in Nat /\ \A i \in 1..n : t[i] \in Matches
    BY <2>1
  <2> QED BY <2>1, <2>2, <2>3, <2>4
<1>2. /\ u \in Seq(Matches) /\ Len(u) = n + 1 /\ u[n + 1] = m
      /\ \A i \in 1..n : u[i] = t[i]
  BY <1>1
<1> HIDE DEF n, u
<1>3. ASSUME NEW i \in 1..Len(u)
      PROVE  TrueCopy(u[i], end)
  <2>1. CASE i = n + 1
    BY <1>2, <2>1
  <2>2. CASE i # n + 1
    <3>1. i \in 1..n /\ u[i] = t[i]
      BY <1>1, <1>2, <2>2
    <3> DEFINE e == t[i]
    <3>2. TrueCopy(e, m.ver_pos) /\ e \in Matches
      BY <1>1, <3>1
    <3> HIDE DEF e
    <3>3. e.ver_pos \in Nat /\ e.len \in Nat
      BY <3>2 DEF Matches
    <3>4. e.ver_pos + e.len <= m.ver_pos
      BY <3>2 DEF TrueCopy
    <3>5. e.ver_pos + e.len <= end
      BY <1>1, <3>3, <3>4
    <3>6. TrueCopy(e, end)
      BY <3>2, <3>5 DEF TrueCopy
    <3> QED BY <3>1, <3>6 DEF e
  <2> QED BY <2>1, <2>2
<1>4. Apart(u)
  <2> SUFFICES ASSUME NEW i \in 1..(n + 1), NEW j \in 1..(n + 1), i < j
               PROVE  u[i].ver_pos + u[i].len <= u[j].ver_pos
    BY <1>2 DEF Apart
  <2>1. i \in 1..n /\ u[i] = t[i]
    BY <1>1, <1>2
  <2>2. CASE j = n + 1
    <3>1. TrueCopy(t[i], m.ver_pos)
      BY <1>1, <2>1
    <3> QED BY <1>2, <2>1, <2>2, <3>1 DEF TrueCopy
  <2>3. CASE j # n + 1
    <3>1. j \in 1..n /\ u[j] = t[j]
      BY <1>1, <1>2, <2>3
    <3>2. Apart(t)
      BY DEF KeptUpTo
    <3> QED BY <2>1, <3>1, <3>2 DEF Apart, n
  <2> QED BY <2>2, <2>3
<1>5. ASSUME NEW v \in Nat, v < end, Covered(list, v) \/ m.ver_pos <= v
      PROVE  Covered(u, v)
  <2>1. CASE m.ver_pos <= v
    <3>1. n + 1 \in 1..Len(u) /\ u[n + 1].ver_pos <= v /\ v < u[n + 1].ver_pos + u[n + 1].len
      BY <1>1, <1>2, <1>5, <2>1
    <3> QED BY <3>1 DEF Covered
  <2>2. CASE ~ (m.ver_pos <= v)
    <3>1. Covered(t, v)
      BY <1>1, <1>5, <2>2 DEF KeptUpTo
    <3>2. PICK i \in 1..n : t[i].ver_pos <= v /\ v < t[i].ver_pos + t[i].len
      BY <3>1 DEF Covered, n
    <3>3. i \in 1..Len(u) /\ u[i] = t[i]
      BY <1>1, <1>2
    <3> QED BY <3>2, <3>3 DEF Covered
  <2> QED BY <2>1, <2>2
<1>6. u # << >> /\ u[Len(u)] = m
  <2>1. Len(u) # 0
    BY <1>1, <1>2
  <2> QED BY <1>2, <2>1
<1>7. Extended(list, m, end, u)
  BY <1>2, <1>3, <1>4, <1>5, <1>6 DEF Extended
<1> QED BY <1>7 DEF u

\* The match a seed grows to is a copy, as long as it can be.
Grows(o, b, f) ==
  /\ o \in Nat /\ b \in Nat /\ f \in Nat /\ b <= vc /\ b <= o
  /\ vc + SeedLen + f <= Len(Window) /\ o + SeedLen + f <= Len(case.ref)
  /\ \A k \in 1..(b + SeedLen + f) : Window[vc - b + k] = case.ref[o - b + k]
  /\ vc + SeedLen + f < Len(Window) /\ o + SeedLen + f < Len(case.ref) =>
       Window[vc + SeedLen + f + 1] # case.ref[o + SeedLen + f + 1]

\* What the hash gives for a seed with the bytes of the seed grows to a match.
LEMMA MatchGrows ==
  ASSUME IInv, phase = "search", SeedRead, NEW o, o = Lookup(ads.s2), Agrees(o)
  PROVE  Grows(o, Back(o), Forward(vc + SeedLen, o + SeedLen))
<1>1. /\ Types /\ case \in Cases /\ SortedHash(hash)
      /\ Window \in Seq(Nat) /\ case.ref \in Seq(Nat) /\ Len(Window) \in Nat /\ Len(case.ref) \in Nat
  BY WindowFacts, CaseFacts DEF IInv, Types
<1>2. /\ vc + SeedLen <= Len(Window) /\ vc \in Nat
      /\ SeedChars(ads) = Bytes(Window, vc, SeedLen) /\ ads.s2 \in Nat
  BY SeedLooked
<1>3. o \in Nat /\ o # 0 /\ Bytes(case.ref, o, SeedLen) = SeedChars(ads)
  BY <1>1, <1>2, Looked DEF Agrees
<1>4. o + SeedLen <= Len(case.ref)
  <2>1. Holds(hash[Index(ads.s2)], Key(ads.s2), o)
    BY <1>1, <1>2, <1>3, Looked
  <2>2. Index(ads.s2) \in 0..(Buckets - 1) /\ Key(ads.s2) \in Nat
    BY <1>2, PlaceOfSum
  <2> QED BY <1>3, <2>1, <2>2 DEF IInv, OffsetsFit, Fit
<1>5. \A x \in 1..SeedLen : Window[vc + x] = case.ref[o + x]
  <2>1. Bytes(Window, vc, SeedLen) = Bytes(case.ref, o, SeedLen)
    BY <1>2, <1>3
  <2>2. Agree(Window, vc, case.ref, o, SeedLen)
    BY <1>1, <1>2, <1>3, <1>4, <2>1, SameBytes
  <2> QED BY <2>2 DEF Agree
<1> DEFINE b == Back(o)
           v == vc + SeedLen
           r == o + SeedLen
           f == Forward(v, r)
<1>6. /\ b \in Nat /\ b <= vc /\ b <= o
      /\ \A x \in 1..b : Window[vc - b + x] = case.ref[o - b + x]
  BY <1>1, <1>3, <1>4, BackAgrees
<1>7. v \in Nat /\ v <= Len(Window) /\ r \in Nat /\ r <= Len(case.ref)
  BY <1>2, <1>3, <1>4
<1> HIDE DEF v, r, b
<1>8. /\ f \in Nat /\ v + f <= Len(Window) /\ r + f <= Len(case.ref)
      /\ \A x \in 1..f : Window[v + x] = case.ref[r + x]
      /\ v + f < Len(Window) /\ r + f < Len(case.ref) => Window[v + f + 1] # case.ref[r + f + 1]
  BY <1>1, <1>7, ForwardAgrees
<1> HIDE DEF f
<1>9. ASSUME NEW k \in 1..(b + SeedLen + f)
      PROVE  Window[vc - b + k] = case.ref[o - b + k]
  <2>1. CASE k <= b
    BY <1>6, <2>1
  <2>2. CASE k > b /\ k <= b + SeedLen
    <3>1. k - b \in 1..SeedLen /\ vc + (k - b) = vc - b + k /\ o + (k - b) = o - b + k
      BY <1>2, <1>3, <1>6, <2>2
    <3> QED BY <1>5, <3>1
  <2>3. CASE k > b + SeedLen
    <3>1. /\ k - b - SeedLen \in 1..f
          /\ v + (k - b - SeedLen) = vc - b + k /\ r + (k - b - SeedLen) = o - b + k
      <4>1. vc \in Nat /\ o \in Nat /\ b \in Nat /\ f \in Nat
        BY <1>2, <1>3, <1>6, <1>8
      <4>2. k - b - SeedLen \in 1..f
        BY <2>3, <4>1
      <4>3. v + (k - b - SeedLen) = vc - b + k
        BY <4>1 DEF v
      <4>4. r + (k - b - SeedLen) = o - b + k
        BY <4>1 DEF r
      <4> QED BY <4>2, <4>3, <4>4
    <3> QED BY <1>8, <3>1
  <2> QED BY <1>6, <1>8, <2>1, <2>2, <2>3
<1>10. Grows(o, b, f)
  BY <1>2, <1>3, <1>6, <1>8, <1>9 DEF Grows, v, r
<1> QED BY <1>10 DEF b, f, v, r

\* What Match makes of the window: the match it grew is behind what it left.
LEMMA MatchMade ==
  ASSUME IInv, Match
  PROVE  \E o, b, f, m :
           /\ Grows(o, b, f)
           /\ m = [src_pos |-> o - b, ver_pos |-> Lo + (vc - b), len |-> b + SeedLen + f]
           /\ Extended(buff, m, Lo + (vc + SeedLen + f), buff')
           /\ vs' = vc + SeedLen + f /\ vc' = vc + SeedLen + f /\ va = vc + SeedLen
<1> DEFINE o == Lookup(ads.s2)
           b == Back(o)
           vm == vc - b
           rm == o - b
           len == vc + SeedLen - vm
           all == len + Forward(vm + len, rm + len)
           f == Forward(vc + SeedLen, o + SeedLen)
           m == [src_pos |-> o - b, ver_pos |-> Lo + (vc - b), len |-> b + SeedLen + f]
           t == IF vs <= vm THEN buff ELSE Truncated(buff, Lo + vm)
<1>1. /\ phase = "search" /\ SeedRead /\ Agrees(o)
      /\ buff' = Append(t, [src_pos |-> rm, ver_pos |-> Lo + vm, len |-> all])
      /\ vs' = vm + all /\ vc' = vm + all
  BY DEF Match, Searching
<1>2. Grows(o, b, f)
  BY <1>1, MatchGrows
<1>3. /\ o \in Nat /\ b \in Nat /\ f \in Nat /\ vc \in Nat /\ b <= vc /\ b <= o
  <2>1. vc \in Nat
    BY WindowFacts DEF IInv, Types
  <2> QED BY <1>2, <2>1 DEF Grows
<1>4. /\ case \in Cases /\ Types /\ Lo \in Nat /\ Window \in Seq(Nat) /\ Len(Window) \in Nat
      /\ Len(case.ref) \in Nat
      /\ \A x \in 1..Len(Window) : Window[x] = case.ver[Lo + x]
  BY WindowFacts, CaseFacts DEF IInv, Types
<1> HIDE DEF o, b
<1>5. vm + len = vc + SeedLen /\ rm + len = o + SeedLen
  BY <1>3
<1>6. all = len + f
  BY <1>5
<1> HIDE DEF f
<1>7. all = b + SeedLen + f /\ vm + all = vc + SeedLen + f
  BY <1>3, <1>6
<1> HIDE DEF all, len
<1>8. m = [src_pos |-> rm, ver_pos |-> Lo + vm, len |-> all]
  BY <1>7
<1>9. vm \in Nat /\ rm \in Nat
  BY <1>3
<1>10. /\ m.src_pos = rm /\ m.ver_pos = Lo + vm /\ m.len = all
       /\ all \in Nat /\ all > 0 /\ m \in Matches
  <2>1. all \in Nat /\ all > 0
    BY <1>3, <1>7
  <2>2. Lo + vm \in Nat
    BY <1>4, <1>9
  <2> HIDE DEF m, vm, rm
  <2> QED BY <1>8, <1>9, <2>1, <2>2 DEF Matches
<1>11. KeptUpTo(buff, m.ver_pos, t)
  BY <1>1, <1>9, <1>10, LeftOver
<1> HIDE DEF m, t
<1>12. /\ rm + all <= Len(case.ref) /\ vm + all <= Len(Window)
       /\ \A k \in 1..all : Window[vm + k] = case.ref[rm + k]
  <2>1. rm + all = o + SeedLen + f
    BY <1>3, <1>7
  <2> QED BY <1>2, <1>7, <2>1 DEF Grows
<1>13. m.ver_pos + m.len = Lo + (vm + all)
  BY <1>4, <1>9, <1>10
<1> HIDE DEF vm, rm
<1>14. TrueCopy(m, m.ver_pos + m.len)
  <2>1. ASSUME NEW k \in 1..m.len
        PROVE  case.ver[m.ver_pos + k] = case.ref[m.src_pos + k]
    <3>1. vm + k \in 1..Len(Window) /\ Lo + (vm + k) = m.ver_pos + k
      BY <1>4, <1>9, <1>10, <1>12
    <3>2. Window[vm + k] = case.ver[m.ver_pos + k]
      BY <1>4, <3>1
    <3> QED BY <1>10, <1>12, <3>2
  <2>2. Lo <= m.ver_pos /\ m.len > 0 /\ m.ver_pos + m.len <= m.ver_pos + m.len
    BY <1>4, <1>9, <1>10
  <2>3. m.src_pos + m.len <= Len(case.ref)
    BY <1>10, <1>12
  <2> QED BY <2>1, <2>2, <2>3 DEF TrueCopy
<1>15. Extended(buff, m, m.ver_pos + m.len, Append(t, m))
  BY <1>10, <1>11, <1>14, MatchAdded
<1>16. Extended(buff, m, Lo + (vc + SeedLen + f), buff')
  <2>1. buff' = Append(t, m)
    BY <1>1, <1>8
  <2>2. m.ver_pos + m.len = Lo + (vc + SeedLen + f)
    BY <1>7, <1>13
  <2> QED BY <1>15, <2>1, <2>2
<1>17. va = vc + SeedLen
  BY <1>1 DEF SeedRead
<1> QED BY <1>1, <1>2, <1>7, <1>16, <1>17 DEF m

\* Match: no byte before the new end is uncovered that was covered, and all
\* from the seed on are covered.
LEMMA MatchKeeps ==
  ASSUME IInv, Match
  PROVE  IInv'
<1>1. Types /\ Searching /\ UNCHANGED <<phase, ads, va>>
  BY DEF IInv, Match
<1>2. /\ phase = "search" /\ UNCHANGED <<case, sample_rate, gap, pos, todo, hash, asked, tried, emptied>>
      /\ UNCHANGED <<Reversed, OverRef, Lo, Hi, Window, File, BlockEnd>>
      /\ BlockPlace' /\ TriedBefore' /\ OffsetsFit' /\ Account'
      /\ \A p : NotGiven(Bytes(Window, p, SeedLen))' <=> NotGiven(Bytes(Window, p, SeedLen))
  BY <1>1, SearchingKeeps
<1>3. PICK o, b, f, m :
        /\ Grows(o, b, f)
        /\ m = [src_pos |-> o - b, ver_pos |-> Lo + (vc - b), len |-> b + SeedLen + f]
        /\ Extended(buff, m, Lo + (vc + SeedLen + f), buff')
        /\ vs' = vc + SeedLen + f /\ vc' = vc + SeedLen + f /\ va = vc + SeedLen
  BY MatchMade
<1>4. /\ Lo \in Nat /\ Window \in Seq(Nat) /\ Len(Window) \in Nat
      /\ va \in 0..Len(Window) /\ vc \in Nat /\ ads \in TrueAds
  BY <1>1, WindowFacts DEF Types
<1>5. /\ o \in Nat /\ b \in Nat /\ f \in Nat /\ b <= vc /\ b <= o
      /\ vc + SeedLen + f <= Len(Window) /\ o + SeedLen + f <= Len(case.ref)
  BY <1>3 DEF Grows
<1> DEFINE e == vc + SeedLen + f
<1>6. e \in 0..Len(Window) /\ e \in Nat /\ va <= e /\ vs' = e /\ vc' = e
  BY <1>3, <1>4, <1>5
<1>7. /\ buff' \in Seq(Matches) /\ \A i \in 1..Len(buff') : TrueCopy(buff'[i], Lo + e)
      /\ Apart(buff') /\ buff' # << >> /\ buff'[Len(buff')] = m
      /\ \A v \in Nat : v < Lo + e /\ (Covered(buff, v) \/ m.ver_pos <= v) => Covered(buff', v)
  BY <1>3 DEF Extended
<1>8. /\ m.ver_pos = Lo + (vc - b) /\ m.ver_pos <= Lo + vc /\ m.ver_pos \in Nat
      /\ m.ver_pos + m.len = Lo + e /\ m.src_pos + m.len = o + SeedLen + f
  <2>1. m.src_pos = o - b /\ m.ver_pos = Lo + (vc - b) /\ m.len = b + SeedLen + f
    BY <1>3
  <2> QED BY <1>4, <1>5, <2>1
<1>9. e < Len(Window) /\ o + SeedLen + f < Len(case.ref) =>
        Window[e + 1] # case.ref[o + SeedLen + f + 1]
  BY <1>3 DEF Grows
<1> HIDE DEF e
<1>10. Types'
  BY <1>1, <1>2, <1>6, <1>7 DEF Types
<1>11. CharsRead'
  <2> SUFFICES ASSUME NEW x \in 1..SeedLen, va - SeedLen + x > e
               PROVE  FALSE
    BY <1>1, <1>2, <1>6 DEF CharsRead
  <2> QED BY <1>4, <1>6
<1>12. WindowPlace'
  BY <1>1, <1>2, <1>4, <1>6 DEF WindowPlace
<1>13. Copies'
  <2>1. ASSUME NEW i \in 1..Len(buff')
        PROVE  TrueCopy(buff[i], Lo + vs)'
    <3>1. TrueCopy(buff'[i], Lo + e)
      BY <1>7
    <3> QED BY <1>2, <1>6, <3>1 DEF TrueCopy
  <2>2. Apart(buff)'
    BY <1>7 DEF Apart
  <2>3. LastGrown(buff[Len(buff)])'
    BY <1>2, <1>6, <1>7, <1>8, <1>9 DEF LastGrown
  <2> QED BY <2>1, <2>2, <2>3 DEF Copies
<1>14. PassedOver'
  <2>1. ASSUME NEW p \in 0..(vc' - 1)
        PROVE  \/ Covered(buff, Lo + p)'
               \/ (Len(Window) < p + SeedLen)'
               \/ NotGiven(Bytes(Window, p, SeedLen))'
    <3>1. p \in Nat /\ p < e /\ Lo + p \in Nat /\ Lo + p < Lo + e
      BY <1>4, <1>6
    <3>2. Covered(buff', Lo + p) => Covered(buff, Lo + p)'
      BY <1>2 DEF Covered
    <3>3. CASE p < vc
      <4>1. p \in 0..(vc - 1)
        BY <1>4, <3>1, <3>3
      <4>2. \/ Covered(buff, Lo + p)
            \/ Len(Window) < p + SeedLen
            \/ NotGiven(Bytes(Window, p, SeedLen))
        BY <1>2, <4>1 DEF IInv, PassedOver
      <4>3. Covered(buff, Lo + p) => Covered(buff', Lo + p)
        BY <1>7, <3>1
      <4>4. NotGiven(Bytes(Window, p, SeedLen))' <=> NotGiven(Bytes(Window, p, SeedLen))
        BY <1>2
      <4>5. Window' = Window
        BY <1>2
      <4> QED BY <3>2, <4>2, <4>3, <4>4, <4>5
    <3>4. CASE ~ (p < vc)
      <4>1. m.ver_pos <= Lo + p
        BY <1>4, <1>8, <3>1, <3>4
      <4> QED BY <1>7, <3>1, <3>2, <4>1
    <3> QED BY <3>3, <3>4
  <2> QED BY <2>1 DEF PassedOver
<1> QED BY <1>2, <1>10, <1>11, <1>12, <1>13, <1>14 DEF IInv

-----------------------------------------------------------------------------
(* The invariant *)

\* An empty hash is sorted and has nothing.
LEMMA EmptyHolds ==
  /\ SortedHash(EmptyHash) /\ NoOffsets(EmptyHash)
  /\ \A i \in 0..(Buckets - 1) : \A q, o : ~ Holds(EmptyHash[i], q, o)
<1>1. /\ EmptyBucket \in BucketType /\ Len(EmptyBucket.chksum) = 0 /\ Len(EmptyBucket.offset) = 0
  BY DEF EmptyBucket, BucketType
<1>2. EmptyHash \in HashType /\ \A i \in 0..(Buckets - 1) : EmptyHash[i] = EmptyBucket
  BY <1>1 DEF EmptyHash, HashType
<1>3. Sorted(EmptyBucket)
  BY <1>1 DEF Sorted, Ordered
<1>4. \A q, o : ~ Holds(EmptyBucket, q, o)
  BY <1>1 DEF Holds
<1>5. SortedHash(EmptyHash)
  BY <1>2, <1>3 DEF SortedHash
<1>6. NoOffsets(EmptyHash)
  BY <1>1, <1>2 DEF NoOffsets
<1> QED BY <1>2, <1>4, <1>5, <1>6

\* In the beginning nothing is hashed.
LEMMA InitHolds == Init => IInv
<1> SUFFICES ASSUME Init
             PROVE  IInv
  OBVIOUS
<1>1. /\ case \in Cases /\ sample_rate \in SampleRates
      /\ phase = "insert" /\ gap = 1
      /\ ads = NewSeed /\ pos = (IF case.kind = "rbucket" THEN case.gaps[1][1] ELSE 0) /\ todo = SeedLen
      /\ hash = EmptyHash
      /\ va = 0 /\ vs = 0 /\ vc = 0 /\ buff = << >>
      /\ asked = {} /\ tried = {} /\ emptied = {}
  BY DEF Init
<1>2. /\ case.ref \in Seq(Nat) /\ case.ver \in Seq(Nat)
      /\ Len(case.gaps) \in Nat \ {0} /\ DOMAIN case.gaps = 1..Len(case.gaps)
      /\ case.gaps[1][1] \in Nat /\ case.gaps[1][2] \in Nat
      /\ case.gaps[1][2] <= Len(case.ver)
      /\ Reversed => case.gaps[1][1] + SeedLen <= case.gaps[1][2]
  BY <1>1, CaseFacts
<1>3. gap \in DOMAIN case.gaps
  BY <1>1, <1>2
<1>4. Len(Window) \in Nat
  BY <1>1, <1>3, WindowFacts
<1>5. << >> \in Seq(Matches)
  OBVIOUS
<1>6. SortedHash(hash)
  BY <1>1, EmptyHolds
<1>7. pos \in Nat
  BY <1>1, <1>2
<1>8. Types
  BY <1>1, <1>3, <1>4, <1>5, <1>6, <1>7, NewSeedTrue DEF Types
<1>9. BlockPlace
  <2>1. CASE Reversed
    <3>1. /\ File = case.ver /\ BlockEnd = case.gaps[1][2] /\ pos = case.gaps[1][1]
      BY <1>1, <2>1 DEF Reversed, OverRef, File, BlockEnd, Hi
    <3>2. Len(case.ver) \in Nat
      BY <1>2
    <3>3. pos <= Len(File) /\ SeedLen <= pos + todo /\ pos + todo <= BlockEnd
      <4> DEFINE a == case.gaps[1][1]
                 c == case.gaps[1][2]
                 n == Len(case.ver)
      <4>1. a \in Nat /\ c \in Nat /\ n \in Nat /\ a + SeedLen <= c /\ c <= n
        BY <1>2, <2>1, <3>2
      <4>2. pos = a /\ todo = SeedLen /\ BlockEnd = c /\ Len(File) = n
        BY <1>1, <3>1
      <4> HIDE DEF a, c, n
      <4> QED BY <4>1, <4>2
    <3> QED BY <1>1, <3>3 DEF BlockPlace
  <2>2. CASE ~ Reversed
    <3>1. /\ OverRef /\ File = case.ref /\ BlockEnd = Len(case.ref) /\ pos = 0
      BY <1>1, <2>2 DEF Reversed, OverRef, File, BlockEnd
    <3> QED BY <1>1, <1>2, <3>1 DEF BlockPlace
  <2> QED BY <2>1, <2>2
<1>10. CharsRead
  BY <1>1 DEF CharsRead
<1>11. WindowPlace /\ Copies /\ TriedBefore /\ PassedOver
  BY <1>1 DEF WindowPlace, Copies, TriedBefore, PassedOver
<1>12. OffsetsFit
  BY <1>1, EmptyHolds DEF OffsetsFit, Fit
<1>13. Account
  <2>1. RefAccount(case, hash, tried, emptied)
    <3>1. \A p : Hits(case, {}, p) = {}
      BY DEF Hits
    <3>2. \A p \in Places : p[1] \in 0..(Buckets - 1)
      BY DEF Places
    <3> QED BY <1>1, <3>1, <3>2, EmptyHolds DEF RefAccount
  <2>2. GapAccount(hash, asked, emptied)
    BY <1>1, EmptyHolds DEF GapAccount
  <2> QED BY <1>1, <2>1, <2>2 DEF Account
<1> QED BY <1>8, <1>9, <1>10, <1>11, <1>12, <1>13 DEF IInv

\* A step that changes nothing.
LEMMA StutterKeeps ==
  ASSUME IInv, UNCHANGED vars
  PROVE  IInv'
<1>1. UNCHANGED <<case, sample_rate, phase, gap, ads, pos, todo, hash, va, vs, vc, buff,
                  asked, tried, emptied>>
  BY DEF vars, inputs, block, search, ghost
<1>2. UNCHANGED <<Reversed, OverRef, Lo, Hi, Window, File, BlockEnd>>
  BY <1>1, SameCase
<1>3. Types' /\ BlockPlace' /\ CharsRead' /\ TriedBefore'
  BY <1>1, <1>2 DEF IInv, Types, BlockPlace, CharsRead, TriedBefore
<1>4. WindowPlace'
  BY <1>1, <1>2 DEF IInv, WindowPlace, SeedRead, From
<1>5. Copies'
  BY <1>1, <1>2 DEF IInv, Copies, TrueCopy, Apart, LastGrown
<1>6. OffsetsFit' /\ Account'
  BY <1>1, <1>2 DEF IInv, OffsetsFit, Account
<1>7. PassedOver'
  BY <1>1, <1>2 DEF IInv, PassedOver, Covered, NotGiven, Lookup
<1> QED BY <1>3, <1>4, <1>5, <1>6, <1>7 DEF IInv

\* Every step keeps the invariant.
LEMMA StepKeeps ==
  ASSUME IInv, [Next]_vars
  PROVE  IInv'
<1>1. CASE ReadBlock
  BY <1>1, ReadBlockKeeps
<1>2. CASE TooShort
  BY <1>2, TooShortKeeps
<1>3. CASE NoPage
  BY <1>3, NoPageKeeps
<1>4. CASE Insert
  BY <1>4, InsertKeeps
<1>5. CASE ReadWindow
  BY <1>5, ReadWindowKeeps
<1>6. CASE NoMatch
  BY <1>6, NoMatchKeeps
<1>7. CASE Match
  BY <1>7, MatchKeeps
<1>8. CASE SearchEnds
  BY <1>8, SearchEndsKeeps
<1>9. CASE Stay
  BY <1>9, StutterKeeps DEF Stay
<1>10. CASE UNCHANGED vars
  BY <1>10, StutterKeeps
<1> QED BY <1>1, <1>2, <1>3, <1>4, <1>5, <1>6, <1>7, <1>8, <1>9, <1>10 DEF Next

\* In all that is reached, for all files, rates and sizes: the account of the
\* hash, the place of the seed and of the matches, and what was passed over
\* (internal_loop_block, OneHalfPassCorrecting).
THEOREM Invariance == Spec => []IInv
<1>1. Init => IInv
  BY InitHolds
<1>2. IInv /\ [Next]_vars => IInv'
  BY StepKeeps
<1> QED BY <1>1, <1>2, PTL DEF Spec

-----------------------------------------------------------------------------
(* What follows from it *)

\* The types that TLC checks.
LEMMA TypesImplied ==
  ASSUME IInv
  PROVE  TypeOK
<1>1. Types /\ BlockPlace
  BY DEF IInv
<1>2. phase \in {"insert", "walk", "search", "done", "failed"} /\ gap \in DOMAIN case.gaps
  BY <1>1 DEF Types
<1>3. todo \in 0..SeedLen /\ {va, vs, vc} \subseteq 0..Len(Window) /\ pos \in Nat
  BY <1>1 DEF Types
<1>4. ads.tail \in 0..(SeedLen - 1) /\ {ads.s1, ads.s2} \subseteq Nat
  BY <1>1 DEF Types, TrueAds, AdsType
<1>5. pos \in 0..Len(File)
  <2>1. Len(case.ref) \in Nat /\ Len(case.ver) \in Nat /\ File \in {case.ref, case.ver}
    BY <1>1, CaseFacts DEF Types, File
  <2>2. CASE phase \in {"insert", "walk"}
    <3>1. pos <= Len(File)
      BY <1>1, <2>2 DEF BlockPlace
    <3> QED BY <1>3, <2>1, <3>1
  <2>3. CASE phase = "failed"
    <3>1. pos < SeedLen /\ pos <= Len(case.ref)
      BY <1>1, <2>3 DEF BlockPlace
    <3>2. CASE OverRef
      BY <1>3, <2>1, <3>1, <3>2 DEF File
    <3>3. CASE ~ OverRef
      <4>1. Reversed /\ File = case.ver
        BY <3>3 DEF OverRef, File
      <4>2. Lo \in Nat /\ Hi \in Nat /\ Lo + SeedLen <= Hi /\ Hi <= Len(case.ver)
        BY <1>1, <4>1, WindowFacts DEF Types
      <4> QED BY <1>3, <2>1, <3>1, <4>1, <4>2
    <3> QED BY <3>2, <3>3
  <2>4. CASE phase \in {"search", "done"}
    <3>1. pos = 0
      BY <1>1, <2>4 DEF BlockPlace
    <3> QED BY <2>1, <3>1
  <2> QED BY <1>2, <2>2, <2>3, <2>4
<1>6. ASSUME NEW i \in DOMAIN hash
      PROVE  /\ Len(hash[i].offset) = Len(hash[i].chksum) /\ Len(hash[i].chksum) < DepthWrap
             /\ \A k \in 2..Len(hash[i].chksum) : hash[i].chksum[k - 1] < hash[i].chksum[k]
  <2>1. Sorted(hash[i]) /\ hash[i] \in BucketType
    BY <1>1 DEF Types, SortedHash, HashType
  <2>2. Len(hash[i].chksum) \in Nat
    BY <2>1 DEF BucketType
  <2>3. \A k \in 2..Len(hash[i].chksum) :
          k - 1 \in 1..Len(hash[i].chksum) /\ k \in 1..Len(hash[i].chksum) /\ k - 1 < k
    BY <2>2
  <2> QED BY <2>1, <2>3 DEF Sorted, Ordered
<1> QED BY <1>2, <1>3, <1>4, <1>5, <1>6 DEF TypeOK

\* Types are kept; buckets stay sorted, as the binary search of hash.c needs.
THEOREM TypeCorrect == Spec => []TypeOK
<1>1. IInv => TypeOK
  BY TypesImplied
<1> QED BY <1>1, Invariance, PTL

\* What is hashed or looked up is the checksum of its place, however the seed got
\* there (update_adler32_seed).
THEOREM SeedsAreTrue == Spec => []SeedOfPlace
<1>1. IInv => SeedOfPlace
  <2> SUFFICES ASSUME IInv
               PROVE  SeedOfPlace
    OBVIOUS
  <2>1. CASE phase = "search"
    <3>1. SeedRead => /\ SeedChars(ads) = Bytes(Window, vc, SeedLen)
                      /\ ads.s2 = SumOf(Bytes(Window, vc, SeedLen))
      BY <2>1, SeedLooked
    <3> QED BY <2>1, <3>1 DEF SeedOfPlace
  <2>2. CASE phase # "search"
    <3>1. phase \in {"insert", "walk"} /\ todo = 0 =>
            /\ SeedChars(ads) = Bytes(File, pos - SeedLen, SeedLen)
            /\ ads.s2 = SumOf(Bytes(File, pos - SeedLen, SeedLen))
      BY SeedHanded
    <3> QED BY <2>2, <3>1 DEF SeedOfPlace
  <2> QED BY <2>1, <2>2
<1> QED BY <1>1, Invariance, PTL

\* The matches that are found are copies, apart and in the window, and go on as
\* long as they can (OneHalfPassCorrecting).
THEOREM CopiesAreTrue == Spec => []CopiesTrue
<1>1. ASSUME IInv
      PROVE  CopiesTrue
  <2> SUFFICES ASSUME phase = "search"
               PROVE  /\ \A i \in DOMAIN buff :
                           /\ buff[i].len > 0 /\ buff[i].ver_pos >= Lo
                           /\ buff[i].ver_pos + buff[i].len <= Lo + vs
                           /\ Bytes(case.ver, buff[i].ver_pos, buff[i].len)
                                = Bytes(case.ref, buff[i].src_pos, buff[i].len)
                           /\ i > 1 => buff[i - 1].ver_pos + buff[i - 1].len <= buff[i].ver_pos
                      /\ buff # << >> =>
                           LET m == Last(buff)
                           IN  /\ m.ver_pos + m.len = Lo + vs
                               /\ Forward(vs, m.src_pos + m.len) = 0
    BY DEF CopiesTrue
  <2>1. /\ Types /\ buff \in Seq(Matches) /\ DOMAIN buff = 1..Len(buff) /\ Len(buff) \in Nat
        /\ vs \in Nat /\ vs <= Len(Window)
        /\ Lo \in Nat /\ Len(Window) \in Nat /\ Lo + Len(Window) <= Len(case.ver)
        /\ case.ref \in Seq(Nat) /\ case.ver \in Seq(Nat)
    <3>1. /\ Types /\ buff \in Seq(Matches) /\ DOMAIN buff = 1..Len(buff) /\ Len(buff) \in Nat
          /\ vs \in 0..Len(Window)
      BY <1>1 DEF IInv, Types
    <3>2. /\ Lo \in Nat /\ Hi \in Nat /\ Len(Window) \in Nat /\ Len(Window) = Hi - Lo
          /\ Hi <= Len(case.ver)
      BY <3>1, WindowFacts DEF Types
    <3>3. case.ref \in Seq(Nat) /\ case.ver \in Seq(Nat)
      BY <3>1, CaseFacts DEF Types
    <3> QED BY <3>1, <3>2, <3>3
  <2>2. /\ \A i \in 1..Len(buff) : TrueCopy(buff[i], Lo + vs) /\ buff[i] \in Matches
        /\ Apart(buff)
        /\ buff # << >> => LastGrown(buff[Len(buff)])
    BY <1>1, <2>1 DEF IInv, Copies
  <2>3. ASSUME NEW i \in DOMAIN buff
        PROVE  /\ buff[i].len > 0 /\ buff[i].ver_pos >= Lo
               /\ buff[i].ver_pos + buff[i].len <= Lo + vs
               /\ Bytes(case.ver, buff[i].ver_pos, buff[i].len)
                    = Bytes(case.ref, buff[i].src_pos, buff[i].len)
               /\ i > 1 => buff[i - 1].ver_pos + buff[i - 1].len <= buff[i].ver_pos
    <3> DEFINE v == buff[i].ver_pos
               r == buff[i].src_pos
               n == buff[i].len
    <3>1. /\ v \in Nat /\ r \in Nat /\ n \in Nat /\ i \in 1..Len(buff)
      BY <2>1, <2>2 DEF Matches
    <3>2. /\ n > 0 /\ Lo <= v /\ v + n <= Lo + vs /\ r + n <= Len(case.ref)
          /\ \A k \in 1..n : case.ver[v + k] = case.ref[r + k]
      BY <2>2, <3>1 DEF TrueCopy
    <3>3. i > 1 => buff[i - 1].ver_pos + buff[i - 1].len <= v
      <4>1. i > 1 => i - 1 \in 1..Len(buff) /\ i - 1 < i
        BY <2>1, <3>1
      <4> QED BY <2>2, <3>1, <4>1 DEF Apart
    <3> HIDE DEF v, r, n
    <3>4. v + n <= Len(case.ver)
      BY <2>1, <3>1, <3>2
    <3>5. Agree(case.ver, v, case.ref, r, n)
      BY <3>2 DEF Agree
    <3>6. Bytes(case.ver, v, n) = Bytes(case.ref, r, n)
      <4>1. r + n <= Len(case.ref) /\ case.ref \in Seq(Nat) /\ case.ver \in Seq(Nat)
        BY <2>1, <3>2
      <4>2. v \in Nat /\ r \in Nat /\ n \in Nat
        BY <3>1
      <4> DEFINE f == case.ver
                 g == case.ref
      <4>3. /\ f \in Seq(Nat) /\ g \in Seq(Nat) /\ v + n <= Len(f) /\ r + n <= Len(g)
            /\ Agree(f, v, g, r, n)
        BY <3>4, <3>5, <4>1
      <4> HIDE DEF f, g
      <4>4. Bytes(f, v, n) = Bytes(g, r, n)
        BY ONLY <4>2, <4>3, SameBytes
      <4> QED BY <4>4 DEF f, g
    <3>7. n > 0 /\ v >= Lo /\ v + n <= Lo + vs
      BY <2>1, <3>1, <3>2
    <3> QED BY <3>3, <3>6, <3>7 DEF v, r, n
  <2>4. ASSUME buff # << >>
        PROVE  /\ Last(buff).ver_pos + Last(buff).len = Lo + vs
               /\ Forward(vs, Last(buff).src_pos + Last(buff).len) = 0
    <3> DEFINE m == buff[Len(buff)]
               r == m.src_pos + m.len
    <3>1. Last(buff) = m
      BY DEF Last
    <3>2. Len(buff) \in 1..Len(buff)
      BY <2>1, <2>4
    <3>3. m \in Matches /\ TrueCopy(m, Lo + vs) /\ LastGrown(m)
      BY <2>2, <2>4, <3>2
    <3>4. r \in Nat /\ r <= Len(case.ref)
      BY <3>3 DEF Matches, TrueCopy
    <3>5. /\ m.ver_pos + m.len = Lo + vs
          /\ vs < Len(Window) /\ r < Len(case.ref) => Window[vs + 1] # case.ref[r + 1]
      BY <3>3 DEF LastGrown
    <3> HIDE DEF r
    <3> DEFINE f == Forward(vs, r)
    <3>6. /\ f \in Nat /\ vs + f <= Len(Window) /\ r + f <= Len(case.ref)
          /\ \A x \in 1..f : Window[vs + x] = case.ref[r + x]
      BY <2>1, <3>4, ForwardAgrees
    <3> HIDE DEF f
    <3>7. f = 0
      <4> SUFFICES ASSUME f # 0
                   PROVE  FALSE
        OBVIOUS
      <4>1. 1 \in 1..f
        BY <3>6
      <4>2. Window[vs + 1] = case.ref[r + 1]
        BY <3>6, <4>1
      <4>3. Len(case.ref) \in Nat
        BY <2>1
      <4>4. vs < Len(Window) /\ r < Len(case.ref)
        BY <2>1, <3>4, <3>6, <4>1, <4>3
      <4> QED BY <3>5, <4>2, <4>4
    <3> QED BY <3>1, <3>5, <3>7 DEF f, r
  <2> QED BY <2>3, <2>4
<1> QED BY <1>1, Invariance, PTL

\* A place that is left at the end of a window is covered, or the hash gives
\* nothing for it.
LEMMA LeftOpen ==
  ASSUME IInv, phase = "done" \/ (phase = "search" /\ ~ SeedRead /\ From = Len(Window)),
         NEW p \in 0..(Len(Window) - SeedLen)
  PROVE  Covered(buff, Lo + p) \/ NotGiven(Bytes(Window, p, SeedLen))
<1>1. /\ phase \in {"search", "done"} /\ ~ SeedRead /\ From = Len(Window)
      /\ va <= vc + SeedLen /\ PassedOver
  BY DEF IInv, WindowPlace
<1>2. va \in 0..Len(Window) /\ vc \in 0..Len(Window) /\ Len(Window) \in Nat
  BY WindowFacts DEF IInv, Types
<1>3. From = IF va <= vc THEN vc ELSE va
  <2>1. va \in Nat /\ vc \in Nat
    BY <1>2
  <2>2. Max({va, vc}) = IF va <= vc THEN vc ELSE va
    BY <2>1, MaxOfTwo
  <2> QED BY <2>2 DEF From
<1>4. p \in 0..(vc - 1) /\ p + SeedLen <= Len(Window)
  <2>1. va # vc + SeedLen
    BY <1>1 DEF SeedRead
  <2> QED BY <1>1, <1>2, <1>3, <2>1
<1>5. ~ (Len(Window) < p + SeedLen)
  BY <1>2, <1>4
<1> QED BY <1>1, <1>4, <1>5 DEF PassedOver

\* Nothing is missed that the hash could have given: of the bytes that no match
\* covers, no seed is found where the hash would have had to give it
\* (OneHalfPassCorrecting with the hash of init_RefHash, RHash_insert_block).
THEOREM NothingMissed == Spec => []FindsHashed
<1>1. ASSUME IInv
      PROVE  FindsHashed
  <2> SUFFICES ASSUME phase = "done" \/ (phase = "search" /\ ~ SeedRead /\ From = Len(Window)),
                      NEW p \in 0..(Len(Window) - SeedLen)
               PROVE  LET seed == Bytes(Window, p, SeedLen)
                          same == {o \in tried : Place(Bytes(case.ref, o, SeedLen)) = Place(seed)}
                          hits == IF Reversed THEN same \ {0} ELSE same
                      IN  \/ \E m \in ToSet(buff) : m.ver_pos <= Lo + p /\ Lo + p < m.ver_pos + m.len
                          \/ hits = {}
                          \/ Min(hits) = 0
                          \/ Bytes(case.ref, Min(hits), SeedLen) # seed
                          \/ Place(seed)[1] \in emptied
                          \/ Reversed /\ Place(seed) \notin asked
    BY DEF FindsHashed
  <2> DEFINE seed == Bytes(Window, p, SeedLen)
             same == {o \in tried : Place(Bytes(case.ref, o, SeedLen)) = Place(seed)}
             hits == IF Reversed THEN same \ {0} ELSE same
             q == Place(seed)
             x == Min(hits)
  <2>1. /\ Types /\ SortedHash(hash) /\ tried \in SUBSET Nat /\ buff \in Seq(Matches)
        /\ phase \in {"search", "done"}
        /\ Known(case, hash, asked, tried, emptied)
    BY <1>1 DEF IInv, Types, Account
  <2>2. Covered(buff, Lo + p) =>
          \E m \in ToSet(buff) : m.ver_pos <= Lo + p /\ Lo + p < m.ver_pos + m.len
    <3>1. \A i \in 1..Len(buff) : buff[i] \in ToSet(buff)
      BY <2>1 DEF ToSet
    <3> QED BY <3>1 DEF Covered
  <2>3. hits = Hits(case, tried, q)
    BY DEF Hits, Reversed
  <2>4. seed \in Seq(Nat) /\ Len(seed) = SeedLen
    <3>1. Window \in Seq(Nat) /\ Len(Window) \in Nat
      BY <2>1, WindowFacts DEF Types
    <3>2. p \in Nat /\ p + SeedLen <= Len(Window)
      BY <3>1
    <3> QED BY <3>1, <3>2, BytesAt
  <2>5. SumOf(seed) \in Nat /\ q \in Places /\ q = <<Index(SumOf(seed)), Key(SumOf(seed))>>
    BY <2>4, SumOfSeed DEF Place
  <2>6. Covered(buff, Lo + p) \/ NotGiven(seed)
    BY <1>1, LeftOpen
  <2>7. hits # {} => x \in Nat
    BY <2>1, <2>3, HitsAre
  <2> HIDE DEF hits, q, seed
  <2>8. ASSUME hits # {}, x # 0, q[1] \notin emptied, ~ (Reversed /\ q \notin asked)
        PROVE  Lookup(SumOf(seed)) = x
    <3>1. Holds(hash[q[1]], q[2], x)
      BY <2>1, <2>3, <2>5, <2>8 DEF Known, Reversed
    <3>2. Holds(hash[Index(SumOf(seed))], Key(SumOf(seed)), x)
      BY <2>5, <3>1
    <3> QED BY <2>1, <2>5, <2>7, <2>8, <3>2, Looked
  <2>9. \/ Covered(buff, Lo + p)
        \/ hits = {}
        \/ x = 0
        \/ Bytes(case.ref, x, SeedLen) # seed
        \/ q[1] \in emptied
        \/ Reversed /\ q \notin asked
    BY <2>6, <2>8 DEF NotGiven
  <2> QED BY <2>2, <2>9 DEF hits, q, seed
<1> QED BY <1>1, Invariance, PTL

=============================================================================
