------------------------------- MODULE Differ -------------------------------
(***************************************************************************)
(* The search for matches: the rolling checksum (libdiffball/adler32.c),   *)
(* the hash of checksums (hash.c) and the search of a window with it       *)
(* (OneHalfPassCorrecting and one turn of MultiPassAlg, diff-algs.c).      *)
(* MatchList takes what is found here as a choice.                         *)
(*                                                                         *)
(* With a bucket hash the reference file is hashed; with a reverse one the *)
(* gaps of the version are, and a walk over the reference file gives what  *)
(* it finds there its offset.  An offset of 0 stands for none.  Bytes are  *)
(* read in pieces, as pages end where they do.                             *)
(***************************************************************************)
EXTENDS Integers, Sequences, SequencesExt, FiniteSetsExt

CONSTANTS
  Cases,       \* what there is to search: [kind, ref, ver, gaps]
  SampleRates,
  SeedLen,
  Multi,       \* 181 in adler32.c
  Buckets,     \* the indices of a hash and the checksums a bucket can hold:
  Keys,        \*   both 65536 in hash.c
  DepthWrap    \* the values of a bucket's depth: 256 in hash.c

ASSUME SeedAssumption == SeedLen \in Nat \ {0} /\ Multi \in Nat
ASSUME SampleAssumption == SampleRates \subseteq Nat \ {0}
ASSUME HashAssumption == Buckets \in Nat \ {0} /\ Keys \in Nat \ {0} /\ DepthWrap \in Nat \ {0}

\* The bucket hash is for a version of which nothing is found yet, or the part of
\* it that is a file of an archive; later gaps have at least the bytes of a seed.
ASSUME CaseAssumption ==
  \A c \in Cases :
    /\ c.kind \in {"bucket", "rbucket"} /\ {c.ref, c.ver} \subseteq Seq(Nat)
    /\ c.gaps \in Seq(Nat \X Nat) \ {<<>>}
    /\ c.kind = "bucket" => c.gaps = <<<<0, Len(c.ver)>>>>
    /\ \A i \in DOMAIN c.gaps :
         /\ c.gaps[i][1] <= c.gaps[i][2] /\ c.gaps[i][2] <= Len(c.ver)
         /\ c.kind = "rbucket" => c.gaps[i][1] + SeedLen <= c.gaps[i][2]

VARIABLES
  case, sample_rate,
  phase,       \* insert, walk (internal_loop_block), search, done, failed
  gap,         \* the gap that is hashed or searched
  ads,         \* ADLER32_SEED_CTX
  pos, todo,   \* in a block: where it is read, how much is to be read
  hash,        \* each bucket: its checksums, in order, and their offsets
  va, vs, vc,  \* in a window: read so far, encoded so far, where the seed starts
  buff,        \* the matches of the window
  asked, tried,\* of the gaps, the places in the hash; of the reference, the offsets
               \*   that were handed to it
  emptied      \* buckets whose depth went back to 0

inputs == <<case, sample_rate>>
block  == <<pos, todo>>
search == <<va, vs, vc, buff>>
ghost  == <<asked, tried, emptied>>
vars   == <<inputs, phase, gap, ads, block, hash, search, ghost>>

Reversed == case.kind = "rbucket"
Lo == case.gaps[gap][1]
Hi == case.gaps[gap][2]
\* The n bytes of a file from o on, and the window the search is given.
Bytes(file, o, n) == SubSeq(file, o + 1, o + n)
Window == Bytes(case.ver, Lo, Hi - Lo)

---------------------------------------------------------------------------
(* The rolling checksum. *)

\* MISTAKE: the weight the first byte has of its own.
LastMultiAlone == Multi^(SeedLen - 1)

\* 1 + Multi + ... + Multi^(SeedLen - 1): what the first byte of a seed weighs.
LastMulti ==
  LET multi[x \in 0..(SeedLen - 1)] == IF x = 0 THEN 1 ELSE multi[x - 1] * Multi + 1
  IN  multi[SeedLen - 1]

NewSeed == [s1 |-> 0, s2 |-> 0, tail |-> 0, chars |-> [x \in 0..(SeedLen - 1) |-> 0]]

Roll(a, b) ==
  LET old == a.chars[a.tail]
      s   == a.s1 - old + b
  IN  [s1 |-> s, s2 |-> (a.s2 - LastMulti * old) * Multi + s,
       tail |-> (a.tail + 1) % SeedLen, chars |-> [a.chars EXCEPT ![a.tail] = b]]

Afresh(bytes) ==
  LET s1[x \in 0..Len(bytes)] == IF x = 0 THEN 0 ELSE s1[x - 1] + bytes[x]
      s2[x \in 0..Len(bytes)] == IF x = 0 THEN 0 ELSE s2[x - 1] * Multi + s1[x]
  IN  [s1 |-> s1[Len(bytes)], s2 |-> s2[Len(bytes)], tail |-> 0,
       chars |-> [x \in 0..(SeedLen - 1) |-> bytes[x + 1]]]

Rolled(a, bytes) ==
  LET after[x \in 0..Len(bytes)] == IF x = 0 THEN a ELSE Roll(after[x - 1], bytes[x])
  IN  after[Len(bytes)]

Update(a, bytes) == IF Len(bytes) = SeedLen THEN Afresh(bytes) ELSE Rolled(a, bytes)

\* The bytes of the seed, the oldest first.
SeedChars(a) == [x \in 1..SeedLen |-> a.chars[(a.tail + x - 1) % SeedLen]]

---------------------------------------------------------------------------
(* The hash. *)

Index(chksum) == chksum % Buckets
Key(chksum)   == (chksum \div Buckets) % Keys

EmptyBucket == [chksum |-> <<>>, offset |-> <<>>]
EmptyHash   == [i \in 0..(Buckets - 1) |-> EmptyBucket]

\* RH_bucket_find_chksum, RH_bucket_find_chksum_insert_pos; 0 for none.
Find(bucket, key) == SelectInSeq(bucket.chksum, LAMBDA k : k = key)

\* MISTAKE: behind all others.
InsertLast(bucket, key) == Len(bucket.chksum) + 1

InsertPos(bucket, key) ==
  Min({k \in DOMAIN bucket.chksum : bucket.chksum[k] > key} \cup {Len(bucket.chksum) + 1})

Lookup(chksum) ==
  LET b == hash[Index(chksum)]
      i == Find(b, Key(chksum))
  IN  IF i = 0 THEN 0 ELSE b.offset[i]

Unchanged(h) == [hash |-> h, ok |-> FALSE, emptied |-> {}]

\* The first offset of a checksum stays.  depth is an unsigned char, which
\* max_depth (1024) does not bound: it comes back to 0.
HashInsert(h, chksum, offset) ==
  LET i   == Index(chksum)
      at  == InsertPos(h[i], Key(chksum))
      new == [chksum |-> InsertAt(h[i].chksum, at, Key(chksum)),
              offset |-> IF Reversed THEN Append(h[i].offset, 0)
                                    ELSE InsertAt(h[i].offset, at, offset)]
      full == Len(new.chksum) % DepthWrap = 0
  IN  IF Find(h[i], Key(chksum)) # 0 THEN Unchanged(h)
      ELSE [hash |-> [h EXCEPT ![i] = IF full THEN EmptyBucket ELSE new],
            ok |-> TRUE, emptied |-> IF full THEN {i} ELSE {}]

InsertMatch(h, chksum, offset) ==
  LET i == Index(chksum)
      k == Find(h[i], Key(chksum))
  IN  IF k = 0 THEN Unchanged(h)
      ELSE IF h[i].offset[k] # 0 THEN Unchanged(h)
      ELSE [hash |-> [h EXCEPT ![i].offset[k] = offset], ok |-> TRUE, emptied |-> {}]

\* What got no offset goes.
CleanBucket(bucket) ==
  LET kept[k \in 0..Len(bucket.chksum)] ==
        IF k = 0 THEN EmptyBucket
        ELSE IF bucket.offset[k] = 0 THEN kept[k - 1]
        ELSE [chksum |-> Append(kept[k - 1].chksum, bucket.chksum[k]),
              offset |-> Append(kept[k - 1].offset, bucket.offset[k])]
  IN  kept[Len(bucket.chksum)]

Cleansed(h) == [i \in DOMAIN h |-> CleanBucket(h[i])]

---------------------------------------------------------------------------
(* internal_loop_block: over the reference file, or a gap of the version. *)

OverRef   == phase = "walk" \/ ~ Reversed
File      == IF OverRef THEN case.ref ELSE case.ver
BlockEnd  == IF OverRef THEN Len(case.ref) ELSE Hi

\* What follows an insert: some bytes are skipped, some read.
Skip(ok) == IF ok /\ sample_rate > SeedLen THEN sample_rate - SeedLen ELSE 0
Step(ok) == IF ok /\ sample_rate > 1 THEN Min({sample_rate, SeedLen}) ELSE 1

StartBlock(o) == ads' = NewSeed /\ pos' = o /\ todo' = SeedLen

StartSearch ==
  /\ ads' = NewSeed /\ va' = 0 /\ vs' = 0 /\ vc' = 0 /\ buff' = <<>>
  /\ pos' = 0 /\ todo' = 0

Init ==
  /\ case \in Cases /\ sample_rate \in SampleRates
  /\ phase = "insert" /\ gap = 1
  /\ ads = NewSeed /\ pos = (IF case.kind = "rbucket" THEN case.gaps[1][1] ELSE 0) /\ todo = SeedLen
  /\ hash = EmptyHash
  /\ va = 0 /\ vs = 0 /\ vc = 0 /\ buff = <<>>
  /\ asked = {} /\ tried = {} /\ emptied = {}

\* The next bytes of the page the block is at.
ReadBlock ==
  /\ phase \in {"insert", "walk"}
  /\ \E n \in 1..todo :
       /\ pos + n <= Len(File)
       /\ ads' = Update(ads, Bytes(File, pos, n))
       /\ pos' = pos + n /\ todo' = todo - n
  /\ UNCHANGED <<inputs, phase, gap, hash, search, ghost>>

\* A reference file shorter than a seed: EOF_ERROR ends MultiPassAlg.
TooShort ==
  /\ phase \in {"insert", "walk"} /\ case.ref # <<>>
  /\ todo > 0 /\ pos = Len(File)
  /\ phase' = "failed"
  /\ UNCHANGED <<inputs, gap, ads, block, hash, search, ghost>>

\* A block is through: the next gap, the walk over the reference, or the search.
EndBlock(h) ==
  \/ /\ phase = "insert" /\ Reversed /\ gap < Len(case.gaps)
     /\ gap' = gap + 1 /\ hash' = h
     /\ StartBlock(case.gaps[gap + 1][1])
     /\ UNCHANGED <<phase, search>>
  \/ /\ phase = "insert" /\ Reversed /\ gap = Len(case.gaps)
     /\ phase' = "walk" /\ gap' = 1 /\ hash' = h
     /\ StartBlock(0)
     /\ UNCHANGED search
  \/ /\ phase = "walk" \/ ~ Reversed
     /\ phase' = "search" /\ gap' = 1
     /\ hash' = IF Reversed THEN Cleansed(h) ELSE h
     /\ StartSearch

\* Nothing to read: the block returns at once.
NoPage ==
  /\ phase \in {"insert", "walk"} /\ OverRef /\ case.ref = <<>>
  /\ EndBlock(hash)
  /\ UNCHANGED <<inputs, ghost>>

Insert ==
  LET offset == pos - SeedLen
      r == IF phase = "walk" THEN InsertMatch(hash, ads.s2, offset)
                             ELSE HashInsert(hash, ads.s2, offset)
  IN  /\ phase \in {"insert", "walk"} /\ todo = 0
      /\ IF pos + Skip(r.ok) + Step(r.ok) > BlockEnd
         THEN EndBlock(r.hash)
         ELSE /\ hash' = r.hash
              /\ pos' = pos + Skip(r.ok) /\ todo' = Step(r.ok)
              /\ UNCHANGED <<phase, gap, ads, search>>
      /\ asked' = IF OverRef THEN asked ELSE asked \cup {<<Index(ads.s2), Key(ads.s2)>>}
      /\ tried' = IF OverRef THEN tried \cup {offset} ELSE tried
      /\ emptied' = emptied \cup r.emptied
      /\ UNCHANGED inputs

---------------------------------------------------------------------------
(* OneHalfPassCorrecting, in the window of a gap. *)

Searching == phase = "search" /\ UNCHANGED <<inputs, gap, block, hash, ghost>>

SeedRead == va = vc + SeedLen
\* After a match the bytes it took are not read.
From == Max({va, vc})

ReadWindow ==
  /\ Searching /\ ~ SeedRead
  /\ \E n \in 1..Min({Len(Window), vc + SeedLen} ) :
       /\ From + n <= Min({Len(Window), vc + SeedLen})
       /\ ads' = Update(ads, Bytes(Window, From, n))
       /\ va' = From + n
  /\ UNCHANGED <<phase, vs, vc, buff>>

\* MISTAKE: the search goes on behind the seed.
MissedSeed(c) == c + SeedLen

Missed(c) == c + 1

\* The seed is in the reference file, where its checksum stands.
Agrees(o) == o # 0 /\ Bytes(case.ref, o, SeedLen) = SeedChars(ads)

\* No such checksum, or one of other bytes.
NoMatch ==
  /\ Searching /\ SeedRead
  /\ ~ Agrees(Lookup(ads.s2))
  /\ vc' = Missed(vc)
  /\ UNCHANGED <<phase, ads, va, vs, buff>>

\* How far the bytes before, and those behind, agree.
Back(o) ==
  Max({k \in 0..Min({vc, o}) : Bytes(Window, vc - k, k) = Bytes(case.ref, o - k, k)})
Forward(v, r) ==
  Max({k \in 0..Min({Len(Window) - v, Len(case.ref) - r}) : Bytes(Window, v, k) = Bytes(case.ref, r, k)})

\* MISTAKE: what the new match takes over is left with the old ones too.
NotTruncated(list, end) == list

\* DCB_llm_truncate: what the new match takes over leaves the old ones.
Truncated(list, end) ==
  LET kept == Max({0} \cup {i \in DOMAIN list : list[i].ver_pos < end})
  IN  [i \in 1..kept |-> [list[i] EXCEPT !.len = Min({@, end - list[i].ver_pos})]]

Match ==
  LET o   == Lookup(ads.s2)
      vm  == vc - Back(o)
      rm  == o - Back(o)
      len == vc + SeedLen - vm
      all == len + Forward(vm + len, rm + len)
  IN  /\ Searching /\ SeedRead
      /\ Agrees(o)
      /\ buff' = Append(IF vs <= vm THEN buff ELSE Truncated(buff, Lo + vm),
                        [src_pos |-> rm, ver_pos |-> Lo + vm, len |-> all])
      /\ vs' = vm + all /\ vc' = vm + all
      /\ UNCHANGED <<phase, ads, va>>

\* The window is at its end: the next gap has its own buffer.
SearchEnds ==
  /\ phase = "search" /\ ~ SeedRead /\ From = Len(Window)
  /\ IF gap < Len(case.gaps)
     THEN gap' = gap + 1 /\ StartSearch /\ UNCHANGED phase
     ELSE phase' = "done" /\ UNCHANGED <<gap, ads, block, search>>
  /\ UNCHANGED <<inputs, hash, ghost>>

Stay == phase \in {"done", "failed"} /\ UNCHANGED vars

Next ==
  \/ ReadBlock \/ TooShort \/ NoPage \/ Insert
  \/ ReadWindow \/ NoMatch \/ Match \/ SearchEnds
  \/ Stay

Spec == Init /\ [][Next]_vars

---------------------------------------------------------------------------
(* Properties. *)

\* The types: the checksums of a bucket are in ascending order, which the binary
\* search needs (and hash.c asserts), and each has an offset.
TypeOK ==
  /\ phase \in {"insert", "walk", "search", "done", "failed"}
  /\ gap \in DOMAIN case.gaps /\ pos \in 0..Len(File) /\ todo \in 0..SeedLen
  /\ ads.tail \in 0..(SeedLen - 1) /\ {ads.s1, ads.s2} \subseteq Nat
  /\ \A i \in DOMAIN hash :
       LET b == hash[i]
       IN  /\ Len(b.offset) = Len(b.chksum) /\ Len(b.chksum) < DepthWrap
           /\ \A k \in 2..Len(b.chksum) : b.chksum[k - 1] < b.chksum[k]
  /\ {va, vs, vc} \subseteq 0..Len(Window)

SumOf(bytes) == Afresh(bytes).s2
Place(bytes) == <<Index(SumOf(bytes)), Key(SumOf(bytes))>>

\* The checksum that is hashed or looked up is that of the SeedLen bytes at the
\* place it is taken for, and the bytes it remembers are these: however it got
\* there, rolled on, started afresh, over pages, skips and the bytes of a match
\* (update_adler32_seed).
SeedOfPlace ==
  LET here == IF phase = "search" THEN Bytes(Window, vc, SeedLen)
                                  ELSE Bytes(File, pos - SeedLen, SeedLen)
  IN  (phase = "search" /\ SeedRead) \/ (phase \in {"insert", "walk"} /\ todo = 0) =>
        ads.s2 = SumOf(here) /\ SeedChars(ads) = here

\* The matches of a window are copies of the bytes they stand for, in order,
\* none reaches into another or out of the window, after each correction too;
\* the last goes on as long as the files agree (diff-algs.c:125-227).
CopiesTrue ==
  phase = "search" =>
    /\ \A i \in DOMAIN buff :
         /\ buff[i].len > 0 /\ buff[i].ver_pos >= Lo /\ buff[i].ver_pos + buff[i].len <= Lo + vs
         /\ Bytes(case.ver, buff[i].ver_pos, buff[i].len) = Bytes(case.ref, buff[i].src_pos, buff[i].len)
         /\ i > 1 => buff[i - 1].ver_pos + buff[i - 1].len <= buff[i].ver_pos
    /\ buff # <<>> =>
         LET m == Last(buff)
         IN  /\ m.ver_pos + m.len = Lo + vs
             /\ Forward(vs, m.src_pos + m.len) = 0

\* No match is missed that the hash could have given: of bytes that are added,
\* no seed is in the hash under its checksum.  What the hash cannot give: seeds
\* the sampling left out, those with the checksum of the first bytes of the
\* file, whose offset is 0 (in a bucket hash those that come again later, too),
\* those with the checksum of other bytes before them, and those of a bucket
\* that came back to 0.
FindsHashed ==
  phase = "done" \/ (phase = "search" /\ ~ SeedRead /\ From = Len(Window)) =>
    \A p \in 0..(Len(Window) - SeedLen) :
      LET seed == Bytes(Window, p, SeedLen)
          same == {o \in tried : Place(Bytes(case.ref, o, SeedLen)) = Place(seed)}
          hits == IF Reversed THEN same \ {0} ELSE same
      IN  \/ \E m \in ToSet(buff) : m.ver_pos <= Lo + p /\ Lo + p < m.ver_pos + m.len
          \/ hits = {}
          \/ Min(hits) = 0
          \/ Bytes(case.ref, Min(hits), SeedLen) # seed
          \/ Place(seed)[1] \in emptied
          \/ Reversed /\ Place(seed) \notin asked

=============================================================================
