----------------------------- MODULE MatchList -----------------------------
(***************************************************************************)
(* The match list of the differencing commands: DCB_llm of dcbuffer.c, as  *)
(* diffball.c and MultiPassAlg of diff-algs.c drive it.                    *)
(*                                                                         *)
(* The list holds the copies found so far, in version order.  MultiPassAlg *)
(* walks the gaps between them with DCB_get_next_gap and, in the middle of *)
(* the walk, links the matches OneHalfPassCorrecting found in the gap into *)
(* the list.  The cursor of the walk (`main`, gap_pos) and the place where *)
(* the matches are linked in are one and the same pointer.                 *)
(*                                                                         *)
(* The linked list is the sequence of its nodes from main_head on; `main`  *)
(* is an index in it, 0 for NULL.  Positions in the reference file are     *)
(* left out: no decision depends on them.                                  *)
(***************************************************************************)
EXTENDS Integers, Sequences, FiniteSets

CONSTANTS VerSize,      \* ver_size, the bytes of the version file
          ArchiveSeed,  \* the seed length for files of a tar archive: 24
          FirstSeed,    \* the seed_len MultiPassAlg is called with: 512
          MinSeed       \* its passes go down to this seed length: 16

ASSUME VerSizeAssumption == VerSize \in Nat
ASSUME SeedAssumption    == /\ ArchiveSeed \in Nat \ {0}
                            /\ FirstSeed \in Nat /\ MinSeed \in Nat \ {0}

VARIABLES
  list,             \* the nodes from main_head on, each [ver, len]
  main, main_count, gap_pos,
  buff,             \* the first buff_count nodes of dcb->buff
  finalized,        \* DCB_LLM_FINALIZED
  reconstruct_pos,
  phase,            \* the loop that runs: "archive", "count", "hash", "fill"
                    \* or "emit"
  seed_len,
  gap_total_len,
  differencing,     \* OneHalfPassCorrecting runs
  window,           \* the child of the version file it runs on
  vs,               \* how far it has come
  given             \* the bytes of the gaps this walk has returned so far

walk == <<main, gap_pos>>
mem  == <<list, main_count>>
pass == <<differencing, window, vs>>
ctl  == <<phase, seed_len, gap_total_len>>
vars == <<walk, mem, buff, finalized, reconstruct_pos, ctl, pass, given>>

Bytes == 0..(VerSize - 1)
NoGap == <<0, 0>>
Vend(m) == m.ver + m.len                                     \* LLM_VEND
Span(g) == g[1]..(g[2] - 1)
Covered(s) == UNION {s[i].ver..(Vend(s[i]) - 1) : i \in 1..Len(s)}

Init ==
  /\ list = <<>> /\ main = 0 /\ main_count = 0 /\ gap_pos = 0
  /\ buff = <<>>
  /\ finalized \in BOOLEAN
  /\ reconstruct_pos = 0
  /\ phase = "archive" /\ seed_len = FirstSeed /\ gap_total_len = 0
  /\ differencing = FALSE /\ window = NoGap /\ vs = 0
  /\ given = {}

-----------------------------------------------------------------------------
(* The list *)

\* DCBufferReset and DCB_llm_reset: a new walk begins.
Reset ==
  /\ main' = IF list' = <<>> THEN 0 ELSE 1
  /\ gap_pos' = 0
  /\ reconstruct_pos' = 0
  /\ given' = {}

\* The first of the nodes in S that a walk from node `from` meets; 0, for NULL,
\* when it starts at NULL or falls off the list.
FirstFrom(from, S) ==
  LET met == S \cap (from..Len(list))
  IN  IF from = 0 \/ met = {} THEN 0 ELSE CHOOSE i \in met : \A j \in met : i <= j

\* Where the gap after the i-th match ends.
GapEnd(i) == IF i = Len(list) THEN VerSize ELSE list[i + 1].ver

\* MISTAKE: a walk skips no node, and stands before the gap it returned.
NoneSkipped == DOMAIN list

\* The nodes a walk at gap_pos does not skip.
NotSkipped == {i \in DOMAIN list : gap_pos <= list[i].ver}

\* MISTAKE: a gap of exactly req bytes is too small.
BeforeLongerGap(req) == {i \in DOMAIN list : GapEnd(i) - Vend(list[i]) > req}

\* The nodes that are followed by a gap of req bytes.
BeforeGap(req) == {i \in DOMAIN list : GapEnd(i) - Vend(list[i]) >= req}

\* DCB_get_next_gap: the gap, NoGap when it returns 0, and what it leaves in
\* main and gap_pos.
NextGap(req) ==
  LET from == FirstFrom(main, NotSkipped)
      m    == FirstFrom(from, BeforeGap(req))
      Return(g, n, p) == [gap |-> g, main |-> n, gap_pos |-> p]
  IN  IF gap_pos = VerSize
      THEN Return(NoGap, main, gap_pos)
      ELSE IF gap_pos = 0 /\ main_count = 0
      THEN Return(IF req <= VerSize THEN <<0, VerSize>> ELSE NoGap, main, VerSize)
      ELSE IF gap_pos = 0 /\ list[1].ver >= req
      THEN Return(<<0, list[1].ver>>, main, list[1].ver)
      ELSE IF m # 0
      THEN Return(<<Vend(list[m]), GapEnd(m)>>, m, GapEnd(m))
      ELSE Return(NoGap, 0, IF from = 0 THEN gap_pos ELSE VerSize)

\* DCB_llm_truncate on the matches s: drop the last len bytes they reach.
Truncate(s, len) ==
  LET trunc_pos == Vend(s[Len(s)]) - len
      kept == Cardinality({i \in DOMAIN s : s[i].ver < trunc_pos})
  IN  [i \in 1..kept |->
         IF Vend(s[i]) > trunc_pos THEN [s[i] EXCEPT !.len = trunc_pos - s[i].ver]
                                   ELSE s[i]]

\* MISTAKE: the list is never added to in front.
NeverInFront == FALSE

\* The matches of buff all come before the list.
InFront == list[1].ver >= buff[Len(buff)].ver

\* MISTAKE: the rest of the list is not linked to the last match of buff.
LinkAfterMainOnly == SubSeq(list, 1, main) \o buff
LinkAfterMain ==
  SubSeq(list, 1, main) \o buff \o SubSeq(list, main + 1, Len(list))

\* The list with the matches of buff linked in, and where `main` is then: an
\* empty list, in front of the list, after `main`.
Linked ==
  LET n == Len(buff)
  IN  IF n = 0
      THEN [list |-> list, main |-> main]
      ELSE IF list = <<>>
      THEN [list |-> buff, main |-> n]
      ELSE IF InFront
      THEN IF main = 0 THEN [list |-> buff, main |-> 0]
           ELSE [list |-> buff \o SubSeq(list, main, Len(list)), main |-> n + 1]
      ELSE [list |-> LinkAfterMain, main |-> main + n]

\* DCB_llm_finalize; its callers say what becomes of `main`.
Finalize ==
  /\ list' = Linked.list
  /\ main_count' = main_count + Len(buff)
  /\ buff' = <<>>
  /\ finalized' = TRUE

-----------------------------------------------------------------------------
(* OneHalfPassCorrecting *)

\* MISTAKE: it goes on from where the last window ended.
StartPassStale(w) == differencing' = TRUE /\ window' = w /\ vs' = vs

\* What it is started with: a child of the version file.
StartPass(w) == differencing' = TRUE /\ window' = w /\ vs' = w[1]

\* A seed at vc agrees with the reference file, and so do the bytes around it
\* from vm to e.  What the matches so far claim of these is given up.
Match(vm, vc, e) ==
  /\ differencing
  /\ vc + (IF phase = "archive" THEN ArchiveSeed ELSE seed_len) <= e
  /\ LET kept == IF vs > vm THEN Truncate(buff, vs - vm) ELSE buff
     IN  buff' = Append(kept, [ver |-> vm, len |-> e - vm])
  /\ reconstruct_pos' = e
  /\ vs' = e
  /\ UNCHANGED <<walk, mem, finalized, ctl, differencing, window, given>>

\* No further match in the window.  MultiPassAlg finalizes after each gap.
PassEnds ==
  /\ differencing
  /\ differencing' = FALSE
  /\ IF phase = "archive"
     THEN UNCHANGED <<mem, main, buff, finalized>>
     ELSE Finalize /\ main' = Linked.main
  /\ UNCHANGED <<gap_pos, reconstruct_pos, ctl, window, vs, given>>

-----------------------------------------------------------------------------
(* diffball.c, and the loops of MultiPassAlg *)

\* diffball.c: a file of the target archive that the source archive has too.
\* They come in the order of the archive and share one buffer; the header of a
\* file is part of it, so that none is empty.
ArchiveFile(w) ==
  /\ phase = "archive" /\ ~differencing /\ ~finalized
  /\ window[2] <= w[1]
  /\ StartPass(w)
  /\ UNCHANGED <<walk, mem, buff, finalized, reconstruct_pos, ctl, given>>

\* MISTAKE: the total of the last seed length is added to.
BeginSeedNoTotal(n) ==
  /\ seed_len' = n
  /\ phase' = IF n >= MinSeed THEN "count" ELSE "emit"
  /\ Reset
  /\ UNCHANGED gap_total_len

\* The turn of MultiPassAlg's loop for seed length n, up to its first walk; or
\* its return, up to the reset that every encoder begins with.
BeginSeed(n) ==
  /\ seed_len' = n
  /\ phase' = IF n >= MinSeed THEN "count" ELSE "emit"
  /\ gap_total_len' = 0
  /\ Reset

\* The call of MultiPassAlg, which finalizes what the archive left.
MultiPass ==
  /\ phase = "archive" /\ ~differencing
  /\ Finalize
  /\ BeginSeed(FirstSeed)
  /\ window' = NoGap /\ vs' = 0
  /\ UNCHANGED differencing

\* MISTAKE: main stays where the walk came from.
TakeMainStays(g) ==
  /\ NextGap(seed_len).gap = g
  /\ g # NoGap
  /\ gap_pos' = NextGap(seed_len).gap_pos
  /\ given' = given \cup Span(g)
  /\ UNCHANGED main

\* One call of DCB_get_next_gap that returns the gap g.
Take(g) ==
  /\ NextGap(seed_len).gap = g
  /\ g # NoGap
  /\ main' = NextGap(seed_len).main
  /\ gap_pos' = NextGap(seed_len).gap_pos
  /\ given' = given \cup Span(g)

NoMoreGaps == NextGap(seed_len).gap = NoGap

CountGap ==
  /\ phase = "count"
  /\ LET g == NextGap(seed_len).gap
     IN  Take(g) /\ gap_total_len' = gap_total_len + (g[2] - g[1])
  /\ UNCHANGED <<mem, buff, finalized, reconstruct_pos, phase, seed_len, pass>>

\* The gaps are counted: not worth a pass, or a hash of the reference file
\* when nothing has been found yet, or a hash of the gaps.
Counted ==
  /\ phase = "count" /\ NoMoreGaps
  /\ UNCHANGED <<mem, buff, finalized, pass>>
  /\ IF gap_total_len = 0
     THEN BeginSeed(seed_len \div 2)
     ELSE /\ phase' = IF list = <<>> THEN "fill" ELSE "hash"
          /\ UNCHANGED <<seed_len, gap_total_len>>
          /\ Reset

\* RHash_insert_block of a gap.
HashGap ==
  /\ phase = "hash"
  /\ Take(NextGap(seed_len).gap)
  /\ UNCHANGED <<mem, buff, finalized, reconstruct_pos, ctl, pass>>

Hashed ==
  /\ phase = "hash" /\ NoMoreGaps
  /\ phase' = "fill"
  /\ UNCHANGED <<mem, buff, finalized, pass, seed_len, gap_total_len>>
  /\ Reset

\* The next gap gets a child, a buffer (DCB_llm_init_buff) and a pass.
FillGap ==
  /\ phase = "fill" /\ ~differencing
  /\ Take(NextGap(seed_len).gap)
  /\ StartPass(NextGap(seed_len).gap)
  /\ buff' = <<>> /\ finalized' = FALSE
  /\ UNCHANGED <<mem, reconstruct_pos, ctl>>

Filled ==
  /\ phase = "fill" /\ ~differencing /\ NoMoreGaps
  /\ UNCHANGED <<mem, buff, finalized, pass>>
  /\ BeginSeed(seed_len \div 2)

-----------------------------------------------------------------------------
(* The encoders' loop *)

\* MISTAKE: it stays, or runs off the list without finding NULL.
IncrStays(i)  == i
IncrOffEnd(i) == i + 1

\* DCB_llm_incr on the list.
Incr(i) == IF i = Len(list) THEN 0 ELSE i + 1

\* DCB_llm_get_next, while DCB_commands_remain: the command ends here.
CommandEnd ==
  IF main = 0 THEN VerSize
  ELSE IF reconstruct_pos = list[main].ver THEN Vend(list[main])
  ELSE list[main].ver

GetNext ==
  /\ phase = "emit" /\ reconstruct_pos # VerSize
  /\ reconstruct_pos' = CommandEnd
  /\ main' = IF main = 0 \/ reconstruct_pos # list[main].ver THEN main
             ELSE Incr(main)
  /\ UNCHANGED <<mem, gap_pos, buff, finalized, ctl, pass, given>>

Next ==
  \/ \E lo, hi \in 0..VerSize : lo < hi /\ ArchiveFile(<<lo, hi>>)
  \/ \E vm \in window[1]..window[2] :
       \E vc \in (IF vs > vm THEN vs ELSE vm)..window[2], e \in vs..window[2] :
         Match(vm, vc, e)
  \/ PassEnds
  \/ MultiPass
  \/ CountGap \/ Counted
  \/ HashGap \/ Hashed
  \/ FillGap \/ Filled
  \/ GetNext

\* One thread runs all this, and every loop of it goes on.
Spec == Init /\ [][Next]_vars /\ WF_vars(Next)

-----------------------------------------------------------------------------
(* Properties *)

\* The nodes of the list and of the buffer: no match is empty.
Nodes == [ver : 0..VerSize, len : 1..VerSize]

\* Types; `main` is NULL or a node of the list, and positions are in the file.
TypeOK ==
  /\ list \in Seq(Nodes) /\ buff \in Seq(Nodes)
  /\ main \in 0..Len(list)
  /\ main_count \in 0..VerSize
  /\ gap_pos \in 0..VerSize /\ reconstruct_pos \in 0..VerSize
  /\ finalized \in BOOLEAN /\ differencing \in BOOLEAN
  /\ phase \in {"archive", "count", "hash", "fill", "emit"}
  /\ seed_len \in Nat /\ gap_total_len \in 0..VerSize
  /\ window \in (0..VerSize) \X (0..VerSize) /\ vs \in 0..VerSize
  /\ given \subseteq Bytes

\* The matches in s follow each other in the version file and do not overlap.
InOrder(s) ==
  /\ \A i \in 1..(Len(s) - 1) : Vend(s[i]) <= s[i + 1].ver
  /\ \A i \in DOMAIN s : Vend(s[i]) <= VerSize

\* The list and the buffer are sorted and disjoint, however late a gap was
\* filled and however much of the buffer a back match took again.
ListInOrder == InOrder(list) /\ InOrder(buff)

\* The gap being filled is the one before the list or the one after `main`, so
\* that finalize links its matches where they belong.
WindowAtMain ==
  phase = "fill" /\ differencing /\ list # <<>> =>
    \/ window = <<0, list[1].ver>> /\ main = 1
    \/ main # 0 /\ window = <<Vend(list[main]), GapEnd(main)>>

\* DCB_llm_truncate takes back what this window added and nothing else: its
\* matches reach to vs, and those of earlier windows stay.
BuffReachesVs ==
  differencing /\ vs > window[1] =>
    /\ buff # <<>>
    /\ Vend(buff[Len(buff)]) = vs

\* The free bytes that lie in gaps of at least req bytes.
BigGaps(req) ==
  LET free == Bytes \ Covered(list)
  IN  {p \in free : \E lo \in 0..p, hi \in (p + 1)..VerSize :
                      hi - lo >= req /\ lo..(hi - 1) \subseteq free}

\* Every walk to the end has returned each gap of seed_len bytes: the walks of
\* "count" and "hash" those there are, that of "fill" those that are left.
NoGapMissed ==
  phase \in {"count", "hash", "fill"} /\ ~differencing /\ NoMoreGaps =>
    /\ BigGaps(seed_len) \subseteq given
    /\ phase # "fill" => given = BigGaps(seed_len)

\* The total a seed pass is sized by is that of the gaps, each counted once.
TotalIsExact == phase = "count" => gap_total_len = Cardinality(given)

\* A gap is never returned twice in a walk, not even what is left of it after
\* matches were linked into it.
GapsOnce ==
  [][CountGap \/ HashGap \/ FillGap =>
       Span(NextGap(seed_len).gap) \cap given = {}]_vars

\* The program gets to the end of the version file: no walk goes on for ever.
DeltaDone == <>(phase = "emit" /\ reconstruct_pos = VerSize)

CoveredByList == Covered(list)
OpenBytes == IF finalized THEN {} ELSE IF phase = "archive" THEN Bytes
             ELSE Span(window)
Emitted   == IF phase = "emit" THEN reconstruct_pos ELSE 0

Promise == INSTANCE Delta WITH covered <- CoveredByList, window <- OpenBytes,
                               emitted <- Emitted

\* Matches are only ever added, each to bytes that had none, and the commands
\* tile the version file (dcbuffer.c, diff-algs.c).
KeepsPromise == Promise!Spec

=============================================================================
