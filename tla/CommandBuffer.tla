--------------------------- MODULE CommandBuffer ---------------------------
(***************************************************************************)
(* The command buffers simple_reconstruct (api.c) fills when it applies a  *)
(* chain of patches: DCB_full of dcbuffer.c, with its sources, the overlay *)
(* chains of bsdiff patches, and a buffer as the source of the next one.   *)
(*                                                                         *)
(* A command of a patch names a stretch of the version before.  There is   *)
(* no such file: the stretch is looked up in the commands that would build *)
(* that version and these are copied instead, cut at both ends and with    *)
(* their sources carried over (DCB_rec_copy_from_DCB_src).                 *)
(*                                                                         *)
(* Indices that are 0-based in the code are 1-based here, and 0 stands for *)
(* DCB_SRC_NOT_TRANSLATED.  Every command has at least one byte: no encoder *)
(* writes an empty one.                                                    *)
(***************************************************************************)
EXTENDS Integers, Sequences, SequencesExt, FiniteSetsExt

CONSTANTS RefLen,      \* the bytes of the reference file
          Chains       \* the chains of patches there are, [readers, max_lens]: of
                       \* which kinds patches are, and, as a bound, how many at
                       \* most and the longest version each may build

ASSUME LengthAssumption == RefLen \in Nat \ {0}
ASSUME ChainAssumption  ==
  \A c \in Chains : /\ c.readers \subseteq {"plain", "xdelta", "bsdiff"}
                    /\ c.max_lens \in Seq(Nat \ {0})

VARIABLES
  tried,         \* the one of Chains that is tried
  prev, cur,     \* dcbuff[(x - 1) % 2] and dcbuff[x % 2]
  src_map,       \* of the source by which cur reads prev
  patch,         \* the patches begun
  reader,        \* the kind of the present one
  taken,         \* how far its added bytes and its mask have been used
  asked,         \* the command of it that was read last: what it asks for, as
                 \* Patches says it, and not what became of it
  open,          \* the handles the readers opened for sources
  phase          \* "between" patches, "reading" one, "done", "failed", or
                 \* "left" with its memory

vars == <<tried, prev, cur, src_map, patch, reader, taken, asked, open, phase>>

\* A buffer: sources [type, file, ov, free], commands [src, offset, len].  For
\* an overlay source a command's offset and len are a range of the chain ov,
\* whose first element is the mask, a range of the source's own file.
NoBuffer == [srcs |-> <<>>, cl |-> <<>>, ver_size |-> 0, reconstruct_pos |-> 0]

Source(type, file, free) == [type |-> type, file |-> file, ov |-> <<>>, free |-> free]
Command(src, offset, len) == [src |-> src, offset |-> offset, len |-> len]

IsOverlay(b, x) == b.srcs[x].type = "overlay"

\* The bytes of the version that command c of b is for.
BytesOf(b, c) == IF IsOverlay(b, c.src) THEN b.srcs[c.src].ov[c.offset].len ELSE c.len
VerEnd(b, d)  == MapThenSumSet(LAMBDA i : BytesOf(b, b.cl[i]), 1..d)

-----------------------------------------------------------------------------
(* The search index of a buffer that is a source *)

\* Two commands per slot on the average, and the slots as wide as that makes them.
Quanta(b) == b.ver_size \div (IF Len(b.cl) < 2 THEN 1 ELSE Len(b.cl) \div 2)

\* MISTAKE: the first command that starts in the slot.
FirstFromSlot(b, slot) ==
  Min({d \in DOMAIN b.cl : VerEnd(b, d - 1) >= slot * Quanta(b)} \cup {Len(b.cl)})

\* create_DCBSearch_index: the first command that reaches into the slot.
FirstInSlot(b, slot) == Min({d \in DOMAIN b.cl : VerEnd(b, d) > slot * Quanta(b)})

-----------------------------------------------------------------------------
(* Copying commands from a buffer into the next.  st has the two buffers   *)
(* as t and s and the map from the sources of s to those of t.             *)

\* Appended to chain dest, or to the commands for 0.
Put(st, dest, c) ==
  IF dest = 0 THEN [st EXCEPT !.t.cl = Append(@, c)]
  ELSE [st EXCEPT !.t.srcs[dest].ov = Append(@, c)]

\* MISTAKE: the parent goes on owning the handle too.
TranslateKeepOwner(st, x) ==
  IF st.map[x] # 0 THEN st
  ELSE [st EXCEPT !.t.srcs = Append(@, [st.s.srcs[x] EXCEPT !.ov = <<>>]),
                  !.map[x] = Len(st.t.srcs) + 1]

\* MISTAKE: the clone does not take the handle over.
TranslateDropOwner(st, x) ==
  IF st.map[x] # 0 THEN st
  ELSE [st EXCEPT !.t.srcs = Append(@, [st.s.srcs[x] EXCEPT !.ov = <<>>, !.free = FALSE]),
                  !.map[x] = Len(st.t.srcs) + 1,
                  !.s.srcs[x].free = FALSE]

\* Source x of s is registered with t once; t then owns its handle.
Translate(st, x) ==
  IF st.map[x] # 0 THEN st
  ELSE [st EXCEPT !.t.srcs = Append(@, [st.s.srcs[x] EXCEPT !.ov = <<>>]),
                  !.map[x] = Len(st.t.srcs) + 1,
                  !.s.srcs[x].free = FALSE]

RECURSIVE SeekInLate(_, _, _, _)
\* MISTAKE: stays on a command at its end.
SeekInLate(b, scl, d, seek) ==
  LET n == BytesOf(b, scl[d])
  IN  IF seek <= n THEN <<d, seek>> ELSE SeekInLate(b, scl, d + 1, seek - n)

RECURSIVE SeekIn(_, _, _, _)
\* The command of scl in which byte `seek` after the start of command d lies,
\* and where in it.
SeekIn(b, scl, d, seek) ==
  LET n == BytesOf(b, scl[d])
  IN  IF seek < n THEN <<d, seek>> ELSE SeekIn(b, scl, d + 1, seek - n)

\* MISTAKE: the mask is not counted.
ChainLenNoMask(b, x, from) == Len(b.srcs[x].ov) - from

\* The elements of chain x from the given one on: an overlay command's len.
ChainLen(b, x, from) == Len(b.srcs[x].ov) - from + 1

\* MISTAKE: the mask is taken from its start.
MaskFromStart(x, mask, seek, n) == Command(x, mask.offset, n)

\* The mask for n bytes from byte `seek` on of what `mask` is for.
Mask(x, mask, seek, n) == Command(x, mask.offset + seek, n)

RECURSIVE CopyRange(_, _, _, _, _, _)
\* DCB_rec_copy_from_DCB_src: `len` bytes of the commands scl of st.s, from byte
\* `seek` of command com on, go to dest.  An overlay command brings its mask and,
\* behind it, the same range of what the mask is for.
CopyRange(st, dest, scl, com, seek, len) ==
  IF len = 0 THEN st
  ELSE
    LET at     == SeekIn(st.s, scl, com, seek)
        c      == scl[at[1]]
        n      == Min({BytesOf(st.s, c) - at[2], len})
        known  == Translate(st, c.src)
        x      == known.map[c.src]
        from   == st.s.srcs[c.src].ov
        index  == Len(known.t.srcs[x].ov) + 1
        inner  == CopyRange(Put(known, x, Mask(x, from[c.offset], at[2], n)),
                            x, from, c.offset + 1, at[2], n)
        copied == IF IsOverlay(st.s, c.src)
                  THEN Put(inner, dest, Command(x, index, ChainLen(inner.t, x, index)))
                  ELSE Put(known, dest, Command(x, c.offset + at[2], n))
    IN  CopyRange(copied, dest, scl, at[1] + 1, 0, len - n)

\* MISTAKE: seeks from the start of the slot and not from that of its command.
FromSlot(b, dest, o, n) ==
  LET slot == o \div Quanta(prev)
  IN  CopyRange([t |-> b, s |-> prev, map |-> src_map], dest, prev.cl,
                FirstInSlot(prev, slot), o - slot * Quanta(prev), n)

\* The range o, o + 1, ... of n bytes of the version before, copied to dest of b.
FromPrev(b, dest, o, n) ==
  LET slot == o \div Quanta(prev)
      d    == FirstInSlot(prev, slot)
  IN  CopyRange([t |-> b, s |-> prev, map |-> src_map], dest, prev.cl,
                d, o - VerEnd(prev, d - 1), n)

-----------------------------------------------------------------------------
(* simple_reconstruct *)

\* Handles: a patch's parts are named <<patch, which>>.
Ref    == <<0, "ref">>
NoFile == <<0, "none">>

FreeFiles(b) == {b.srcs[i].file : i \in {j \in DOMAIN b.srcs : b.srcs[j].free}}

\* The file of the present patch that its added bytes or its masks are read from.
Part(which) == <<patch, IF reader = "plain" THEN "patch" ELSE which>>

\* The commands a reader meets, in the words of Patches.
NoCommand         == [kind |-> "none"]
CopyOf(o, n)      == [kind |-> "copy", at |-> o, len |-> n]
AddOf(f, p, n)    == [kind |-> "add", file |-> f, pos |-> p, len |-> n]
SumOf(o, f, p, n) == [kind |-> "sum", at |-> o, file |-> f, pos |-> p, len |-> n]

\* The source id an add of the reader names: its mask source comes first.
AddSrc == IF reader = "bsdiff" THEN 3 ELSE 2

Init ==
  /\ tried \in Chains
  /\ prev = NoBuffer /\ cur = NoBuffer
  /\ src_map = <<>>
  /\ patch = 0 /\ reader = "none"
  /\ taken = [bytes |-> 0, mask |-> 0]
  /\ asked = NoCommand
  /\ open = {}
  /\ phase = "between"

\* A new buffer reads the reference or the buffer before, and the reader
\* registers the patch: a bsdiff patch its two compressed parts, an xdelta patch
\* one, each a handle to be freed with the buffer; others the patch file.
BeginPatch(r) ==
  LET k      == patch + 1
      source == IF patch = 0 THEN Source("cfh", Ref, FALSE) ELSE Source("dcb", NoFile, FALSE)
      parts  == IF r = "bsdiff" THEN <<Source("overlay", <<k, "mask">>, TRUE)>> ELSE <<>>
      bytes  == IF r = "plain" THEN Source("cfh", <<k, "patch">>, FALSE)
                               ELSE Source("cfh", <<k, "bytes">>, TRUE)
  IN  /\ phase = "between" /\ patch < Len(tried.max_lens)
      /\ patch = 0 \/ prev.ver_size # 0
      /\ cur' = [NoBuffer EXCEPT !.srcs = <<source>> \o parts \o <<bytes>>]
      /\ open' = open \cup FreeFiles(cur')
      /\ src_map' = [x \in DOMAIN prev.srcs |-> 0]
      /\ patch' = k /\ reader' = r
      /\ taken' = [bytes |-> 0, mask |-> 0]
      /\ phase' = "reading"
      /\ UNCHANGED <<tried, prev, asked>>

\* A version of no bytes gets no index: simple_reconstruct returns MEM_ERROR and
\* frees nothing.  (Built with DEV_VERSION, it aborts by an assertion.)
NoIndex ==
  /\ phase = "between" /\ patch \in 1..(Len(tried.max_lens) - 1)
  /\ prev.ver_size = 0
  /\ phase' = "left"
  /\ UNCHANGED <<tried, prev, cur, src_map, patch, reader, taken, asked, open>>

Room == tried.max_lens[patch] - cur.reconstruct_pos
BaseLen == IF patch = 1 THEN RefLen ELSE prev.ver_size

\* A command of a patch stays inside the version it reads.
Inside(o, n) == o + n <= BaseLen /\ n <= Room

Advance(b, n) == [b EXCEPT !.reconstruct_pos = @ + n]

\* DCB_full_add_copy
AddCopy(o, n) ==
  LET st == FromPrev(cur, 0, o, n)
  IN  /\ phase = "reading" /\ reader # "bsdiff"
      /\ Inside(o, n)
      /\ IF patch = 1
         THEN /\ cur' = Advance([cur EXCEPT !.cl = Append(@, Command(1, o, n))], n)
              /\ UNCHANGED <<prev, src_map>>
         ELSE cur' = Advance(st.t, n) /\ prev' = st.s /\ src_map' = st.map
      /\ asked' = CopyOf(o, n)
      /\ UNCHANGED <<tried, patch, reader, taken, open, phase>>

\* DCB_full_add_add
FullAdd(b, src, offset, len) ==
  Advance([b EXCEPT !.cl = Append(@, Command(src, offset, len))], len)

\* MISTAKE: the elements DCB_full_add_add counted stay counted.
CountBytesToo(b, n, elements) == Advance(b, n)

\* What DCB_full_add_add counted as bytes were the elements of a chain.
CountBytes(b, n, elements) == Advance(b, n - elements)

AddAdd(n) ==
  /\ phase = "reading" /\ n <= Room
  /\ cur' = FullAdd(cur, AddSrc, taken.bytes, n)
  /\ taken' = [taken EXCEPT !.bytes = @ + n]
  /\ asked' = AddOf(Part("bytes"), taken.bytes, n)
  /\ UNCHANGED <<tried, prev, src_map, patch, reader, open, phase>>

\* DCB_add_overlay: the mask and what it is for go to the end of the chain of
\* source 2, and an add names the elements that this makes.
AddOverlay(o, n) ==
  LET masked == [cur EXCEPT !.srcs[2].ov = Append(@, Command(2, taken.mask, n))]
      direct == [masked EXCEPT !.srcs[2].ov = Append(@, Command(1, o, n))]
      st     == FromPrev(masked, 2, o, n)
      filled == IF patch = 1 THEN direct ELSE st.t
      index  == Len(cur.srcs[2].ov) + 1
      len    == ChainLen(filled, 2, index)
  IN  /\ phase = "reading" /\ reader = "bsdiff"
      /\ Inside(o, n)
      /\ cur' = CountBytes(FullAdd(filled, 2, index, len), n, len)
      /\ IF patch = 1 THEN UNCHANGED <<prev, src_map>>
                      ELSE prev' = st.s /\ src_map' = st.map
      /\ taken' = [taken EXCEPT !.mask = @ + n]
      /\ asked' = SumOf(o, Part("mask"), taken.mask, n)
      /\ UNCHANGED <<tried, patch, reader, open, phase>>

\* The patch is read: the buffer before is freed, with the handles it still owns.
EndPatch ==
  /\ phase = "reading"
  /\ prev' = [cur EXCEPT !.ver_size = cur.reconstruct_pos]
  /\ cur' = NoBuffer
  /\ asked' = NoCommand
  /\ open' = open \ FreeFiles(prev)
  /\ phase' = "between"
  /\ UNCHANGED <<tried, src_map, patch, reader, taken>>

\* The reader finds the patch corrupt: both buffers are freed.
PatchFails ==
  /\ phase = "reading"
  /\ prev' = NoBuffer /\ cur' = NoBuffer
  /\ asked' = NoCommand
  /\ open' = open \ (FreeFiles(prev) \cup FreeFiles(cur))
  /\ phase' = "failed"
  /\ UNCHANGED <<tried, src_map, patch, reader, taken>>

\* The commands were executed (module Reconstruct) and the buffer is freed.
Finish ==
  /\ phase = "between" /\ patch > 0
  /\ prev' = NoBuffer
  /\ asked' = NoCommand
  /\ open' = open \ FreeFiles(prev)
  /\ phase' = "done"
  /\ UNCHANGED <<tried, cur, src_map, patch, reader, taken>>

\* Execution fails: simple_reconstruct returns and frees nothing.
ExecutionFails ==
  /\ phase = "between" /\ patch > 0
  /\ phase' = "left"
  /\ UNCHANGED <<tried, prev, cur, src_map, patch, reader, taken, asked, open>>

Stretches == (0..(BaseLen - 1)) \X (1..Room)

Next ==
  \/ \E r \in tried.readers : BeginPatch(r)
  \/ NoIndex
  \/ phase = "reading" /\ \E s \in Stretches : AddCopy(s[1], s[2])
  \/ phase = "reading" /\ \E n \in 1..Room : AddAdd(n)
  \/ phase = "reading" /\ \E s \in Stretches : AddOverlay(s[1], s[2])
  \/ EndPatch
  \/ PatchFails
  \/ Finish
  \/ ExecutionFails

Spec == Init /\ [][Next]_vars

-----------------------------------------------------------------------------
(* DCB_collapse_commands: overlays become masks over ordinary commands, each *)
(* with its place in the version.                                            *)

Full(c, ver) == [src |-> c.src, pos |-> c.offset, len |-> c.len, ver |-> ver]

\* MISTAKE: the last element of the chain is left out.
UnderShort(b, c) == SubSeq(b.srcs[c.src].ov, c.offset + 1, c.offset + c.len - 2)

\* What the mask of overlay command c is for: the elements behind it.
Under(b, c) == SubSeq(b.srcs[c.src].ov, c.offset + 1, c.offset + c.len - 1)

\* MISTAKE: the mask takes up a place of its own.
PutMaskAside(acc, c) ==
  [out |-> Append(acc.out, Full(c, acc.ver)), ver |-> acc.ver + c.len]

\* A mask does not move the place: what it is for is put under it.
PutMask(acc, c) == [acc EXCEPT !.out = Append(@, Full(c, acc.ver))]

RECURSIVE Collapsed(_, _, _)
\* process_ovchain and the loop around it.
Collapsed(b, list, acc) ==
  IF list = <<>> THEN acc
  ELSE
    LET c    == Head(list)
        acc2 == IF IsOverlay(b, c.src)
                THEN Collapsed(b, Under(b, c), PutMask(acc, b.srcs[c.src].ov[c.offset]))
                ELSE [out |-> Append(acc.out, Full(c, acc.ver)), ver |-> acc.ver + c.len]
    IN  Collapsed(b, Tail(list), acc2)

Collapse(b) == Collapsed(b, b.cl, [out |-> <<>>, ver |-> 0])

\* The bytes a version gets when the collapsed commands are executed in any
\* order, what a mask holds being added to what is written there: the bag of the
\* bytes that come together in each place.
Written(b) ==
  LET out == Collapse(b).out
      at(v)    == {i \in DOMAIN out : out[i].ver < v /\ v <= out[i].ver + out[i].len}
      of(i, v) == <<b.srcs[out[i].src].file, out[i].pos + v - 1 - out[i].ver>>
  IN  [v \in 1..b.reconstruct_pos |->
         [x \in {of(i, v) : i \in at(v)} |-> Cardinality({i \in at(v) : of(i, v) = x})]]

RECURSIVE Version(_, _)
\* What the commands in list mean, one after the other: the bytes of their
\* source, or the sum of the mask's and those of what it is for.
Version(b, list) ==
  IF list = <<>> THEN <<>>
  ELSE
    LET c     == Head(list)
        chain == b.srcs[c.src].ov
        file  == b.srcs[c.src].file
        under == Version(b, Under(b, c))
        from  == IF IsOverlay(b, c.src) THEN chain[c.offset].offset ELSE c.offset
        own(i) == SetToBag({<<file, from + i - 1>>})
    IN  [i \in 1..BytesOf(b, c) |-> IF IsOverlay(b, c.src) THEN under[i] (+) own(i)
                                                           ELSE own(i)]
        \o Version(b, Tail(list))

-----------------------------------------------------------------------------
(* Properties *)

Buffers  == {prev, cur}
Patchings == 1..Max({Len(c.max_lens) : c \in Chains})
Closable == Patchings \X {"mask", "bytes"}
Given    == Patchings \X {"mask", "bytes", "patch"}
Names    == Given \cup {Ref, NoFile}

\* Types, and every command names a source of its buffer and has bytes.
TypeOK ==
  /\ \A b \in Buffers :
       /\ b.ver_size \in Nat /\ b.reconstruct_pos \in Nat
       /\ \A i \in DOMAIN b.srcs :
            /\ b.srcs[i].type \in {"cfh", "dcb", "overlay"}
            /\ b.srcs[i].file \in Names /\ b.srcs[i].free \in BOOLEAN
       /\ \A l \in {b.cl} \cup {b.srcs[i].ov : i \in DOMAIN b.srcs} :
            l \in Seq([src : DOMAIN b.srcs, offset : Nat, len : Nat \ {0}])
  /\ \A x \in DOMAIN src_map : src_map[x] \in 0..Len(cur.srcs) \/ phase # "reading"
  /\ patch \in 0..Len(tried.max_lens) /\ reader \in tried.readers \cup {"none"}
  /\ taken \in [bytes : Nat, mask : Nat]
  /\ asked.kind \in {"none", "copy", "add", "sum"}
  /\ open \subseteq Closable
  /\ phase \in {"between", "reading", "done", "failed", "left"}

\* The overlay commands of b, those inside chains included.
Overlays(b) ==
  {c \in Range(b.cl) : IsOverlay(b, c.src)} \cup
  UNION {{c \in Range(b.srcs[x].ov) : c.src # x /\ IsOverlay(b, c.src)} : x \in DOMAIN b.srcs}

\* An overlay command names a mask of its own source and behind it, in the same
\* chain, elements of other sources for as many bytes as the mask has
\* (the assertions of process_ovchain and DCB_add_overlay), in however
\* many pieces an earlier patch built them.
ChainsWellFormed ==
  \A b \in Buffers : \A c \in Overlays(b) :
    LET chain == b.srcs[c.src].ov
        under == (c.offset + 1)..(c.offset + c.len - 1)
    IN  /\ c.len >= 2
        /\ c.offset + c.len - 1 <= Len(chain)
        /\ chain[c.offset].src = c.src
        /\ \A i \in under : chain[i].src # c.src
        /\ MapThenSumSet(LAMBDA i : BytesOf(b, chain[i]), under) = chain[c.offset].len

\* One ordinary command writes each byte of a version, and one mask of a
\* source at most is added to it: no piece of a chain is carried over twice.
EachByteOnce ==
  \A b \in Buffers :
    LET out == Collapse(b).out
        covers(i, v) == out[i].ver <= v /\ v < out[i].ver + out[i].len
    IN  \A v \in 0..(b.reconstruct_pos - 1) :
          /\ \E i \in DOMAIN out : covers(i, v) /\ ~IsOverlay(b, out[i].src)
          /\ \A i, j \in DOMAIN out :
               i # j /\ covers(i, v) /\ covers(j, v) =>
                 /\ out[i].src # out[j].src
                 /\ IsOverlay(b, out[i].src) \/ IsOverlay(b, out[j].src)

\* Taking the overlays apart so that each file can be read from its start to its
\* end (DCB_collapse_commands) changes no byte of the version.
CollapseKeepsVersion == \A b \in Buffers : Written(b) = Version(b, b.cl)

\* Each open handle is freed by one source of one buffer, no source frees a handle
\* that is closed, and what a buffer reads has not been closed: a handle that a later
\* patch still reads changes owner exactly when its source is carried over, also if
\* the patch then fails.
OneOwner ==
  LET owners(b, f) == {i \in DOMAIN b.srcs : b.srcs[i].free /\ b.srcs[i].file = f}
  IN  /\ \A f \in open : Cardinality(owners(prev, f)) + Cardinality(owners(cur, f)) = 1
      /\ FreeFiles(prev) \cup FreeFiles(cur) \subseteq open
      /\ \A b \in Buffers : \A i \in DOMAIN b.srcs :
           b.srcs[i].file \in open \/ b.srcs[i].file \notin Closable

Base  == IF phase \in {"done", "failed"} THEN <<>>
         ELSE IF prev = NoBuffer THEN [i \in 1..RefLen |-> SetToBag({<<Ref, i - 1>>})]
         ELSE Version(prev, prev.cl)
Built == Version(cur, cur.cl)

PatchByPatch == INSTANCE Patches WITH base <- Base, built <- Built, asked <- asked,
                  Files <- Given

\* However often its commands were cut and copied from buffer to buffer, a version
\* has the bytes its patch asked for: each command read from a patch adds to what is
\* built the very stretch of the version before that it names, the bytes of the patch
\* at the place reached, or both added up, and changes nothing else (dcbuffer.c,
\* DCB_full_add_copy, DCB_add_overlay, DCB_rec_copy_from_DCB_src).
ImplementsPatches == PatchByPatch!Spec

=============================================================================
