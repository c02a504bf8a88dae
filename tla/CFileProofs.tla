---------------------------- MODULE CFileProofs ----------------------------
(***************************************************************************)
(* Proofs about CFile, for every file, page size, set of handles and set   *)
(* of windows, as long as the ids of the handles do not wrap.              *)
(*                                                                         *)
(* BufferIsWindow is not inductive: that the next refill reads the right   *)
(* bytes rests on LastOwnsPosition, which in turn needs that no two open   *)
(* handles have one id and that no open handle has the id 0, the value     *)
(* that says "nobody's".  IInv collects these facts.                       *)
(***************************************************************************)
EXTENDS CFile, TLAPS

\* No two open handles have one id, none has the id 0, and `last` is an id
\* that was given out, or 0 (internal.h, cfile.c copen_child_cfh).
IdsDistinct ==
  /\ last \in 0..handle_count
  /\ \A h \in Handles : open[h] => cfh_id[h] \in 1..handle_count
  /\ \A g, h \in Handles :
       open[g] /\ open[h] /\ cfh_id[g] = cfh_id[h] => g = h

\* The window of an open handle lies in the file, its buffer is not of size
\* zero and holds no more than it can, and its pos lies in the buffer.
HandlesSane ==
  /\ open[Root]
  /\ \A h \in Handles :
       open[h] => /\ window_offset[h] + window_len[h] <= FileLen
                  /\ size[h] >= 1
                  /\ pos[h] <= end[h]
                  /\ end[h] <= size[h]
  /\ reading # NoHandle => open[reading]

IInv ==
  /\ TypeOK
  /\ IdsDistinct
  /\ HandlesSane
  /\ LastOwnsPosition
  /\ BufferIsWindow
  /\ BufferInWindow

-----------------------------------------------------------------------------
(* Facts about the operators *)

USE RootAssumption, SizeAssumption, WindowAssumption, IdAssumption

\* A window's limit lies in the file.
LEMMA LimitType ==
  ASSUME TypeOK, HandlesSane, NEW h \in Handles, open[h]
  PROVE  /\ Limit(h) \in 0..FileLen
         /\ window_offset[h] + Limit(h) <= FileLen
         /\ window_len[h] # 0 => Limit(h) = window_len[h]
BY DEF Limit, TypeOK, HandlesSane

\* A refill reads at the window position that follows the buffer, inside the
\* window, and brings nothing only at the end of the window (noop.c:28-59).
LEMMA RefillReads ==
  ASSUME TypeOK, HandlesSane, NEW h \in Handles, open[h],
         NEW l, NEW o \in Nat, NEW e \in Nat, o + e <= Limit(h),
         l = cfh_id[h] => kpos = window_offset[h] + o + e,
         NEW k, k = EnsureLseekPosition(h, l, o, e),
         NEW n, n = Got(h, o + e, k)
  PROVE  /\ k = window_offset[h] + (o + e)
         /\ n \in Nat /\ n <= FileLen
         /\ k + n <= FileLen
         /\ (o + e) + n <= Limit(h)
         /\ n = 0 => o + e = Limit(h)
         /\ n = MinOf(size[h], Limit(h) - (o + e))
<1>1. /\ Limit(h) \in 0..FileLen /\ window_offset[h] + Limit(h) <= FileLen
      /\ window_len[h] # 0 => Limit(h) = window_len[h]
  BY LimitType
<1>2. /\ window_offset[h] \in 0..FileLen /\ window_len[h] \in 0..FileLen
      /\ size[h] \in Nat /\ size[h] >= 1
  BY DEF TypeOK, HandlesSane
<1>3. k = window_offset[h] + (o + e)
  BY <1>1, <1>2 DEF EnsureLseekPosition
<1>4. CASE window_len[h] = 0
  BY <1>1, <1>2, <1>3, <1>4 DEF Got, Request, MinOf, Limit
<1>5. CASE window_len[h] # 0
  BY <1>1, <1>2, <1>3, <1>5 DEF Got, Request, MinOf
<1> QED BY <1>4, <1>5

-----------------------------------------------------------------------------
(* Steps that refill a buffer *)

\* What crefill_no_comp leaves behind, in one place for every caller of it
\* (expose_page, next_page, prev_page, cread).
LEMMA CrefillStep ==
  ASSUME IInv, NEW h \in Handles, open[h],
         NEW l, NEW o \in Nat, NEW e \in Nat, o + e <= Limit(h),
         l = cfh_id[h] => kpos = window_offset[h] + o + e,
         Crefill(h, l, o, e), UNCHANGED ids
  PROVE  /\ kpos' \in 0..FileLen /\ last' \in 0..(IdMod - 1)
         /\ offset' \in [Handles -> 0..FileLen]
         /\ end' \in [Handles -> 0..FileLen]
         /\ origin' \in [Handles -> 0..FileLen]
         /\ IdsDistinct'
         /\ LastOwnsPosition'
         /\ BufferIsWindow'
         /\ BufferInWindow'
         /\ offset'[h] = o + e
         /\ end'[h] > 0 => origin'[h] = window_offset[h] + (o + e)
         /\ end'[h] = 0 => o + e = Limit(h)
         /\ (o + e) + end'[h] <= Limit(h)
         /\ end'[h] <= size[h]
         /\ \A g \in Handles \ {h} : /\ end'[g] = end[g]
                                     /\ offset'[g] = offset[g]
                                     /\ origin'[g] = origin[g]
<1> DEFINE k == EnsureLseekPosition(h, l, o, e)
           n == Got(h, o + e, k)
<1>1. /\ k = window_offset[h] + (o + e)
      /\ n \in Nat /\ n <= FileLen
      /\ k + n <= FileLen
      /\ (o + e) + n <= Limit(h)
      /\ n = 0 => o + e = Limit(h)
  BY RefillReads DEF IInv
<1>0. n <= size[h]
  <2>1. n = MinOf(size[h], Limit(h) - (o + e))
    BY RefillReads DEF IInv
  <2>2. Limit(h) \in Nat /\ size[h] \in Nat
    BY LimitType DEF IInv, TypeOK
  <2> HIDE DEF n
  <2> QED BY <2>1, <2>2 DEF MinOf
<1>2. /\ window_offset[h] \in 0..FileLen /\ Limit(h) \in 0..FileLen
      /\ cfh_id[h] \in 1..handle_count /\ handle_count \in Nat
  BY LimitType DEF IInv, TypeOK, IdsDistinct
<1>3. /\ last' = cfh_id[h]
      /\ kpos' = k + n
      /\ offset' = [offset EXCEPT ![h] = o + e]
      /\ end' = [end EXCEPT ![h] = n]
      /\ origin' = [origin EXCEPT ![h] = IF n = 0 THEN 0 ELSE k]
  BY DEF Crefill
<1> HIDE DEF k, n
<1>4. /\ kpos' \in 0..FileLen /\ last' \in 0..(IdMod - 1)
      /\ offset' \in [Handles -> 0..FileLen]
      /\ end' \in [Handles -> 0..FileLen]
      /\ origin' \in [Handles -> 0..FileLen]
  BY <1>1, <1>2, <1>3 DEF IInv, TypeOK
<1>5. /\ offset'[h] = o + e /\ end'[h] = n
      /\ origin'[h] = IF n = 0 THEN 0 ELSE k
      /\ \A g \in Handles \ {h} : /\ end'[g] = end[g]
                                  /\ offset'[g] = offset[g]
                                  /\ origin'[g] = origin[g]
  BY <1>3 DEF IInv, TypeOK
<1>6. IdsDistinct'
  BY <1>2, <1>3 DEF IInv, IdsDistinct, ids
<1>7. LastOwnsPosition'
  BY <1>1, <1>2, <1>3, <1>5 DEF IInv, IdsDistinct, LastOwnsPosition, ids
<1>8. BufferIsWindow'
  BY <1>1, <1>5 DEF IInv, BufferIsWindow, ids
<1>9. BufferInWindow'
  BY <1>1, <1>5 DEF IInv, BufferInWindow, Limit, ids
<1>10. end'[h] <= size[h]
  BY <1>0, <1>5
<1> QED BY <1>1, <1>4, <1>5, <1>6, <1>7, <1>8, <1>9, <1>10

-----------------------------------------------------------------------------
(* The invariant *)

\* One handle, opened on the whole file (copen).
LEMMA InitInv == ASSUME Init PROVE IInv
<1>1. TypeOK
  BY DEF Init, TypeOK, Nothing
<1>a. \A h \in Handles : open[h] <=> h = Root
  BY Zenon DEF Init
<1>b. /\ last = 0 /\ handle_count = 1 /\ cfh_id[Root] = 1
      /\ window_offset[Root] = RootStart
      /\ window_len[Root] = FileLen - RootStart
      /\ reading = NoHandle
      /\ \A h \in Handles : /\ size[h] = PageSize /\ offset[h] = 0
                            /\ pos[h] = 0 /\ end[h] = 0
  BY DEF Init
<1>2. IdsDistinct
  BY <1>a, <1>b DEF IdsDistinct
<1>3. HandlesSane
  BY <1>a, <1>b DEF HandlesSane
<1>4. LastOwnsPosition
  BY <1>a, <1>b DEF LastOwnsPosition
<1>5. BufferIsWindow /\ BufferInWindow
  BY <1>a, <1>b DEF BufferIsWindow, BufferInWindow, Limit
<1> QED BY <1>1, <1>2, <1>3, <1>4, <1>5 DEF IInv

\* What a handle gives its caller lies in the file.
LEMMA ShowType ==
  ASSUME NEW h \in Handles, NEW i \in Nat, NEW n \in Nat,
         offset'[h] \in Nat, offset'[h] + i + n <= FileLen,
         origin'[h] \in Nat, n > 0 => origin'[h] + i + n <= FileLen,
         Show(h, i, n)
  PROVE  shown' \in [h : Handles, at : 0..FileLen, from : 0..FileLen, n : 0..FileLen]
BY DEF Show, Nothing

\* An id below the width of CFH_ID is not truncated.
LEMMA AsIdSmall ==
  ASSUME MaxOpens < IdMod, NEW n \in Nat, n <= MaxOpens
  PROVE  AsId(n) = n
<1>1. n < IdMod
  OBVIOUS
<1> QED BY <1>1 DEF AsId

\* copen_child_cfh: a new handle has a new id.
LEMMA OpenChildInv ==
  ASSUME MaxOpens < IdMod, IInv,
         NEW c \in Handles, NEW p \in Handles, NEW w \in Nat \X Nat,
         w[1] <= w[2], NEW n \in Nat, n >= 1, OpenChild(c, p, w, n)
  PROVE  IInv'
<1>0. /\ cfh_id' = [cfh_id EXCEPT ![c] = AsId(handle_count + 1)]
      /\ handle_count + 1 <= MaxOpens /\ handle_count \in Nat
  BY DEF OpenChild, IInv, TypeOK
<1>1. /\ cfh_id' = [cfh_id EXCEPT ![c] = handle_count + 1]
      /\ handle_count + 1 <= MaxOpens /\ handle_count \in Nat
  <2>1. AsId(handle_count + 1) = handle_count + 1
    BY <1>0, AsIdSmall
  <2> QED BY <1>0, <2>1
<1>2. Rebase(p) \in 0..FileLen
  BY DEF Rebase, IInv, TypeOK
<1>3. w[1] \in Nat /\ w[2] \in Nat
  OBVIOUS
<1>4. TypeOK'
  BY <1>1, <1>2, <1>3 DEF OpenChild, IInv, TypeOK, shared, call, Nothing
<1>5. /\ open' = [open EXCEPT ![c] = TRUE]
      /\ offset'[c] = 0 /\ pos'[c] = 0 /\ end'[c] = 0
      /\ window_offset'[c] + window_len'[c] <= FileLen
      /\ window_offset'[c] <= FileLen
      /\ window_offset'[c] \in Nat /\ window_len'[c] \in Nat
      /\ size'[c] = n
      /\ cfh_id'[c] = handle_count + 1
      /\ last' = last /\ kpos' = kpos /\ reading' = reading
      /\ handle_count' = handle_count + 1
      /\ \A h \in Handles \ {c} :
           /\ open'[h] = open[h] /\ cfh_id'[h] = cfh_id[h]
           /\ window_offset'[h] = window_offset[h]
           /\ window_len'[h] = window_len[h]
           /\ size'[h] = size[h] /\ offset'[h] = offset[h]
           /\ pos'[h] = pos[h] /\ end'[h] = end[h] /\ origin'[h] = origin[h]
  BY <1>1, <1>2, <1>3 DEF OpenChild, IInv, TypeOK, shared, call
<1>6. IdsDistinct'
  BY <1>1, <1>5 DEF IInv, TypeOK, IdsDistinct
<1>7. HandlesSane'
  BY <1>5 DEF IInv, TypeOK, HandlesSane
<1>8. LastOwnsPosition'
  BY <1>1, <1>5 DEF IInv, TypeOK, IdsDistinct, LastOwnsPosition
<1>9. BufferIsWindow' /\ BufferInWindow'
  BY <1>5 DEF IInv, TypeOK, BufferIsWindow, BufferInWindow, Limit
<1> QED BY <1>4, <1>6, <1>7, <1>8, <1>9 DEF IInv

\* cclose leaves `last' alone.
LEMMA CloseInv ==
  ASSUME IInv, NEW c \in Handles, Close(c)
  PROVE  IInv'
<1>1. TypeOK'
  BY DEF Close, IInv, TypeOK, shared, call, Nothing
<1>2. IdsDistinct'
  BY DEF Close, IInv, TypeOK, IdsDistinct, shared
<1>3. HandlesSane'
  BY DEF Close, IInv, TypeOK, HandlesSane, Ready, Idle, call
<1>4. LastOwnsPosition'
  BY DEF Close, IInv, TypeOK, LastOwnsPosition, shared
<1>5. BufferIsWindow' /\ BufferInWindow'
  BY DEF Close, IInv, TypeOK, BufferIsWindow, BufferInWindow, Limit
<1> QED BY <1>1, <1>2, <1>3, <1>4, <1>5 DEF IInv

\* cseek drops the buffer or stays in it.
LEMMA SeekInv ==
  ASSUME IInv, NEW h \in Handles, NEW t \in 0..Limit(h), Seek(h, t)
  PROVE  IInv'
<1>0. open[h] /\ Limit(h) \in 0..FileLen
  BY LimitType DEF Seek, Ready, IInv
<1>1. TypeOK'
  BY <1>0 DEF Seek, CseekNoComp, FlagLseekNeeded, InBuffer, IInv, TypeOK,
              shared, ids, call, Nothing
<1>2. IdsDistinct'
  BY DEF Seek, CseekNoComp, FlagLseekNeeded, IInv, TypeOK, IdsDistinct, shared, ids
<1>3. HandlesSane'
  BY <1>0 DEF Seek, CseekNoComp, InBuffer, IInv, TypeOK, HandlesSane, ids, call
<1>4. LastOwnsPosition'
  BY <1>0 DEF Seek, CseekNoComp, FlagLseekNeeded, IInv, TypeOK, IdsDistinct,
              LastOwnsPosition, shared, ids
<1>5. BufferIsWindow' /\ BufferInWindow'
  BY <1>0 DEF Seek, CseekNoComp, IInv, TypeOK, BufferIsWindow,
              BufferInWindow, Limit, ids
<1> QED BY <1>1, <1>2, <1>3, <1>4, <1>5 DEF IInv

\* Pages: pos is in the buffer after the step, and nothing is being read.
LEMMA PageInv ==
  ASSUME IInv, NEW h \in Handles, Ready(h),
         NEW l, NEW o \in Nat, NEW e \in Nat, o + e <= Limit(h),
         l = cfh_id[h] => kpos = window_offset[h] + o + e,
         Crefill(h, l, o, e), pos' = [pos EXCEPT ![h] = 0],
         Show(h, 0, end'[h]), UNCHANGED <<ids, call>>
  PROVE  IInv'
<1>0. open[h] /\ UNCHANGED ids /\ UNCHANGED call /\ Limit(h) \in 0..FileLen
      /\ window_offset[h] \in Nat /\ window_offset[h] + Limit(h) <= FileLen
  BY LimitType DEF Ready, IInv, TypeOK
<1>1. /\ kpos' \in 0..FileLen /\ last' \in 0..(IdMod - 1)
      /\ offset' \in [Handles -> 0..FileLen]
      /\ end' \in [Handles -> 0..FileLen]
      /\ origin' \in [Handles -> 0..FileLen]
      /\ IdsDistinct' /\ LastOwnsPosition' /\ BufferIsWindow' /\ BufferInWindow'
      /\ offset'[h] = o + e
      /\ end'[h] > 0 => origin'[h] = window_offset[h] + (o + e)
      /\ (o + e) + end'[h] <= Limit(h)
      /\ end'[h] <= size[h]
      /\ \A g \in Handles \ {h} : end'[g] = end[g]
  BY <1>0, CrefillStep
<1>2. shown' \in [h : Handles, at : 0..FileLen, from : 0..FileLen, n : 0..FileLen]
  BY <1>0, <1>1, ShowType
<1>3. /\ pos' \in [Handles -> 0..FileLen] /\ pos'[h] = 0
      /\ \A g \in Handles \ {h} : pos'[g] = pos[g]
  BY DEF IInv, TypeOK
<1>4. TypeOK'
  BY <1>0, <1>1, <1>2, <1>3 DEF IInv, TypeOK, ids, call
<1>5. HandlesSane'
  BY <1>0, <1>1, <1>3 DEF IInv, TypeOK, HandlesSane, ids, call
<1> QED BY <1>1, <1>4, <1>5 DEF IInv

\* What a handle that has been sought or not brings to its next refill.
LEMMA BeforeRefill ==
  ASSUME IInv, NEW h \in Handles, open[h]
  PROVE  /\ offset[h] \in Nat /\ end[h] \in Nat /\ offset[h] + end[h] <= Limit(h)
         /\ Limit(h) \in 0..FileLen
         /\ last = cfh_id[h] => kpos = window_offset[h] + offset[h] + end[h]
         /\ FlagLseekNeeded(h) # cfh_id[h]
         /\ pos[h] \in 0..end[h]
         /\ size[h] \in Nat /\ size[h] >= 1 /\ end[h] <= size[h]
BY LimitType DEF IInv, TypeOK, IdsDistinct, HandlesSane, LastOwnsPosition,
                 BufferInWindow, FlagLseekNeeded

\* next_page goes on behind the buffer.
LEMMA NextPageInv ==
  ASSUME IInv, NEW h \in Handles, NextPage(h)
  PROVE  IInv'
BY BeforeRefill, PageInv DEF NextPage, Ready

\* Where the cseek of prev_page goes: before the page, or, from the end of a
\* full page, to its first byte.
LEMMA PrevTargetPlace ==
  ASSUME IInv, NEW h \in Handles, open[h], offset[h] > 0
  PROVE  /\ PrevTarget(h) \in Nat
         /\ PrevTarget(h) <= offset[h]
         /\ offset[h] <= PrevTarget(h) + size[h]
         /\ ~InBuffer(h, PrevTarget(h)) /\ end[h] > 0 => PrevTarget(h) < offset[h]
         /\ end[h] = 0 => PrevTarget(h) < offset[h]
BY BeforeRefill DEF PrevTarget, InBuffer

\* prev_page brings the page before, or the next one from the end of a page.
LEMMA PrevPageInv ==
  ASSUME IInv, NEW h \in Handles, PrevPage(h)
  PROVE  IInv'
<1>1. /\ Ready(h) /\ open[h] /\ offset[h] > 0
      /\ pos' = [pos EXCEPT ![h] = 0]
      /\ Show(h, 0, end'[h]) /\ UNCHANGED <<ids, call>>
  BY DEF PrevPage, NeedsPrevPage, Ready
<1>2. CASE InBuffer(h, PrevTarget(h))
  <2>1. Crefill(h, last, offset[h], end[h])
    BY <1>2 DEF PrevPage
  <2> QED BY <1>1, <2>1, BeforeRefill, PageInv
<1>3. CASE ~InBuffer(h, PrevTarget(h))
  <2>1. Crefill(h, FlagLseekNeeded(h), PrevTarget(h), 0)
    BY <1>3 DEF PrevPage
  <2>2. PrevTarget(h) \in Nat /\ PrevTarget(h) + 0 <= Limit(h)
    BY <1>1, BeforeRefill, PrevTargetPlace
  <2>3. FlagLseekNeeded(h) # cfh_id[h]
    BY <1>1, BeforeRefill
  <2> QED BY <1>1, <2>1, <2>2, <2>3, PageInv
<1> QED BY <1>2, <1>3

\* expose_page refills an empty buffer.
LEMMA ExposePageInv ==
  ASSUME IInv, NEW h \in Handles, ExposePage(h)
  PROVE  IInv'
<1>1. Ready(h) /\ open[h] /\ Show(h, 0, end'[h]) /\ UNCHANGED <<ids, call>>
  BY DEF ExposePage, Ready
<1>2. CASE end[h] = 0
  <2>1. Crefill(h, last, offset[h], 0) /\ pos' = [pos EXCEPT ![h] = 0]
    BY <1>2 DEF ExposePage
  <2> QED BY <1>1, <1>2, <2>1, BeforeRefill, PageInv
<1>3. CASE end[h] # 0
  <2>1. UNCHANGED <<shared, buffer>>
    BY <1>3 DEF ExposePage
  <2>2. /\ offset'[h] = offset[h] /\ origin'[h] = origin[h] /\ end'[h] = end[h]
        /\ origin[h] = window_offset[h] + offset[h]
        /\ window_offset[h] \in Nat /\ window_offset[h] + Limit(h) <= FileLen
    BY <1>1, <1>3, <2>1, LimitType DEF buffer, IInv, BufferIsWindow, TypeOK
  <2>b. offset[h] \in Nat /\ end[h] \in Nat /\ offset[h] + end[h] <= Limit(h)
        /\ Limit(h) \in Nat
    BY <1>1, BeforeRefill
  <2>3. shown' \in [h : Handles, at : 0..FileLen, from : 0..FileLen, n : 0..FileLen]
    BY <1>1, <2>2, <2>b, ShowType
  <2>4. TypeOK'
    BY <1>1, <2>1, <2>3 DEF shared, ids, buffer, call, IInv, TypeOK
  <2> QED BY <1>1, <2>1, <2>4 DEF shared, ids, buffer, call, IInv, IdsDistinct,
       HandlesSane, LastOwnsPosition, BufferIsWindow, BufferInWindow, Limit
<1> QED BY <1>2, <1>3

\* A cread begins.
LEMMA ReadStartInv ==
  ASSUME IInv, NEW h \in Handles, NEW n \in 1..FileLen, ReadStart(h, n)
  PROVE  IInv'
<1>1. /\ UNCHANGED <<shared, ids, buffer>> /\ reading' = h /\ left' = n
      /\ open[h] /\ shown' = Nothing
  BY DEF ReadStart, Ready
<1>2. TypeOK'
  BY <1>1 DEF shared, ids, buffer, Nothing, IInv, TypeOK
<1> QED BY <1>1, <1>2 DEF shared, ids, buffer, IInv, IdsDistinct, HandlesSane,
      LastOwnsPosition, BufferIsWindow, BufferInWindow, Limit

\* One turn of cread's loop: how much of the buffer it copies.
LEMMA CopyStep ==
  ASSUME TypeOK, NEW h \in Handles, NEW e \in Nat, NEW i \in 0..e, e <= FileLen,
         Copy(h, i, e)
  PROVE  /\ MinOf(e - i, left) \in 0..(e - i)
         /\ pos' = [pos EXCEPT ![h] = i + MinOf(e - i, left)]
         /\ pos' \in [Handles -> 0..FileLen]
         /\ pos'[h] \in i..e
         /\ left' \in 0..FileLen
         /\ reading' \in {h, NoHandle}
         /\ Show(h, i, MinOf(e - i, left))
BY DEF Copy, MinOf, TypeOK

\* A turn of cread copies from the buffer or refills it.
LEMMA ReadTurnInv ==
  ASSUME IInv, NEW h \in Handles, ReadTurn(h)
  PROVE  IInv'
<1> DEFINE i == IF end[h] = pos[h] THEN 0 ELSE pos[h]
           x == MinOf(end'[h] - i, left)
<1>1. open[h] /\ UNCHANGED ids
  BY RootAssumption DEF ReadTurn, IInv, HandlesSane
<1>2. /\ offset[h] \in Nat /\ end[h] \in Nat /\ offset[h] + end[h] <= Limit(h)
      /\ Limit(h) \in 0..FileLen /\ pos[h] \in 0..end[h]
      /\ window_offset[h] \in Nat /\ window_offset[h] + Limit(h) <= FileLen
      /\ last = cfh_id[h] => kpos = window_offset[h] + offset[h] + end[h]
  BY <1>1, BeforeRefill, LimitType DEF IInv, TypeOK
<1>3. /\ kpos' \in 0..FileLen /\ last' \in 0..(IdMod - 1)
      /\ offset' \in [Handles -> 0..FileLen]
      /\ end' \in [Handles -> 0..FileLen]
      /\ origin' \in [Handles -> 0..FileLen]
      /\ IdsDistinct' /\ LastOwnsPosition' /\ BufferIsWindow' /\ BufferInWindow'
      /\ offset'[h] + end'[h] <= Limit(h)
      /\ end'[h] > 0 => origin'[h] = window_offset[h] + offset'[h]
      /\ i \in 0..end'[h] /\ end'[h] <= size[h]
      /\ \A g \in Handles \ {h} : end'[g] = end[g]
      /\ Copy(h, i, end'[h])
  <2>1. CASE end[h] = pos[h]
    <3>1. Crefill(h, last, offset[h], end[h]) /\ Copy(h, 0, end'[h])
      BY <2>1 DEF ReadTurn
    <3>2. /\ kpos' \in 0..FileLen /\ last' \in 0..(IdMod - 1)
          /\ offset' \in [Handles -> 0..FileLen]
          /\ end' \in [Handles -> 0..FileLen]
          /\ origin' \in [Handles -> 0..FileLen]
          /\ IdsDistinct' /\ LastOwnsPosition' /\ BufferIsWindow' /\ BufferInWindow'
          /\ offset'[h] = offset[h] + end[h]
          /\ (offset[h] + end[h]) + end'[h] <= Limit(h)
          /\ end'[h] <= size[h]
          /\ end'[h] > 0 => origin'[h] = window_offset[h] + (offset[h] + end[h])
          /\ \A g \in Handles \ {h} : end'[g] = end[g]
      BY <1>1, <1>2, <3>1, CrefillStep
    <3>3. i \in 0..end'[h]
      BY <2>1, <3>2
    <3> QED BY <2>1, <3>1, <3>2, <3>3
  <2>2. CASE end[h] # pos[h]
    <3>1. UNCHANGED <<shared, offset, end, origin>> /\ Copy(h, pos[h], end[h])
      BY <2>2 DEF ReadTurn
    <3>2. i \in 0..end'[h] /\ Copy(h, i, end'[h])
      BY <1>2, <2>2, <3>1
    <3>3. /\ IdsDistinct' /\ LastOwnsPosition' /\ BufferIsWindow' /\ BufferInWindow'
      BY <1>1, <3>1 DEF shared, ids, IInv, IdsDistinct, LastOwnsPosition,
                        BufferIsWindow, BufferInWindow, Limit
    <3>4. end'[h] <= size[h]
      BY <1>1, <3>1, BeforeRefill
    <3> QED BY <1>1, <1>2, <3>1, <3>2, <3>3, <3>4
            DEF shared, IInv, TypeOK, BufferIsWindow
  <2> QED BY <2>1, <2>2
<1> HIDE DEF i
<1>4. end'[h] \in Nat /\ end'[h] <= FileLen /\ offset'[h] \in Nat /\ origin'[h] \in Nat
  BY <1>3
<1>5. /\ x \in 0..(end'[h] - i)
      /\ pos' = [pos EXCEPT ![h] = i + x]
      /\ pos' \in [Handles -> 0..FileLen]
      /\ pos'[h] \in i..end'[h]
      /\ left' \in 0..FileLen
      /\ reading' \in {h, NoHandle}
      /\ Show(h, i, x)
  BY <1>3, <1>4, CopyStep DEF IInv
<1> HIDE DEF x
<1>6. i \in Nat /\ x \in Nat /\ offset'[h] + i + x <= FileLen
      /\ (x > 0 => origin'[h] + i + x <= FileLen)
  BY <1>2, <1>3, <1>4, <1>5
<1>7. shown' \in [h : Handles, at : 0..FileLen, from : 0..FileLen, n : 0..FileLen]
  BY <1>4, <1>5, <1>6, ShowType
<1>8. TypeOK'
  BY <1>1, <1>3, <1>5, <1>7 DEF IInv, TypeOK, ids
<1>9. HandlesSane'
  <2>1. \A g \in Handles \ {h} : pos'[g] = pos[g]
    BY <1>5 DEF IInv, TypeOK
  <2> QED BY <1>1, <1>3, <1>4, <1>5, <2>1 DEF IInv, TypeOK, HandlesSane, ids
<1> QED BY <1>3, <1>8, <1>9 DEF IInv

\* Every step keeps the invariant.
LEMMA StepInv ==
  ASSUME MaxOpens < IdMod, IInv, [Next]_vars
  PROVE  IInv'
<1>1. ASSUME NEW c \in Handles, NEW p \in Handles, NEW w \in Windows, Open(c, p, w)
      PROVE  IInv'
  <2>1. PICK n \in {PageSize} \cup ({w[2] - w[1]} \ {0}) : OpenChild(c, p, w, n)
    BY <1>1 DEF Open
  <2>2. w \in Nat \X Nat /\ w[1] <= w[2] /\ n \in Nat /\ n >= 1
    OBVIOUS
  <2> QED BY <2>1, <2>2, OpenChildInv
<1>2. ASSUME NEW c \in Handles, NEW p \in Handles, Dup(c, p)
      PROVE  IInv'
  <2> DEFINE w == <<window_offset[p], window_offset[p] + window_len[p]>>
  <2>1. OpenChild(c, p, w, size[p]) /\ open[p]
    BY <1>2 DEF Dup, OpenChild, Ready
  <2>2. w \in Nat \X Nat /\ w[1] <= w[2] /\ size[p] \in Nat /\ size[p] >= 1
    BY <2>1 DEF IInv, TypeOK, HandlesSane
  <2> HIDE DEF w
  <2> QED BY <2>1, <2>2, OpenChildInv
<1>3. CASE UNCHANGED vars
  BY <1>3 DEF vars, shared, ids, buffer, call, IInv, TypeOK, IdsDistinct,
      HandlesSane, LastOwnsPosition, BufferIsWindow, BufferInWindow, Limit
<1> QED BY <1>1, <1>2, <1>3, CloseInv, ExposePageInv, NextPageInv, PrevPageInv,
           ReadTurnInv, SeekInv, ReadStartInv DEF Next

-----------------------------------------------------------------------------
(* Theorems *)

\* The inductive invariant holds of every run in which ids do not wrap.
THEOREM Invariance ==
  ASSUME MaxOpens < IdMod
  PROVE  Spec => []IInv
<1>1. Init => IInv
  BY InitInv
<1>2. IInv /\ [Next]_vars => IInv'
  BY StepInv
<1> QED BY <1>1, <1>2, PTL DEF Spec

\* Types, of the fields of every handle and of the descriptor's position.
THEOREM TypeCorrect ==
  ASSUME MaxOpens < IdMod
  PROVE  Spec => []TypeOK
<1>1. IInv => TypeOK
  BY DEF IInv
<1> QED BY <1>1, Invariance, PTL

\* The descriptor stands where the handle named in `last` expects it.
THEOREM PositionOwned ==
  ASSUME MaxOpens < IdMod
  PROVE  Spec => []LastOwnsPosition
<1>1. IInv => LastOwnsPosition
  BY DEF IInv
<1> QED BY <1>1, Invariance, PTL

\* Every buffer holds the bytes its handle takes it to hold, and no byte from
\* outside the window.
THEOREM BuffersCorrect ==
  ASSUME MaxOpens < IdMod
  PROVE  Spec => [](BufferIsWindow /\ BufferInWindow)
<1>1. IInv => BufferIsWindow /\ BufferInWindow
  BY DEF IInv
<1> QED BY <1>1, Invariance, PTL

\* A cread gives less than it was asked for only at the end of the window.
THEOREM ShortReads ==
  ASSUME MaxOpens < IdMod
  PROVE  Spec => ShortReadOnlyAtEnd
<1> DEFINE A == \A h \in Handles :
                  ReadTurn(h) /\ reading' = NoHandle /\ shown'.n < left =>
                    offset'[h] + pos'[h] = Limit(h)
<1>1. ASSUME IInv, NEW h \in Handles, ReadTurn(h), reading' = NoHandle, shown'.n < left
      PROVE  offset'[h] + pos'[h] = Limit(h)
  <2>1. open[h] /\ UNCHANGED ids
    BY <1>1, RootAssumption DEF ReadTurn, IInv, HandlesSane
  <2>2. /\ offset[h] \in Nat /\ end[h] \in Nat /\ offset[h] + end[h] <= Limit(h)
        /\ pos[h] \in 0..end[h] /\ left \in Nat
        /\ pos \in [Handles -> 0..FileLen]
        /\ last = cfh_id[h] => kpos = window_offset[h] + offset[h] + end[h]
    BY <1>1, <2>1, BeforeRefill DEF IInv, TypeOK
  <2>3. CASE end[h] = pos[h]
    <3>1. Crefill(h, last, offset[h], end[h]) /\ Copy(h, 0, end'[h])
      BY <1>1, <2>3 DEF ReadTurn
    <3>2. /\ offset'[h] = offset[h] + end[h] /\ end'[h] \in Nat
          /\ end'[h] = 0 => offset[h] + end[h] = Limit(h)
      BY <1>1, <2>1, <2>2, <3>1, CrefillStep
    <3>3. end'[h] = 0
      BY <1>1, <2>2, <3>1, <3>2 DEF Copy, MinOf, Show, Nothing
    <3>4. pos'[h] = 0
      BY <2>2, <3>1, <3>3 DEF Copy, MinOf
    <3> QED BY <2>2, <3>2, <3>3, <3>4
  <2>4. CASE end[h] # pos[h]
    BY <1>1, <2>2, <2>4 DEF ReadTurn, Copy, MinOf, Show, Nothing
  <2> QED BY <2>3, <2>4
<1>2. IInv /\ [Next]_vars => [A]_vars
  BY <1>1
<1> QED BY <1>2, Invariance, PTL DEF Spec, ShortReadOnlyAtEnd

-----------------------------------------------------------------------------
(* CFile implements Cursors *)

\* The first handle is the first cursor.
LEMMA RefinesInit == ASSUME Init PROVE Private!Init
<1>1. /\ open = [h \in Handles |-> h = Root]
      /\ PageOf = [h \in Handles |-> [at |-> 0, n |-> 0]]
      /\ CursorOf = [h \in Handles |-> 0]
  BY DEF Init, PageOf, CursorOf
<1>2. window_offset \in [Handles -> 0..FileLen] /\ window_len \in [Handles -> 0..FileLen]
  BY DEF Init
<1> QED BY <1>1, <1>2 DEF Init, Private!Init, Private!NoPage, Private!Nothing, Nothing

\* What changes of the pages and the cursors when only h's buffer changes.
LEMMA OneHandleMoves ==
  ASSUME TypeOK, TypeOK', NEW h \in Handles,
         \A g \in Handles \ {h} : /\ offset'[g] = offset[g]
                                 /\ end'[g] = end[g] /\ pos'[g] = pos[g]
  PROVE  /\ PageOf' = [PageOf EXCEPT ![h] = [at |-> offset'[h], n |-> end'[h]]]
         /\ CursorOf' = [CursorOf EXCEPT ![h] = offset'[h] + pos'[h]]
BY DEF PageOf, CursorOf, TypeOK

\* Opening a child is opening a cursor.
LEMMA RefinesOpen ==
  ASSUME IInv, IInv', NEW c \in Handles, NEW p \in Handles, NEW w \in Nat \X Nat,
         NEW n \in Nat, OpenChild(c, p, w, n)
  PROVE  Private!Next
<1> DEFINE b == window_offset'[c]
           l == window_len'[c]
<1>1. b \in 0..FileLen /\ l \in 0..FileLen
  BY DEF IInv, TypeOK
<1>2. /\ ~open[c] /\ open' = [open EXCEPT ![c] = TRUE]
      /\ window_offset' = [window_offset EXCEPT ![c] = b]
      /\ window_len' = [window_len EXCEPT ![c] = l]
      /\ shown' = Nothing
  BY DEF OpenChild, IInv, TypeOK
<1>3. /\ PageOf' = [PageOf EXCEPT ![c] = [at |-> 0, n |-> 0]]
      /\ CursorOf' = [CursorOf EXCEPT ![c] = 0]
  BY OneHandleMoves DEF OpenChild, IInv, TypeOK
<1> HIDE DEF b, l
<1>4. Private!Open(c, b, l)
  BY <1>2, <1>3 DEF Private!Open, Private!NoPage, Private!Nothing, Nothing
<1> QED BY <1>1, <1>4 DEF Private!Next

\* Closing a handle is closing a cursor.
LEMMA RefinesClose ==
  ASSUME IInv, IInv', NEW c \in Handles, Close(c)
  PROVE  Private!Next
<1>1. /\ PageOf' = [PageOf EXCEPT ![c] = [at |-> 0, n |-> 0]]
      /\ CursorOf' = [CursorOf EXCEPT ![c] = 0]
  BY OneHandleMoves DEF Close, IInv, TypeOK
<1>2. Private!Close(c)
  BY <1>1 DEF Close, Ready, Private!Close, Private!NoPage, Private!Nothing, Nothing
<1> QED BY <1>2 DEF Private!Next

\* cseek is a seek of the cursor.
LEMMA RefinesSeek ==
  ASSUME IInv, IInv', NEW h \in Handles, NEW t \in 0..Limit(h), Seek(h, t)
  PROVE  Private!Next
<1>1. open[h] /\ t \in 0..FileLen /\ t \in Nat
  BY LimitType DEF Seek, Ready, IInv
<1>2. /\ UNCHANGED <<open, window_offset, window_len>> /\ shown' = Nothing
  BY DEF Seek, ids
<1>3. CASE InBuffer(h, t)
  <2>1. /\ UNCHANGED <<offset, end>> /\ pos' = [pos EXCEPT ![h] = t - offset[h]]
    BY <1>3 DEF Seek
  <2>2. offset[h] + (t - offset[h]) = t
    BY <1>1 DEF IInv, TypeOK
  <2>3. PageOf' = PageOf /\ CursorOf' = [CursorOf EXCEPT ![h] = t]
    BY <2>1, <2>2 DEF PageOf, CursorOf, IInv, TypeOK
  <2>4. PageOf[h].at <= t /\ t < PageOf[h].at + PageOf[h].n
    BY <1>1, <1>3 DEF PageOf, InBuffer, IInv, TypeOK
  <2>5. Private!Seek(h, t)
    BY <1>1, <1>2, <2>3, <2>4 DEF Private!Seek, Private!Nothing, Nothing
  <2> QED BY <1>1, <2>5 DEF Private!Next
<1>4. CASE ~InBuffer(h, t)
  <2>1. /\ offset'[h] = t /\ end'[h] = 0 /\ pos'[h] = 0
        /\ \A g \in Handles \ {h} : /\ offset'[g] = offset[g]
                                    /\ end'[g] = end[g] /\ pos'[g] = pos[g]
    BY <1>4 DEF Seek, CseekNoComp, IInv, TypeOK
  <2>2. /\ PageOf' = [PageOf EXCEPT ![h] = [at |-> t, n |-> 0]]
        /\ CursorOf' = [CursorOf EXCEPT ![h] = t]
    BY <1>1, <2>1, OneHandleMoves DEF IInv
  <2>3. Private!Seek(h, t)
    BY <1>1, <1>2, <2>2 DEF Private!Seek, Private!NoPage, Private!Nothing, Nothing
  <2> QED BY <1>1, <2>3 DEF Private!Next
<1> QED BY <1>3, <1>4

\* A refill turns h's page, whichever call makes it.
LEMMA RefillIsPage ==
  ASSUME IInv, NEW h \in Handles, open[h],
         NEW l, NEW o \in Nat, NEW e \in Nat, o + e <= Limit(h),
         l = cfh_id[h] => kpos = window_offset[h] + o + e,
         Crefill(h, l, o, e), UNCHANGED ids
  PROVE  /\ offset'[h] = o + e /\ end'[h] \in 0..FileLen /\ o + e \in 0..FileLen
         /\ Private!IsPage(h, [at |-> o + e, n |-> end'[h]])
         /\ end'[h] > 0 => origin'[h] = window_offset[h] + (o + e)
         /\ \A g \in Handles \ {h} : offset'[g] = offset[g] /\ end'[g] = end[g]
<1>1. /\ end' \in [Handles -> 0..FileLen]
      /\ offset'[h] = o + e
      /\ end'[h] > 0 => origin'[h] = window_offset[h] + (o + e)
      /\ end'[h] = 0 => o + e = Limit(h)
      /\ (o + e) + end'[h] <= Limit(h)
      /\ \A g \in Handles \ {h} : offset'[g] = offset[g] /\ end'[g] = end[g]
  BY CrefillStep
<1>2. Limit(h) \in 0..FileLen
  BY LimitType DEF IInv
<1> QED BY <1>1, <1>2 DEF Limit, Private!IsPage, Private!Limit

\* The bytes shown are those of the window.
LEMMA RefinesShow ==
  ASSUME NEW h \in Handles, NEW i \in Nat, NEW n \in Nat,
         offset'[h] \in Nat, window_offset[h] \in Nat,
         n > 0 => origin'[h] = window_offset[h] + offset'[h],
         Show(h, i, n)
  PROVE  Private!Show(h, offset'[h] + i, n)
<1>1. n > 0 => origin'[h] + i = window_offset[h] + (offset'[h] + i)
  OBVIOUS
<1> QED BY <1>1 DEF Show, Private!Show, Nothing, Private!Nothing

\* A page that is brought is the cursor's own page.
LEMMA RefinesPage ==
  ASSUME IInv, IInv', NEW h \in Handles, Ready(h),
         NEW l, NEW o \in Nat, NEW e \in Nat, o + e <= Limit(h),
         l = cfh_id[h] => kpos = window_offset[h] + o + e,
         Crefill(h, l, o, e), pos' = [pos EXCEPT ![h] = 0],
         Show(h, 0, end'[h]), UNCHANGED <<ids, call>>,
         \/ o = offset[h] /\ e = end[h]
         \/ o < offset[h] /\ e = 0 /\ offset[h] <= o + end'[h]
  PROVE  Private!Next
<1> DEFINE p == [at |-> o + e, n |-> end'[h]]
<1>0. open[h] /\ UNCHANGED ids
  BY DEF Ready
<1>1. /\ offset'[h] = o + e /\ end'[h] \in 0..FileLen /\ o + e \in 0..FileLen
      /\ Private!IsPage(h, p)
      /\ end'[h] > 0 => origin'[h] = window_offset[h] + (o + e)
      /\ \A g \in Handles \ {h} : offset'[g] = offset[g] /\ end'[g] = end[g]
  BY <1>0, RefillIsPage
<1>2. /\ pos'[h] = 0 /\ \A g \in Handles \ {h} : pos'[g] = pos[g]
      /\ window_offset[h] \in Nat
      /\ offset[h] \in Nat /\ end[h] \in Nat
  BY DEF IInv, TypeOK
<1>3. p \in [at : 0..FileLen, n : 0..FileLen] /\ p.at = o + e /\ p.n = end'[h]
  BY <1>1
<1>4. PageOf' = [PageOf EXCEPT ![h] = p] /\ CursorOf' = [CursorOf EXCEPT ![h] = p.at]
  <2>1. /\ PageOf' = [PageOf EXCEPT ![h] = [at |-> offset'[h], n |-> end'[h]]]
        /\ CursorOf' = [CursorOf EXCEPT ![h] = offset'[h] + pos'[h]]
    BY <1>1, <1>2, OneHandleMoves DEF IInv
  <2>2. offset'[h] + pos'[h] = o + e
    BY <1>1, <1>2
  <2> QED BY <1>1, <1>3, <2>1, <2>2
<1>5. Private!Show(h, p.at, p.n)
  <2>1. Private!Show(h, offset'[h] + 0, end'[h])
    BY <1>1, <1>2, RefinesShow
  <2> QED BY <1>1, <1>3, <2>1
<1>6. PageOf[h].at = offset[h] /\ PageOf[h].n = end[h]
  BY DEF PageOf
<1> HIDE DEF p
<1>7. CASE o = offset[h] /\ e = end[h]
  <2>1. Private!NextPage(h, p)
    BY <1>0, <1>1, <1>3, <1>4, <1>5, <1>6, <1>7
       DEF ids, Private!NextPage, Private!Turn
  <2> QED BY <1>3, <2>1 DEF Private!Next
<1>8. CASE o < offset[h] /\ e = 0 /\ offset[h] <= o + end'[h]
  <2>1. p.at < PageOf[h].at /\ PageOf[h].at <= p.at + p.n
    BY <1>3, <1>6, <1>8
  <2>2. Private!PrevPage(h, p)
    BY <1>0, <1>1, <1>4, <1>5, <2>1 DEF ids, Private!PrevPage
  <2> QED BY <1>3, <2>2 DEF Private!Next
<1> QED BY <1>7, <1>8

\* next_page is a page of the cursor.
LEMMA RefinesNextPage ==
  ASSUME IInv, IInv', NEW h \in Handles, NextPage(h)
  PROVE  Private!Next
BY BeforeRefill, RefinesPage DEF NextPage, Ready

\* expose_page is a page of the cursor.
LEMMA RefinesExposePage ==
  ASSUME IInv, IInv', NEW h \in Handles, ExposePage(h)
  PROVE  Private!Next
<1>1. Ready(h) /\ open[h] /\ Show(h, 0, end'[h]) /\ UNCHANGED <<ids, call>>
  BY DEF ExposePage, Ready
<1>2. CASE end[h] = 0
  <2>1. Crefill(h, last, offset[h], 0) /\ pos' = [pos EXCEPT ![h] = 0]
    BY <1>2 DEF ExposePage
  <2> QED BY <1>1, <1>2, <2>1, BeforeRefill, RefinesPage
<1>3. CASE end[h] # 0
  <2>1. UNCHANGED <<shared, buffer>>
    BY <1>3 DEF ExposePage
  <2>2. /\ offset'[h] = offset[h] /\ origin'[h] = origin[h] /\ end'[h] = end[h]
        /\ origin[h] = window_offset[h] + offset[h]
        /\ window_offset[h] \in Nat /\ offset[h] \in Nat /\ end[h] \in Nat
    BY <1>1, <1>3, <2>1 DEF buffer, IInv, BufferIsWindow, TypeOK
  <2>3. Private!Show(h, offset'[h] + 0, end'[h])
    BY <1>1, <2>2, RefinesShow
  <2>4. offset'[h] + 0 = PageOf[h].at /\ end'[h] = PageOf[h].n
    BY <2>2 DEF PageOf
  <2>5. UNCHANGED <<PageOf, CursorOf, open, window_offset, window_len>>
    BY <1>1, <2>1 DEF buffer, ids, PageOf, CursorOf
  <2>6. Private!Look(h)
    BY <1>1, <2>3, <2>4, <2>5 DEF Private!Look
  <2> QED BY <2>6 DEF Private!Next
<1> QED BY <1>2, <1>3

\* A refill fills the buffer as far as the window goes.
LEMMA RefillFills ==
  ASSUME IInv, NEW h \in Handles, open[h],
         NEW l, NEW o \in Nat, NEW e \in Nat, o + e <= Limit(h),
         l = cfh_id[h] => kpos = window_offset[h] + o + e,
         Crefill(h, l, o, e)
  PROVE  end'[h] = MinOf(size[h], Limit(h) - (o + e))
<1> DEFINE k == EnsureLseekPosition(h, l, o, e)
           n == Got(h, o + e, k)
<1>1. n = MinOf(size[h], Limit(h) - (o + e))
  BY RefillReads DEF IInv
<1>2. end'[h] = n
  BY DEF Crefill, IInv, TypeOK
<1> QED BY <1>1, <1>2

\* prev_page is a page of the cursor: one before, or from the end of a full
\* page the next.
LEMMA RefinesPrevPage ==
  ASSUME IInv, IInv', NEW h \in Handles, PrevPage(h)
  PROVE  Private!Next
<1> DEFINE t == PrevTarget(h)
<1>1. /\ Ready(h) /\ open[h] /\ offset[h] > 0
      /\ pos' = [pos EXCEPT ![h] = 0]
      /\ Show(h, 0, end'[h]) /\ UNCHANGED <<ids, call>>
  BY DEF PrevPage, NeedsPrevPage, Ready
<1>2. CASE InBuffer(h, t)
  <2>1. Crefill(h, last, offset[h], end[h])
    BY <1>2 DEF PrevPage
  <2> QED BY <1>1, <2>1, BeforeRefill, RefinesPage
<1>3. CASE ~InBuffer(h, t)
  <2>1. Crefill(h, FlagLseekNeeded(h), t, 0)
    BY <1>3 DEF PrevPage
  <2>2. /\ offset[h] \in Nat /\ end[h] \in Nat /\ size[h] \in Nat
        /\ size[h] >= 1 /\ Limit(h) \in Nat /\ offset[h] <= Limit(h)
        /\ FlagLseekNeeded(h) # cfh_id[h]
    BY <1>1, BeforeRefill
  <2>3. t \in Nat /\ t < offset[h] /\ offset[h] <= t + size[h] /\ t + 0 <= Limit(h)
    BY <1>1, <1>3, <2>2, PrevTargetPlace
  <2> HIDE DEF t
  <2>4. end'[h] = MinOf(size[h], Limit(h) - (t + 0))
    BY <1>1, <2>1, <2>2, <2>3, RefillFills
  <2>5. offset[h] <= t + end'[h]
    BY <2>2, <2>3, <2>4 DEF MinOf
  <2> QED BY <1>1, <2>1, <2>2, <2>3, <2>5, RefinesPage
<1> QED BY <1>2, <1>3

\* A read of the cursor begins.
LEMMA RefinesReadStart ==
  ASSUME IInv, NEW h \in Handles, NEW n \in 1..FileLen, ReadStart(h, n)
  PROVE  Private!Next
<1>1. Private!ReadStart(h)
  BY DEF ReadStart, Ready, Private!ReadStart, PageOf, CursorOf, ids, buffer,
         Nothing, Private!Nothing
<1> QED BY <1>1 DEF Private!Next

\* A turn of cread is a turn of the cursor's read.
LEMMA RefinesReadTurn ==
  ASSUME IInv, IInv', NEW h \in Handles, ReadTurn(h)
  PROVE  Private!Next
<1> DEFINE i == IF end[h] = pos[h] THEN 0 ELSE pos[h]
           x == MinOf(end'[h] - i, left)
           p == [at |-> offset'[h], n |-> end'[h]]
<1>1. open[h] /\ UNCHANGED ids
  BY RootAssumption DEF ReadTurn, IInv, HandlesSane
<1>2. /\ offset[h] \in Nat /\ end[h] \in Nat /\ offset[h] + end[h] <= Limit(h)
      /\ pos[h] \in 0..end[h] /\ Limit(h) \in 0..FileLen
      /\ window_offset[h] \in Nat
      /\ last = cfh_id[h] => kpos = window_offset[h] + offset[h] + end[h]
  BY <1>1, BeforeRefill DEF IInv, TypeOK
<1>3. /\ offset'[h] \in 0..FileLen /\ end'[h] \in 0..FileLen
      /\ end'[h] > 0 => origin'[h] = window_offset[h] + offset'[h]
      /\ i \in 0..end'[h] /\ Copy(h, i, end'[h])
      /\ offset'[h] + i = offset[h] + pos[h]
      /\ \A g \in Handles \ {h} : offset'[g] = offset[g] /\ end'[g] = end[g]
      /\ \/ offset'[h] = offset[h] /\ end'[h] = end[h]
         \/ /\ offset'[h] = offset[h] + end[h] /\ pos[h] = end[h]
            /\ Private!IsPage(h, p)
  <2>1. CASE end[h] = pos[h]
    <3>1. Crefill(h, last, offset[h], end[h]) /\ Copy(h, 0, end'[h])
      BY <2>1 DEF ReadTurn
    <3>2. /\ offset'[h] = offset[h] + end[h] /\ end'[h] \in 0..FileLen
          /\ offset[h] + end[h] \in 0..FileLen
          /\ Private!IsPage(h, [at |-> offset[h] + end[h], n |-> end'[h]])
          /\ end'[h] > 0 => origin'[h] = window_offset[h] + (offset[h] + end[h])
          /\ \A g \in Handles \ {h} : offset'[g] = offset[g] /\ end'[g] = end[g]
      BY <1>1, <1>2, <3>1, RefillIsPage
    <3>3. i = 0 /\ pos[h] = end[h]
      BY <2>1
    <3>4. Private!IsPage(h, p)
      BY <3>2
    <3> HIDE DEF p
    <3> QED BY <1>2, <3>1, <3>2, <3>3, <3>4
  <2>2. CASE end[h] # pos[h]
    BY <1>2, <2>2 DEF ReadTurn, IInv, TypeOK, BufferIsWindow, HandlesSane
  <2> QED BY <2>1, <2>2
<1> HIDE DEF i
<1>4. end'[h] \in Nat /\ end'[h] <= FileLen /\ offset'[h] \in Nat
  BY <1>3
<1>5. /\ x \in 0..(end'[h] - i)
      /\ pos' = [pos EXCEPT ![h] = i + x]
      /\ Show(h, i, x)
  BY <1>3, <1>4, CopyStep DEF IInv
<1> HIDE DEF x
<1>6. /\ i \in Nat /\ x \in Nat /\ x \in 0..FileLen /\ i + x <= end'[h]
      /\ x > 0 => end'[h] > 0
  BY <1>3, <1>4, <1>5
<1>7. pos'[h] = i + x /\ \A g \in Handles \ {h} : pos'[g] = pos[g]
  BY <1>5 DEF IInv, TypeOK
<1>8. p.at = offset'[h] /\ p.n = end'[h] /\ p \in [at : 0..FileLen, n : 0..FileLen]
  BY <1>3
<1>9. /\ PageOf' = [PageOf EXCEPT ![h] = p]
      /\ CursorOf' = [CursorOf EXCEPT ![h] = @ + x]
      /\ CursorOf[h] = offset'[h] + i
      /\ PageOf[h] = [at |-> offset[h], n |-> end[h]]
  <2>1. /\ PageOf' = [PageOf EXCEPT ![h] = [at |-> offset'[h], n |-> end'[h]]]
        /\ CursorOf' = [CursorOf EXCEPT ![h] = offset'[h] + pos'[h]]
    BY <1>3, <1>7, OneHandleMoves DEF IInv
  <2>2. CursorOf[h] = offset'[h] + i /\ PageOf[h] = [at |-> offset[h], n |-> end[h]]
    BY <1>3 DEF CursorOf, PageOf
  <2>3. offset'[h] + pos'[h] = CursorOf[h] + x
    BY <1>4, <1>6, <1>7, <2>2
  <2> QED BY <2>1, <2>2, <2>3
<1>10. Private!Show(h, CursorOf[h], x)
  BY <1>2, <1>3, <1>4, <1>5, <1>6, <1>9, RefinesShow
<1>11. \/ UNCHANGED PageOf /\ p = PageOf[h]
       \/ CursorOf[h] = PageOf[h].at + PageOf[h].n /\ Private!Turn(h, p)
  <2>1. CASE offset'[h] = offset[h] /\ end'[h] = end[h]
    <3>1. p = PageOf[h]
      BY <1>9, <2>1
    <3>2. PageOf' = PageOf
      BY <1>9, <3>1 DEF PageOf
    <3> QED BY <3>1, <3>2
  <2>2. CASE /\ offset'[h] = offset[h] + end[h] /\ pos[h] = end[h]
             /\ Private!IsPage(h, p)
    <3>1. CursorOf[h] = PageOf[h].at + PageOf[h].n
      BY <1>3, <1>9, <2>2
    <3>2. p.at = PageOf[h].at + PageOf[h].n
      BY <1>8, <1>9, <2>2
    <3> QED BY <1>1, <1>9, <2>2, <3>1, <3>2 DEF Private!Turn
  <2> QED BY <1>3, <2>1, <2>2
<1>12. p.at <= CursorOf[h] /\ CursorOf[h] + x <= p.at + p.n
  BY <1>3, <1>4, <1>6, <1>8, <1>9
<1> HIDE DEF p
<1>13. Private!Read(h, x, p)
  BY <1>1, <1>9, <1>10, <1>11, <1>12 DEF ids, Private!Read
<1> QED BY <1>6, <1>8, <1>13 DEF Private!Next

\* Every step of the handles is one of the cursors, or none.
LEMMA RefinesNext ==
  ASSUME IInv, IInv', [Next]_vars
  PROVE  [Private!Next]_(Private!vars)
<1>1. ASSUME NEW c \in Handles, NEW p \in Handles, NEW w \in Windows, Open(c, p, w)
      PROVE  Private!Next
  <2>1. PICK n \in {PageSize} \cup ({w[2] - w[1]} \ {0}) : OpenChild(c, p, w, n)
    BY <1>1 DEF Open
  <2>2. w \in Nat \X Nat /\ w[1] <= w[2] /\ n \in Nat
    OBVIOUS
  <2> QED BY <2>1, <2>2, RefinesOpen
<1>2. ASSUME NEW c \in Handles, NEW p \in Handles, Dup(c, p)
      PROVE  Private!Next
  <2> DEFINE w == <<window_offset[p], window_offset[p] + window_len[p]>>
  <2>1. OpenChild(c, p, w, size[p])
    BY <1>2 DEF Dup
  <2>2. w \in Nat \X Nat /\ size[p] \in Nat
    BY DEF IInv, TypeOK
  <2> HIDE DEF w
  <2> QED BY <2>1, <2>2, RefinesOpen
<1>3. CASE UNCHANGED vars
  BY <1>3 DEF vars, shared, ids, buffer, call, Private!vars, PageOf, CursorOf
<1> QED BY <1>1, <1>2, <1>3, RefinesClose, RefinesSeek, RefinesExposePage,
           RefinesNextPage, RefinesPrevPage, RefinesReadTurn, RefinesReadStart DEF Next

\* Sharing one descriptor is invisible: every run of CFile is a run of Cursors.
THEOREM Refinement ==
  ASSUME MaxOpens < IdMod
  PROVE  Spec => PrivateCursors
<1>1. Init => Private!Init
  BY RefinesInit
<1>2. IInv /\ IInv' /\ [Next]_vars => [Private!Next]_(Private!vars)
  BY RefinesNext
<1> QED BY <1>1, <1>2, Invariance, PTL DEF Spec, PrivateCursors, Private!Spec

=============================================================================
