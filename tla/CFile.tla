------------------------------- MODULE CFile -------------------------------
(***************************************************************************)
(* libcfile's read handles on one uncompressed file (libcfile/cfile.c,     *)
(* noop.c, internal.h).                                                    *)
(*                                                                         *)
(* A root handle opens the file; children are windows of it and share its  *)
(* descriptor.  The descriptor has ONE position.  The root remembers in    *)
(* lseek_info.parent.last the id of the handle that position belongs to; a *)
(* handle lseeks before it reads only when the id there is not its own.    *)
(* All that keeps the handles apart is therefore the bookkeeping of `last` *)
(* and of the ids, and this module is about it.                            *)
(*                                                                         *)
(* A byte is named by its position in the file.  The content of a buffer   *)
(* is then the position its first byte was read from, `origin`, and a      *)
(* handle is right when origin agrees with what its own fields say.        *)
(***************************************************************************)
EXTENDS Integers

CONSTANTS Handles,    \* the cfile structures the program declares
          Root,       \* the one passed to copen_path or copen_dup_fd
          NoHandle,   \* no cread is under way
          FileLen,    \* bytes in the file
          RootStart,  \* raw_fh_start of the root: 0 for copen_path
          PageSize,   \* CFILE_DEFAULT_BUFFER_SIZE
          Windows,    \* the <<fh_start, fh_end>> children are opened with
          MaxOpens,   \* bound on handle_count
          IdMod       \* ids of type CFH_ID are below it: 2^16

ASSUME RootAssumption   == Root \in Handles /\ NoHandle \notin Handles
ASSUME SizeAssumption   == /\ FileLen \in Nat /\ PageSize \in Nat \ {0}
                           /\ RootStart \in 0..FileLen
ASSUME WindowAssumption == \A w \in Windows : /\ w \in Nat \X Nat
                                              /\ w[1] <= w[2]
ASSUME IdAssumption     == MaxOpens \in Nat \ {0} /\ IdMod \in Nat \ {0, 1}

VARIABLES
  kpos,           \* the position of the descriptor, kept by the kernel
  last,           \* lseek_info.parent.last
  handle_count,   \* lseek_info.parent.handle_count
  open,           \* CFILE_IS_OPEN in state_flags
  cfh_id,
  window_offset, window_len,      \* data.window_offset, data.window_len
  size, offset, pos, end,         \* data.size, data.offset, data.pos, data.end
  origin,         \* where in the file the bytes of data.buff come from,
                  \* 0 when end = 0
  reading, left,  \* the cread under way, and len - bytes_wrote in it
  shown           \* the bytes the last step gave a caller, as in Cursors

shared == <<kpos, last>>
ids    == <<handle_count, open, cfh_id, window_offset, window_len, size>>
buffer == <<offset, pos, end, origin>>
call   == <<reading, left>>
vars   == <<shared, ids, buffer, call, shown>>

MinOf(a, b) == IF a <= b THEN a ELSE b

\* (CFH_ID) n: an id is an unsigned short, handle_count an unsigned int.
AsId(n) == IF n < IdMod THEN n ELSE n % IdMod

\* cfile_len, or what is left of the file when window_len = 0: no limit then.
Limit(h) == IF window_len[h] = 0 THEN FileLen - window_offset[h]
                                 ELSE window_len[h]

Nothing == [h |-> Root, at |-> 0, from |-> 0, n |-> 0]

Idle == reading = NoHandle
Ready(h) == Idle /\ open[h]

-----------------------------------------------------------------------------
(* Opening and closing *)

Init ==
  /\ kpos \in 0..FileLen
  /\ last = 0
  /\ handle_count = 1
  /\ open = [h \in Handles |-> h = Root]
  /\ cfh_id = [h \in Handles |-> IF h = Root THEN 1 ELSE 0]
  /\ window_offset = [h \in Handles |-> IF h = Root THEN RootStart ELSE 0]
  /\ window_len = [h \in Handles |-> IF h = Root THEN FileLen - RootStart ELSE 0]
  /\ size = [h \in Handles |-> PageSize]
  /\ offset = [h \in Handles |-> 0]
  /\ pos = [h \in Handles |-> 0]
  /\ end = [h \in Handles |-> 0]
  /\ origin = [h \in Handles |-> 0]
  /\ reading = NoHandle
  /\ left = 0
  /\ shown = Nothing

\* What copen_child_cfh adds to the request: nothing when the parent is the
\* root, the window of the ROOT when the parent is a child itself.
Rebase(p) == IF p = Root THEN 0 ELSE window_offset[Root]

\* copen_child_cfh, to the end of internal_copen_no_comp.  A child always
\* hangs off the root, whatever its parent p is.  That the window ends in the
\* file is up to the caller: copen_child_cfh does not look, and a window past
\* the end is left out here.
OpenChild(c, p, w, n) ==
  /\ Ready(p) /\ ~open[c] /\ c # Root
  /\ handle_count < MaxOpens
  /\ w[2] + Rebase(p) <= FileLen
  /\ handle_count' = handle_count + 1
  /\ open' = [open EXCEPT ![c] = TRUE]
  /\ cfh_id' = [cfh_id EXCEPT ![c] = AsId(handle_count + 1)]
  /\ window_offset' = [window_offset EXCEPT ![c] = w[1] + Rebase(p)]
  /\ window_len' = [window_len EXCEPT ![c] = w[2] - w[1]]
  /\ size' = [size EXCEPT ![c] = n]
  /\ offset' = [offset EXCEPT ![c] = 0]
  /\ pos' = [pos EXCEPT ![c] = 0]
  /\ end' = [end EXCEPT ![c] = 0]
  /\ origin' = [origin EXCEPT ![c] = 0]
  /\ shown' = Nothing
  /\ UNCHANGED <<shared, call>>

\* The two ways the callers choose data.size: the default, or the whole
\* window (CFILE_BUFFER_ALL, used on windows that are not empty).
Open(c, p, w) ==
  \E n \in {PageSize} \cup ({w[2] - w[1]} \ {0}) : OpenChild(c, p, w, n)

\* copen_dup_cfh: the request is the window of p, so it is rebased as well.
Dup(c, p) ==
  /\ window_len[p] # 0
  /\ LET w == <<window_offset[p], window_offset[p] + window_len[p]>>
     IN  OpenChild(c, p, w, size[p])

\* cclose of a child.  It leaves `last` alone.
Close(c) ==
  /\ Ready(c) /\ c # Root
  /\ open' = [open EXCEPT ![c] = FALSE]
  /\ size' = [size EXCEPT ![c] = 0]
  /\ window_len' = [window_len EXCEPT ![c] = 0]
  /\ offset' = [offset EXCEPT ![c] = 0]
  /\ pos' = [pos EXCEPT ![c] = 0]
  /\ end' = [end EXCEPT ![c] = 0]
  /\ origin' = [origin EXCEPT ![c] = 0]
  /\ shown' = Nothing
  /\ UNCHANGED <<shared, handle_count, cfh_id, window_offset, call>>

-----------------------------------------------------------------------------
(* Refilling the buffer *)

\* MISTAKE: the root is not told of the seek.
FlagNothing(h) == last

\* flag_lseek_needed: the value it leaves in `last`.
FlagLseekNeeded(h) == IF last = cfh_id[h] THEN 0 ELSE last

\* MISTAKE: it goes back to the start of the buffer.
EnsureBufferStart(h, l, o, e) ==
  IF l # cfh_id[h] THEN window_offset[h] + o ELSE kpos

\* ensure_lseek_position with `last` = l, for a buffer that holds the e bytes
\* from window position o: where the descriptor stands after it.
EnsureLseekPosition(h, l, o, e) ==
  IF l # cfh_id[h] THEN window_offset[h] + o + e ELSE kpos

\* What crefill_no_comp asks read() for.  window_len - offset is a size_t:
\* past the end of the window it is huge.
Request(h, o) ==
  IF window_len[h] # 0 /\ o <= window_len[h]
  THEN MinOf(size[h], window_len[h] - o)
  ELSE size[h]

\* read() on a regular file, from position k.
Got(h, o, k) == IF k < FileLen THEN MinOf(Request(h, o), FileLen - k) ELSE 0

\* crefill_no_comp, on a buffer that holds the e bytes from o, with `last` = l.
\* It sets pos too: the callers of this operator say what becomes of it.
Crefill(h, l, o, e) ==
  LET k == EnsureLseekPosition(h, l, o, e)
      n == Got(h, o + e, k)
  IN  /\ last' = cfh_id[h]
      /\ kpos' = k + n
      /\ offset' = [offset EXCEPT ![h] = o + e]
      /\ end' = [end EXCEPT ![h] = n]
      /\ origin' = [origin EXCEPT ![h] = IF n = 0 THEN 0 ELSE k]

\* The caller reads bytes of the buffer, from position i in it.
Show(h, i, n) ==
  shown' = IF n = 0 THEN Nothing
           ELSE [h |-> h, at |-> offset'[h] + i, from |-> origin'[h] + i, n |-> n]

-----------------------------------------------------------------------------
(* Seeking *)

\* The first branch of cseek: the target t is in the buffer.
InBuffer(h, t) ==
  /\ offset[h] <= t /\ t < offset[h] + size[h]
  /\ t - offset[h] < end[h]

\* cseek_no_comp of a handle that is not write-only.
CseekNoComp(h, t) ==
  /\ last' = FlagLseekNeeded(h)
  /\ offset' = [offset EXCEPT ![h] = t]
  /\ pos' = [pos EXCEPT ![h] = 0]
  /\ end' = [end EXCEPT ![h] = 0]
  /\ origin' = [origin EXCEPT ![h] = 0]
  /\ UNCHANGED kpos

\* cseek; t is data_offset, what each of the four offset types comes to.  Its
\* second branch tests access_flags & !CFILE_WRITEABLE, which is always 0.
Seek(h, t) ==
  /\ Ready(h)
  /\ IF InBuffer(h, t)
     THEN /\ pos' = [pos EXCEPT ![h] = t - offset[h]]
          /\ UNCHANGED <<shared, offset, end, origin>>
     ELSE CseekNoComp(h, t)
  /\ shown' = Nothing
  /\ UNCHANGED <<ids, call>>

-----------------------------------------------------------------------------
(* Pages *)

ExposePage(h) ==
  /\ Ready(h)
  /\ IF end[h] = 0
     THEN /\ Crefill(h, last, offset[h], 0)
          /\ pos' = [pos EXCEPT ![h] = 0]
     ELSE UNCHANGED <<shared, buffer>>
  /\ Show(h, 0, end'[h])
  /\ UNCHANGED <<ids, call>>

NextPage(h) ==
  /\ Ready(h)
  /\ Crefill(h, last, offset[h], end[h])
  /\ pos' = [pos EXCEPT ![h] = 0]
  /\ Show(h, 0, end'[h])
  /\ UNCHANGED <<ids, call>>

\* OneHalfPassCorrecting, the one caller of prev_page, asks for the previous
\* page when the byte it needs lies before the page.  The handle stands where
\* the cseek before its loop put it, which may be anywhere in the page.
NeedsPrevPage(h) == offset[h] > 0

\* Where the cseek of prev_page goes: a page back from the handle's position,
\* not from the start of its page.
PrevTarget(h) ==
  IF size[h] > offset[h] THEN 0 ELSE offset[h] + pos[h] - size[h]

\* prev_page.  A handle at the end of a full page gets the NEXT one: the target
\* is then the first byte of its buffer, which stays.  The loop that follows
\* the refill is not entered on one file: the page it brings reaches the old.
PrevPage(h) ==
  /\ Ready(h) /\ NeedsPrevPage(h)
  /\ IF InBuffer(h, PrevTarget(h))
     THEN Crefill(h, last, offset[h], end[h])
     ELSE Crefill(h, FlagLseekNeeded(h), PrevTarget(h), 0)
  /\ pos' = [pos EXCEPT ![h] = 0]
  /\ Show(h, 0, end'[h])
  /\ UNCHANGED <<ids, call>>

-----------------------------------------------------------------------------
(* cread: one step per turn of its loop *)

ReadStart(h, n) ==
  /\ Ready(h)
  /\ reading' = h
  /\ left' = n
  /\ shown' = Nothing
  /\ UNCHANGED <<shared, ids, buffer>>

\* MISTAKE: the call gives up after a turn, goes on after a refill that brought
\* nothing, or copies more than the buffer holds.
CopyOnce(h, i, e) ==
  LET x == MinOf(e - i, left)
  IN  /\ pos' = [pos EXCEPT ![h] = i + x]
      /\ left' = 0
      /\ reading' = NoHandle
      /\ Show(h, i, x)
CopyOn(h, i, e) ==
  LET x == MinOf(e - i, left)
  IN  /\ pos' = [pos EXCEPT ![h] = i + x]
      /\ left' = left - x
      /\ reading' = IF left' = 0 THEN NoHandle ELSE h
      /\ Show(h, i, x)
CopyAll(h, i, e) ==
  /\ pos' = [pos EXCEPT ![h] = i + left]
  /\ left' = 0
  /\ reading' = NoHandle
  /\ Show(h, i, left)

\* The copy of a turn: from position i of the buffer, which holds e bytes.
\* The call ends when nothing is left, or when the refill brought nothing.
Copy(h, i, e) ==
  LET x == MinOf(e - i, left)
  IN  /\ pos' = [pos EXCEPT ![h] = i + x]
      /\ left' = IF e = 0 THEN 0 ELSE left - x
      /\ reading' = IF left' = 0 THEN NoHandle ELSE h
      /\ Show(h, i, x)

ReadTurn(h) ==
  /\ reading = h
  /\ IF end[h] = pos[h]
     THEN Crefill(h, last, offset[h], end[h]) /\ Copy(h, 0, end'[h])
     ELSE UNCHANGED <<shared, offset, end, origin>> /\ Copy(h, pos[h], end[h])
  /\ UNCHANGED ids

Next ==
  \/ \E c, p \in Handles :
       \/ \E w \in Windows : Open(c, p, w)
       \/ Dup(c, p)
  \/ \E h \in Handles :
       \/ Close(h)
       \/ ExposePage(h)
       \/ NextPage(h)
       \/ PrevPage(h)
       \/ ReadTurn(h)
       \/ \E t \in 0..Limit(h) : Seek(h, t)
       \/ \E n \in 1..FileLen : ReadStart(h, n)

\* A cread that has begun is code that runs: its loop goes on.
Spec == /\ Init /\ [][Next]_vars
        /\ \A h \in Handles : WF_vars(ReadTurn(h))

-----------------------------------------------------------------------------
(* Properties *)

\* Types, and bounds: no position leaves the file.
TypeOK ==
  /\ kpos \in 0..FileLen
  /\ last \in 0..(IdMod - 1)
  /\ handle_count \in 1..MaxOpens
  /\ open \in [Handles -> BOOLEAN]
  /\ cfh_id \in [Handles -> 0..(IdMod - 1)]
  /\ window_offset \in [Handles -> 0..FileLen]
  /\ window_len \in [Handles -> 0..FileLen]
  /\ size \in [Handles -> Nat]
  /\ offset \in [Handles -> 0..FileLen]
  /\ pos \in [Handles -> 0..FileLen]
  /\ end \in [Handles -> 0..FileLen]
  /\ origin \in [Handles -> 0..FileLen]
  /\ reading \in Handles \cup {NoHandle}
  /\ left \in 0..FileLen
  /\ shown \in [h : Handles, at : 0..FileLen, from : 0..FileLen, n : 0..FileLen]

\* When `last` names an open handle, the descriptor stands where that handle
\* expects it: at the first byte after its buffer (internal.h, noop.c).
LastOwnsPosition ==
  \A h \in Handles :
    open[h] /\ last = cfh_id[h] =>
      kpos = window_offset[h] + offset[h] + end[h]

\* The bytes in the buffer of a handle are those of the window position it
\* takes them for, whatever the other handles did to the shared descriptor.
BufferIsWindow ==
  \A h \in Handles :
    open[h] /\ end[h] > 0 => origin[h] = window_offset[h] + offset[h]

\* No handle holds a byte from outside its window.
BufferInWindow ==
  \A h \in Handles : open[h] => offset[h] + end[h] <= Limit(h)

\* A cread that gives fewer bytes than asked for has reached the end of the
\* window: it never gives up while bytes of the window remain.
ShortReadOnlyAtEnd ==
  [][\A h \in Handles :
       ReadTurn(h) /\ reading' = NoHandle /\ shown'.n < left =>
         offset'[h] + pos'[h] = Limit(h)]_vars

\* Every cread returns: its loop cannot spin.
ReadReturns == \A h \in Handles : reading = h ~> reading = NoHandle

PageOf   == [h \in Handles |-> [at |-> offset[h], n |-> end[h]]]
CursorOf == [h \in Handles |-> offset[h] + pos[h]]

Private == INSTANCE Cursors WITH base <- window_offset, len <- window_len,
                                 page <- PageOf, cursor <- CursorOf

\* The handles behave as cursors with a page each and a descriptor of their
\* own: sharing one descriptor is invisible (cfile.c, noop.c).
PrivateCursors == Private!Spec

\* "if we last lseeked, reset it" (internal.h): after a seek that drops the
\* buffer, the handle is not the one the descriptor is taken to belong to.
SeekFlagsLseek ==
  [][\A h \in Handles :
       (\E t \in 0..Limit(h) : Seek(h, t) /\ ~InBuffer(h, t)) =>
         last' # cfh_id[h]]_vars

\* "Update the request range to fit into the parents range" (cfile.c): the
\* window of a child lies in the window of its parent.
ChildFitsParent ==
  [][\A c, p \in Handles, w \in Windows :
       Open(c, p, w) /\ w[2] <= window_len[p] =>
         /\ window_offset[p] <= window_offset'[c]
         /\ window_offset'[c] + window_len'[c] <= window_offset[p] + window_len[p]]_vars

=============================================================================
