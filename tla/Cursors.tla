------------------------------ MODULE Cursors ------------------------------
(***************************************************************************)
(* What libcfile promises the users of its read handles: every handle is a *)
(* cursor of its own over a window of the file, with a page of the window  *)
(* in memory, and nothing another handle does can be noticed through it.   *)
(* No descriptor, no lseek and no buffer size appear here: CFile shows how *)
(* the code keeps this promise with one descriptor shared by all handles.  *)
(*                                                                         *)
(* Bytes are named by their position in the file, so "the right bytes" is  *)
(* an equation between positions.                                          *)
(***************************************************************************)
EXTENDS Naturals

CONSTANTS Handles,   \* the cfile structures of the program
          Root,      \* the one that opened the file
          FileLen    \* bytes in the file

VARIABLES open,      \* open[h]: CFILE_IS_OPEN
          base,      \* base[h]: where the window of h starts in the file
          len,       \* len[h]: its length, 0 when it has no end
          page,      \* page[h]: [at, n], the page of the window in memory
          cursor,    \* cursor[h]: what ctell(CSEEK_FSTART) answers
          shown      \* the bytes the last call gave its caller: by which
                     \* handle, at which window position, from which file
                     \* position

vars == <<open, base, len, page, cursor, shown>>

Limit(h) == IF len[h] = 0 THEN FileLen - base[h] ELSE len[h]

NoPage(o) == [at |-> o, n |-> 0]
Nothing   == [h |-> Root, at |-> 0, from |-> 0, n |-> 0]

Init ==
  /\ open = [h \in Handles |-> h = Root]
  /\ base \in [Handles -> 0..FileLen]
  /\ len  \in [Handles -> 0..FileLen]
  /\ page = [h \in Handles |-> NoPage(0)]
  /\ cursor = [h \in Handles |-> 0]
  /\ shown = Nothing

Open(c, b, l) ==
  /\ ~open[c]
  /\ open' = [open EXCEPT ![c] = TRUE]
  /\ base' = [base EXCEPT ![c] = b]
  /\ len'  = [len EXCEPT ![c] = l]
  /\ page' = [page EXCEPT ![c] = NoPage(0)]
  /\ cursor' = [cursor EXCEPT ![c] = 0]
  /\ shown' = Nothing

Close(c) ==
  /\ open[c] /\ c # Root
  /\ open' = [open EXCEPT ![c] = FALSE]
  /\ page' = [page EXCEPT ![c] = NoPage(0)]
  /\ cursor' = [cursor EXCEPT ![c] = 0]
  /\ len' = [len EXCEPT ![c] = 0]
  /\ shown' = Nothing
  /\ UNCHANGED base

\* The page stays only if it holds the target.
Seek(h, t) ==
  /\ open[h]
  /\ cursor' = [cursor EXCEPT ![h] = t]
  /\ \/ page' = [page EXCEPT ![h] = NoPage(t)]
     \/ /\ page[h].at <= t /\ t < page[h].at + page[h].n
        /\ UNCHANGED page
  /\ shown' = Nothing
  /\ UNCHANGED <<open, base, len>>

\* p is a page of h's window; only at the end of the window is it empty.
IsPage(h, p) ==
  /\ p.at + p.n <= Limit(h)
  /\ p.n = 0 => p.at = Limit(h)

Show(h, at, n) ==
  shown' = IF n = 0 THEN Nothing
           ELSE [h |-> h, at |-> at, from |-> base[h] + at, n |-> n]

\* The page in memory, looked at again.
Look(h) ==
  /\ open[h]
  /\ Show(h, page[h].at, page[h].n)
  /\ UNCHANGED <<open, base, len, page, cursor>>

\* The page that follows the one in memory.
Turn(h, p) ==
  /\ open[h]
  /\ p.at = page[h].at + page[h].n
  /\ IsPage(h, p)
  /\ page' = [page EXCEPT ![h] = p]

NextPage(h, p) ==
  /\ Turn(h, p)
  /\ cursor' = [cursor EXCEPT ![h] = p.at]
  /\ Show(h, p.at, p.n)
  /\ UNCHANGED <<open, base, len>>

\* A page that starts before the one in memory and leaves no gap to it.
PrevPage(h, p) ==
  /\ open[h]
  /\ p.at < page[h].at /\ page[h].at <= p.at + p.n
  /\ IsPage(h, p)
  /\ page' = [page EXCEPT ![h] = p]
  /\ cursor' = [cursor EXCEPT ![h] = p.at]
  /\ Show(h, p.at, p.n)
  /\ UNCHANGED <<open, base, len>>

\* A cread is called: it gives its bytes one piece at a time.
ReadStart(h) ==
  /\ open[h]
  /\ shown' = Nothing
  /\ UNCHANGED <<open, base, len, page, cursor>>

\* n bytes at the cursor, from the page in memory or from the next one.
Read(h, n, p) ==
  /\ open[h]
  /\ \/ UNCHANGED page /\ p = page[h]
     \/ cursor[h] = page[h].at + page[h].n /\ Turn(h, p)
  /\ p.at <= cursor[h] /\ cursor[h] + n <= p.at + p.n
  /\ cursor' = [cursor EXCEPT ![h] = @ + n]
  /\ Show(h, cursor[h], n)
  /\ UNCHANGED <<open, base, len>>

Next ==
  \/ \E c \in Handles, b, l \in 0..FileLen : Open(c, b, l)
  \/ \E h \in Handles : Close(h) \/ Look(h) \/ ReadStart(h)
  \/ \E h \in Handles, t \in 0..FileLen : Seek(h, t)
  \/ \E h \in Handles, p \in [at : 0..FileLen, n : 0..FileLen] :
       \/ NextPage(h, p)
       \/ PrevPage(h, p)
       \/ \E n \in 0..FileLen : Read(h, n, p)

Spec == Init /\ [][Next]_vars

=============================================================================
