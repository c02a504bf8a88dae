---------------------------- MODULE Reconstruct ----------------------------
(***************************************************************************)
(* Executing the commands of a full buffer: reconstructFile and            *)
(* read_seq_write_rand of apply-patch.c.                                   *)
(*                                                                         *)
(* In order, each command is copied to the end of the target.  Reordered,  *)
(* each source is read once from its start to its end, whatever commands   *)
(* need a stretch of it getting it at their place in the target: first     *)
(* the ordinary sources, which write, then the overlays, which add to what *)
(* was written.  A run of commands that overlap in the source is read in   *)
(* pieces of a buffer.                                                     *)
(*                                                                         *)
(* One action is one turn of one of the loops.  Indices start at 1.  A     *)
(* byte is <<source, position>>.                                           *)
(***************************************************************************)
EXTENDS Integers, Sequences

CONSTANTS
  NSrc,          \* the sources are 1..NSrc
  Overlays,      \* those that are overlays
  VerLen,        \* the bytes of the target
  BufSize,       \* buf_size of read_seq_write_rand
  OutReadable,   \* out_cfh was opened for reading too
  Inputs,        \* the commands there may be, sorted by source, see GoodInput
  Lengths        \* how long the sources may be

Srcs == 1..NSrc
Norm == Srcs \ Overlays
Vers == 0..(VerLen - 1)
Command == [pos : Nat, len : Nat \ {0}, ver : Nat]
END_POS(c) == c.pos + c.len

\* Command c is for byte v of the target, and takes it from this position.
For(c, v)  == c.ver <= v /\ v < c.ver + c.len
From(c, v) == c.pos + (v - c.ver)

\* What qsort leaves of the lists of DCB_collapse_commands: sorted by their
\* position in the source, the lengths deciding between equals.
Sorted(l) ==
  \A x, y \in 1..Len(l) : x < y =>
    \/ l[x].pos < l[y].pos
    \/ l[x].pos = l[y].pos /\ l[x].len <= l[y].len

\* Each byte has one ordinary command, and one of each overlay at most
\* (EachByteOnce of module CommandBuffer).
GoodInput(in) ==
  /\ in \in [Srcs -> Seq(Command)]
  /\ \A s \in Srcs : Sorted(in[s])
  /\ \A s \in Srcs : \A x \in 1..Len(in[s]) : in[s][x].ver + in[s][x].len <= VerLen
  /\ \A v \in Vers : \E s \in Norm : \E x \in 1..Len(in[s]) : For(in[s][x], v)
  /\ \A v \in Vers : \A s, t \in Norm : \A x \in 1..Len(in[s]), y \in 1..Len(in[t]) :
       For(in[s][x], v) /\ For(in[t][y], v) => s = t /\ x = y
  /\ \A v \in Vers : \A s \in Overlays : \A x, y \in 1..Len(in[s]) :
       For(in[s][x], v) /\ For(in[s][y], v) => x = y

ASSUME SizeAssumption ==
  /\ NSrc \in Nat /\ Overlays \subseteq Srcs
  /\ VerLen \in Nat /\ BufSize \in Nat \ {0}
  /\ OutReadable \in BOOLEAN
ASSUME InputAssumption == \A in \in Inputs : GoodInput(in)
ASSUME LengthAssumption == Lengths \subseteq [Srcs -> Nat]

VARIABLES
  cl, src_len,      \* the commands of each source, and how long it is
  reorder,          \* reorder_for_seq_access
  recon,            \* reconstruct_pos, in order
  done, src,        \* the sources that are finished, and the present one
  start, end,       \* commands start..end - 1 get what is read
  pos, max_pos,     \* the place in the source, and the end of the run
  target,           \* each byte: what was written, what was added to it
  pc

vars == <<cl, src_len, reorder, recon, done, src, start, end, pos, max_pos, target, pc>>
input == <<cl, src_len, reorder>>

Hole  == <<0, 0>>
Blank == [v \in Vers |-> [base |-> Hole, masks |-> {}]]

Com == cl[src]

Init ==
  /\ cl \in Inputs /\ src_len \in Lengths
  /\ reorder \in BOOLEAN
  /\ (\E s \in Overlays : cl[s] # <<>>) => reorder
  /\ recon = 0 /\ done = {} /\ src = 0
  /\ start = 1 /\ end = 1 /\ pos = 0 /\ max_pos = 0
  /\ target = Blank
  /\ pc = IF reorder THEN "source" ELSE "in_order"

-----------------------------------------------------------------------------
(* reconstructFile, in order *)

\* The first n bytes of command c of source s are at their place.
Copied(s, c, n) ==
  [v \in Vers |-> IF c.ver <= v /\ v < c.ver + n
                  THEN [target[v] EXCEPT !.base = <<s, From(c, v)>>]
                  ELSE target[v]]

\* The next command is copied.  If its source ends too early, the blocks before
\* that are.
CopyNext ==
  \E s \in Srcs : \E x \in 1..Len(cl[s]) :
    LET c == cl[s][x]
    IN  /\ pc = "in_order" /\ recon < VerLen
        /\ c.ver = recon
        /\ \/ /\ END_POS(c) <= src_len[s]
              /\ target' = Copied(s, c, c.len)
              /\ recon' = recon + c.len
              /\ UNCHANGED pc
           \/ /\ END_POS(c) > src_len[s]
              /\ \E n \in 0..(c.len - 1) :
                   /\ n = 0 \/ c.pos + n <= src_len[s]
                   /\ target' = Copied(s, c, n)
              /\ pc' = "error"
              /\ UNCHANGED recon
        /\ UNCHANGED <<input, done, src, start, end, pos, max_pos>>

AllCopied ==
  /\ pc = "in_order" /\ recon = VerLen
  /\ pc' = "done"
  /\ UNCHANGED <<input, recon, done, src, start, end, pos, max_pos, target>>

-----------------------------------------------------------------------------
(* reconstructFile, reordered *)

\* MISTAKE: the sources in the order of their ids.
ToDoById == Srcs \ done

\* The ordinary sources come first.
ToDo == IF Norm \subseteq done THEN Overlays \ done ELSE Norm \ done

NextSource ==
  \E s \in ToDo :
    /\ pc = "source"
    /\ \A t \in ToDo : s <= t
    /\ IF cl[s] = <<>>
       THEN done' = done \cup {s} /\ UNCHANGED <<src, start, end, pos, max_pos, pc>>
       ELSE /\ src' = s /\ start' = 1 /\ end' = 1 /\ pos' = 0 /\ max_pos' = 0
            /\ pc' = "run"
            /\ UNCHANGED done
    /\ UNCHANGED <<input, recon, target>>

AllRead ==
  /\ pc = "source" /\ done = Srcs
  /\ pc' = "done"
  /\ UNCHANGED <<input, recon, done, src, start, end, pos, max_pos, target>>

-----------------------------------------------------------------------------
(* read_seq_write_rand *)

Bigger(a, b)  == IF a >= b THEN a ELSE b
Smaller(a, b) == IF a <= b THEN a ELSE b

\* MISTAKE: the run ends where its last command does.
RunEndLast(m, c) == END_POS(c)

\* A run ends where the command of it that reaches furthest does.
RunEnd(m, c) == Bigger(m, END_POS(c))

\* The commands of the source are done.
SourceRead ==
  /\ pc = "run" /\ start > Len(Com)
  /\ done' = done \cup {src} /\ src' = 0
  /\ pc' = "source"
  /\ UNCHANGED <<input, recon, start, end, pos, max_pos, target>>

\* A gap in what is needed of the source is passed over.
StartAfterGap ==
  /\ pc = "run" /\ start <= Len(Com)
  /\ pos < Com[start].pos
  /\ pos' = Com[start].pos
  /\ max_pos' = END_POS(Com[start])
  /\ end' = Bigger(end, start)
  /\ pc' = "extend"
  /\ UNCHANGED <<input, recon, done, src, start, target>>

StartHere ==
  /\ pc = "run" /\ start <= Len(Com)
  /\ pos >= Com[start].pos
  /\ pc' = "skip"
  /\ UNCHANGED <<input, recon, done, src, start, end, pos, max_pos, target>>

\* MISTAKE: no command is passed.
PassedNone == FALSE

\* The command at `start' belongs to the run before.
Passed == start <= Len(Com) /\ pos > Com[start].pos

Skip ==
  /\ pc = "skip" /\ Passed
  /\ start' = start + 1
  /\ UNCHANGED <<input, recon, done, src, end, pos, max_pos, target, pc>>

Skipped ==
  /\ pc = "skip" /\ ~Passed
  /\ IF start > Len(Com)
     THEN pc' = "run" /\ UNCHANGED <<pos, max_pos, end>>
     ELSE /\ pos' = Com[start].pos
          /\ max_pos' = RunEnd(max_pos, Com[start])
          /\ end' = Bigger(end, start)
          /\ pc' = "extend"
  /\ UNCHANGED <<input, recon, done, src, start, target>>

\* MISTAKE: a command that reaches beyond the run is left to the next.
InRunLate == end <= Len(Com) /\ END_POS(Com[end]) <= max_pos

\* The command at `end' starts inside the run.
InRun == end <= Len(Com) /\ Com[end].pos < max_pos

Extend ==
  /\ pc = "extend" /\ InRun
  /\ max_pos' = RunEnd(max_pos, Com[end])
  /\ end' = end + 1
  /\ UNCHANGED <<input, recon, done, src, start, pos, target, pc>>

Extended ==
  /\ pc = "extend" /\ ~InRun
  /\ pc' = "read"
  /\ UNCHANGED <<input, recon, done, src, start, end, pos, max_pos, target>>

\* The commands of the run that take byte v of the target from the n bytes read.
Takers(v, n) == {x \in start..(end - 1) : /\ For(Com[x], v)
                                          /\ pos <= From(Com[x], v)
                                          /\ From(Com[x], v) < pos + n}

\* MISTAKE: what is read is always added.
AppliedAlways(v, n) ==
  [target[v] EXCEPT !.masks = @ \cup {<<src, From(Com[x], v)>> : x \in Takers(v, n)}]

\* What n bytes read from `pos' on make of byte v.
Applied(v, n) ==
  IF src \in Overlays
  THEN [target[v] EXCEPT !.masks = @ \cup {<<src, From(Com[x], v)>> : x \in Takers(v, n)}]
  ELSE IF Takers(v, n) = {} THEN target[v]
  ELSE LET x == CHOOSE x \in Takers(v, n) : TRUE
       IN  [base |-> <<src, From(Com[x], v)>>, masks |-> {}]

\* One piece of the run.  Reading fails at the end of the source.  A mask is added
\* in the page of the target: a handle that is only written to has none, and
\* next_page brings none.
ReadPiece ==
  LET n == Smaller(max_pos - pos, BufSize)
  IN  /\ pc = "read" /\ pos < max_pos
      /\ IF \/ pos + n > src_len[src]
            \/ src \in Overlays /\ ~OutReadable
         THEN pc' = "error" /\ UNCHANGED <<target, pos>>
         ELSE /\ target' = [v \in Vers |-> Applied(v, n)]
              /\ pos' = pos + n
              /\ UNCHANGED pc
      /\ UNCHANGED <<input, recon, done, src, start, end, max_pos>>

RunRead ==
  /\ pc = "read" /\ pos >= max_pos
  /\ pc' = "run"
  /\ UNCHANGED <<input, recon, done, src, start, end, pos, max_pos, target>>

Next ==
  \/ CopyNext \/ AllCopied
  \/ NextSource \/ AllRead
  \/ SourceRead \/ StartAfterGap \/ StartHere
  \/ Skip \/ Skipped
  \/ Extend \/ Extended
  \/ ReadPiece \/ RunRead

\* One thread runs all this, and every loop of it goes on.
Spec == Init /\ [][Next]_vars /\ WF_vars(Next)

-----------------------------------------------------------------------------
(* Properties *)

\* Every variable has its type.
TypeOK ==
  /\ cl \in [Srcs -> Seq(Command)]
  /\ src_len \in [Srcs -> Nat]
  /\ reorder \in BOOLEAN
  /\ recon \in 0..VerLen
  /\ done \subseteq Srcs
  /\ src \in Srcs \cup {0}
  /\ src = 0 <=> (pc \in {"in_order", "source", "done"} \/ (pc = "error" /\ ~reorder))
  /\ start \in Nat \ {0} /\ end \in Nat \ {0}
  /\ pos \in Nat /\ max_pos \in Nat
  /\ target \in [Vers -> [base  : (Srcs \X Nat) \cup {Hole},
                          masks : SUBSET (Overlays \X Nat)]]
  /\ pc \in {"in_order", "source", "run", "skip", "extend", "read", "done", "error"}

\* What of source s has been taken when the reading stands at p in it.
Reached(s, p) == s \in done \/ (s = src /\ p < pos)

\* The bytes of the sources S that the commands want at v.
Wanted(S, v) ==
  UNION {{<<s, From(cl[s][x], v)>> : x \in {y \in 1..Len(cl[s]) : For(cl[s][y], v)}} : s \in S}

\* Whatever the buffers and the overlaps of the commands, a finished target has at
\* each place the byte that the command for it names and the masks of all overlays
\* over it (reconstructFile).
Correct ==
  pc = "done" =>
    \A v \in Vers : /\ {target[v].base} = Wanted(Norm, v)
                   /\ target[v].masks = Wanted(Overlays, v)

\* At any time, of a reordered execution, exactly those bytes have been taken that
\* stand before the place reached: each pass over a source leaves nothing behind
\* that a later piece would have to bring (read_seq_write_rand).
TakenSoFar ==
  reorder =>
    \A v \in Vers :
      LET taken(S) == {b \in Wanted(S, v) : Reached(b[1], b[2])}
      IN  /\ {target[v].base} \ {Hole} = taken(Norm)
          /\ target[v].masks = taken(Overlays)

\* Of a run, the commands before `start' need nothing more, those from `end' on
\* nothing yet: the pieces of the run concern the others only.
RunIsClosed ==
  pc = "read" =>
    \A x \in 1..Len(Com) :
      /\ x < start => END_POS(Com[x]) <= pos
      /\ x \in start..(end - 1) => END_POS(Com[x]) <= max_pos
      /\ x >= end => max_pos <= Com[x].pos

\* A mask is added to a byte once, and to a byte that is already written: another
\* addition or a later write would spoil it (the += of apply-patch.c:222).
AddedOnce ==
  [][\A v \in Vers :
       /\ (pc = "read" /\ pos' > pos /\ src \in Overlays) =>
            \A x \in Takers(v, pos' - pos) : /\ <<src, From(Com[x], v)>> \notin target[v].masks
                                             /\ target[v].base # Hole
       /\ target[v].masks # {} => target'[v].base = target[v].base]_vars

\* The place in the source never goes back: one pass over it is enough, as a
\* compressed source needs (api.c:122, reordering for sources that seek at a cost).
OnePass == [][src # 0 /\ src' = src => pos' >= pos]_vars

\* The execution ends, whatever the commands and however short the sources.
Finishes == <>(pc \in {"done", "error"})

\* With sources that are long enough an execution does not fail: overlays "are
\* supported only via read_seq_write_rand" (api.c:218), so there they are.
OverlaysSupported ==
  (\A s \in Srcs : \A x \in 1..Len(cl[s]) : END_POS(cl[s][x]) <= src_len[s])
    => (pc # "error")

=============================================================================
