--------------------------- MODULE MCReconstruct ---------------------------
(***************************************************************************)
(* Reconstruct on the commands of two ordinary sources, or of one and an   *)
(* overlay, for a target of four bytes.                                    *)
(***************************************************************************)
EXTENDS Reconstruct, SequencesExt

CONSTANT MaxPos      \* no command reads from further on

Overlay == 2

Cmd(p, l, v) == [pos |-> p, len |-> l, ver |-> v]

\* The ways to cut the target from v on into commands of sources of S, with gaps
\* of one byte if they are overlays.
RECURSIVE Cuts(_, _, _)
Cuts(S, v, gaps) ==
  IF v = VerLen THEN {{}}
  ELSE (UNION {{rest \cup {<<s, Cmd(p, l, v)>>} : rest \in Cuts(S, v + l, gaps)} :
                 s \in S, p \in 0..MaxPos, l \in 1..(VerLen - v)})
       \cup (IF gaps THEN Cuts(S, v + 1, gaps) ELSE {})

\* As qsort leaves them; of commands that compare equal, one order is tried.
Before(a, b) ==
  \/ a.pos < b.pos
  \/ a.pos = b.pos /\ a.len < b.len
  \/ a.pos = b.pos /\ a.len = b.len /\ a.ver < b.ver

Lists(cut) == [s \in 1..3 |-> SetToSortSeq({c[2] : c \in {d \in cut : d[1] = s}}, Before)]

\* The whole target from one place, or in two pieces of two sources.
OneCopy == {{<<3, Cmd(p, VerLen, 0)>>} : p \in 0..MaxPos}
Pieces  == {{<<3, Cmd(0, 1, 0)>>, <<1, Cmd(1, VerLen - 1, 1)>>}}

MCInputs == {Lists(cut) : cut \in Cuts({1, 3}, 0, FALSE)}
            \cup {Lists(cut \cup ov) : cut \in OneCopy \cup Pieces, ov \in Cuts({Overlay}, 0, TRUE)}

\* Long enough for every command, or too short for some.
MCLengths == {[s \in 1..3 |-> VerLen + MaxPos], [s \in 1..3 |-> IF s = 1 THEN VerLen + MaxPos ELSE 2]}

=============================================================================
