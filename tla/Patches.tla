------------------------------ MODULE Patches ------------------------------
(***************************************************************************)
(* What applying patches one after the other means: each patch builds a    *)
(* version from the version before it, from the left to the right.  Each   *)
(* of its commands names what it builds: a stretch of the version before,  *)
(* a stretch of a file of the patch, or two such stretches that are added  *)
(* up (bsdiff).                                                            *)
(*                                                                         *)
(* A byte that a file holds is named <<file, position>>.  A byte of a      *)
(* version is the sum of such bytes, given as the bag of its summands: one *)
(* for a byte copied through all patches, more where patches added to it.  *)
(***************************************************************************)
EXTENDS Integers, Sequences, Bags

CONSTANTS Ref,         \* the reference file
          RefLen,      \* its bytes
          Files        \* the files of the patches

VARIABLES
  base,     \* the version the present patch is applied to
  built,    \* what the patch has built so far
  asked     \* the command of it that was executed last

pvars == <<base, built, asked>>

\* n bytes of file f from position p on.
Bytes(f, p, n) == [i \in 1..n |-> SetToBag({<<f, p + i - 1>>})]

\* The commands there are.  Each names what it adds: len bytes of the version before,
\* of a file, or both.
NoCommand == [kind |-> "none"]
Lengths   == Nat \ {0}
Copies    == [kind : {"copy"}, at : Nat, len : Lengths]
Adds      == [kind : {"add"}, file : Files, pos : Nat, len : Lengths]
Sums      == [kind : {"sum"}, at : Nat, file : Files, pos : Nat, len : Lengths]

\* What command c makes of version b.
Copied(b, c) == SubSeq(b, c.at + 1, c.at + c.len)
Added(c)     == Bytes(c.file, c.pos, c.len)
Summed(b, c) == [i \in 1..c.len |-> Copied(b, c)[i] (+) Added(c)[i]]

Stretch(b, c) == CASE c \in Copies -> Copied(b, c)
                   [] c \in Adds   -> Added(c)
                   [] c \in Sums   -> Summed(b, c)

Init == base = Bytes(Ref, 0, RefLen) /\ built = <<>> /\ asked = NoCommand

\* What was built stays, and what the command names is added at its end.  (Bound by
\* quantifiers so that TLC evaluates each of the two once.)
Command ==
  /\ asked' \in Copies \cup Adds \cup Sums
  /\ \E b \in {base}, c \in {asked'} :
       /\ c \in Adds \/ c.at + c.len <= Len(b)
       /\ built' = built \o Stretch(b, c)
       /\ base' = b

NextPatch == base' = built /\ built' = <<>> /\ asked' = NoCommand

\* The last version is handed on, or the patches are given up.
End == base' = <<>> /\ built' = <<>> /\ asked' = NoCommand

Next == \/ Command
        \/ NextPatch
        \/ End

Spec == Init /\ [][Next]_pvars

=============================================================================
