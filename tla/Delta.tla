------------------------------- MODULE Delta -------------------------------
(***************************************************************************)
(* What the differencing side promises about a version file of VerSize     *)
(* bytes, whatever data structure holds the matches: bytes are covered by  *)
(* copies bit by bit, each time inside a window none of whose bytes was    *)
(* covered, no copy is ever lost again, and the commands that come out     *)
(* tile the file from its first byte to its last, each command being all   *)
(* copy or all add.                                                        *)
(***************************************************************************)
EXTENDS Integers

CONSTANT VerSize

VARIABLES
  covered,   \* the bytes some copy produces
  window,    \* the bytes in which copies are being looked for
  emitted    \* the bytes the commands so far produce

dvars == <<covered, window, emitted>>

Bytes == 0..(VerSize - 1)

Init == /\ covered = {}
        /\ window \in {{}, Bytes}
        /\ emitted = 0

Offer == /\ window = {}
         /\ window' \in SUBSET (Bytes \ covered)
         /\ UNCHANGED <<covered, emitted>>

Cover == /\ covered \subseteq covered'
         /\ covered' \subseteq covered \cup window
         /\ window' = {}
         /\ UNCHANGED emitted

Command(n) ==
  LET new == emitted..(emitted + n - 1)
  IN  /\ window = {}
      /\ new \subseteq covered \/ new \cap covered = {}
      /\ emitted' = emitted + n
      /\ UNCHANGED <<covered, window>>

Next == \/ Offer
        \/ Cover
        \/ \E n \in 1..(VerSize - emitted) : Command(n)

Spec == Init /\ [][Next]_dvars

=============================================================================
