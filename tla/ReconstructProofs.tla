------------------------- MODULE ReconstructProofs -------------------------
(***************************************************************************)
(* Proofs about Reconstruct, for any commands, sources, buffer and target. *)
(*                                                                         *)
(* That the target is correct in the end follows from TakenSoFar, which a  *)
(* piece keeps only if the commands of the run are all that need it:       *)
(* RunPlace says where `start' and `end' stand between the steps of the    *)
(* loop, and SourcesInOrder that no mask has come before the last write.   *)
(***************************************************************************)
EXTENDS Reconstruct, TLAPS

InputOK == cl \in Inputs /\ src_len \in Lengths

\* Where the loop over the sources stands: the overlays come last.
SourcesInOrder ==
  /\ src # 0 => src \notin done
  /\ (src \in Overlays \/ done \cap Overlays # {}) => Norm \subseteq done
  /\ pc \in {"source", "run", "skip", "extend", "read"} => reorder
  /\ pc = "in_order" => ~reorder
  /\ (pc = "done" /\ reorder) => done = Srcs
  /\ ~reorder => \A s \in Overlays : cl[s] = <<>>

\* Where the loop over the commands of a source stands.
RunPlace ==
  pc \in {"run", "skip", "extend", "read"} =>
    /\ start <= end /\ end <= Len(Com) + 1
    /\ \A x \in 1..Len(Com) : x < start => END_POS(Com[x]) <= pos
    /\ \A x \in 1..Len(Com) : x < end => END_POS(Com[x]) <= max_pos
    /\ pos <= max_pos
    /\ pc \in {"run", "skip"} => /\ max_pos = pos
                                 /\ \A x \in 1..Len(Com) : x >= end => pos <= Com[x].pos
    /\ pc = "extend" => start <= Len(Com) /\ pos = Com[start].pos
    /\ pc = "read" => \A x \in 1..Len(Com) : x >= end => max_pos <= Com[x].pos

\* What has been written, in order.
WrittenInOrder ==
  (pc = "in_order" \/ (pc = "done" /\ ~reorder)) =>
    /\ pc = "done" => recon = VerLen
    /\ \A v \in Vers : target[v].masks = {}
    /\ \A s \in Norm : \A x \in 1..Len(cl[s]) : \A v \in Vers :
         For(cl[s][x], v) /\ v < recon => target[v].base = <<s, From(cl[s][x], v)>>

\* What has been written, reordered: the parts of TakenSoFar.
BaseTaken ==
  reorder =>
    \A s \in Norm : \A x \in 1..Len(cl[s]) : \A v \in Vers :
      For(cl[s][x], v) =>
        target[v].base = IF Reached(s, From(cl[s][x], v)) THEN <<s, From(cl[s][x], v)>>
                                                          ELSE Hole

MasksTaken ==
  reorder =>
    \A v \in Vers : \A b :
      b \in target[v].masks <=>
        \E s \in Overlays : \E x \in 1..Len(cl[s]) :
          /\ For(cl[s][x], v) /\ b = <<s, From(cl[s][x], v)>>
          /\ Reached(s, From(cl[s][x], v))

IInv ==
  /\ TypeOK
  /\ InputOK
  /\ SourcesInOrder
  /\ RunPlace
  /\ WrittenInOrder
  /\ BaseTaken
  /\ MasksTaken

-----------------------------------------------------------------------------
(* Facts about the commands *)

USE SizeAssumption

\* The commands of a source are a sorted sequence of commands for the target.
LEMMA CommandType ==
  ASSUME InputOK, NEW s \in Srcs
  PROVE  /\ cl[s] \in Seq(Command)
         /\ Len(cl[s]) \in Nat
         /\ \A x \in 1..Len(cl[s]) : /\ cl[s][x] \in Command
                                     /\ cl[s][x].ver + cl[s][x].len <= VerLen
         /\ Sorted(cl[s])
BY InputAssumption DEF InputOK, GoodInput

\* A byte that a command is for comes from the stretch that the command names.
LEMMA FromWithin ==
  ASSUME NEW c \in Command, NEW v \in Vers, For(c, v)
  PROVE  /\ From(c, v) \in Nat
         /\ c.pos <= From(c, v) /\ From(c, v) < END_POS(c)
         /\ END_POS(c) \in Nat /\ c.pos \in Nat /\ c.pos < END_POS(c)
BY DEF Command, Vers, For, From, END_POS

\* One ordinary command is for a byte of the target, and one of an overlay at most.
LEMMA OneCommand ==
  ASSUME InputOK, NEW v \in Vers,
         NEW s \in Srcs, NEW x \in 1..Len(cl[s]), For(cl[s][x], v),
         NEW t \in Srcs, NEW y \in 1..Len(cl[t]), For(cl[t][y], v),
         \/ s \in Norm /\ t \in Norm
         \/ s \in Overlays /\ s = t
  PROVE  s = t /\ x = y
BY InputAssumption DEF InputOK, GoodInput

\* The commands of a source are in the order of their positions.
LEMMA InOrder ==
  ASSUME InputOK, NEW s \in Srcs,
         NEW x \in 1..Len(cl[s]), NEW y \in 1..Len(cl[s]), x <= y
  PROVE  cl[s][x].pos <= cl[s][y].pos
<1>1. cl[s][x] \in Command /\ cl[s][y] \in Command /\ Len(cl[s]) \in Nat
  BY CommandType
<1>2. CASE x = y BY <1>1, <1>2 DEF Command
<1>3. CASE x < y
  <2>1. Sorted(cl[s]) BY CommandType
  <2>2. cl[s][x].pos < cl[s][y].pos \/ cl[s][x].pos = cl[s][y].pos
    BY <2>1, <1>3 DEF Sorted
  <2> QED BY <1>1, <2>2 DEF Command
<1> QED BY <1>1, <1>2, <1>3

-----------------------------------------------------------------------------
(* The first state, and the steps that write nothing *)

\* Nothing is written at the start.
LEMMA InitIInv == Init => IInv
<1> SUFFICES ASSUME Init PROVE IInv OBVIOUS
<1>1. InputOK BY DEF Init, InputOK
<1>2. cl \in [Srcs -> Seq(Command)] BY <1>1, InputAssumption DEF InputOK, GoodInput
<1>3. src_len \in [Srcs -> Nat] BY <1>1, LengthAssumption DEF InputOK
<1>4. target \in [Vers -> [base : (Srcs \X Nat) \cup {Hole}, masks : SUBSET (Overlays \X Nat)]]
  BY DEF Init, Blank
<1>5. TypeOK BY <1>2, <1>3, <1>4 DEF Init, TypeOK
<1>6. 0 \notin Overlays BY DEF Srcs
<1>7. SourcesInOrder BY <1>6 DEF Init, SourcesInOrder
<1>8. RunPlace BY DEF Init, RunPlace
<1>9. WrittenInOrder
  <2>1. \A v \in Vers : ~(v < 0) BY DEF Vers
  <2>2. \A v \in Vers : target[v].masks = {} BY DEF Init, Blank
  <2> QED BY <2>1, <2>2 DEF Init, WrittenInOrder
<1>10. \A s \in Srcs : \A q : ~Reached(s, q) BY DEF Init, Reached, Srcs
<1>11. BaseTaken
  <2>1. \A v \in Vers : target[v].base = Hole BY DEF Init, Blank
  <2> QED BY <2>1, <1>10 DEF BaseTaken, Norm
<1>12. MasksTaken
  <2>1. \A v \in Vers : target[v].masks = {} BY DEF Init, Blank
  <2> QED BY <2>1, <1>10 DEF MasksTaken
<1> QED BY <1>1, <1>5, <1>7, <1>8, <1>9, <1>11, <1>12 DEF IInv

\* What was reached stays so, and nothing else is, while the place moves over
\* bytes that no command needs.
LEMMA NoWrite ==
  ASSUME IInv, TypeOK', RunPlace',
         UNCHANGED <<input, recon, done, src, target>>,
         pc \in {"run", "skip", "extend", "read"},
         pc' \in {"run", "skip", "extend", "read"},
         \/ pos' = pos
         \/ \A x \in 1..Len(Com) : END_POS(Com[x]) <= pos \/ pos' <= Com[x].pos,
         pos <= pos'
  PROVE  IInv'
<1>1. InputOK' BY DEF IInv, InputOK, input
<1>2. SourcesInOrder' BY DEF IInv, SourcesInOrder, input
<1>3. WrittenInOrder' BY DEF IInv, SourcesInOrder, WrittenInOrder, input
<1>4. pos \in Nat /\ pos' \in Nat /\ src \in Srcs BY DEF IInv, TypeOK
<1>5. \A s \in Srcs : \A x \in 1..Len(cl[s]) : \A v \in Vers :
        For(cl[s][x], v) => (Reached(s, From(cl[s][x], v))' <=> Reached(s, From(cl[s][x], v)))
  <2> SUFFICES ASSUME NEW s \in Srcs, NEW x \in 1..Len(cl[s]), NEW v \in Vers, For(cl[s][x], v)
               PROVE  Reached(s, From(cl[s][x], v))' <=> Reached(s, From(cl[s][x], v))
    BY DEF input
  <2>1. cl[s][x] \in Command BY CommandType DEF IInv
  <2> DEFINE f == From(cl[s][x], v)
  <2>2. /\ f \in Nat /\ cl[s][x].pos <= f /\ f < END_POS(cl[s][x])
        /\ END_POS(cl[s][x]) \in Nat /\ cl[s][x].pos \in Nat
    BY <2>1, FromWithin
  <2>3. From(cl[s][x], v)' = f BY DEF input, From
  <2>4. s = src => (f < pos' <=> f < pos) BY <2>2, <1>4 DEF Com
  <2> HIDE DEF f
  <2> QED BY <2>3, <2>4 DEF Reached, f
<1>6. BaseTaken' BY <1>5 DEF IInv, BaseTaken, input, Norm, For, From, Reached
<1>7. MasksTaken' BY <1>5 DEF IInv, MasksTaken, input, For, From, Reached
<1> QED BY <1>1, <1>2, <1>3, <1>6, <1>7 DEF IInv

\* The types of what read_seq_write_rand works with, and the order of its commands.
LEMMA RunTypes ==
  ASSUME IInv, pc \in {"run", "skip", "extend", "read"}
  PROVE  /\ src \in Srcs /\ src # 0
         /\ Len(Com) \in Nat
         /\ start \in Nat \ {0} /\ end \in Nat /\ pos \in Nat /\ max_pos \in Nat
         /\ \A x \in 1..Len(Com) :
              /\ Com[x] \in Command
              /\ Com[x].pos \in Nat /\ END_POS(Com[x]) \in Nat /\ Com[x].pos < END_POS(Com[x])
         /\ \A x, y \in 1..Len(Com) : x <= y => Com[x].pos <= Com[y].pos
<1>1. src \in Srcs /\ src # 0 BY DEF IInv, TypeOK, Srcs
<1>2. \A x \in 1..Len(Com) : Com[x] \in Command
  BY <1>1, CommandType DEF IInv, Com
<1>3. \A x \in 1..Len(Com) :
        Com[x].pos \in Nat /\ END_POS(Com[x]) \in Nat /\ Com[x].pos < END_POS(Com[x])
  BY <1>2 DEF Command, END_POS
<1>4. Len(Com) \in Nat BY <1>1, CommandType DEF IInv, Com
<1>5. \A x, y \in 1..Len(Com) : x <= y => Com[x].pos <= Com[y].pos
  BY <1>1, InOrder DEF IInv, Com
<1> QED BY <1>1, <1>2, <1>3, <1>4, <1>5 DEF IInv, TypeOK

\* A gap is passed over: no command needs a byte of it.
LEMMA StartAfterGapKeeps == IInv /\ StartAfterGap => IInv'
<1> SUFFICES ASSUME IInv, StartAfterGap PROVE IInv' OBVIOUS
<1> USE RunTypes DEF StartAfterGap
<1>1. /\ Com' = Com /\ src \in Srcs /\ start \in 1..Len(Com)
  BY DEF Com, input
<1>2. TypeOK' BY <1>1 DEF IInv, TypeOK, input, Bigger
<1>3. /\ start <= end /\ end <= Len(Com) + 1 /\ end' = end /\ max_pos = pos
      /\ \A x \in 1..Len(Com) : x < end => END_POS(Com[x]) <= pos
  BY <1>1 DEF IInv, RunPlace, Bigger
<1>4. pos' = Com[start].pos /\ pos < pos' /\ max_pos' = END_POS(Com[start]) /\ pos' < max_pos'
  BY <1>1
<1>5. \A x \in 1..Len(Com) : x < end => END_POS(Com[x]) <= pos' /\ END_POS(Com[x]) <= max_pos'
  BY <1>1, <1>3, <1>4
<1>6. RunPlace' BY <1>1, <1>3, <1>4, <1>5 DEF RunPlace, END_POS
<1>7. \A x \in 1..Len(Com) : END_POS(Com[x]) <= pos \/ pos' <= Com[x].pos
  BY <1>1, <1>3, <1>4
<1>8. pc \in {"run", "skip", "extend", "read"} /\ pc' \in {"run", "skip", "extend", "read"} /\ pos <= pos'
      /\ UNCHANGED <<input, recon, done, src, target>>
  BY <1>4, <1>1
<1> QED BY <1>2, <1>6, <1>7, <1>8, NoWrite

\* The commands passed end before the place, the next start at it or behind.
LEMMA SkippedKeeps == IInv /\ Skipped => IInv'
<1> SUFFICES ASSUME IInv, Skipped PROVE IInv' OBVIOUS
<1> USE RunTypes DEF Skipped
<1>1. /\ Com' = Com /\ src \in Srcs
  BY DEF Com, input
<1>2. /\ start <= end /\ end <= Len(Com) + 1 /\ max_pos = pos
      /\ \A x \in 1..Len(Com) : x < end => END_POS(Com[x]) <= pos
      /\ \A x \in 1..Len(Com) : x < start => END_POS(Com[x]) <= pos
      /\ \A x \in 1..Len(Com) : x >= end => pos <= Com[x].pos
  BY DEF IInv, RunPlace
<1>3. CASE start > Len(Com)
  <2>1. TypeOK' BY <1>1, <1>3 DEF IInv, TypeOK, input
  <2>2. RunPlace' BY <1>1, <1>2, <1>3 DEF RunPlace, END_POS
  <2>3. pos' = pos /\ pc' = "run" BY <1>3
  <2> QED BY <2>1, <2>2, <2>3, NoWrite
<1>4. CASE start <= Len(Com)
  <2>1. start \in 1..Len(Com) /\ ~(start > Len(Com)) BY <1>4
  <2>2. pos <= Com[start].pos BY <2>1, <1>4 DEF Passed
  <2>3. /\ pos' = Com[start].pos /\ pos <= pos'
        /\ max_pos' \in Nat /\ max_pos' >= max_pos /\ max_pos' >= END_POS(Com[start])
        /\ end' = end /\ pc' = "extend"
    BY <1>2, <2>1, <2>2 DEF RunEnd, Bigger
  <2>4. TypeOK' BY <1>1, <2>1, <2>3 DEF IInv, TypeOK, input
  <2>5. \A x \in 1..Len(Com) : x < end => END_POS(Com[x]) <= max_pos'
    BY <1>2, <2>3
  <2>6. \A x \in 1..Len(Com) : x < start => END_POS(Com[x]) <= pos'
    BY <1>2, <2>3
  <2>7. pos' < END_POS(Com[start]) BY <2>1, <2>3
  <2>8. RunPlace'
    BY <1>1, <1>2, <2>1, <2>3, <2>5, <2>6, <2>7 DEF RunPlace, END_POS
  <2>9. \A x \in 1..Len(Com) : END_POS(Com[x]) <= pos \/ pos' <= Com[x].pos
    BY <1>2, <2>1, <2>3
  <2> QED BY <2>3, <2>4, <2>8, <2>9, NoWrite
<1> QED BY <1>3, <1>4

\* The steps that leave the place in the source alone.
LEMMA OtherMovesKeep ==
  ASSUME IInv, StartHere \/ Skip \/ Extend \/ Extended \/ RunRead
  PROVE  IInv'
<1> USE RunTypes
<1>1. CASE StartHere
  <2> USE <1>1 DEF StartHere
  <2>1. Com' = Com BY DEF Com, input
  <2>2. TypeOK' BY DEF IInv, TypeOK, input
  <2>3. RunPlace' BY <2>1 DEF IInv, RunPlace, END_POS
  <2> QED BY <2>2, <2>3, NoWrite
<1>2. CASE Skip
  <2> USE <1>2 DEF Skip
  <2>1. Com' = Com BY DEF Com, input
  <2>2. TypeOK' BY DEF IInv, TypeOK, input
  <2>3. start < end
    <3>1. start \in 1..Len(Com) /\ pos > Com[start].pos BY DEF Passed
    <3> QED BY <3>1 DEF IInv, RunPlace
  <2>4. RunPlace' BY <2>1, <2>3 DEF IInv, RunPlace, END_POS
  <2> QED BY <2>2, <2>4, NoWrite
<1>3. CASE Extend
  <2> USE <1>3 DEF Extend
  <2>1. Com' = Com BY DEF Com, input
  <2>2. end <= Len(Com) /\ start <= end /\ start <= Len(Com) BY DEF InRun, IInv, RunPlace
  <2>3. end \in 1..Len(Com) BY <2>2
  <2>4. max_pos' \in Nat /\ max_pos' >= max_pos /\ max_pos' >= END_POS(Com[end])
    BY <2>3 DEF RunEnd, Bigger
  <2>5. TypeOK' BY <2>4 DEF IInv, TypeOK, input
  <2>6. \A x \in 1..Len(Com) : x < end' => END_POS(Com[x]) <= max_pos'
    BY <2>3, <2>4 DEF IInv, RunPlace
  <2>7. RunPlace' BY <2>1, <2>2, <2>4, <2>6 DEF IInv, RunPlace, END_POS
  <2> QED BY <2>5, <2>7, NoWrite
<1>4. CASE Extended
  <2> USE <1>4 DEF Extended
  <2>1. Com' = Com BY DEF Com, input
  <2>2. TypeOK' BY DEF IInv, TypeOK, input
  <2>3. \A x \in 1..Len(Com) : x >= end => max_pos <= Com[x].pos
    BY DEF InRun, IInv, RunPlace
  <2>4. RunPlace' BY <2>1, <2>3 DEF IInv, RunPlace, END_POS
  <2> QED BY <2>2, <2>4, NoWrite
<1>5. CASE RunRead
  <2> USE <1>5 DEF RunRead
  <2>1. Com' = Com BY DEF Com, input
  <2>2. TypeOK' BY DEF IInv, TypeOK, input
  <2>3. pos = max_pos BY DEF IInv, RunPlace
  <2>4. RunPlace' BY <2>1, <2>3 DEF IInv, RunPlace, END_POS
  <2> QED BY <2>2, <2>4, NoWrite
<1> QED BY <1>1, <1>2, <1>3, <1>4, <1>5

-----------------------------------------------------------------------------
(* The loop over the sources *)

\* A step that writes nothing, and after which no more of what the commands
\* want is reached than before.
LEMMA SameTaken ==
  ASSUME IInv, TypeOK', SourcesInOrder', RunPlace', reorder,
         UNCHANGED <<input, recon, target>>,
         \A s \in Srcs : \A x \in 1..Len(cl[s]) : \A v \in Vers :
           For(cl[s][x], v) => (Reached(s, From(cl[s][x], v))' <=> Reached(s, From(cl[s][x], v)))
  PROVE  IInv'
<1>1. InputOK' BY DEF IInv, InputOK, input
<1>2. WrittenInOrder' BY DEF SourcesInOrder, WrittenInOrder, input
<1>3. BaseTaken' BY DEF IInv, BaseTaken, input, Norm, For, From, Reached
<1>4. MasksTaken' BY DEF IInv, MasksTaken, input, For, From, Reached
<1> QED BY <1>1, <1>2, <1>3, <1>4 DEF IInv

\* The next source is begun, or has no commands.
LEMMA NextSourceKeeps == IInv /\ NextSource => IInv'
<1> SUFFICES ASSUME IInv, NextSource PROVE IInv' OBVIOUS
<1> USE DEF NextSource
<1>1. PICK s \in ToDo : NextSource!(s) OBVIOUS
<1>2. src = 0 /\ reorder BY DEF IInv, TypeOK, SourcesInOrder
<1>3. /\ s \in Srcs /\ s \notin done
      /\ s \in Overlays => Norm \subseteq done
  BY DEF ToDo, Norm
<1>4. CASE cl[s] = <<>>
  <2> USE <1>1, <1>4
  <2>1. TypeOK' BY <1>3 DEF IInv, TypeOK, input
  <2>2. SourcesInOrder' BY <1>2, <1>3 DEF IInv, SourcesInOrder, input, Norm
  <2>3. RunPlace' BY DEF RunPlace
  <2>4. \A t \in Srcs : \A x \in 1..Len(cl[t]) : \A v \in Vers :
          For(cl[t][x], v) => (Reached(t, From(cl[t][x], v))' <=> Reached(t, From(cl[t][x], v)))
    <3>1. \A x \in 1..Len(cl[s]) : FALSE OBVIOUS
    <3> QED BY <3>1 DEF Reached, input, From
  <2> QED BY <1>2, <2>1, <2>2, <2>3, <2>4, SameTaken
<1>5. CASE cl[s] # <<>>
  <2> USE <1>1, <1>5
  <2>1. s # 0 /\ src' = s /\ pos' = 0 /\ done' = done BY <1>3 DEF Srcs
  <2>2. TypeOK' BY <1>2, <1>3, <2>1 DEF IInv, TypeOK, input
  <2>3. SourcesInOrder' BY <1>2, <1>3, <2>1 DEF IInv, SourcesInOrder, input, Norm
  <2>4. /\ Len(Com') \in Nat
        /\ \A x \in 1..Len(Com') : Com'[x].pos \in Nat
    <3>1. Com' = cl[s] BY <2>1 DEF Com, input
    <3> QED BY <3>1, <1>3, CommandType DEF IInv, Command
  <2>5. RunPlace' BY <2>1, <2>4 DEF RunPlace
  <2>6. \A t \in Srcs : \A x \in 1..Len(cl[t]) : \A v \in Vers :
          For(cl[t][x], v) => (Reached(t, From(cl[t][x], v))' <=> Reached(t, From(cl[t][x], v)))
    <3> SUFFICES ASSUME NEW t \in Srcs, NEW x \in 1..Len(cl[t]), NEW v \in Vers, For(cl[t][x], v)
                 PROVE  Reached(t, From(cl[t][x], v))' <=> Reached(t, From(cl[t][x], v))
      BY DEF input
    <3>1. cl[t][x] \in Command BY CommandType DEF IInv
    <3>2. From(cl[t][x], v) \in Nat BY <3>1, FromWithin
    <3>3. From(cl[t][x], v)' = From(cl[t][x], v) BY DEF input, From
    <3>4. t # 0 BY DEF Srcs
    <3> HIDE DEF NextSource
    <3> QED BY <1>2, <2>1, <3>2, <3>3, <3>4 DEF Reached
  <2> QED BY <1>2, <2>2, <2>3, <2>5, <2>6, SameTaken
<1> QED BY <1>4, <1>5

\* All sources have been read.
LEMMA AllReadKeeps == IInv /\ AllRead => IInv'
<1> SUFFICES ASSUME IInv, AllRead PROVE IInv' OBVIOUS
<1> USE DEF AllRead
<1>1. src = 0 /\ reorder BY DEF IInv, TypeOK, SourcesInOrder
<1>2. TypeOK' BY <1>1 DEF IInv, TypeOK, input
<1>3. SourcesInOrder' BY <1>1 DEF IInv, SourcesInOrder, input
<1>4. RunPlace' BY DEF RunPlace
<1>5. \A t \in Srcs : \A x \in 1..Len(cl[t]) : \A v \in Vers :
        For(cl[t][x], v) => (Reached(t, From(cl[t][x], v))' <=> Reached(t, From(cl[t][x], v)))
  BY DEF Reached, From, input
<1> QED BY <1>1, <1>2, <1>3, <1>4, <1>5, SameTaken

\* A source is finished: all its commands end before the place.
LEMMA SourceReadKeeps == IInv /\ SourceRead => IInv'
<1> SUFFICES ASSUME IInv, SourceRead PROVE IInv' OBVIOUS
<1> USE DEF SourceRead
<1>1. src \in Srcs /\ src # 0 /\ reorder /\ Len(Com) \in Nat /\ start \in Nat
      /\ pos \in Nat
  BY RunTypes DEF IInv, SourcesInOrder
<1>2. TypeOK' BY <1>1 DEF IInv, TypeOK, input
<1>3. SourcesInOrder' BY <1>1, SizeAssumption DEF IInv, SourcesInOrder, input, Srcs
<1>4. RunPlace' BY DEF RunPlace
<1>5. \A t \in Srcs : \A x \in 1..Len(cl[t]) : \A v \in Vers :
        For(cl[t][x], v) => (Reached(t, From(cl[t][x], v))' <=> Reached(t, From(cl[t][x], v)))
  <2> SUFFICES ASSUME NEW t \in Srcs, NEW x \in 1..Len(cl[t]), NEW v \in Vers, For(cl[t][x], v)
               PROVE  Reached(t, From(cl[t][x], v))' <=> Reached(t, From(cl[t][x], v))
    BY DEF input
  <2>1. cl[t][x] \in Command BY CommandType DEF IInv
  <2>2. /\ From(cl[t][x], v) \in Nat /\ From(cl[t][x], v) < END_POS(cl[t][x])
        /\ END_POS(cl[t][x]) \in Nat
    BY <2>1, FromWithin
  <2>3. From(cl[t][x], v)' = From(cl[t][x], v) BY DEF input, From
  <2>4. t = src => END_POS(cl[t][x]) <= pos BY <1>1 DEF IInv, RunPlace, Com
  <2>5. t = src => From(cl[t][x], v) < pos BY <1>1, <2>2, <2>4
  <2>6. t # 0 BY DEF Srcs
  <2> QED BY <2>3, <2>5, <2>6 DEF Reached
<1> QED BY <1>1, <1>2, <1>3, <1>4, <1>5, SameTaken

-----------------------------------------------------------------------------
(* One piece of a run *)

\* The commands of the run that take byte v from n bytes are all the commands of
\* the source that need a byte of these.
LEMMA TakersOfPiece ==
  ASSUME IInv, pc = "read", NEW n \in Nat, pos + n <= max_pos, NEW v \in Vers
  PROVE  \A x : x \in Takers(v, n) <=>
                /\ x \in 1..Len(Com) /\ For(Com[x], v)
                /\ pos <= From(Com[x], v) /\ From(Com[x], v) < pos + n
<1> USE RunTypes
<1>1. /\ start <= end /\ end <= Len(Com) + 1
      /\ \A x \in 1..Len(Com) : x < start => END_POS(Com[x]) <= pos
      /\ \A x \in 1..Len(Com) : x >= end => max_pos <= Com[x].pos
  BY DEF IInv, RunPlace
<1>2. \A x \in start..(end - 1) : x \in 1..Len(Com)
  BY <1>1
<1>3. ASSUME NEW x \in 1..Len(Com), For(Com[x], v),
             pos <= From(Com[x], v), From(Com[x], v) < pos + n
      PROVE  x \in start..(end - 1)
  <2>1. /\ From(Com[x], v) \in Nat
        /\ Com[x].pos <= From(Com[x], v) /\ From(Com[x], v) < END_POS(Com[x])
    BY <1>3, FromWithin
  <2>2. ~(x < start) BY <1>1, <1>3, <2>1
  <2>3. ~(x >= end) BY <1>1, <1>3, <2>1
  <2> QED BY <2>2, <2>3
<1> QED BY <1>2, <1>3 DEF Takers

\* A piece brings exactly the bytes between the place and its end.
LEMMA ReadPieceKeeps == IInv /\ ReadPiece => IInv'
<1> SUFFICES ASSUME IInv, ReadPiece PROVE IInv' OBVIOUS
<1> DEFINE n == Smaller(max_pos - pos, BufSize)
<1>1. /\ src \in Srcs /\ src # 0 /\ src \notin done /\ reorder
      /\ pos \in Nat /\ max_pos \in Nat
      /\ pc = "read" /\ pos < max_pos
      /\ UNCHANGED <<input, recon, done, src, start, end, max_pos>>
  BY RunTypes DEF ReadPiece, IInv, SourcesInOrder
<1>2. n \in Nat /\ pos + n <= max_pos
  BY <1>1 DEF Smaller
<1>3. Com' = Com BY <1>1 DEF Com, input
<1>4. CASE pc' = "error" /\ UNCHANGED <<target, pos>>
  <2>1. TypeOK' BY <1>1, <1>4 DEF IInv, TypeOK, input
  <2>2. SourcesInOrder' BY <1>1, <1>4 DEF IInv, SourcesInOrder, input
  <2>3. RunPlace' BY <1>4 DEF RunPlace
  <2>4. \A t \in Srcs : \A x \in 1..Len(cl[t]) : \A v \in Vers :
          For(cl[t][x], v) => (Reached(t, From(cl[t][x], v))' <=> Reached(t, From(cl[t][x], v)))
    BY <1>1, <1>4 DEF Reached, From, input
  <2> QED BY <1>1, <1>4, <2>1, <2>2, <2>3, <2>4, SameTaken
<1>5. CASE target' = [v \in Vers |-> Applied(v, n)] /\ pos' = pos + n /\ pc' = pc
  <2> HIDE DEF n
  <2> USE <1>5
  <2>1. \A v \in Vers : \A x : x \in Takers(v, n) <=>
                /\ x \in 1..Len(Com) /\ For(Com[x], v)
                /\ pos <= From(Com[x], v) /\ From(Com[x], v) < pos + n
    BY <1>1, <1>2, TakersOfPiece
  <2>2. \A t \in Srcs : \A x \in 1..Len(cl[t]) : \A v \in Vers :
          /\ From(cl[t][x], v)' = From(cl[t][x], v)
          /\ For(cl[t][x], v) => From(cl[t][x], v) \in Nat
    BY <1>1, CommandType, FromWithin DEF IInv, input, From
  <2>3. \A v \in Vers : target[v] \in [base : (Srcs \X Nat) \cup {Hole}, masks : SUBSET (Overlays \X Nat)]
    BY DEF IInv, TypeOK
  <2>4. \A v \in Vers : \A x \in Takers(v, n) : From(Com[x], v) \in Nat
    BY <1>1, <2>1, <2>2 DEF Com
  <2>5. \A v \in Vers :
          Applied(v, n) \in [base : (Srcs \X Nat) \cup {Hole}, masks : SUBSET (Overlays \X Nat)]
    <3> SUFFICES ASSUME NEW v \in Vers
                 PROVE  Applied(v, n) \in [base : (Srcs \X Nat) \cup {Hole},
                                           masks : SUBSET (Overlays \X Nat)]
      OBVIOUS
    <3>1. CASE src \in Overlays BY <2>3, <2>4, <3>1 DEF Applied
    <3>2. CASE src \notin Overlays /\ Takers(v, n) = {} BY <2>3, <3>2 DEF Applied
    <3>3. CASE src \notin Overlays /\ Takers(v, n) # {} BY <1>1, <2>4, <3>3 DEF Applied
    <3> QED BY <3>1, <3>2, <3>3
  <2>6. TypeOK'
    <3>1. target' \in [Vers -> [base : (Srcs \X Nat) \cup {Hole}, masks : SUBSET (Overlays \X Nat)]]
      BY <2>5
    <3> QED BY <1>1, <1>2, <3>1 DEF IInv, TypeOK, input
  <2>7. InputOK' BY <1>1 DEF IInv, InputOK, input
  <2>8. SourcesInOrder' BY <1>1 DEF IInv, SourcesInOrder, input
  <2>9. RunPlace'
    <3>1. \A x \in 1..Len(Com) : END_POS(Com[x]) \in Nat BY <1>1, RunTypes
    <3> QED BY <1>1, <1>2, <1>3, <3>1 DEF IInv, RunPlace, END_POS
  <2>10. WrittenInOrder' BY <1>1 DEF WrittenInOrder
  <2>11. BaseTaken'
    <3> SUFFICES ASSUME NEW s \in Norm, NEW x \in 1..Len(cl[s]), NEW v \in Vers, For(cl[s][x], v)
                 PROVE  target'[v].base = IF Reached(s, From(cl[s][x], v))'
                                          THEN <<s, From(cl[s][x], v)>> ELSE Hole
      BY <1>1, <2>2 DEF BaseTaken, input, Norm, For
    <3> DEFINE f == From(cl[s][x], v)
    <3>1. s \in Srcs /\ s \notin Overlays /\ f \in Nat /\ From(cl[s][x], v)' = f BY <2>2 DEF Norm
    <3>2. target[v].base = IF Reached(s, f) THEN <<s, f>> ELSE Hole
      BY <1>1 DEF IInv, BaseTaken
    <3> HIDE DEF f
    <3>3. CASE src \in Overlays
      <4>1. target'[v].base = target[v].base BY <2>3, <3>3 DEF Applied
      <4>2. s # src BY <3>1, <3>3
      <4> QED BY <1>1, <3>1, <3>2, <4>1, <4>2 DEF Reached, f
    <3>4. CASE src \in Norm /\ s # src
      <4>1. Takers(v, n) = {} BY <1>1, <2>1, <3>1, <3>4, OneCommand DEF IInv, Com
      <4>2. target'[v] = target[v] BY <3>4, <4>1 DEF Applied, Norm
      <4> QED BY <1>1, <3>1, <3>2, <3>4, <4>2 DEF Reached, f
    <3>5. CASE s = src /\ f >= pos /\ f < pos + n
      <4>1. x \in Takers(v, n) BY <2>1, <3>5 DEF Com, f
      <4>2. Takers(v, n) = {x} BY <1>1, <2>1, <3>1, <3>5, <4>1, OneCommand DEF IInv, Com
      <4>3. target'[v].base = <<s, f>> BY <3>1, <3>5, <4>2 DEF Applied, Com, f
      <4>4. Reached(s, f)' BY <1>1, <3>1, <3>5 DEF Reached, f
      <4> QED BY <3>1, <4>3, <4>4 DEF f
    <3>6. CASE s = src /\ ~(f >= pos /\ f < pos + n)
      <4>1. \A y \in Takers(v, n) : y = x BY <1>1, <2>1, <3>1, <3>6, OneCommand DEF IInv, Com
      <4>2. Takers(v, n) = {} BY <2>1, <3>6, <4>1 DEF Com, f
      <4>3. target'[v] = target[v] BY <3>1, <3>6, <4>2 DEF Applied
      <4>4. f < pos' <=> f < pos BY <1>1, <1>2, <3>1, <3>6
      <4> QED BY <1>1, <3>1, <3>2, <3>6, <4>3, <4>4 DEF Reached, f
    <3> QED BY <1>1, <3>3, <3>4, <3>5, <3>6 DEF Norm
  <2>12. CASE src \in Norm
    <3>1. \A s \in Overlays : s \notin done /\ s # src
      BY <1>1, <2>12 DEF IInv, SourcesInOrder, Norm
    <3>2. \A s \in Overlays : \A q : ~Reached(s, q) /\ ~Reached(s, q)'
      BY <1>1, <3>1 DEF Reached
    <3>3. \A v \in Vers : target[v].masks = {}
      BY <1>1, <3>2 DEF IInv, MasksTaken
    <3>4. \A v \in Vers : target'[v].masks = {}
      BY <2>12, <3>3 DEF Applied, Norm
    <3>5. MasksTaken' BY <3>2, <3>4 DEF MasksTaken
    <3> QED BY <2>6, <2>7, <2>8, <2>9, <2>10, <2>11, <3>5 DEF IInv
  <2>13. CASE src \in Overlays
    <3>1. MasksTaken'
      <4> SUFFICES ASSUME NEW v \in Vers, NEW b
                   PROVE  b \in target'[v].masks <=>
                            \E s \in Overlays : \E x \in 1..Len(cl[s]) :
                              /\ For(cl[s][x], v) /\ b = <<s, From(cl[s][x], v)>>
                              /\ Reached(s, From(cl[s][x], v))'
        BY <1>1, <2>2 DEF MasksTaken, input, For, From
      <4>1. b \in target'[v].masks <=>
              b \in target[v].masks \/ \E x \in Takers(v, n) : b = <<src, From(Com[x], v)>>
        BY <2>3, <2>13 DEF Applied
      <4>2. b \in target[v].masks <=>
              \E s \in Overlays : \E x \in 1..Len(cl[s]) :
                /\ For(cl[s][x], v) /\ b = <<s, From(cl[s][x], v)>>
                /\ Reached(s, From(cl[s][x], v))
        BY <1>1 DEF IInv, MasksTaken
      <4>3. \A s \in Overlays : \A x \in 1..Len(cl[s]) :
              For(cl[s][x], v) =>
                (Reached(s, From(cl[s][x], v))' <=>
                   Reached(s, From(cl[s][x], v)) \/ (s = src /\ x \in Takers(v, n)))
        <5> SUFFICES ASSUME NEW s \in Overlays, NEW x \in 1..Len(cl[s]), For(cl[s][x], v)
                     PROVE  Reached(s, From(cl[s][x], v))' <=>
                              Reached(s, From(cl[s][x], v)) \/ (s = src /\ x \in Takers(v, n))
          OBVIOUS
        <5>1. s \in Srcs OBVIOUS
        <5>2. From(cl[s][x], v) \in Nat /\ From(cl[s][x], v)' = From(cl[s][x], v) BY <2>2, <5>1
        <5>3. s = src => (x \in Takers(v, n) <=> pos <= From(cl[s][x], v) /\ From(cl[s][x], v) < pos + n)
          BY <2>1 DEF Com
        <5> QED BY <1>1, <1>2, <5>2, <5>3 DEF Reached
      <4>4. \A x \in Takers(v, n) : x \in 1..Len(cl[src]) /\ For(cl[src][x], v)
        BY <2>1 DEF Com
      <4> QED BY <2>13, <4>1, <4>2, <4>3, <4>4 DEF Com
    <3> QED BY <2>6, <2>7, <2>8, <2>9, <2>10, <2>11, <3>1 DEF IInv
  <2> QED BY <1>1, <2>12, <2>13 DEF Norm
<1> QED BY <1>4, <1>5 DEF ReadPiece

-----------------------------------------------------------------------------
(* In order *)

\* All commands have been copied.
LEMMA AllCopiedKeeps == IInv /\ AllCopied => IInv'
<1> SUFFICES ASSUME IInv, AllCopied PROVE IInv' OBVIOUS
<1> USE DEF AllCopied
<1>1. ~reorder /\ src = 0 BY DEF IInv, SourcesInOrder, TypeOK
<1>2. TypeOK' BY <1>1 DEF IInv, TypeOK, input
<1>3. InputOK' BY DEF IInv, InputOK, input
<1>4. SourcesInOrder' BY <1>1 DEF IInv, SourcesInOrder, input
<1>5. RunPlace' BY DEF RunPlace
<1>6. WrittenInOrder' BY DEF IInv, WrittenInOrder, input, From, For
<1>7. BaseTaken' /\ MasksTaken' BY <1>1 DEF BaseTaken, MasksTaken, input
<1> QED BY <1>2, <1>3, <1>4, <1>5, <1>6, <1>7 DEF IInv

\* The next command in order, or the part of it that its source has.
LEMMA CopyNextKeeps == IInv /\ CopyNext => IInv'
<1> SUFFICES ASSUME IInv, CopyNext PROVE IInv' OBVIOUS
<1>1. PICK s \in Srcs : \E x \in 1..Len(cl[s]) : CopyNext!(s)!(x) BY DEF CopyNext
<1>2. PICK x \in 1..Len(cl[s]) : CopyNext!(s)!(x) BY <1>1
<1> DEFINE c == cl[s][x]
<1>3. /\ pc = "in_order" /\ recon < VerLen /\ c.ver = recon
      /\ UNCHANGED <<input, done, src, start, end, pos, max_pos>>
  BY <1>2
<1>4. ~reorder /\ src = 0 /\ recon \in Nat /\ s \in Norm
  BY <1>3 DEF IInv, SourcesInOrder, TypeOK, Norm
<1>5. /\ c \in Command /\ c.pos \in Nat /\ c.len \in Nat \ {0} /\ c.ver \in Nat
      /\ c.ver + c.len <= VerLen
  BY CommandType DEF IInv, Command
<1>6. InputOK' BY <1>3 DEF IInv, InputOK, input
<1>7. BaseTaken' /\ MasksTaken' BY <1>3, <1>4 DEF BaseTaken, MasksTaken, input
<1> HIDE DEF c
<1>8. ASSUME NEW n \in Nat, n <= c.len
      PROVE  Copied(s, c, n) \in [Vers -> [base  : (Srcs \X Nat) \cup {Hole},
                                          masks : SUBSET (Overlays \X Nat)]]
  <2> SUFFICES ASSUME NEW v \in Vers
               PROVE  Copied(s, c, n)[v] \in [base  : (Srcs \X Nat) \cup {Hole},
                                              masks : SUBSET (Overlays \X Nat)]
    BY DEF Copied
  <2>1. target[v] \in [base : (Srcs \X Nat) \cup {Hole}, masks : SUBSET (Overlays \X Nat)]
    BY DEF IInv, TypeOK
  <2>2. CASE c.ver <= v /\ v < c.ver + n
    <3>1. From(c, v) \in Nat BY <1>5, <1>8, <2>2 DEF From, Vers
    <3> QED BY <2>1, <2>2, <3>1 DEF Copied
  <2>3. CASE ~(c.ver <= v /\ v < c.ver + n) BY <2>1, <2>3 DEF Copied
  <2> QED BY <2>2, <2>3
<1>9. CASE target' = Copied(s, c, c.len) /\ recon' = recon + c.len /\ pc' = pc
  <2>1. TypeOK'
    <3>1. target' \in [Vers -> [base : (Srcs \X Nat) \cup {Hole}, masks : SUBSET (Overlays \X Nat)]]
      BY <1>5, <1>8, <1>9
    <3> QED BY <1>3, <1>4, <1>5, <1>9, <3>1 DEF IInv, TypeOK, input
  <2>2. SourcesInOrder' BY <1>3, <1>4, <1>9 DEF IInv, SourcesInOrder, input
  <2>3. RunPlace' BY <1>3, <1>9 DEF RunPlace
  <2>4. \A v \in Vers : target'[v].masks = {}
    <3>1. \A v \in Vers : target[v].masks = {} BY <1>3 DEF IInv, WrittenInOrder
    <3> QED BY <1>9, <3>1 DEF Copied
  <2>5. ASSUME NEW t \in Norm, NEW y \in 1..Len(cl[t]), NEW v \in Vers,
               For(cl[t][y], v), v < recon'
        PROVE  target'[v].base = <<t, From(cl[t][y], v)>>
    <3>1. CASE v < recon
      <4>1. target'[v] = target[v] BY <1>3, <1>9, <3>1, <1>4 DEF Copied, Vers
      <4> QED BY <1>3, <2>5, <3>1, <4>1 DEF IInv, WrittenInOrder
    <3>2. CASE v >= recon
      <4>1. For(c, v) BY <1>3, <1>9, <2>5, <3>2 DEF For
      <4>2. t = s /\ y = x BY <1>4, <2>5, <4>1, OneCommand DEF c, IInv, Norm
      <4>3. target[v] \in [base : (Srcs \X Nat) \cup {Hole}, masks : SUBSET (Overlays \X Nat)]
        BY DEF IInv, TypeOK
      <4> QED BY <1>9, <4>1, <4>2, <4>3 DEF Copied, For, c
    <3> QED BY <1>4, <3>1, <3>2 DEF Vers
  <2>6. WrittenInOrder' BY <1>3, <1>4, <1>9, <2>4, <2>5 DEF WrittenInOrder, input, From, For
  <2> QED BY <1>6, <1>7, <2>1, <2>2, <2>3, <2>6 DEF IInv
<1>10. CASE /\ \E n \in 0..(c.len - 1) : target' = Copied(s, c, n)
            /\ pc' = "error" /\ recon' = recon
  <2>1. TypeOK'
    <3>1. target' \in [Vers -> [base : (Srcs \X Nat) \cup {Hole}, masks : SUBSET (Overlays \X Nat)]]
      BY <1>5, <1>8, <1>10
    <3> QED BY <1>3, <1>4, <1>10, <3>1 DEF IInv, TypeOK, input
  <2>2. SourcesInOrder' BY <1>3, <1>4, <1>10 DEF IInv, SourcesInOrder, input
  <2>3. RunPlace' /\ WrittenInOrder' BY <1>10 DEF RunPlace, WrittenInOrder
  <2> QED BY <1>6, <1>7, <2>1, <2>2, <2>3 DEF IInv
<1> QED BY <1>2, <1>9, <1>10 DEF c

-----------------------------------------------------------------------------
(* Theorems *)

\* Every step keeps the invariant.
LEMMA NextIInv == IInv /\ [Next]_vars => IInv'
<1> SUFFICES ASSUME IInv, [Next]_vars PROVE IInv' OBVIOUS
<1>1. CASE CopyNext BY <1>1, CopyNextKeeps
<1>2. CASE AllCopied BY <1>2, AllCopiedKeeps
<1>3. CASE NextSource BY <1>3, NextSourceKeeps
<1>4. CASE AllRead BY <1>4, AllReadKeeps
<1>5. CASE SourceRead BY <1>5, SourceReadKeeps
<1>6. CASE StartAfterGap BY <1>6, StartAfterGapKeeps
<1>7. CASE StartHere \/ Skip \/ Extend \/ Extended \/ RunRead BY <1>7, OtherMovesKeep
<1>8. CASE Skipped BY <1>8, SkippedKeeps
<1>9. CASE ReadPiece BY <1>9, ReadPieceKeeps
<1>10. CASE UNCHANGED vars
  <2> USE <1>10 DEF vars
  <2>1. TypeOK' BY DEF IInv, TypeOK
  <2>2. InputOK' /\ SourcesInOrder' BY DEF IInv, InputOK, SourcesInOrder
  <2>3. RunPlace' BY DEF IInv, RunPlace, Com
  <2>4. WrittenInOrder' BY DEF IInv, WrittenInOrder
  <2>5. BaseTaken' /\ MasksTaken' BY DEF IInv, BaseTaken, MasksTaken, Reached
  <2> QED BY <2>1, <2>2, <2>3, <2>4, <2>5 DEF IInv
<1> QED
  BY <1>1, <1>2, <1>3, <1>4, <1>5, <1>6, <1>7, <1>8, <1>9, <1>10 DEF Next

\* IInv holds throughout an execution, whatever the commands and the sources.
THEOREM Invariance == Spec => []IInv
BY InitIInv, NextIInv, PTL DEF Spec

\* The variables of read_seq_write_rand and reconstructFile keep their types.
THEOREM TypeCorrect == Spec => []TypeOK
<1>1. IInv => TypeOK BY DEF IInv
<1> QED BY <1>1, Invariance, PTL

\* Of a run, the commands left aside need nothing more of it, or nothing yet.
THEOREM RunsClosed == Spec => []RunIsClosed
<1>1. IInv => RunIsClosed
  <2> SUFFICES ASSUME IInv, pc = "read", NEW x \in 1..Len(Com)
               PROVE  /\ x < start => END_POS(Com[x]) <= pos
                      /\ x \in start..(end - 1) => END_POS(Com[x]) <= max_pos
                      /\ x >= end => max_pos <= Com[x].pos
    BY DEF RunIsClosed
  <2>1. x \in start..(end - 1) => x < end BY RunTypes
  <2> QED BY <2>1 DEF IInv, RunPlace
<1> QED BY <1>1, Invariance, PTL

\* What it is to be a byte that the commands want.
LEMMA WantedIs ==
  ASSUME NEW S, NEW v
  PROVE  \A b : b \in Wanted(S, v) <=>
                 \E s \in S : \E x \in 1..Len(cl[s]) :
                   For(cl[s][x], v) /\ b = <<s, From(cl[s][x], v)>>
BY DEF Wanted

\* The ordinary command for a byte, and what the invariant says of it.
LEMMA BaseCommand ==
  ASSUME IInv, NEW v \in Vers
  PROVE  \E s \in Norm : \E x \in 1..Len(cl[s]) :
           /\ For(cl[s][x], v) /\ s \in Srcs /\ s # 0
           /\ <<s, From(cl[s][x], v)>> # Hole
           /\ Wanted(Norm, v) = {<<s, From(cl[s][x], v)>>}
           /\ reorder => target[v].base = IF Reached(s, From(cl[s][x], v))
                                          THEN <<s, From(cl[s][x], v)>> ELSE Hole
<1>1. PICK s \in Norm : \E x \in 1..Len(cl[s]) : For(cl[s][x], v)
  BY InputAssumption DEF IInv, InputOK, GoodInput
<1>2. PICK x \in 1..Len(cl[s]) : For(cl[s][x], v) BY <1>1
<1>3. s \in Srcs /\ s # 0 BY DEF Norm, Srcs
<1>4. <<s, From(cl[s][x], v)>> # Hole BY <1>3 DEF Hole
<1>5. \A b : b \in Wanted(Norm, v) <=> b = <<s, From(cl[s][x], v)>>
  <2>1. \A t \in Norm : \A y \in 1..Len(cl[t]) : For(cl[t][y], v) => t = s /\ y = x
    BY <1>2, OneCommand DEF IInv, Norm
  <2>2. \A b : b \in Wanted(Norm, v) <=>
                \E t \in Norm : \E y \in 1..Len(cl[t]) :
                  For(cl[t][y], v) /\ b = <<t, From(cl[t][y], v)>>
    BY WantedIs
  <2> QED BY <1>2, <2>1, <2>2
<1>6. reorder => target[v].base = IF Reached(s, From(cl[s][x], v))
                                 THEN <<s, From(cl[s][x], v)>> ELSE Hole
  BY <1>2 DEF IInv, BaseTaken
<1> QED BY <1>2, <1>3, <1>4, <1>5, <1>6

\* At any time of a reordered execution exactly what stands before the place
\* reached has been taken from the sources (read_seq_write_rand).
THEOREM NothingLeftBehind == Spec => []TakenSoFar
<1>1. IInv => TakenSoFar
  <2> SUFFICES ASSUME IInv, reorder, NEW v \in Vers
               PROVE  /\ {target[v].base} \ {Hole} = {b \in Wanted(Norm, v) : Reached(b[1], b[2])}
                      /\ target[v].masks = {b \in Wanted(Overlays, v) : Reached(b[1], b[2])}
    BY DEF TakenSoFar
  <2>1. {target[v].base} \ {Hole} = {b \in Wanted(Norm, v) : Reached(b[1], b[2])}
    <3>1. PICK s \in Norm : \E x \in 1..Len(cl[s]) :
                /\ <<s, From(cl[s][x], v)>> # Hole
                /\ Wanted(Norm, v) = {<<s, From(cl[s][x], v)>>}
                /\ target[v].base = IF Reached(s, From(cl[s][x], v))
                                    THEN <<s, From(cl[s][x], v)>> ELSE Hole
      BY BaseCommand
    <3>2. PICK f : /\ <<s, f>> # Hole /\ Wanted(Norm, v) = {<<s, f>>}
                   /\ target[v].base = IF Reached(s, f) THEN <<s, f>> ELSE Hole
      BY <3>1
    <3>3. CASE Reached(s, f) BY <3>2, <3>3
    <3>4. CASE ~Reached(s, f) BY <3>2, <3>4
    <3> QED BY <3>3, <3>4
  <2>2. target[v].masks = {b \in Wanted(Overlays, v) : Reached(b[1], b[2])}
    <3>1. \A b : b \in Wanted(Overlays, v) <=>
                   \E s \in Overlays : \E x \in 1..Len(cl[s]) :
                     For(cl[s][x], v) /\ b = <<s, From(cl[s][x], v)>>
      BY WantedIs
    <3>2. \A b : b \in target[v].masks <=>
                   \E s \in Overlays : \E x \in 1..Len(cl[s]) :
                     /\ For(cl[s][x], v) /\ b = <<s, From(cl[s][x], v)>>
                     /\ Reached(s, From(cl[s][x], v))
      BY DEF IInv, MasksTaken
    <3> QED BY <3>1, <3>2
  <2> QED BY <2>1, <2>2
<1> QED BY <1>1, Invariance, PTL

\* A finished target is what the commands say, executed in order or source by
\* source, whatever the buffer and the overlaps (reconstructFile).
THEOREM TargetCorrect == Spec => []Correct
<1>1. IInv /\ TakenSoFar => Correct
  <2> SUFFICES ASSUME IInv, TakenSoFar, pc = "done", NEW v \in Vers
               PROVE  /\ {target[v].base} = Wanted(Norm, v)
                      /\ target[v].masks = Wanted(Overlays, v)
    BY DEF Correct
  <2>1. Norm \in SUBSET Srcs /\ Overlays \in SUBSET Srcs BY DEF Norm
  <2>2. CASE reorder
    <3>1. \A s \in Srcs : \A q : Reached(s, q) BY <2>2 DEF IInv, SourcesInOrder, Reached
    <3>2. PICK s \in Norm : \E x \in 1..Len(cl[s]) :
                /\ Wanted(Norm, v) = {<<s, From(cl[s][x], v)>>}
                /\ target[v].base = IF Reached(s, From(cl[s][x], v))
                                    THEN <<s, From(cl[s][x], v)>> ELSE Hole
      BY <2>2, BaseCommand
    <3>3. {target[v].base} = Wanted(Norm, v) BY <2>1, <3>1, <3>2
    <3>4. \A b : b \in Wanted(Overlays, v) => Reached(b[1], b[2])
      <4> SUFFICES ASSUME NEW b \in Wanted(Overlays, v) PROVE Reached(b[1], b[2]) OBVIOUS
      <4>1. PICK t \in Overlays : \E x \in 1..Len(cl[t]) : b = <<t, From(cl[t][x], v)>>
        BY WantedIs
      <4>2. b[1] = t BY <4>1
      <4> QED BY <2>1, <3>1, <4>2
    <3>5. target[v].masks = Wanted(Overlays, v) BY <2>2, <3>4 DEF TakenSoFar
    <3> QED BY <3>3, <3>5
  <2>3. CASE ~reorder
    <3>1. PICK s \in Norm : \E x \in 1..Len(cl[s]) :
                /\ For(cl[s][x], v)
                /\ Wanted(Norm, v) = {<<s, From(cl[s][x], v)>>}
      BY BaseCommand
    <3>2. PICK x \in 1..Len(cl[s]) : /\ For(cl[s][x], v)
                                     /\ Wanted(Norm, v) = {<<s, From(cl[s][x], v)>>}
      BY <3>1
    <3>3. v < recon BY <2>3 DEF IInv, WrittenInOrder, Vers
    <3>4. target[v].base = <<s, From(cl[s][x], v)>>
      BY <2>3, <3>2, <3>3 DEF IInv, WrittenInOrder
    <3>5. target[v].masks = {} BY <2>3 DEF IInv, WrittenInOrder
    <3>6. \A t \in Overlays : \A y \in 1..Len(cl[t]) : FALSE
      BY <2>3 DEF IInv, SourcesInOrder
    <3>7. Wanted(Overlays, v) = {} BY <2>1, <3>6, WantedIs
    <3> QED BY <3>2, <3>4, <3>5, <3>7
  <2> QED BY <2>2, <2>3
<1> QED BY <1>1, Invariance, NothingLeftBehind, PTL

\* A mask is added once to a byte, after it was written, and the byte is not
\* written again (apply-patch.c:225).
THEOREM MasksAddedOnce == Spec => AddedOnce
<1> DEFINE Once == \A v \in Vers :
      /\ (pc = "read" /\ pos' > pos /\ src \in Overlays) =>
           \A x \in Takers(v, pos' - pos) : /\ <<src, From(Com[x], v)>> \notin target[v].masks
                                            /\ target[v].base # Hole
      /\ target[v].masks # {} => target'[v].base = target[v].base
<1>1. ASSUME IInv, [Next]_vars PROVE [Once]_vars
  <2> SUFFICES ASSUME Next, NEW v \in Vers
               PROVE  /\ (pc = "read" /\ pos' > pos /\ src \in Overlays) =>
                           \A x \in Takers(v, pos' - pos) :
                             /\ <<src, From(Com[x], v)>> \notin target[v].masks
                             /\ target[v].base # Hole
                      /\ target[v].masks # {} => target'[v].base = target[v].base
    BY <1>1
  <2> USE <1>1
  <2>1. ASSUME pc = "read", src \in Overlays, NEW x \in Takers(v, pos' - pos)
        PROVE  <<src, From(Com[x], v)>> \notin target[v].masks
    <3> SUFFICES ASSUME <<src, From(Com[x], v)>> \in target[v].masks PROVE FALSE OBVIOUS
    <3>1. reorder /\ src \notin done /\ pos \in Nat /\ src # 0
      BY <2>1, RunTypes DEF IInv, SourcesInOrder
    <3>2. PICK s \in Overlays : \E y \in 1..Len(cl[s]) :
             /\ For(cl[s][y], v) /\ <<src, From(Com[x], v)>> = <<s, From(cl[s][y], v)>>
             /\ Reached(s, From(cl[s][y], v))
      BY <3>1 DEF IInv, MasksTaken
    <3>3. PICK y \in 1..Len(cl[s]) :
             /\ For(cl[s][y], v) /\ <<src, From(Com[x], v)>> = <<s, From(cl[s][y], v)>>
             /\ Reached(s, From(cl[s][y], v))
      BY <3>2
    <3>4. s = src /\ From(Com[x], v) = From(cl[s][y], v) BY <3>3
    <3>5. From(cl[s][y], v) \in Nat BY <3>3, CommandType, FromWithin DEF IInv
    <3>6. From(cl[s][y], v) < pos BY <3>1, <3>3, <3>4 DEF Reached
    <3>7. pos <= From(Com[x], v) BY <2>1 DEF Takers
    <3> QED BY <3>1, <3>4, <3>5, <3>6, <3>7
  <2>2. ASSUME pc = "read", src \in Overlays PROVE target[v].base # Hole
    <3>1. Norm \subseteq done /\ reorder BY <2>2 DEF IInv, SourcesInOrder
    <3> QED BY <3>1, BaseCommand DEF Reached
  <2>3. ASSUME target[v].masks # {} PROVE target'[v].base = target[v].base
    <3>1. CASE target' = target BY <3>1
    <3>2. CASE CopyNext BY <2>3, <3>2 DEF CopyNext, IInv, WrittenInOrder
    <3>3. CASE ReadPiece /\ target' # target
      <4> DEFINE n == Smaller(max_pos - pos, BufSize)
      <4>1. target' = [w \in Vers |-> Applied(w, n)] /\ pc = "read" BY <3>3 DEF ReadPiece
      <4>2. src \in Srcs /\ reorder /\ src \notin done /\ src # 0
        BY <4>1, RunTypes DEF IInv, SourcesInOrder
      <4>3. src \in Overlays
        <5> SUFFICES ASSUME src \in Norm PROVE FALSE BY <4>2 DEF Norm
        <5>1. \A s \in Overlays : s \notin done /\ s # src
          BY <4>2 DEF IInv, SourcesInOrder, Norm
        <5>2. target[v].masks = {} BY <4>2, <5>1 DEF IInv, MasksTaken, Reached
        <5> QED BY <2>3, <5>2
      <4>4. target[v] \in [base : (Srcs \X Nat) \cup {Hole}, masks : SUBSET (Overlays \X Nat)]
        BY DEF IInv, TypeOK
      <4> HIDE DEF n
      <4> QED BY <4>1, <4>3, <4>4 DEF Applied
    <3> QED BY <3>1, <3>2, <3>3
          DEF Next, AllCopied, NextSource, AllRead, SourceRead, StartAfterGap, StartHere,
              Skip, Skipped, Extend, Extended, RunRead
  <2> QED BY <2>1, <2>2, <2>3
<1> QED BY <1>1, Invariance, PTL DEF Spec, AddedOnce

\* Each source is read in one pass: the place in it never goes back
\* (read_seq_write_rand).
THEOREM SourcesReadOnce == Spec => OnePass
<1>1. ASSUME IInv, [Next]_vars PROVE [src # 0 /\ src' = src => pos' >= pos]_vars
  <2> SUFFICES ASSUME Next, src # 0, src' = src PROVE pos' >= pos BY <1>1
  <2> USE <1>1
  <2>1. pos \in Nat /\ (pc \in {"source", "in_order"} => src = 0) BY DEF IInv, TypeOK
  <2>2. CASE StartAfterGap BY <2>1, <2>2, RunTypes DEF StartAfterGap
  <2>3. CASE Skipped
    <3>1. CASE start > Len(Com) BY <2>1, <2>3, <3>1 DEF Skipped
    <3>2. CASE ~(start > Len(Com))
      <4>1. pos' = Com[start].pos /\ ~Passed /\ start \in 1..Len(Com)
        BY <2>3, <3>2, RunTypes DEF Skipped
      <4> QED BY <2>1, <2>3, <4>1, RunTypes DEF Passed, Skipped
    <3> QED BY <3>1, <3>2
  <2>4. CASE ReadPiece BY <2>1, <2>4, RunTypes DEF ReadPiece, Smaller
  <2>5. CASE NextSource BY <2>1, <2>5 DEF NextSource
  <2>6. CASE pos' = pos BY <2>1, <2>6
  <2> QED BY <2>2, <2>3, <2>4, <2>5, <2>6
        DEF Next, CopyNext, AllCopied, AllRead, SourceRead, StartHere, Skip, Extend, Extended, RunRead
<1> QED BY <1>1, Invariance, PTL DEF Spec, OnePass

=============================================================================
