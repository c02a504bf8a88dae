------------------------------ MODULE Formats ------------------------------
(***************************************************************************)
(* The patch formats that are written and read: gdiff (versions 4 and 5),  *)
(* switching, bdiff and bdelta (libdiffball/gdiff.c, switching.c, bdiff.c, *)
(* bdelta.c, with bit-functions.c).  An encoder turns the commands of a    *)
(* buffer into a patch; a reader fills a buffer from it.                   *)
(*                                                                         *)
(* A patch is a file: control bytes, one by one, and the stretches of the  *)
(* new version that its adds bring, of which only the place and the length *)
(* matter.  Its magic and what readers skip is one item.  Each format has  *)
(* classes of lengths and offsets, and places adds by counting bytes: the  *)
(* numbers are those of the code.                                          *)
(***************************************************************************)
EXTENDS Integers, Sequences, SequencesExt, FiniteSetsExt

CONSTANTS Kinds,    \* the formats, of those below
          Lists     \* the lists of commands there are to encode: an encoder is
                    \* given [type, len, pos], pos where a copy comes from

ASSUME KindAssumption == Kinds \subseteq {"gdiff4", "gdiff5", "switching", "bdiff", "bdelta"}

\* Commands have bytes, and as many as all formats can say: longer copies and
\* adds overflow into the class bits of switching, which no encoder checks.
ASSUME ListAssumption ==
  \A l \in Lists : \A i \in DOMAIN l :
    /\ l[i].type \in {"ADD", "COPY"} /\ l[i].pos \in Nat
    /\ l[i].len \in 1..(IF l[i].type = "COPY" THEN 269488143 ELSE 1077952575)

VARIABLES
  kind, commands,   \* the format and the commands of the buffer to encode
  pc,
  next,             \* the command that is encoded next
  patch,            \* the file
  whole,            \* it was written to its end
  dc_pos,           \* where the last copy was, or ended, for who writes or reads
  last_com,
  at,               \* where the reader stands in the file
  add_pos,          \* where its next add is: add_off of switching, add_pos of bdelta
  matches,          \* how many triples of a bdelta patch are left
  read              \* the commands read; an add is a stretch of the file

inputs == <<kind, commands>>
vars   == <<inputs, pc, next, patch, whole, dc_pos, last_com, at, add_pos, matches, read>>

---------------------------------------------------------------------------
(* Integers as bytes, of values that have less than 32 bits. *)

Shifted(v, k) == IF k > 3 THEN 0 ELSE (v \div 256^k) % 256

UBytesBE(v, n) == [i \in 1..n |-> Shifted(v, n - i)]
UBytesLE(v, n) == [i \in 1..n |-> Shifted(v, i - 1)]

ReadUBytesBE(b) == FoldLeft(LAMBDA v, x : 256 * v + x, 0, b)
ReadUBytesLE(b) == ReadUBytesBE(Reverse(b))

Magnitude(v) == IF v < 0 THEN -v ELSE v

\* b with bits f set in its first byte.
WithBits(b, f) == <<b[1] + f>> \o Tail(b)

\* Sign and magnitude.
SBytesBE(v, n) == WithBits(UBytesBE(Magnitude(v), n), IF v < 0 THEN 128 ELSE 0)

IsNegative(b) == b[1] >= 128
ReadSBytesBE(b) ==
  LET v == ReadUBytesBE(<<b[1] % 128>> \o Tail(b))
  IN  IF IsNegative(b) THEN -v ELSE v

Least(n, P(_)) == CHOOSE k \in 0..n : P(k) /\ \A j \in 0..(k - 1) : ~ P(j)
UnsignedBytesNeeded(v) == Least(4, LAMBDA k : k = 4 \/ v < 256^k)
\* MISTAKE: without the bit for the sign.
SignlessBytesNeeded(v) == UnsignedBytesNeeded(Magnitude(v))
SignedBytesNeeded(v)   == Least(4, LAMBDA k : k = 4 \/ 2 * Magnitude(v) < 256^k)

---------------------------------------------------------------------------
(* Files: a sequence of items, each with its place. *)

Byte(b)      == [n |-> 1, is |-> "byte", v |-> b]
Data(c)      == [n |-> c.len, is |-> "data", v |-> c.pos]
Skipped(n)   == [n |-> n, is |-> "magic", v |-> 0]
Control(b)   == [i \in DOMAIN b |-> Byte(b[i])]

EndOf(file)  == IF file = <<>> THEN 0 ELSE Last(file).at + Last(file).n
Put(file, items) ==
  FoldLeft(LAMBDA f, x : Append(f, [at |-> EndOf(f), n |-> x.n, is |-> x.is, v |-> x.v]),
           file, items)

\* cread of n control bytes at place p of the file: fewer at its end.
Cread(p, n) ==
  LET rest == SelectSeq(patch, LAMBDA x : x.at >= p /\ x.at < p + n)
  IN  [i \in DOMAIN rest |-> rest[i].v]

---------------------------------------------------------------------------
(* The commands of a buffer. *)

IsAdd(c) == c.type = "ADD"
Adds     == SelectSeq(commands, IsAdd)
AddBlock == [i \in DOMAIN Adds |-> Data(Adds[i])]
LenOf(list) == FoldLeft(LAMBDA n, c : n + c.len, 0, list)

\* The adds from the next command on, which some formats take for one.
NextAdds ==
  LET end == Min({j \in next..Len(commands) : ~ IsAdd(commands[j])} \cup {Len(commands) + 1})
  IN  SubSeq(commands, next, end - 1)

\* Adds are taken from the version, one after the other.
Placed(list) ==
  [i \in DOMAIN list |->
     IF IsAdd(list[i]) THEN [list[i] EXCEPT !.pos = LenOf(SubSeq(list, 1, i - 1))] ELSE list[i]]

Init ==
  /\ kind \in Kinds
  /\ \E l \in Lists : commands = Placed(l)
  /\ pc = "header" /\ next = 1 /\ patch = <<>> /\ whole = FALSE
  /\ dc_pos = 0 /\ last_com = "COPY"
  /\ at = 0 /\ add_pos = 0 /\ matches = 0 /\ read = <<>>

\* What an encoder leaves alone.
Writing == UNCHANGED <<inputs, whole, at, add_pos, matches, read>>

Encode(k) == pc = "encode" /\ kind \in k /\ next <= Len(commands)

\* A bdelta match: some adds, a copy, or both.
Matches ==
  Cardinality({i \in DOMAIN commands : i = 1 \/ ~ IsAdd(commands[i - 1])})

WriteHeader ==
  /\ pc = "header"
  /\ patch' = Put(<<>>,
       CASE kind \in {"gdiff4", "gdiff5"} -> <<Skipped(5)>>
         [] kind = "switching" -> <<Skipped(10)>> \o Control(UBytesBE(LenOf(Adds), 4)) \o AddBlock
         [] kind = "bdiff"     -> <<Skipped(10)>>
         [] kind = "bdelta"    -> <<Skipped(6), Skipped(4)>>
                                    \o Control(UBytesLE(LenOf(commands), 4) \o UBytesLE(Matches, 4)))
  /\ pc' = "encode"
  /\ UNCHANGED <<next, dc_pos, last_com>> /\ Writing

---------------------------------------------------------------------------
(* gdiff: an opcode says how many bytes the offset and the length have. *)

GdiffCopyBytes == <<<<2, 1>>, <<2, 2>>, <<2, 4>>, <<4, 1>>, <<4, 2>>, <<4, 4>>>>

GdiffAdd(c) ==
  Control(CASE c.len <= 246   -> <<c.len>>
            [] c.len \in 247..65535 -> <<247>> \o UBytesBE(c.len, 2)
            [] OTHER          -> <<248>> \o UBytesBE(c.len, 4))
    \o <<Data(c)>>

\* In version 5 offsets are relative to that of the copy before.  The buffer the
\* bytes are put together in has 5: what is written behind it when offset or
\* length take 4 is taken to harm nothing.
GdiffCopy(c) ==
  LET off == IF kind = "gdiff5" THEN c.pos - dc_pos ELSE c.pos
      ob  == IF (IF kind = "gdiff5" THEN SignedBytesNeeded(off)
                                    ELSE UnsignedBytesNeeded(off)) <= 2 THEN 2 ELSE 4
      lb  == Min({n \in {1, 2, 4} : UnsignedBytesNeeded(c.len) <= n})
      op  == CHOOSE i \in DOMAIN GdiffCopyBytes : GdiffCopyBytes[i] = <<ob, lb>>
  IN  Control(<<248 + op>>
                \o (IF kind = "gdiff5" THEN SBytesBE(off, ob) ELSE UBytesBE(off, ob))
                \o UBytesBE(c.len, lb))

GdiffEncode ==
  LET c == commands[next]
  IN  /\ Encode({"gdiff4", "gdiff5"})
      /\ patch' = Put(patch, IF IsAdd(c) THEN GdiffAdd(c) ELSE GdiffCopy(c))
      /\ dc_pos' = IF IsAdd(c) \/ kind = "gdiff4" THEN dc_pos ELSE c.pos
      /\ next' = next + 1
      /\ UNCHANGED <<pc, last_com>> /\ Writing

---------------------------------------------------------------------------
(* bdiff: lengths from 6 to 68 are part of the opcode. *)

BdiffLen(flag, len, between) ==
  IF len > 5 /\ len <= 5 + 63
  THEN Control(<<flag + len - 5>> \o between)
  ELSE Control(<<flag>> \o between \o UBytesBE(len, 4))

BdiffEncode ==
  LET c == commands[next]
  IN  /\ Encode({"bdiff"})
      /\ patch' = Put(patch, IF IsAdd(c) THEN BdiffLen(128, c.len, <<>>) \o <<Data(c)>>
                                          ELSE BdiffLen(0, c.len, UBytesBE(c.pos, 4)))
      /\ next' = next + 1
      /\ UNCHANGED <<pc, dc_pos, last_com>> /\ Writing

---------------------------------------------------------------------------
(* bdelta: triples of an offset from the end of the copy before, in two's   *)
(* complement, the bytes to add first and those to copy; then all adds.     *)

BdeltaEncode ==
  LET add  == LenOf(NextAdds)
      i    == next + Len(NextAdds)
      copy == IF i <= Len(commands) THEN commands[i] ELSE [len |-> 0, pos |-> dc_pos]
  IN  /\ Encode({"bdelta"})
      /\ patch' = Put(patch, Control(UBytesLE(copy.pos - dc_pos, 4)
                                       \o UBytesLE(add, 4) \o UBytesLE(copy.len, 4)))
      /\ dc_pos' = copy.pos + copy.len
      /\ next' = Min({i, Len(commands)}) + 1
      /\ UNCHANGED <<pc, last_com>> /\ Writing

---------------------------------------------------------------------------
(* switching: adds and copies take turns, an empty add between two copies;  *)
(* two bits tell how many bytes follow, and each class starts where the one *)
(* before it ends.                                                          *)

AddLenStart  == <<0, 64, 64 + 16384, 64 + 16384 + 4194304>>
CopyLenStart == <<0, 16, 16 + 4096, 16 + 4096 + 1048576>>
\* The third class of offsets starts where the fourth does: it is never used.
CopySoffStart == <<0, 128, 128 + 32768, 128 + 32768>>

\* MISTAKE: a value at the start of a class is left to the class before.
ClassBelow(start, v) == Max({k \in 1..4 : k = 1 \/ v > start[k]})

Class(start, v) == Max({k \in 1..4 : v >= start[k]})

SwitchingAdd(len) ==
  LET k == Class(AddLenStart, len)
  IN  WithBits(UBytesBE(len - AddLenStart[k], k), (k - 1) * 64)

SwitchingCopy(off, len) ==
  LET k == Class(CopyLenStart, len)
      o == Class(CopySoffStart, Magnitude(off))
  IN  WithBits(UBytesBE(len - CopyLenStart[k], k), (k - 1) * 64 + (o - 1) * 16)
        \o WithBits(UBytesBE(Magnitude(off) - CopySoffStart[o], o), IF off < 0 THEN 128 ELSE 0)

\* MISTAKE: copies follow on copies.
NoBlankAdd(prev) == <<>>

BlankAdd(prev) == IF prev = "COPY" THEN <<0>> ELSE <<>>

\* A run of adds is one add (DCB_get_next_collapsed_command).
SwitchingEncode ==
  LET c == commands[next]
  IN  /\ Encode({"switching"})
      /\ IF IsAdd(c)
         THEN /\ patch' = Put(patch, Control(SwitchingAdd(LenOf(NextAdds))))
              /\ next' = next + Len(NextAdds)
              /\ UNCHANGED dc_pos
         ELSE /\ patch' = Put(patch, Control(BlankAdd(last_com)
                                               \o SwitchingCopy(c.pos - dc_pos, c.len)))
              /\ next' = next + 1
              /\ dc_pos' = c.pos
      /\ last_com' = c.type
      /\ UNCHANGED pc /\ Writing

\* The writer is done, or stops before: copyDCB_add_src gives too few bytes, or
\* the program is ended.  What has reached the file by then stays, under the
\* name the patch was to have.  The reader starts anew.
Close ==
  /\ pc' = "open" /\ next' = 1
  /\ dc_pos' = 0 /\ last_com' = "COPY"
  /\ UNCHANGED <<inputs, at, add_pos, matches, read>>

WriteEnd ==
  /\ pc = "encode" /\ next > Len(commands)
  /\ patch' = Put(patch, CASE kind \in {"gdiff4", "gdiff5"} -> Control(<<0>>)
                           [] kind = "switching" -> Control(BlankAdd(last_com) \o <<0, 0>>)
                           [] kind = "bdiff"     -> <<>>
                           [] kind = "bdelta"    -> AddBlock)
  /\ whole' = TRUE
  /\ Close

\* A file without all of its magic is no patch.
WriteStops ==
  /\ pc = "encode"
  /\ \E n \in 1..Len(patch) : patch' = SubSeq(patch, 1, n)
  /\ UNCHANGED whole
  /\ Close

---------------------------------------------------------------------------
(* The readers. *)

Opened == UNCHANGED <<inputs, next, patch, whole>>

\* EOF_ERROR or PATCH_TRUNCATED: what was read is given up.
Refuse ==
  /\ pc' = "failed"
  /\ UNCHANGED <<dc_pos, last_com, at, add_pos, matches, read>>

\* A short cread goes unnoticed: what the buffer held before is taken for what
\* the patch says.  What comes of it is not modelled.
Misread ==
  /\ pc' = "garbage"
  /\ UNCHANGED <<dc_pos, last_com, at, add_pos, matches, read>>

\* MISTAKE: some bytes are taken for all.
AnyBytes(b, n) == n = 0 \/ b # <<>>

\* What a cread of n bytes brought is all of them.
Whole(b, n) == Len(b) = n

ReadHeader ==
  LET word == Cread(IF kind = "bdelta" THEN 14 ELSE 10, 4)
  IN  /\ pc = "open" /\ Opened
      /\ IF kind = "bdelta" /\ EndOf(patch) < 5 THEN Refuse
         ELSE IF kind \in {"switching", "bdelta"} /\ ~ Whole(word, 4) THEN Misread
         ELSE /\ pc' = "read"
              /\ at' = CASE kind \in {"gdiff4", "gdiff5"} -> 5
                         [] kind = "switching" -> 14 + ReadUBytesBE(word)
                         [] kind = "bdiff"     -> 10
                         [] kind = "bdelta"    -> 18
              /\ add_pos' = CASE kind = "switching" -> 14
                              [] kind = "bdelta"    -> 18 + 12 * ReadUBytesLE(word)
                              [] OTHER              -> 0
              /\ matches' = IF kind = "bdelta" THEN ReadUBytesLE(word) ELSE 0
              /\ UNCHANGED <<dc_pos, last_com, read>>

Copied(pos, len) == IF len = 0 THEN <<>> ELSE <<[type |-> "COPY", pos |-> pos, len |-> len]>>
Added(pos, len)  == IF len = 0 THEN <<>> ELSE <<[type |-> "ADD", pos |-> pos, len |-> len]>>

\* The next opcode, if there is one.
Opcode  == Cread(at, 1)[1]
Read(k) == pc = "read" /\ kind \in k /\ Opened
More    == Cread(at, 1) # <<>>

\* An add has its bytes next to it.
AddHere(from, len) ==
  /\ read' = read \o Added(from, len)
  /\ at' = from + len
  /\ UNCHANGED <<pc, dc_pos, last_com, add_pos, matches>>

GdiffReadAdd ==
  LET lb  == IF Opcode <= 246 THEN 0 ELSE IF Opcode = 247 THEN 2 ELSE 4
      b   == Cread(at + 1, lb)
  IN  /\ Read({"gdiff4", "gdiff5"}) /\ More /\ Opcode \in 1..248
      /\ IF ~ Whole(b, lb) THEN Refuse
         ELSE AddHere(at + 1 + lb, IF lb = 0 THEN Opcode ELSE ReadUBytesBE(b))

GdiffReadCopy ==
  LET ob  == GdiffCopyBytes[Opcode - 248][1]
      lb  == GdiffCopyBytes[Opcode - 248][2]
      o   == Cread(at + 1, ob)
      b   == Cread(at + 1 + ob, lb)
      off == IF kind = "gdiff5" THEN dc_pos + ReadSBytesBE(o) ELSE ReadUBytesBE(o)
  IN  /\ Read({"gdiff4", "gdiff5"}) /\ More /\ Opcode \in 249..254
      /\ IF ~ Whole(o, ob) \/ ~ Whole(b, lb) THEN Refuse
         ELSE /\ read' = read \o Copied(off, ReadUBytesBE(b))
              /\ dc_pos' = IF kind = "gdiff5" THEN off ELSE dc_pos
              /\ at' = at + 1 + ob + lb
              /\ UNCHANGED <<pc, last_com, add_pos, matches>>

\* Of an opcode the two high bits tell the command, the others the length, if
\* it is not given in full.
BdiffRead ==
  LET flag  == Opcode \div 64
      short == Opcode % 64
      lb    == IF short = 0 THEN 4 ELSE 0
      from  == IF flag = 0 THEN at + 5 ELSE at + 1
      off   == Cread(at + 1, 4)
      b     == Cread(from, lb)
      len   == IF short = 0 THEN ReadUBytesBE(b) ELSE short + 5
  IN  /\ Read({"bdiff"}) /\ More
      /\ CASE flag = 2 /\ Whole(b, lb) -> AddHere(from + lb, len)
           [] flag = 0 /\ Whole(off, 4) /\ Whole(b, lb) ->
                /\ read' = read \o Copied(ReadUBytesBE(off), len)
                /\ at' = from + lb
                /\ UNCHANGED <<pc, dc_pos, last_com, add_pos, matches>>
           [] flag = 1 /\ short <= 1 /\ Whole(Cread(at + 1, 16), 16) ->     \* a checksum
                /\ at' = at + 17
                /\ UNCHANGED <<pc, dc_pos, last_com, add_pos, matches, read>>
           [] flag = 3 -> /\ at' = at + 1
                          /\ UNCHANGED <<pc, dc_pos, last_com, add_pos, matches, read>>
           [] OTHER -> Refuse

\* Two's complement, the low byte first.
ReadOffsetLE(b) ==
  IF b[4] < 128 THEN ReadUBytesLE(b) ELSE -1 - ReadUBytesLE([i \in 1..4 |-> 255 - b[i]])

BdeltaRead ==
  LET b    == Cread(at + 8, 4)
      copy == ReadUBytesLE(b)
      add  == ReadUBytesLE(Cread(at + 4, 4))
      off  == dc_pos + ReadOffsetLE(Cread(at, 4))
  IN  /\ Read({"bdelta"}) /\ matches > 0
      /\ IF ~ Whole(b, 4) THEN Misread
         ELSE /\ read' = read \o Added(add_pos, add) \o Copied(off, copy)
              /\ dc_pos' = off + copy
              /\ add_pos' = add_pos + add
              /\ matches' = matches - 1
              /\ at' = at + 12
              /\ UNCHANGED <<pc, last_com>>

SwitchingReadAdd ==
  LET lb  == Opcode \div 64
      b   == Cread(at + 1, lb)
      len == ReadUBytesBE(<<Opcode % 64>> \o b) + AddLenStart[lb + 1]
  IN  /\ Read({"switching"}) /\ last_com = "COPY" /\ More
      /\ IF ~ Whole(b, lb) THEN Misread
         ELSE /\ read' = read \o Added(add_pos, len)
              /\ add_pos' = add_pos + len
              /\ last_com' = "ADD"
              /\ at' = at + 1 + lb
              /\ UNCHANGED <<pc, dc_pos, matches>>

\* The end is a copy of no bytes from the start; an offset of 0 is not always
\* one, and the file may end first.
SwitchingReadCopy ==
  LET lb  == Opcode \div 64
      ob  == (Opcode \div 16) % 4
      b   == Cread(at + 1, lb)
      o   == Cread(at + 1 + lb, ob + 1)
      len == ReadUBytesBE(<<Opcode % 16>> \o b) + CopyLenStart[lb + 1]
      off == dc_pos + ReadSBytesBE(o)
               + (IF IsNegative(o) THEN - CopySoffStart[ob + 1] ELSE CopySoffStart[ob + 1])
  IN  /\ Read({"switching"}) /\ last_com = "ADD" /\ More
      /\ IF ~ Whole(b, lb) \/ ~ Whole(o, ob + 1) THEN Misread
         ELSE /\ read' = read \o Copied(off, len)
              /\ dc_pos' = off
              /\ at' = at + 1 + lb + ob + 1
              /\ IF lb = 0 /\ ob = 0 /\ len = 0 /\ off = 0
                 THEN pc' = "done" /\ UNCHANGED last_com
                 ELSE last_com' = "COPY" /\ UNCHANGED pc
              /\ UNCHANGED <<add_pos, matches>>

\* What the triples of a bdelta patch do not say of the version is taken for an
\* add, of source 0.
ReadEnd ==
  LET size2 == ReadUBytesLE(Cread(10, 4))
  IN  /\ pc = "read" /\ Opened
      /\ CASE kind = "bdelta" -> matches = 0
           [] kind \in {"gdiff4", "gdiff5"} -> (More => Opcode = 0)
           [] OTHER -> ~ More
      /\ read' = IF kind = "bdelta" THEN read \o Added(add_pos, size2 - LenOf(read)) ELSE read
      /\ pc' = "done"
      /\ UNCHANGED <<dc_pos, last_com, at, add_pos, matches>>

\* A reader that has returned stays.
Stay == pc \in {"done", "failed", "garbage"} /\ UNCHANGED vars

Next ==
  \/ WriteHeader \/ GdiffEncode \/ BdiffEncode \/ BdeltaEncode \/ SwitchingEncode
  \/ WriteEnd \/ WriteStops
  \/ ReadHeader \/ GdiffReadAdd \/ GdiffReadCopy \/ BdiffRead \/ BdeltaRead
  \/ SwitchingReadAdd \/ SwitchingReadCopy \/ ReadEnd
  \/ Stay

Spec == Init /\ [][Next]_vars

---------------------------------------------------------------------------
(* Versions, as stretches of the source and of what adds bring. *)

Joined(list) ==
  LET Join(done, c) ==
        IF done # <<>> /\ Last(done).type = c.type /\ Last(done).pos + Last(done).len = c.pos
        THEN [done EXCEPT ![Len(done)].len = @ + c.len]
        ELSE Append(done, c)
  IN  FoldLeft(Join, <<>>, list)

\* What a stretch [pos, len] of the file holds of the version's bytes.
Held(c) ==
  LET items == SelectSeq(patch, LAMBDA x : x.at >= c.pos /\ x.at < c.pos + c.len)
  IN  [i \in DOMAIN items |-> [type |-> IF items[i].is = "data" THEN "ADD" ELSE "CONTROL",
                               pos |-> items[i].v, len |-> items[i].n]]
Meant == FoldLeft(LAMBDA v, c : v \o (IF IsAdd(c) THEN Held(c) ELSE <<c>>), <<>>, read)

Command == [type : {"ADD", "COPY"}, len : Nat, pos : Int]

\* Every byte of a patch is one, and what a reader makes of it are commands, of
\* lengths that are not negative, at places it can add up.
TypeOK ==
  /\ pc \in {"header", "encode", "open", "read", "done", "failed", "garbage"}
  /\ next \in 1..(Len(commands) + 1)
  /\ \A i \in DOMAIN patch : /\ patch[i].n \in Nat /\ patch[i].at \in Nat
                             /\ patch[i].is = "byte" => patch[i].v \in 0..255
  /\ dc_pos \in Nat /\ last_com \in {"ADD", "COPY"} /\ whole \in BOOLEAN
  /\ at \in Nat /\ add_pos \in Nat /\ matches \in Nat
  /\ \A i \in DOMAIN read : read[i] \in Command

\* A patch that was written to its end gives back the version it was made of: it
\* is read without an error, every copy comes from where it was, every add is
\* found where its bytes are, at each border between two encodings of a length
\* or an offset.
ReadsBack ==
  whole => /\ pc \notin {"failed", "garbage"}
           /\ pc = "done" => Joined(Meant) = Joined(commands)

\* Whatever of a gdiff or a bdiff patch is there, what is read of it is a
\* beginning of the version, no command is taken from half of its bytes; only
\* the bytes of the last add may be missing.  switching and bdelta promise this
\* of whole patches only: they do not look at what cread returns.
PrefixRead ==
  (whole \/ kind \in {"gdiff4", "gdiff5", "bdiff"}) =>
    /\ pc # "garbage"
    /\ \E n \in 0..Len(commands) : Joined(Meant) = Joined(SubSeq(commands, 1, n))
    /\ \A i \in 1..(Len(read) - 1) : IsAdd(read[i]) => Held(read[i]) # <<>>
=============================================================================
