--------------------------- MODULE HevcStartcode ----------------------------
(***************************************************************************)
(* hevc_find_startcode (hevc.c): where the next NAL unit of an H.265 byte  *)
(* stream begins.  The search runs through three loops, byte by byte up to *)
(* a word boundary, then a word at a time, then byte by byte to the end;   *)
(* a step of the model is one iteration of one of them.                    *)
(*                                                                         *)
(* Pointers are offsets from the start of the buffer, so that the code's p *)
(* is 0 and its end is n at first.  They may be negative, as "end" is when *)
(* the buffer is shorter than the 3 bytes subtracted from it.              *)
(***************************************************************************)
EXTENDS Integers, Sequences

CONSTANT Buffers   \* the byte strings that are searched

ASSUME BuffersAssumption == Buffers \subseteq Seq(0 .. 255)

VARIABLES
  buf,     \* the bytes searched
  base,    \* the address of the first byte, modulo the word size
  pc,      \* "head", "word", "tail", "back" (in the wrapper) or "done"
  p,       \* the offset the search has come to
  end,     \* the code's variable end, which moves with each loop
  out,     \* the offset found
  touched  \* history: the offsets the last iteration may have read

vars == <<buf, base, pc, p, end, out, touched>>

n == Len(buf)

\* A read outside the buffer would yield something; ReadsInBounds is what rules
\* it out.
Byte(i) == IF i \in 0 .. n - 1 THEN buf[i + 1] ELSE 0

\* The offset of a, the first word boundary after the start of the buffer.
a == 4 - base

Init ==
  /\ buf \in Buffers
  /\ base \in 0 .. 3
  /\ pc = "head"
  /\ p = 0
  /\ end = n - 3
  /\ out = 0
  /\ touched = {}

StartcodeAt(i) == Byte(i) = 0 /\ Byte(i + 1) = 0 /\ Byte(i + 2) = 1

Return(i) ==
  /\ pc' = "back" /\ out' = i
  /\ UNCHANGED <<p, end>>

\* Mutant: the bound is not lowered for the reads beyond a word.
HeadStepKeepsEnd ==
  /\ pc = "head"
  /\ IF p < a /\ p < end
       THEN /\ touched' = p .. p + 2
            /\ IF StartcodeAt(p)
                 THEN Return(p)
                 ELSE p' = p + 1 /\ UNCHANGED <<pc, end, out>>
       ELSE pc' = "word" /\ UNCHANGED <<p, end, out, touched>>
  /\ UNCHANGED <<buf, base>>

\* The loops before and after the words.  "inside" is the loop's condition,
\* "leave" what happens when it fails.
HeadStep ==
  /\ pc = "head"
  /\ IF p < a /\ p < end
       THEN /\ touched' = p .. p + 2
            /\ IF StartcodeAt(p)
                 THEN Return(p)
                 ELSE p' = p + 1 /\ UNCHANGED <<pc, end, out>>
       ELSE pc' = "word" /\ end' = end - 3 /\ UNCHANGED <<p, out, touched>>
  /\ UNCHANGED <<buf, base>>

TailStep ==
  /\ pc = "tail"
  /\ IF p < end
       THEN /\ touched' = p .. p + 2
            /\ IF StartcodeAt(p)
                 THEN Return(p)
                 ELSE p' = p + 1 /\ UNCHANGED <<pc, end, out>>
       ELSE Return(end + 3) /\ UNCHANGED touched
  /\ UNCHANGED <<buf, base>>

\* (x - 0x01010101) & ~x & 0x80808080 on the little-endian word at p, lane by
\* lane: the subtraction borrows from the next lane, and a lane's top bit
\* survives when it is set in the difference and clear in the byte.
Borrow(b, w) == IF b - 1 - w < 0 THEN 1 ELSE 0
TopBit(b, w) ==
  LET d == IF b - 1 - w < 0 THEN b + 255 - w ELSE b - 1 - w
  IN  d >= 128 /\ b < 128

WordHasZero(b0, b1, b2, b3) ==
  LET w1 == Borrow(b0, 0)
      w2 == Borrow(b1, w1)
      w3 == Borrow(b2, w2)
  IN  TopBit(b0, 0) \/ TopBit(b1, w1) \/ TopBit(b2, w2) \/ TopBit(b3, w3)

\* Mutant: the last test is missing.
FoundInWordShort ==
  IF Byte(p + 1) = 0 /\ Byte(p) = 0 /\ Byte(p + 2) = 1 THEN 0
  ELSE IF Byte(p + 1) = 0 /\ Byte(p + 2) = 0 /\ Byte(p + 3) = 1 THEN 1
  ELSE IF Byte(p + 3) = 0 /\ Byte(p + 2) = 0 /\ Byte(p + 4) = 1 THEN 2
  ELSE 4

\* The offset that the tests inside a word find, counted from p; 4 for none.
FoundInWord ==
  IF Byte(p + 1) = 0 /\ Byte(p) = 0 /\ Byte(p + 2) = 1 THEN 0
  ELSE IF Byte(p + 1) = 0 /\ Byte(p + 2) = 0 /\ Byte(p + 3) = 1 THEN 1
  ELSE IF Byte(p + 3) = 0 /\ Byte(p + 2) = 0 /\ Byte(p + 4) = 1 THEN 2
  ELSE IF Byte(p + 3) = 0 /\ Byte(p + 4) = 0 /\ Byte(p + 5) = 1 THEN 3
  ELSE 4

\* Mutant: a word without a start code is not passed over.
WordStepStays ==
  /\ pc = "word"
  /\ IF p < end
       THEN /\ touched' = p .. p + 5
            /\ IF /\ WordHasZero(Byte(p), Byte(p + 1), Byte(p + 2), Byte(p + 3))
                  /\ FoundInWord < 4
                 THEN Return(p + FoundInWord)
                 ELSE UNCHANGED <<p, pc, end, out>>
       ELSE pc' = "tail" /\ end' = end + 3 /\ UNCHANGED <<p, out, touched>>
  /\ UNCHANGED <<buf, base>>

WordStep ==
  /\ pc = "word"
  /\ IF p < end
       THEN /\ touched' = p .. p + 5
            /\ IF /\ WordHasZero(Byte(p), Byte(p + 1), Byte(p + 2), Byte(p + 3))
                  /\ FoundInWord < 4
                 THEN Return(p + FoundInWord)
                 ELSE p' = p + 4 /\ UNCHANGED <<pc, end, out>>
       ELSE pc' = "tail" /\ end' = end + 3 /\ UNCHANGED <<p, out, touched>>
  /\ UNCHANGED <<buf, base>>

\* Mutant: the zero byte before the start code is left to the unit before.
StepBackNot ==
  /\ pc = "back"
  /\ pc' = "done"
  /\ UNCHANGED <<buf, base, p, end, out, touched>>

\* hevc_find_startcode itself: a zero byte before the start code belongs to it.
StepBack ==
  /\ pc = "back"
  /\ pc' = "done"
  /\ IF 0 < out /\ out < n
       THEN /\ touched' = {out - 1}
            /\ out' = IF Byte(out - 1) = 0 THEN out - 1 ELSE out
       ELSE UNCHANGED <<out, touched>>
  /\ UNCHANGED <<buf, base, p, end>>

Next == HeadStep \/ WordStep \/ TailStep \/ StepBack

\* The function runs in one thread that keeps running.
Spec == Init /\ [][Next]_vars /\ WF_vars(Next)

-----------------------------------------------------------------------------

\* No start code begins before offset i.  The code does not look for one in the
\* last three bytes, where no NAL unit could follow it.
NoneBefore(i) == \A j \in 0 .. n - 4 : j < i => ~StartcodeAt(j)

First(i) == i \in 0 .. n - 4 /\ StartcodeAt(i) /\ NoneBefore(i)

\* The search by words finds what a byte by byte search would find: the first
\* start code, and the end of the buffer when there is none.
FindsTheFirst ==
  pc = "back" => First(out) \/ (out = n /\ NoneBefore(n))

\* What the caller gets is where the first start code begins, counting the zero
\* that makes it one of four bytes.
ReturnsTheFirst ==
  pc = "done" =>
    \/ out = n /\ NoneBefore(n)
    \/ First(out) /\ (out = 0 \/ Byte(out - 1) # 0)
    \/ First(out + 1) /\ out >= 0 /\ Byte(out) = 0

\* No loop reads outside the buffer, however short it is.
ReadsInBounds == touched \subseteq 0 .. n - 1

\* Words are read at word addresses only.
WordsAreAligned == pc = "word" /\ p < end => (base + p) % 4 = 0

\* All reads are defined, however short the buffer is and wherever it begins.
ReadsAreDefined == ReadsInBounds /\ WordsAreAligned

\* The search ends.
Returns == <>(pc = "done")

-----------------------------------------------------------------------------
(* The inductive invariant.                                                *)

TypeOK ==
  /\ buf \in Seq(0 .. 255) /\ base \in 0 .. 3
  /\ pc \in {"head", "word", "tail", "back", "done"}
  /\ p \in Nat /\ end \in Int /\ out \in Nat

EndOK ==
  /\ pc = "head" => end = n - 3 /\ p <= a
  /\ pc = "word" => end = n - 6
  /\ pc = "tail" => end = n - 3

NothingSkipped == pc \in {"head", "word", "tail"} => NoneBefore(p)

SearchInv ==
  /\ TypeOK /\ EndOK /\ NothingSkipped
  /\ WordsAreAligned /\ FindsTheFirst /\ ReturnsTheFirst /\ ReadsInBounds
=============================================================================
