------------------------ MODULE HevcStartcodeProofs -------------------------
(***************************************************************************)
(* Proofs about HevcStartcode, for every buffer and every alignment.       *)
(***************************************************************************)
EXTENDS HevcStartcode, TLAPS

(***************************************************************************)
(* The word test is exact: borrows make no false alarm by themselves, and  *)
(* no zero byte escapes it.                                                *)
(***************************************************************************)
LEMMA WordTestIsExact ==
  ASSUME NEW b0 \in 0 .. 255, NEW b1 \in 0 .. 255,
         NEW b2 \in 0 .. 255, NEW b3 \in 0 .. 255
  PROVE  WordHasZero(b0, b1, b2, b3) <=> b0 = 0 \/ b1 = 0 \/ b2 = 0 \/ b3 = 0
<1>1. ASSUME NEW b \in 0 .. 255
      PROVE  /\ Borrow(b, 0) = (IF b = 0 THEN 1 ELSE 0)
             /\ TopBit(b, 0) <=> b = 0
  BY DEF Borrow, TopBit
<1> QED
  BY <1>1 DEF WordHasZero, Borrow, TopBit

LEMMA ElementsAreTyped ==
  ASSUME NEW S, NEW s \in Seq(S), NEW i \in 1 .. Len(s)
  PROVE  s[i] \in S
OBVIOUS

(***************************************************************************)
(* What the reads return.                                                  *)
(***************************************************************************)
LEMMA BytesAreTyped ==
  ASSUME TypeOK
  PROVE  /\ n \in Nat /\ a \in 1 .. 4
         /\ \A i \in 0 .. n - 1 : Byte(i) \in 0 .. 255
<1>1. n \in Nat /\ a \in 1 .. 4
  BY DEF TypeOK, n, a
<1>2. ASSUME NEW i \in 0 .. n - 1
      PROVE  Byte(i) \in 0 .. 255
  <2>1. buf \in Seq(0 .. 255)
    BY DEF TypeOK
  <2>2. i + 1 \in 1 .. Len(buf)
    BY <1>1 DEF n
  <2>3. buf[i + 1] \in 0 .. 255
    BY <2>1, <2>2, ElementsAreTyped
  <2> QED
    BY <2>3 DEF Byte
<1> QED
  BY <1>1, <1>2

(***************************************************************************)
(* The tests inside a word find the first start code among its four        *)
(* offsets, or show that there is none.                                    *)
(***************************************************************************)
LEMMA WordTestsFindTheFirst ==
  ASSUME TypeOK, p < n - 6
  PROVE  /\ FoundInWord \in 0 .. 4
         /\ FoundInWord < 4 => StartcodeAt(p + FoundInWord)
         /\ \A k \in 0 .. 3 : k < FoundInWord => ~StartcodeAt(p + k)
<1>1. n \in Nat /\ p \in Nat
  BY BytesAreTyped DEF TypeOK
<1>2. /\ StartcodeAt(p) <=> Byte(p) = 0 /\ Byte(p + 1) = 0 /\ Byte(p + 2) = 1
      /\ StartcodeAt(p + 1) <=> Byte(p + 1) = 0 /\ Byte(p + 2) = 0 /\ Byte(p + 3) = 1
      /\ StartcodeAt(p + 2) <=> Byte(p + 2) = 0 /\ Byte(p + 3) = 0 /\ Byte(p + 4) = 1
      /\ StartcodeAt(p + 3) <=> Byte(p + 3) = 0 /\ Byte(p + 4) = 0 /\ Byte(p + 5) = 1
  BY <1>1 DEF StartcodeAt
<1>3. p + 0 = p
  BY <1>1
<1> QED
  BY <1>1, <1>2, <1>3 DEF FoundInWord

LEMMA WordTestMissesNothing ==
  ASSUME TypeOK, p < n - 6,
         ~WordHasZero(Byte(p), Byte(p + 1), Byte(p + 2), Byte(p + 3))
  PROVE  FoundInWord = 4
<1>1. n \in Nat /\ p \in Nat
  BY BytesAreTyped DEF TypeOK
<1>2. \A k \in 0 .. 5 : p + k \in 0 .. n - 1
  BY <1>1
<1>3. /\ Byte(p) \in 0 .. 255 /\ Byte(p + 1) \in 0 .. 255
      /\ Byte(p + 2) \in 0 .. 255 /\ Byte(p + 3) \in 0 .. 255
  BY <1>1, <1>2, BytesAreTyped
<1>4. \A b0, b1, b2, b3 \in 0 .. 255 :
        ~WordHasZero(b0, b1, b2, b3) => b1 # 0 /\ b3 # 0
  BY WordTestIsExact, ZenonT(40)
<1>5. Byte(p + 1) # 0 /\ Byte(p + 3) # 0
  BY <1>3, <1>4, ZenonT(40)
<1> QED
  BY <1>5 DEF FoundInWord

(***************************************************************************)
(* The three loops.                                                        *)
(***************************************************************************)
LEMMA HeadInv == SearchInv /\ HeadStep => SearchInv'
<1> SUFFICES ASSUME SearchInv, HeadStep PROVE SearchInv'
  OBVIOUS
<1> USE DEF SearchInv
<1>1. n \in Nat /\ a \in 1 .. 4 /\ p \in Nat /\ pc = "head" /\ end = n - 3 /\ p <= a
  BY BytesAreTyped DEF HeadStep, EndOK, TypeOK
<1>2. UNCHANGED <<n, a, buf, base>> /\ NoneBefore(p)
  BY DEF HeadStep, NothingSkipped, n, a
<1>3. CASE p < a /\ p < end
  <2>1. touched' \subseteq 0 .. n' - 1
    BY <1>1, <1>2, <1>3 DEF HeadStep
  <2>2. CASE StartcodeAt(p)
    <3>1. pc' = "back" /\ out' = p /\ UNCHANGED <<p, end>>
      BY <1>1, <1>3, <2>2 DEF HeadStep, Return
    <3>2. First(p)
      BY <1>1, <1>2, <1>3, <2>2 DEF First
    <3>3. FindsTheFirst'
      BY <1>2, <3>1, <3>2 DEF FindsTheFirst, First, NoneBefore, StartcodeAt, Byte
    <3> QED
      BY <1>1, <1>2, <2>1, <3>1, <3>3
      DEF TypeOK, EndOK, NothingSkipped, WordsAreAligned, ReturnsTheFirst, ReadsInBounds
  <2>3. CASE ~StartcodeAt(p)
    <3>1. pc' = "head" /\ p' = p + 1 /\ UNCHANGED <<end, out>>
      BY <1>1, <1>3, <2>3 DEF HeadStep
    <3>2. NoneBefore(p + 1)
      BY <1>1, <1>2, <2>3 DEF NoneBefore
    <3>3. NothingSkipped'
      BY <1>2, <3>1, <3>2 DEF NothingSkipped, NoneBefore, StartcodeAt, Byte
    <3> QED
      BY <1>1, <1>2, <1>3, <2>1, <3>1, <3>3
      DEF TypeOK, EndOK, FindsTheFirst, WordsAreAligned, ReturnsTheFirst, ReadsInBounds
  <2> QED
    BY <2>2, <2>3
<1>4. CASE ~(p < a /\ p < end)
  <2>1. pc' = "word" /\ end' = n - 6 /\ UNCHANGED <<p, out, touched>>
    BY <1>1, <1>4 DEF HeadStep
  <2>2. WordsAreAligned'
    <3>1. p < n - 6 => base + p = 4
      BY <1>1, <1>4 DEF a, TypeOK
    <3> QED
      BY <1>2, <2>1, <3>1 DEF WordsAreAligned
  <2>3. NothingSkipped'
    BY <1>2, <2>1 DEF NothingSkipped, NoneBefore, StartcodeAt, Byte
  <2> QED
    BY <1>1, <1>2, <2>1, <2>2, <2>3
    DEF TypeOK, EndOK, FindsTheFirst, ReturnsTheFirst, ReadsInBounds
<1> QED
  BY <1>3, <1>4

LEMMA WordInv == SearchInv /\ WordStep => SearchInv'
<1> SUFFICES ASSUME SearchInv, WordStep PROVE SearchInv'
  OBVIOUS
<1> USE DEF SearchInv
<1>1. n \in Nat /\ p \in Nat /\ pc = "word" /\ end = n - 6 /\ base \in 0 .. 3
  BY BytesAreTyped DEF WordStep, EndOK, TypeOK
<1>2. UNCHANGED <<n, a, buf, base>> /\ NoneBefore(p)
  BY <1>1 DEF WordStep, NothingSkipped, n, a
<1>3. CASE p < end
  <2>1. touched' \subseteq 0 .. n' - 1
    BY <1>1, <1>2, <1>3 DEF WordStep
  <2>2. /\ FoundInWord \in 0 .. 4
        /\ FoundInWord < 4 => StartcodeAt(p + FoundInWord)
        /\ \A k \in 0 .. 3 : k < FoundInWord => ~StartcodeAt(p + k)
    BY <1>1, <1>3, WordTestsFindTheFirst
  <2>3. \A j \in 0 .. n - 4 : j < p + FoundInWord => ~StartcodeAt(j)
    <3> SUFFICES ASSUME NEW j \in 0 .. n - 4, j < p + FoundInWord
                 PROVE  ~StartcodeAt(j)
      OBVIOUS
    <3>1. CASE j < p
      BY <1>2, <3>1 DEF NoneBefore
    <3>2. CASE j >= p
      <4>1. j - p \in 0 .. 3 /\ j - p < FoundInWord /\ p + (j - p) = j
        BY <1>1, <2>2, <3>2
      <4> QED
        BY <2>2, <4>1
    <3> QED
      BY <1>1, <3>1, <3>2
  <2> DEFINE zero == WordHasZero(Byte(p), Byte(p + 1), Byte(p + 2), Byte(p + 3))
  <2>4. CASE zero /\ FoundInWord < 4
    <3>1. pc' = "back" /\ out' = p + FoundInWord /\ UNCHANGED <<p, end>>
      BY <1>3, <2>4 DEF WordStep, Return
    <3>2. First(p + FoundInWord)
      BY <1>1, <1>3, <2>2, <2>3, <2>4 DEF First, NoneBefore
    <3>3. FindsTheFirst'
      BY <1>2, <3>1, <3>2 DEF FindsTheFirst, First, NoneBefore, StartcodeAt, Byte
    <3>4. out' \in Nat
      BY <1>1, <2>2, <3>1
    <3> QED
      BY <1>1, <1>2, <2>1, <3>1, <3>3, <3>4
      DEF TypeOK, EndOK, NothingSkipped, WordsAreAligned, ReturnsTheFirst, ReadsInBounds
  <2>5. CASE ~(zero /\ FoundInWord < 4)
    <3>1. pc' = "word" /\ p' = p + 4 /\ UNCHANGED <<end, out>>
      BY <1>1, <1>3, <2>5 DEF WordStep
    <3>2. FoundInWord = 4
      <4>1. ~zero => FoundInWord = 4
        BY <1>1, <1>3, WordTestMissesNothing
      <4> QED
        BY <2>2, <2>5, <4>1
    <3>3. NothingSkipped'
      BY <1>2, <2>3, <3>1, <3>2 DEF NothingSkipped, NoneBefore, StartcodeAt, Byte
    <3>4. WordsAreAligned'
      <4>1. (base + p) % 4 = 0
        BY <1>1, <1>3 DEF WordsAreAligned
      <4>2. (base + (p + 4)) % 4 = 0
        BY <1>1, <4>1
      <4> QED
        BY <1>2, <3>1, <4>2 DEF WordsAreAligned
    <3> QED
      BY <1>1, <1>2, <2>1, <3>1, <3>3, <3>4
      DEF TypeOK, EndOK, FindsTheFirst, ReturnsTheFirst, ReadsInBounds
  <2> QED
    BY <2>4, <2>5
<1>4. CASE ~(p < end)
  <2>1. pc' = "tail" /\ end' = n - 3 /\ UNCHANGED <<p, out, touched>>
    BY <1>1, <1>4 DEF WordStep
  <2>2. NothingSkipped'
    BY <1>2, <2>1 DEF NothingSkipped, NoneBefore, StartcodeAt, Byte
  <2> QED
    BY <1>1, <1>2, <2>1, <2>2
    DEF TypeOK, EndOK, FindsTheFirst, WordsAreAligned, ReturnsTheFirst, ReadsInBounds
<1> QED
  BY <1>3, <1>4

LEMMA TailInv == SearchInv /\ TailStep => SearchInv'
<1> SUFFICES ASSUME SearchInv, TailStep PROVE SearchInv'
  OBVIOUS
<1> USE DEF SearchInv
<1>1. n \in Nat /\ p \in Nat /\ pc = "tail" /\ end = n - 3
  BY BytesAreTyped DEF TailStep, EndOK, TypeOK
<1>2. UNCHANGED <<n, a, buf, base>> /\ NoneBefore(p)
  BY <1>1 DEF TailStep, NothingSkipped, n, a
<1>3. CASE p < end
  <2>1. touched' \subseteq 0 .. n' - 1
    BY <1>1, <1>2, <1>3 DEF TailStep
  <2>2. CASE StartcodeAt(p)
    <3>1. pc' = "back" /\ out' = p /\ UNCHANGED <<p, end>>
      BY <1>1, <1>3, <2>2 DEF TailStep, Return
    <3>2. First(p)
      BY <1>1, <1>2, <1>3, <2>2 DEF First
    <3>3. FindsTheFirst'
      BY <1>2, <3>1, <3>2 DEF FindsTheFirst, First, NoneBefore, StartcodeAt, Byte
    <3> QED
      BY <1>1, <1>2, <2>1, <3>1, <3>3
      DEF TypeOK, EndOK, NothingSkipped, WordsAreAligned, ReturnsTheFirst, ReadsInBounds
  <2>3. CASE ~StartcodeAt(p)
    <3>1. pc' = "tail" /\ p' = p + 1 /\ UNCHANGED <<end, out>>
      BY <1>1, <1>3, <2>3 DEF TailStep
    <3>2. NoneBefore(p + 1)
      BY <1>1, <1>2, <2>3 DEF NoneBefore
    <3>3. NothingSkipped'
      BY <1>2, <3>1, <3>2 DEF NothingSkipped, NoneBefore, StartcodeAt, Byte
    <3> QED
      BY <1>1, <1>2, <1>3, <2>1, <3>1, <3>3
      DEF TypeOK, EndOK, FindsTheFirst, WordsAreAligned, ReturnsTheFirst, ReadsInBounds
  <2> QED
    BY <2>2, <2>3
<1>4. CASE ~(p < end)
  <2>1. pc' = "back" /\ out' = n /\ UNCHANGED <<p, end, touched>>
    BY <1>1, <1>4 DEF TailStep, Return
  <2>2. NoneBefore(n)
    BY <1>1, <1>2, <1>4 DEF NoneBefore
  <2>3. FindsTheFirst'
    BY <1>2, <2>1, <2>2 DEF FindsTheFirst, NoneBefore, StartcodeAt, Byte
  <2> QED
    BY <1>1, <1>2, <2>1, <2>3
    DEF TypeOK, EndOK, NothingSkipped, WordsAreAligned, ReturnsTheFirst, ReadsInBounds
<1> QED
  BY <1>3, <1>4

(***************************************************************************)
(* The wrapper moves back over one zero at most, and stays in the buffer.  *)
(***************************************************************************)
LEMMA StepBackInv == SearchInv /\ StepBack => SearchInv'
<1> SUFFICES ASSUME SearchInv, StepBack PROVE SearchInv'
  OBVIOUS
<1> USE DEF SearchInv
<1>1. n \in Nat /\ p \in Nat /\ out \in Nat /\ pc = "back" /\ pc' = "done"
  BY BytesAreTyped DEF StepBack, TypeOK
<1>2. UNCHANGED <<n, a, buf, base, p, end>>
  BY DEF StepBack, n, a
<1>3. First(out) \/ (out = n /\ NoneBefore(n))
  BY <1>1 DEF FindsTheFirst
<1>4. \/ out' = out /\ (0 < out /\ out < n => Byte(out - 1) # 0)
      \/ 0 < out /\ out < n /\ out' = out - 1 /\ Byte(out - 1) = 0
  BY DEF StepBack
<1>5. \/ out' = n /\ NoneBefore(n)
      \/ First(out') /\ (out' = 0 \/ Byte(out' - 1) # 0)
      \/ First(out' + 1) /\ out' >= 0 /\ Byte(out') = 0
  <2>1. CASE First(out)
    <3>1. out < n
      BY <1>1, <2>1 DEF First
    <3>2. CASE out' = out
      BY <1>1, <1>4, <2>1, <3>1, <3>2
    <3>3. CASE 0 < out /\ out' = out - 1 /\ Byte(out - 1) = 0
      <4>1. out' + 1 = out
        BY <1>1, <3>3
      <4> QED
        BY <1>1, <2>1, <3>3, <4>1
    <3> QED
      BY <1>4, <3>2, <3>3
  <2>2. CASE out = n /\ NoneBefore(n)
    BY <1>1, <1>4, <2>2
  <2> QED
    BY <1>3, <2>1, <2>2
<1>6. ReturnsTheFirst'
  BY <1>2, <1>5 DEF ReturnsTheFirst, First, NoneBefore, StartcodeAt, Byte
<1>7. touched' \subseteq 0 .. n' - 1
  <2>1. CASE 0 < out /\ out < n
    <3>1. touched' = {out - 1}
      BY <2>1 DEF StepBack
    <3> QED
      BY <1>1, <1>2, <2>1, <3>1
  <2>2. CASE ~(0 < out /\ out < n)
    <3>1. touched' = touched
      BY <2>2 DEF StepBack
    <3> QED
      BY <1>2, <3>1 DEF ReadsInBounds
  <2> QED
    BY <2>1, <2>2
<1>8. out' \in Nat
  BY <1>1, <1>4
<1> QED
  BY <1>1, <1>2, <1>6, <1>7, <1>8
  DEF TypeOK, EndOK, NothingSkipped, WordsAreAligned, FindsTheFirst, ReadsInBounds

(***************************************************************************)
(* The invariant of the search holds in every reachable state.             *)
(***************************************************************************)
THEOREM SearchInvariance == Spec => []SearchInv
<1>1. Init => SearchInv
  <2> SUFFICES ASSUME Init PROVE SearchInv
    OBVIOUS
  <2>1. buf \in Seq(0 .. 255) /\ n \in Nat /\ a \in 1 .. 4
    BY BuffersAssumption DEF Init, n, a
  <2>2. NoneBefore(0)
    BY DEF NoneBefore
  <2> QED
    BY <2>1, <2>2
    DEF Init, SearchInv, TypeOK, EndOK, NothingSkipped, WordsAreAligned,
        FindsTheFirst, ReturnsTheFirst, ReadsInBounds
<1>2. SearchInv /\ [Next]_vars => SearchInv'
  <2>1. SearchInv /\ UNCHANGED vars => SearchInv'
    BY DEF vars, SearchInv, TypeOK, EndOK, NothingSkipped, WordsAreAligned,
           FindsTheFirst, ReturnsTheFirst, ReadsInBounds, First, NoneBefore,
           StartcodeAt, Byte, n, a
  <2> QED
    BY <2>1, HeadInv, WordInv, TailInv, StepBackInv DEF Next
<1> QED
  BY <1>1, <1>2, PTL DEF Spec

(***************************************************************************)
(* For every byte string at every alignment, hevc_find_startcode returns   *)
(* the place where the first start code begins.                            *)
(***************************************************************************)
THEOREM SearchIsCorrect == Spec => []ReturnsTheFirst
<1>1. SearchInv => ReturnsTheFirst
  BY DEF SearchInv
<1> QED
  BY <1>1, SearchInvariance, PTL

(***************************************************************************)
(* For every byte string at every alignment, no read leaves the buffer and *)
(* words are read at word addresses only.                                  *)
(***************************************************************************)
THEOREM SearchReadsAreDefined == Spec => []ReadsAreDefined
<1>1. SearchInv => ReadsAreDefined
  BY DEF SearchInv, ReadsAreDefined
<1> QED
  BY <1>1, SearchInvariance, PTL
=============================================================================
