------------------------- MODULE RtspTransportProofs -------------------------
(***************************************************************************)
(* Proofs about RtspTransport, for messages of every shape, segments and   *)
(* receives of every size, and any number of messages.                     *)
(*                                                                         *)
(* First, a lockstep stream.  The argument rests on one fact about         *)
(* rtsp_recv_msg's test: of the beginnings of a message's text, only the   *)
(* whole text passes it (OnlyTheWholeIsComplete).  So the receive returns  *)
(* exactly when the last token is there, and the rest is accounting: what  *)
(* is received, on its way and not yet sent are adjacent parts of one      *)
(* text.                                                                   *)
(*                                                                         *)
(* Then, any stream, in lockstep or not: what a receive that begins at a   *)
(* message returns (FirstIsWhole), that it is not left waiting             *)
(* (NeverStuckAtAMessage), and that all that is sent arrives in order      *)
(* (NothingLostOrReordered).  The first two are about places.  Every token *)
(* received or on its way says where its message begins, and no two tokens *)
(* disagree (InPlace), so that a text that begins with the first token of  *)
(* a message goes on with the others.  Of the last message there is as     *)
(* much as the sender has sent, and of all the others the end is there     *)
(* (EndsWith).                                                             *)
(***************************************************************************)
EXTENDS RtspTransport, TLAPS, SequenceTheorems, SequenceFolds

(***************************************************************************)
(* The text of a message.                                                  *)
(***************************************************************************)
LEMMA ShapesHaveSizes ==
  ASSUME NEW m \in Shapes
  PROVE  /\ m.lines \in Nat /\ m.body \in Nat
         /\ HeaderLen(m) = m.lines + 1 + (IF m.body > 0 THEN 2 ELSE 0)
         /\ HeaderLen(m) \in Nat \ {0}
         /\ Size(m) = HeaderLen(m) + m.body
         /\ Size(m) \in Nat \ {0}
<1>1. m.lines \in Nat /\ m.body \in Nat
  BY ShapesAssumption
<1>2. HeaderLen(m) = m.lines + 1 + (IF m.body > 0 THEN 2 ELSE 0)
  BY DEF HeaderLen
<1>3. HeaderLen(m) \in Nat \ {0}
  BY <1>1, <1>2
<1> QED
  BY <1>1, <1>2, <1>3 DEF Size

LEMMA TextsAreTyped ==
  ASSUME NEW m \in Shapes
  PROVE  /\ Text(m) \in Seq(Token)
         /\ Len(Text(m)) = Size(m)
         /\ \A i \in 1 .. Size(m) : Text(m)[i] = [of |-> m, at |-> i]
<1>1. Size(m) \in Nat
  BY ShapesHaveSizes
<1>2. \A i \in 1 .. Size(m) : Text(m)[i] = [of |-> m, at |-> i] /\ Text(m)[i] \in Token
  BY DEF Text, Token
<1>3. Text(m) \in [1 .. Size(m) -> Token]
  BY <1>2 DEF Text
<1>4. Text(m) \in Seq(Token)
  BY <1>1, <1>3, SeqDef
<1>5. Len(Text(m)) = Size(m)
  BY <1>1, <1>3, <1>4, LenProperties
<1> QED
  BY <1>2, <1>4, <1>5

(***************************************************************************)
(* The first of one place is that place.                                   *)
(***************************************************************************)
LEMMA FirstOfOne ==
  ASSUME NEW i \in Nat
  PROVE  First({i}) = i
BY DEF First

(***************************************************************************)
(* The first k tokens of a text.                                           *)
(***************************************************************************)
LEMMA Beginnings ==
  ASSUME NEW m \in Shapes, NEW k \in 0 .. Size(m)
  PROVE  LET b == SubSeq(Text(m), 1, k)
         IN  /\ b \in Seq(Token)
             /\ Len(b) = k
             /\ DOMAIN b = 1 .. k
             /\ \A i \in 1 .. k : b[i].of = m /\ b[i].at = i
<1> DEFINE T == Text(m)
           b == SubSeq(T, 1, k)
<1>1. Size(m) \in Nat /\ k \in Nat /\ k <= Size(m)
  BY ShapesHaveSizes
<1>2. /\ T \in Seq(Token) /\ Len(T) = Size(m)
      /\ \A i \in 1 .. k : T[i] = [of |-> m, at |-> i]
  BY <1>1, TextsAreTyped
<1> HIDE DEF T
<1>3. /\ b \in Seq(Token)
      /\ Len(b) = IF 1 <= k THEN k - 1 + 1 ELSE 0
      /\ \A i \in 1 .. k - 1 + 1 : b[i] = T[1 + i - 1]
  <2>1. \A i \in 1 .. k : T[i] \in Token
    BY <1>1, <1>2, ElementOfSeq
  <2> QED
    BY <1>1, <2>1, SubSeqProperties
<1> HIDE DEF b
<1>4. /\ Len(b) = k /\ DOMAIN b = 1 .. k
      /\ \A i \in 1 .. k : b[i] = T[i]
  BY <1>1, <1>3, LenProperties
<1>5. ASSUME NEW i \in 1 .. k
      PROVE  b[i].of = m /\ b[i].at = i
  <2>1. b[i] = [of |-> m, at |-> i]
    BY <1>2, <1>4
  <2> QED
    BY <2>1
<1> QED
  BY <1>3, <1>4, <1>5 DEF b, T

(***************************************************************************)
(* Of the beginnings of a text rtsp_recv_msg takes only the whole text for *)
(* a complete message, and it never misses the Content-Length line.        *)
(***************************************************************************)
LEMMA OnlyTheWholeIsComplete ==
  ASSUME NEW m \in Shapes, NEW k \in 0 .. Size(m)
  PROVE  LET b == SubSeq(Text(m), 1, k)
         IN  (Complete(b) <=> k = Size(m)) /\ ~NullLine(b)
<1> DEFINE b == SubSeq(Text(m), 1, k)
           h == HeaderLen(m)
<1>1. /\ m.lines \in Nat /\ m.body \in Nat
      /\ h = m.lines + 1 + (IF m.body > 0 THEN 2 ELSE 0)
      /\ h \in Nat \ {0} /\ Size(m) = h + m.body
      /\ k \in Nat /\ k <= Size(m)
  BY ShapesHaveSizes
<1>2. /\ DOMAIN b = 1 .. k /\ Len(b) = k
      /\ \A i \in 1 .. k : b[i].of = m /\ b[i].at = i
  BY Beginnings
<1> HIDE DEF b, h
<1>3. Ends(b) = {i \in 1 .. k : i = h}
  BY <1>2 DEF Ends, IsEnd, h
<1>4. Types(b) = {i \in 1 .. k : m.body > 0 /\ i = m.lines + 1}
  BY <1>2 DEF Types, IsType
<1>5. Lengths(b) = {i \in 1 .. k : m.body > 0 /\ i = m.lines + 2}
  BY <1>2 DEF Lengths, IsLength
<1>6. CASE k < h
  <2>1. Ends(b) = {}
    BY <1>1, <1>3, <1>6
  <2>2. k # Size(m)
    BY <1>1, <1>6
  <2> QED
    BY <2>1, <2>2 DEF Complete, NullLine, b
<1>7. CASE k >= h /\ m.body = 0
  <2>1. k = Size(m)
    BY <1>1, <1>7
  <2>2. Ends(b) # {} /\ Types(b) = {}
    BY <1>1, <1>3, <1>4, <1>7
  <2> QED
    BY <2>1, <2>2 DEF Complete, NullLine, b
<1>8. CASE k >= h /\ m.body > 0
  <2>1. h = m.lines + 3
    BY <1>1, <1>8
  <2>2. Ends(b) = {h}
    BY <1>1, <1>3, <1>8
  <2>3. Types(b) = {m.lines + 1} /\ Lengths(b) = {m.lines + 2}
    BY <1>1, <1>4, <1>5, <1>8, <2>1
  <2>4. First(Ends(b)) = h /\ First(Lengths(b)) = m.lines + 2
    BY <1>1, <2>2, <2>3, FirstOfOne
  <2>5. m.lines + 2 \in 1 .. k
    BY <1>1, <1>8, <2>1
  <2>6. Announced(b) = m.body
    BY <1>2, <2>4, <2>5 DEF Announced
  <2>7. PayloadThere(b) <=> k - h >= m.body
    BY <1>2, <2>4, <2>6 DEF PayloadThere
  <2>8. PayloadThere(b) <=> k = Size(m)
    BY <1>1, <2>7
  <2>9. Ends(b) # {} /\ Types(b) # {} /\ Lengths(b) # {}
    BY <2>2, <2>3
  <2> QED
    BY <2>8, <2>9 DEF Complete, NullLine, b
<1> QED
  BY <1>1, <1>6, <1>7, <1>8

(***************************************************************************)
(* Moving the border between adjacent parts of a text.                     *)
(***************************************************************************)
LEMMA Adjacent ==
  ASSUME NEW m \in Shapes,
         NEW a \in 0 .. Size(m), NEW s \in a .. Size(m), NEW e \in s .. Size(m)
  PROVE  /\ SubSeq(Text(m), a + 1, s) \o SubSeq(Text(m), s + 1, e)
              = SubSeq(Text(m), a + 1, e)
         /\ SubSeq(Text(m), a + 1, s) \in Seq(Token)
         /\ Len(SubSeq(Text(m), a + 1, s)) = s - a
<1>1. Size(m) \in Nat /\ Text(m) \in Seq(Token) /\ Len(Text(m)) = Size(m)
  BY ShapesHaveSizes, TextsAreTyped
<1>2. /\ a + 1 \in 1 .. Len(Text(m)) + 1
      /\ s \in (a + 1) - 1 .. Len(Text(m))
      /\ e \in s .. Len(Text(m))
  BY <1>1
<1>3. SubSeq(Text(m), a + 1, s) \o SubSeq(Text(m), s + 1, e) = SubSeq(Text(m), a + 1, e)
  BY <1>1, <1>2, ConcatAdjacentSubSeq
<1>4. \A i \in a + 1 .. s : Text(m)[i] \in Token
  BY <1>1, ElementOfSeq
<1>5. /\ SubSeq(Text(m), a + 1, s) \in Seq(Token)
      /\ Len(SubSeq(Text(m), a + 1, s)) = IF a + 1 <= s THEN s - (a + 1) + 1 ELSE 0
  BY <1>1, <1>4, SubSeqProperties
<1> QED
  BY <1>1, <1>3, <1>5

LEMMA PartOfPart ==
  ASSUME NEW m \in Shapes,
         NEW a \in 0 .. Size(m), NEW s \in a .. Size(m), NEW k \in 1 .. s - a
  PROVE  /\ SubSeq(SubSeq(Text(m), a + 1, s), 1, k) = SubSeq(Text(m), a + 1, a + k)
         /\ SubSeq(SubSeq(Text(m), a + 1, s), k + 1, s - a) = SubSeq(Text(m), a + k + 1, s)
<1> DEFINE T == Text(m)
<1>1. Size(m) \in Nat /\ T \in Seq(Token) /\ Len(T) = Size(m)
  BY ShapesHaveSizes, TextsAreTyped
<1> HIDE DEF T
<1>2. a + 1 \in 1 .. Len(T) /\ s \in 1 .. Len(T)
  BY <1>1
<1>3. SubSeq(SubSeq(T, a + 1, s), 1, k) = SubSeq(T, (a + 1) + 1 - 1, (a + 1) + k - 1)
  <2>1. 1 \in 1 .. s - (a + 1) + 1 /\ k \in 1 .. s - (a + 1) + 1
    BY <1>1
  <2> QED
    BY <1>1, <1>2, <2>1, SubSeqOfSubSeq
<1>4. (a + 1) + 1 - 1 = a + 1 /\ (a + 1) + k - 1 = a + k
  BY <1>1
<1>5. SubSeq(SubSeq(T, a + 1, s), k + 1, s - a) = SubSeq(T, a + k + 1, s)
  <2>1. CASE k < s - a
    <3>1. k + 1 \in 1 .. s - (a + 1) + 1 /\ s - a \in 1 .. s - (a + 1) + 1
      BY <1>1, <2>1
    <3>2. SubSeq(SubSeq(T, a + 1, s), k + 1, s - a)
            = SubSeq(T, (a + 1) + (k + 1) - 1, (a + 1) + (s - a) - 1)
      BY <1>1, <1>2, <3>1, SubSeqOfSubSeq
    <3>3. (a + 1) + (k + 1) - 1 = a + k + 1 /\ (a + 1) + (s - a) - 1 = s
      BY <1>1
    <3> QED
      BY <3>2, <3>3
  <2>2. CASE k = s - a
    <3>1. SubSeq(SubSeq(T, a + 1, s), k + 1, s - a) = <<>>
      BY <1>1, <2>2, SubSeqEmpty
    <3>2. SubSeq(T, a + k + 1, s) = <<>>
      BY <1>1, <2>2, SubSeqEmpty
    <3> QED
      BY <3>1, <3>2
  <2> QED
    BY <1>1, <2>1, <2>2
<1> QED
  BY <1>3, <1>4, <1>5 DEF T

-----------------------------------------------------------------------------
(***************************************************************************)
(* The invariant, one action at a time.                                    *)
(***************************************************************************)
LEMMA CurrentIsAShape ==
  ASSUME TypeOK, given # <<>>
  PROVE  Current \in Shapes
<1>1. Len(given) \in 1 .. Len(given)
  BY EmptySeq DEF TypeOK
<1> QED
  BY <1>1, ElementOfSeq DEF TypeOK, Current

LEMMA OutstandingIsCurrent ==
  ASSUME TypeOK, Outstanding
  PROVE  /\ given # <<>> /\ Current \in Shapes
         /\ Len(taken) \in Nat /\ Len(given) \in Nat
<1>1. Len(taken) \in Nat /\ Len(given) \in Nat
  BY LenProperties DEF TypeOK
<1>2. given # <<>>
  BY <1>1 DEF Outstanding
<1> QED
  BY <1>1, <1>2, CurrentIsAShape

LEMMA BeginInv ==
  ASSUME StreamInv, Lockstep, NEW m \in Shapes, Begin(m)
  PROVE  StreamInv'
<1>1. /\ given \in Seq(Shapes) /\ given' = Append(given, m)
      /\ Len(given) = Len(taken)
      /\ UNCHANGED <<up, wire, receiver, buf, taken>>
      /\ sending' = TRUE /\ st' = 0
  BY DEF StreamInv, TypeOK, Begin, receiverVars
<1>2. Len(given) \in Nat /\ taken \in Seq(Seq(Token)) /\ Len(taken) \in Nat
  BY <1>1, LenProperties DEF StreamInv, TypeOK
<1>3. /\ given' \in Seq(Shapes)
      /\ Len(given') = Len(given) + 1
      /\ \A i \in 1 .. Len(given) : given'[i] = given[i]
      /\ given'[Len(given')] = m
  BY <1>1, <1>2, AppendProperties
<1>4. TypeOK'
  BY <1>1, <1>3 DEF StreamInv, TypeOK
<1>5. TakenWhole'
  <2>1. DOMAIN taken = 1 .. Len(given)
    BY <1>1, <1>2, LenProperties
  <2>2. ASSUME NEW i \in DOMAIN taken'
        PROVE  i <= Len(given') /\ taken'[i] = Text(given'[i])
    <3>1. i \in 1 .. Len(given) /\ taken'[i] = taken[i] /\ i \in DOMAIN taken
      BY <1>1, <2>1, <2>2
    <3>2. taken[i] = Text(given[i])
      BY <3>1 DEF StreamInv, TakenWhole
    <3> QED
      BY <1>2, <1>3, <3>1, <3>2
  <2> QED
    BY <2>2 DEF TakenWhole
<1>6. wire = <<>> /\ buf = <<>>
  BY <1>1, <1>2 DEF StreamInv, Outstanding
<1>7. Current' = m
  BY <1>3 DEF Current
<1>8. Parts'
  <2>1. Size(m) \in Nat \ {0}
    BY ShapesHaveSizes
  <2>2. SubSeq(Text(m), 1, 0) = <<>> /\ SubSeq(Text(m), 0 + 1, 0) = <<>>
    BY SubSeqEmpty
  <2>3. wire' = <<>> /\ buf' = <<>> /\ Len(buf') = 0 /\ Len(wire') = 0 /\ st' = 0
    BY <1>1, <1>6
  <2> QED
    BY <1>7, <2>1, <2>2, <2>3 DEF Parts
<1>9. Outstanding' /\ SentWhole'
  BY <1>1, <1>2, <1>3 DEF Outstanding, SentWhole
<1>10. receiver' # "trap" /\ (receiver' = "idle" => buf' = <<>>)
  BY <1>1 DEF StreamInv
<1> QED
  BY <1>4, <1>5, <1>8, <1>9, <1>10 DEF StreamInv

LEMMA SendSegmentInv ==
  ASSUME StreamInv, SendSegment
  PROVE  StreamInv'
<1>1. /\ TypeOK /\ sending /\ st < Size(Current)
      /\ wire' = wire \o SubSeq(Text(Current), st + 1, st + SegmentLen)
      /\ st' = st + SegmentLen
      /\ UNCHANGED <<given, sending, up, receiver, buf, taken>>
  BY DEF StreamInv, SendSegment, receiverVars
<1>2. ~(sending => given # <<>> /\ st = Size(Current))
  <2>1. CASE given = <<>>
    BY <1>1, <2>1
  <2>2. CASE given # <<>>
    <3>1. Size(Current) \in Nat /\ st \in Nat
      BY <1>1, <2>2, CurrentIsAShape, ShapesHaveSizes DEF TypeOK
    <3> QED
      BY <1>1, <3>1
  <2> QED
    BY <2>1, <2>2
<1>3. Outstanding /\ Parts /\ SentWhole
  BY <1>2 DEF StreamInv
<1>4. /\ Current \in Shapes /\ Size(Current) \in Nat /\ st \in Nat
      /\ Len(buf) \in Nat /\ Len(wire) \in Nat
  BY <1>1, <1>3, OutstandingIsCurrent, ShapesHaveSizes, LenProperties DEF TypeOK
<1>5. SegmentLen \in Nat /\ st + SegmentLen <= Size(Current)
  BY <1>1, <1>4, SizesAssumption DEF SegmentLen
<1>6. /\ Len(buf) \in 0 .. Size(Current) /\ st \in Len(buf) .. Size(Current)
      /\ st + SegmentLen \in st .. Size(Current)
  <2>1. Len(buf) + Len(wire) = st /\ st <= Size(Current)
    BY <1>3 DEF Parts
  <2> QED
    BY <1>4, <1>5, <2>1
<1> DEFINE m == Current
           e == st + SegmentLen
<1>7. /\ wire' = SubSeq(Text(m), Len(buf) + 1, e)
      /\ wire' \in Seq(Token)
      /\ Len(wire') = e - Len(buf)
  <2>1. wire = SubSeq(Text(m), Len(buf) + 1, st)
    BY <1>3 DEF Parts
  <2>2. /\ SubSeq(Text(m), Len(buf) + 1, st) \o SubSeq(Text(m), st + 1, e)
             = SubSeq(Text(m), Len(buf) + 1, e)
    BY <1>4, <1>6, Adjacent
  <2>3. /\ e \in Len(buf) .. Size(m) /\ Size(m) \in e .. Size(m)
    BY <1>4, <1>5, <1>6
  <2>4. /\ SubSeq(Text(m), Len(buf) + 1, e) \in Seq(Token)
        /\ Len(SubSeq(Text(m), Len(buf) + 1, e)) = e - Len(buf)
    BY <1>4, <1>6, <2>3, Adjacent
  <2> QED
    BY <1>1, <2>1, <2>2, <2>4
<1>8. Current' = Current
  BY <1>1 DEF Current
<1>9. TypeOK'
  BY <1>1, <1>4, <1>5, <1>7 DEF TypeOK
<1>10. Parts'
  <2>1. st' = e /\ st' <= Size(m) /\ Len(buf) + Len(wire') = st'
    BY <1>1, <1>4, <1>5, <1>7
  <2>2. buf' = buf /\ buf = SubSeq(Text(m), 1, Len(buf)) /\ Len(buf) < Size(m)
    BY <1>1, <1>3 DEF Parts
  <2> QED
    BY <1>7, <1>8, <2>1, <2>2 DEF Parts
<1>11. Outstanding' /\ SentWhole'
  BY <1>1, <1>3 DEF Outstanding, SentWhole
<1>12. TakenWhole' /\ receiver' # "trap" /\ (receiver' = "idle" => buf' = <<>>)
  BY <1>1 DEF StreamInv, TakenWhole
<1> QED
  BY <1>9, <1>10, <1>11, <1>12 DEF StreamInv

(***************************************************************************)
(* The steps that move no token.                                           *)
(***************************************************************************)
LEMMA QuietStepsInv ==
  ASSUME StreamInv,
         SendDone \/ SendFails \/ SenderEnds \/ CallRecv \/ RecvFails \/ ReceiverEnds
  PROVE  StreamInv'
<1>1. UNCHANGED <<given, st, wire, buf, taken>> /\ (sending' => sending)
  BY DEF SendDone, SendFails, SenderEnds, CallRecv, RecvFails, ReceiverEnds,
         senderVars, receiverVars
<1>2. TypeOK'
  BY <1>1 DEF StreamInv, TypeOK, SendDone, SendFails, SenderEnds, CallRecv, RecvFails,
              ReceiverEnds, senderVars, receiverVars
<1>3. TakenWhole'
  BY <1>1 DEF StreamInv, TakenWhole
<1>4. receiver' # "trap" /\ (receiver' = "idle" => buf' = <<>>)
  BY <1>1 DEF StreamInv, SendDone, SendFails, SenderEnds, CallRecv, RecvFails,
              ReceiverEnds, senderVars, receiverVars
<1>5. Current' = Current
  BY <1>1 DEF Current
<1>6. CASE /\ Len(given) = Len(taken) /\ wire = <<>> /\ buf = <<>>
           /\ sending => given # <<>> /\ st = Size(Current)
  <2>1. sending' => given' # <<>> /\ st' = Size(Current')
    BY <1>1, <1>5, <1>6
  <2> QED
    BY <1>1, <1>2, <1>3, <1>4, <1>6, <2>1 DEF StreamInv
<1>7. CASE Outstanding /\ Parts /\ SentWhole
  <2>1. /\ st <= Size(Current)
        /\ st \in Nat /\ Size(Current) \in Nat
    BY <1>7, OutstandingIsCurrent, ShapesHaveSizes DEF StreamInv, TypeOK, Parts
  <2>2. Outstanding' /\ Parts'
    BY <1>1, <1>5, <1>7 DEF Outstanding, Parts
  <2>3. SentWhole'
    <3> SUFFICES ASSUME ~sending', receiver' # "gone"
                 PROVE  st = Size(Current)
      BY <1>1, <1>5 DEF SentWhole
    <3>1. CASE sending
      <4>1. SendDone
        BY <3>1 DEF StreamInv, SendFails, SenderEnds, CallRecv, RecvFails, ReceiverEnds,
                    senderVars, receiverVars
      <4> QED
        BY <2>1, <4>1 DEF SendDone
    <3>2. CASE ~sending
      <4>1. receiver # "gone"
        BY DEF SendDone, SendFails, SenderEnds, CallRecv, RecvFails, ReceiverEnds,
               senderVars, receiverVars
      <4> QED
        BY <1>7, <3>2, <4>1 DEF SentWhole
    <3> QED
      BY <3>1, <3>2
  <2> QED
    BY <1>2, <1>3, <1>4, <2>2, <2>3 DEF StreamInv
<1> QED
  BY <1>6, <1>7 DEF StreamInv

(***************************************************************************)
(* A recv moves the border between what is received and what is on its     *)
(* way, so rtsp_recv_msg tests a beginning of the message's text.          *)
(***************************************************************************)
LEMMA RecvMovesTheBorder ==
  ASSUME StreamInv, NEW k \in 1 .. Len(wire), Recv(k)
  PROVE  LET m == Current
             n == Len(buf) + k
         IN  /\ Outstanding /\ Parts /\ SentWhole
             /\ m \in Shapes /\ Size(m) \in Nat
             /\ n \in 1 .. Size(m) /\ n <= st /\ st \in Nat /\ st <= Size(m)
             /\ Arrived(k) = SubSeq(Text(m), 1, n)
             /\ wire' = SubSeq(Text(m), n + 1, st)
             /\ wire' \in Seq(Token) /\ Len(wire') = st - n
             /\ Arrived(k) \in Seq(Token) /\ Len(Arrived(k)) = n
<1> DEFINE m == Current
           a == Len(buf)
           n == a + k
<1>1. wire # <<>>
  BY EmptySeq
<1>2. Outstanding /\ Parts /\ SentWhole /\ TypeOK
  BY <1>1 DEF StreamInv
<1>3. /\ m \in Shapes /\ Size(m) \in Nat /\ st \in Nat
      /\ a \in Nat /\ Len(wire) \in Nat
  BY <1>2, OutstandingIsCurrent, ShapesHaveSizes, LenProperties DEF TypeOK
<1>4. /\ a + Len(wire) = st /\ st <= Size(m)
      /\ buf = SubSeq(Text(m), 1, a)
      /\ wire = SubSeq(Text(m), a + 1, st)
  BY <1>2 DEF Parts
<1>5. wire' = SubSeq(wire, k + 1, Len(wire)) /\ Arrived(k) = buf \o SubSeq(wire, 1, k)
  BY DEF Recv, Arrived
<1> HIDE DEF m, a
<1>6. /\ a \in 0 .. Size(m) /\ st \in a .. Size(m) /\ k \in 1 .. st - a
      /\ Len(wire) = st - a
  <2>1. k \in Nat /\ 1 <= k /\ k <= Len(wire)
    BY <1>3
  <2> QED
    BY <1>3, <1>4, <2>1
<1>7. n \in 1 .. Size(m) /\ n <= st /\ n = a + k
  BY <1>3, <1>4, <1>6
<1> HIDE DEF n
<1>8. SubSeq(wire, 1, k) = SubSeq(Text(m), a + 1, n)
  BY <1>3, <1>4, <1>6, <1>7, PartOfPart
<1>9. wire' = SubSeq(Text(m), n + 1, st)
  BY <1>3, <1>4, <1>5, <1>6, <1>7, PartOfPart
<1>10. Arrived(k) = SubSeq(Text(m), 1, n)
  <2>1. 0 \in 0 .. Size(m) /\ a \in 0 .. Size(m) /\ n \in a .. Size(m) /\ 0 + 1 = 1
    BY <1>3, <1>6, <1>7
  <2>2. SubSeq(Text(m), 0 + 1, a) \o SubSeq(Text(m), a + 1, n) = SubSeq(Text(m), 0 + 1, n)
    BY <1>3, <2>1, Adjacent
  <2> QED
    BY <1>4, <1>5, <1>8, <2>1, <2>2
<1>11. wire' \in Seq(Token) /\ Len(wire') = st - n
  <2>1. n \in 0 .. Size(m) /\ st \in n .. Size(m) /\ Size(m) \in st .. Size(m)
    BY <1>3, <1>6, <1>7
  <2> QED
    BY <1>3, <1>9, <2>1, Adjacent
<1>12. Arrived(k) \in Seq(Token) /\ Len(Arrived(k)) = n
  <2>1. n \in 0 .. Size(m)
    BY <1>7
  <2> QED
    BY <1>3, <1>10, <2>1, Beginnings
<1> QED
  BY <1>2, <1>3, <1>4, <1>7, <1>9, <1>10, <1>11, <1>12 DEF m, n, a

LEMMA ReceivePartInv ==
  ASSUME StreamInv, NEW k \in 1 .. Len(wire), ReceivePart(k)
  PROVE  StreamInv'
<1> DEFINE m == Current
           n == Len(buf) + k
<1>1. /\ Recv(k) /\ ~Complete(Arrived(k)) /\ buf' = Arrived(k)
      /\ UNCHANGED <<given, sending, st, up, receiver, taken>> /\ receiver = "recv"
  BY DEF ReceivePart, Recv, senderVars
<1>2. /\ Outstanding /\ Parts /\ SentWhole
      /\ m \in Shapes /\ Size(m) \in Nat
      /\ n \in 1 .. Size(m) /\ n <= st /\ st \in Nat /\ st <= Size(m)
      /\ Arrived(k) = SubSeq(Text(m), 1, n)
      /\ wire' = SubSeq(Text(m), n + 1, st)
      /\ wire' \in Seq(Token) /\ Len(wire') = st - n
      /\ Arrived(k) \in Seq(Token) /\ Len(Arrived(k)) = n
  BY <1>1, RecvMovesTheBorder
<1>3. Current' = m
  BY <1>1 DEF Current
<1> HIDE DEF m, n
<1>4. n # Size(m)
  <2>1. n \in 0 .. Size(m)
    BY <1>2
  <2> QED
    BY <1>1, <1>2, <2>1, OnlyTheWholeIsComplete
<1>5. TypeOK'
  BY <1>1, <1>2 DEF StreamInv, TypeOK
<1>6. Parts'
  <2>1. /\ st' <= Size(m) /\ Len(buf') + Len(wire') = st' /\ Len(buf') = n
        /\ Len(buf') < Size(m)
    BY <1>1, <1>2, <1>4
  <2> QED
    BY <1>1, <1>2, <1>3, <2>1 DEF Parts
<1>7. Outstanding' /\ SentWhole'
  BY <1>1, <1>2, <1>3 DEF Outstanding, SentWhole, m
<1>8. TakenWhole' /\ receiver' # "trap" /\ (receiver' = "idle" => buf' = <<>>)
  BY <1>1 DEF StreamInv, TakenWhole
<1> QED
  BY <1>5, <1>6, <1>7, <1>8 DEF StreamInv

LEMMA ReceiveRestTakesTheMessage ==
  ASSUME StreamInv, NEW k \in 1 .. Len(wire), ReceiveRest(k)
  PROVE  /\ Outstanding /\ Current \in Shapes
         /\ taken' = Append(taken, Text(Current))
         /\ wire' = <<>> /\ st = Size(Current)
<1> DEFINE m == Current
           n == Len(buf) + k
<1>1. Recv(k) /\ Complete(Arrived(k)) /\ taken' = Append(taken, Arrived(k))
  BY DEF ReceiveRest
<1>2. /\ Outstanding
      /\ m \in Shapes /\ Size(m) \in Nat
      /\ n \in 1 .. Size(m) /\ n <= st /\ st \in Nat /\ st <= Size(m)
      /\ Arrived(k) = SubSeq(Text(m), 1, n)
      /\ wire' = SubSeq(Text(m), n + 1, st)
  BY <1>1, RecvMovesTheBorder
<1> HIDE DEF m, n
<1>3. n = Size(m)
  <2>1. n \in 0 .. Size(m)
    BY <1>2
  <2> QED
    BY <1>1, <1>2, <2>1, OnlyTheWholeIsComplete
<1>4. st = Size(m)
  BY <1>2, <1>3
<1>5. wire' = <<>>
  BY <1>2, <1>3, <1>4, SubSeqEmpty
<1>6. Arrived(k) = Text(m)
  <2>1. Text(m) \in Seq(Token) /\ Len(Text(m)) = Size(m)
    BY <1>2, TextsAreTyped
  <2> QED
    BY <1>2, <1>3, <2>1, SubSeqFull
<1> QED
  BY <1>1, <1>2, <1>4, <1>5, <1>6 DEF m

LEMMA ReceiveRestInv ==
  ASSUME StreamInv, NEW k \in 1 .. Len(wire), ReceiveRest(k)
  PROVE  StreamInv'
<1> DEFINE m == Current
<1>1. /\ buf' = <<>> /\ receiver' = "idle"
      /\ UNCHANGED <<given, sending, st, up>>
  BY DEF ReceiveRest, Recv, senderVars
<1>2. /\ Outstanding /\ m \in Shapes
      /\ taken' = Append(taken, Text(m))
      /\ wire' = <<>> /\ st = Size(m)
  BY ReceiveRestTakesTheMessage
<1>3. Current' = m
  BY <1>1 DEF Current
<1>4. TypeOK /\ TakenWhole
  BY DEF StreamInv
<1>5. /\ given # <<>> /\ Len(taken) \in Nat /\ Len(given) = Len(taken) + 1
      /\ given[Len(given)] = m
  BY <1>2, <1>4, OutstandingIsCurrent DEF Outstanding, Current
<1> HIDE DEF m
<1>6. Text(m) \in Seq(Token) /\ taken \in Seq(Seq(Token))
  BY <1>2, <1>4, TextsAreTyped DEF TypeOK
<1>7. /\ taken' \in Seq(Seq(Token)) /\ Len(taken') = Len(taken) + 1
      /\ \A i \in 1 .. Len(taken) : taken'[i] = taken[i]
      /\ taken'[Len(taken) + 1] = Text(m)
  BY <1>2, <1>6, AppendProperties
<1>8. TypeOK'
  BY <1>1, <1>2, <1>4, <1>7, EmptySeq DEF TypeOK
<1>9. TakenWhole'
  <2>1. ASSUME NEW i \in 1 .. Len(taken) + 1
        PROVE  i <= Len(given) /\ taken'[i] = Text(given[i])
    <3>1. CASE i = Len(taken) + 1
      BY <1>5, <1>7, <3>1
    <3>2. CASE i \in 1 .. Len(taken)
      <4>1. i \in DOMAIN taken
        BY <1>6, <3>2, LenProperties
      <4> QED
        BY <1>4, <1>5, <1>7, <3>2, <4>1 DEF TakenWhole
    <3> QED
      BY <1>5, <3>1, <3>2
  <2>2. DOMAIN taken' = 1 .. Len(taken) + 1
    BY <1>7, LenProperties
  <2> QED
    BY <1>1, <2>1, <2>2 DEF TakenWhole
<1>10. Len(given') = Len(taken') /\ (sending' => given' # <<>> /\ st' = Size(Current'))
  BY <1>1, <1>2, <1>3, <1>5, <1>7
<1> QED
  BY <1>1, <1>2, <1>8, <1>9, <1>10 DEF StreamInv

LEMMA ReceiveNeverTraps ==
  ASSUME StreamInv, NEW k \in 1 .. Len(wire)
  PROVE  ~ReceiveTraps(k)
<1> SUFFICES ASSUME ReceiveTraps(k)
             PROVE  FALSE
  OBVIOUS
<1> DEFINE m == Current
           n == Len(buf) + k
<1>1. Recv(k) /\ NullLine(Arrived(k))
  BY DEF ReceiveTraps
<1>2. m \in Shapes /\ n \in 1 .. Size(m) /\ Arrived(k) = SubSeq(Text(m), 1, n)
  BY <1>1, RecvMovesTheBorder
<1> HIDE DEF m, n
<1>3. n \in 0 .. Size(m)
  BY <1>2
<1> QED
  BY <1>1, <1>2, <1>3, OnlyTheWholeIsComplete

LEMMA InitInv == Init => StreamInv
<1> SUFFICES ASSUME Init
             PROVE  StreamInv
  OBVIOUS
<1>1. TypeOK
  BY EmptySeq DEF Init, TypeOK
<1>2. TakenWhole
  BY DEF Init, TakenWhole
<1> QED
  BY <1>1, <1>2 DEF Init, StreamInv

LEMMA NextInv ==
  ASSUME StreamInv, Lockstep, [Next]_vars
  PROVE  StreamInv'
<1>1. ASSUME NEW m \in Shapes, Begin(m)
      PROVE  StreamInv'
  BY <1>1, BeginInv
<1>2. CASE SendLoop
  BY <1>2, SendSegmentInv, QuietStepsInv DEF SendLoop
<1>3. CASE SenderEnds
  BY <1>3, QuietStepsInv
<1>4. CASE ReceiverEnds
  BY <1>4, QuietStepsInv
<1>5. CASE ReceiveLoop
  BY <1>5, QuietStepsInv, ReceivePartInv, ReceiveRestInv, ReceiveNeverTraps DEF ReceiveLoop
<1>6. CASE UNCHANGED vars
  BY <1>6 DEF vars, senderVars, receiverVars, StreamInv, TypeOK, TakenWhole, Outstanding,
              Parts, SentWhole, Current
<1> QED
  BY <1>1, <1>2, <1>3, <1>4, <1>5, <1>6 DEF Next

(***************************************************************************)
(* In a lockstep stream every message is in one place: with the sender, on *)
(* its way and with the receiver in adjacent parts, or taken whole; and    *)
(* rtsp_recv_msg never searches in vain for a Content-Length.              *)
(***************************************************************************)
THEOREM StreamInvariance ==
  ASSUME Lockstep
  PROVE  Spec => []StreamInv
<1>1. Init => StreamInv
  BY InitInv
<1>2. StreamInv /\ [Next]_vars => StreamInv'
  BY NextInv
<1> QED
  BY <1>1, <1>2, PTL DEF Spec

-----------------------------------------------------------------------------
(***************************************************************************)
(* Messages given are texts given.                                         *)
(***************************************************************************)
Texts(g) == [i \in DOMAIN g |-> Text(g[i])]

LEMMA TextsAreASequence ==
  ASSUME NEW g \in Seq(Shapes)
  PROVE  /\ Texts(g) \in Seq(Seq(Token))
         /\ Len(Texts(g)) = Len(g)
         /\ \A i \in 1 .. Len(g) : Texts(g)[i] = Text(g[i])
<1>1. Len(g) \in Nat /\ DOMAIN g = 1 .. Len(g)
  BY LenProperties
<1>2. \A i \in 1 .. Len(g) : Text(g[i]) \in Seq(Token)
  BY ElementOfSeq, TextsAreTyped
<1>3. Texts(g) \in [1 .. Len(g) -> Seq(Token)]
  BY <1>1, <1>2 DEF Texts
<1>4. Texts(g) \in Seq(Seq(Token))
  BY <1>1, <1>3, SeqDef
<1>5. Len(Texts(g)) = Len(g)
  BY <1>1, <1>3, <1>4, LenProperties
<1> QED
  BY <1>1, <1>4, <1>5 DEF Texts

LEMMA OneMoreText ==
  ASSUME NEW g \in Seq(Shapes), NEW m \in Shapes
  PROVE  Texts(Append(g, m)) = Append(Texts(g), Text(m))
<1> DEFINE h == Append(g, m)
           s == Texts(h)
           t == Append(Texts(g), Text(m))
<1>1. /\ h \in Seq(Shapes) /\ Len(h) = Len(g) + 1
      /\ \A i \in 1 .. Len(g) : h[i] = g[i]
      /\ h[Len(g) + 1] = m
  BY AppendProperties
<1>2. Text(m) \in Seq(Token) /\ Len(g) \in Nat
  BY TextsAreTyped, LenProperties
<1>3. /\ Texts(g) \in Seq(Seq(Token)) /\ Len(Texts(g)) = Len(g)
      /\ \A i \in 1 .. Len(g) : Texts(g)[i] = Text(g[i])
  BY TextsAreASequence
<1>4. /\ t \in Seq(Seq(Token)) /\ Len(t) = Len(g) + 1
      /\ \A i \in 1 .. Len(g) : t[i] = Text(g[i])
      /\ t[Len(g) + 1] = Text(m)
  BY <1>2, <1>3, AppendProperties
<1> HIDE DEF h, t
<1>5. /\ s \in Seq(Seq(Token)) /\ Len(s) = Len(g) + 1
      /\ \A i \in 1 .. Len(g) + 1 : s[i] = Text(h[i])
  BY <1>1, TextsAreASequence
<1> HIDE DEF s
<1>6. ASSUME NEW i \in 1 .. Len(g) + 1
      PROVE  s[i] = t[i]
  <2>1. CASE i \in 1 .. Len(g)
    BY <1>1, <1>4, <1>5, <2>1
  <2>2. CASE i = Len(g) + 1
    BY <1>1, <1>4, <1>5, <2>2
  <2> QED
    BY <1>2, <2>1, <2>2
<1>7. s = t
  BY <1>4, <1>5, <1>6, SeqEqual
<1> QED
  BY <1>7 DEF s, t, h

(***************************************************************************)
(* rtsp_send_msg and rtsp_recv_msg, with everything that may cut a message *)
(* into pieces on its way, are a stream of whole messages: the call of the *)
(* one gives a message, the return of the other takes it, and all other    *)
(* steps cannot be told from doing nothing.                                *)
(***************************************************************************)
LEMMA InitRefines == Init => Stream!Init
<1> SUFFICES ASSUME Init
             PROVE  Stream!Init
  OBVIOUS
<1>1. given = <<>> /\ taken = <<>>
  BY DEF Init
<1>2. Texts(<<>>) \in Seq(Seq(Token)) /\ Len(Texts(<<>>)) = 0
  BY EmptySeq, TextsAreASequence
<1>3. Texts(given) = <<>>
  BY <1>1, <1>2, EmptySeq
<1> QED
  BY <1>1, <1>3 DEF Stream!Init, Texts

LEMMA StepRefines ==
  ASSUME StreamInv, [Next]_vars
  PROVE  [Stream!Next]_<<[i \in DOMAIN given |-> Text(given[i])], taken>>
<1>1. given \in Seq(Shapes) /\ TypeOK
  BY DEF StreamInv, TypeOK
<1>2. ASSUME NEW m \in Shapes, Begin(m)
      PROVE  Stream!Next
  <2>1. given' = Append(given, m) /\ taken' = taken
    BY <1>2 DEF Begin, receiverVars
  <2>2. Texts(given') = Append(Texts(given), Text(m))
    BY <1>1, <2>1, OneMoreText
  <2>3. Stream!Give
    BY <2>1, <2>2 DEF Stream!Give, Texts
  <2> QED
    BY <2>3 DEF Stream!Next
<1>3. ASSUME NEW k \in 1 .. Len(wire), ReceiveRest(k)
      PROVE  Stream!Next
  <2>1. /\ Outstanding /\ taken' = Append(taken, Text(Current))
        /\ given' = given
    BY <1>3, ReceiveRestTakesTheMessage DEF ReceiveRest, Recv, senderVars
  <2>2. Len(taken) \in Nat /\ Len(given) \in Nat /\ Len(given) = Len(taken) + 1
    BY <1>1, <2>1, OutstandingIsCurrent DEF Outstanding
  <2>3. /\ Len(Texts(given)) = Len(given)
        /\ Texts(given)[Len(taken) + 1] = Text(Current)
    BY <1>1, <2>2, TextsAreASequence DEF Current
  <2>4. Stream!Take
    BY <2>1, <2>2, <2>3 DEF Stream!Take, Texts
  <2> QED
    BY <2>4 DEF Stream!Next
<1>4. CASE UNCHANGED <<given, taken>>
  BY <1>4
<1>5. CASE SendLoop \/ SenderEnds \/ ReceiverEnds \/ UNCHANGED vars
  BY <1>4, <1>5 DEF SendLoop, SendSegment, SendDone, SendFails, SenderEnds, ReceiverEnds,
                    vars, senderVars, receiverVars
<1>6. CASE ReceiveLoop
  <2>1. CASE CallRecv \/ RecvFails
    BY <1>4, <2>1 DEF CallRecv, RecvFails, senderVars
  <2>2. ASSUME NEW k \in 1 .. Len(wire), ReceivePart(k) \/ ReceiveTraps(k)
        PROVE  UNCHANGED <<given, taken>>
    BY <2>2 DEF ReceivePart, ReceiveTraps, Recv, senderVars
  <2> QED
    BY <1>3, <1>4, <1>6, <2>1, <2>2 DEF ReceiveLoop
<1> QED
  BY <1>2, <1>5, <1>6 DEF Next

THEOREM TransportIsAStream ==
  ASSUME Lockstep
  PROVE  Spec => ImplementsMessageStream
<1>1. Init => Stream!Init
  BY InitRefines
<1>2. StreamInv /\ [Next]_vars
        => [Stream!Next]_<<[i \in DOMAIN given |-> Text(given[i])], taken>>
  BY StepRefines
<1> QED
  BY <1>1, <1>2, StreamInvariance, PTL DEF Spec, ImplementsMessageStream, Stream!Spec

-----------------------------------------------------------------------------
(***************************************************************************)
(* Tokens of a sequence.                                                   *)
(***************************************************************************)
LEMMA TokensAreOfShapes ==
  ASSUME NEW f \in Seq(Token), NEW p \in 1 .. Len(f)
  PROVE  /\ f[p].of \in Shapes
         /\ Size(f[p].of) \in Nat \ {0}
         /\ f[p].at \in 1 .. Size(f[p].of)
         /\ f[p] = [of |-> f[p].of, at |-> f[p].at]
         /\ p \in DOMAIN f
<1>1. f[p] \in Token
  BY ElementOfSeq
<1>2. PICK m \in Shapes : f[p] \in {Text(m)[i] : i \in 1 .. Size(m)}
  BY <1>1 DEF Token
<1>3. PICK i \in 1 .. Size(m) : f[p] = Text(m)[i]
  BY <1>2
<1>4. f[p] = [of |-> m, at |-> i]
  BY <1>3 DEF Text
<1>5. f[p].of = m /\ f[p].at = i
  BY <1>4
<1>6. Size(m) \in Nat \ {0}
  BY ShapesHaveSizes
<1>7. p \in DOMAIN f
  BY LenProperties
<1> QED
  BY <1>4, <1>5, <1>6, <1>7

(***************************************************************************)
(* What SendSegment puts on the wire fits to what is there.                *)
(***************************************************************************)
LEMMA SegmentFits ==
  ASSUME NEW f \in Seq(Token), NEW m \in Shapes,
         NEW s \in 0 .. Size(m), NEW e \in s .. Size(m),
         InPlace(f), EndsWith(f, m, s)
  PROVE  LET g == f \o SubSeq(Text(m), s + 1, e)
         IN  g \in Seq(Token) /\ InPlace(g) /\ EndsWith(g, m, e)
<1> DEFINE t == SubSeq(Text(m), s + 1, e)
           g == f \o t
           n == Len(f)
<1>1. /\ Size(m) \in Nat \ {0} /\ s \in Nat /\ e \in Nat /\ s <= e /\ e <= Size(m)
      /\ n \in Nat
  BY ShapesHaveSizes, LenProperties
<1>2. /\ Text(m) \in Seq(Token) /\ Len(Text(m)) = Size(m)
      /\ \A i \in 1 .. Size(m) : Text(m)[i] = [of |-> m, at |-> i]
  BY TextsAreTyped
<1>3. /\ t \in Seq(Token) /\ Len(t) = e - s
      /\ \A i \in 1 .. e - s : t[i] = [of |-> m, at |-> s + i]
  <2>1. \A i \in s + 1 .. e : Text(m)[i] \in Token
    BY <1>1, <1>2, ElementOfSeq
  <2>2. /\ t \in Seq(Token)
        /\ Len(t) = IF s + 1 <= e THEN e - (s + 1) + 1 ELSE 0
        /\ \A i \in 1 .. e - (s + 1) + 1 : t[i] = Text(m)[s + 1 + i - 1]
    BY <1>1, <2>1, SubSeqProperties
  <2> HIDE DEF t
  <2>3. ASSUME NEW i \in 1 .. e - s
        PROVE  t[i] = [of |-> m, at |-> s + i]
    <3>1. i \in 1 .. e - (s + 1) + 1 /\ s + 1 + i - 1 = s + i /\ s + i \in 1 .. Size(m)
      BY <1>1
    <3>2. t[i] = Text(m)[s + 1 + i - 1]
      BY <2>2, <3>1
    <3> QED
      BY <1>2, <3>1, <3>2
  <2> QED
    BY <1>1, <2>2, <2>3
<1> HIDE DEF t, n
<1>4. /\ g \in Seq(Token) /\ Len(g) = n + (e - s)
      /\ \A i \in 1 .. n + (e - s) : g[i] = IF i <= n THEN f[i] ELSE t[i - n]
  <2>1. /\ g \in Seq(Token) /\ Len(g) = Len(f) + Len(t)
        /\ \A i \in 1 .. Len(f) + Len(t) : g[i] = IF i <= Len(f) THEN f[i] ELSE t[i - Len(f)]
    BY <1>3, ConcatProperties
  <2> QED
    BY <1>3, <2>1 DEF n
<1> HIDE DEF g
<1>5. DOMAIN g = 1 .. n + (e - s) /\ DOMAIN f = 1 .. n
  BY <1>4, LenProperties DEF n
\* A new token stands where its message began.
<1>6. ASSUME NEW q \in DOMAIN g, q > n
      PROVE  g[q] = [of |-> m, at |-> q - (n - s)]
  <2>1. q \in 1 .. n + (e - s) /\ q - n \in 1 .. e - s /\ ~(q <= n)
    BY <1>1, <1>5, <1>6
  <2>2. g[q] = t[q - n] /\ t[q - n] = [of |-> m, at |-> s + (q - n)]
    BY <1>3, <1>4, <2>1
  <2>3. s + (q - n) = q - (n - s)
    BY <1>1, <2>1
  <2> QED
    BY <2>2, <2>3
<1>7. ASSUME NEW q \in DOMAIN g, q > n - s
      PROVE  g[q] = [of |-> m, at |-> q - (n - s)]
  <2>1. CASE q <= n
    <3>1. q \in DOMAIN f /\ q \in 1 .. n + (e - s) /\ q > Len(f) - s
      BY <1>1, <1>5, <1>7, <2>1 DEF n
    <3> QED
      BY <1>4, <2>1, <3>1 DEF EndsWith, n
  <2>2. CASE q > n
    BY <1>6, <2>2
  <2> QED
    BY <1>1, <1>5, <2>1, <2>2
<1>8. ASSUME NEW p \in DOMAIN g
      PROVE  /\ g[p].of \in Shapes /\ Size(g[p].of) \in Nat
             /\ g[p].at \in Nat /\ p \in Nat
             /\ p <= n => p \in DOMAIN f /\ g[p] = f[p]
             /\ p \in 1 .. n + (e - s)
  <2>1. p \in 1 .. Len(g) /\ p \in 1 .. n + (e - s)
    BY <1>4, <1>5
  <2>2. g[p].of \in Shapes /\ Size(g[p].of) \in Nat /\ g[p].at \in 1 .. Size(g[p].of)
    BY <1>4, <2>1, TokensAreOfShapes
  <2>3. p <= n => p \in DOMAIN f /\ g[p] = f[p]
    BY <1>1, <1>4, <1>5, <2>1
  <2> QED
    BY <2>1, <2>2, <2>3
\* An old token whose message reaches beyond the old end is of that message.
<1>9. ASSUME NEW p \in DOMAIN g, p - g[p].at + Size(g[p].of) > n
      PROVE  g[p] = [of |-> m, at |-> p - (n - s)]
  <2>1. CASE p <= n
    BY <1>8, <1>9, <2>1 DEF EndsWith, n
  <2>2. CASE p > n
    BY <1>6, <2>2
  <2> QED
    BY <1>1, <1>8, <2>1, <2>2
<1>10. InPlace(g)
  <2> SUFFICES ASSUME NEW p \in DOMAIN g, NEW q \in DOMAIN g,
                      q - p + g[p].at \in 1 .. Size(g[p].of)
               PROVE  g[q] = [of |-> g[p].of, at |-> q - p + g[p].at]
    BY DEF InPlace
  <2>1. CASE p - g[p].at + Size(g[p].of) > n
    <3>1. g[p] = [of |-> m, at |-> p - (n - s)]
      BY <1>9, <2>1
    <3>2. g[p].of = m /\ g[p].at = p - (n - s)
      BY <3>1
    <3>3. q > n - s /\ q - (n - s) = q - p + g[p].at
      BY <1>1, <1>8, <3>2, SMTT(30)
    <3> QED
      BY <1>7, <3>2, <3>3
  <2>2. CASE ~(p - g[p].at + Size(g[p].of) > n)
    <3>1. q <= n
      BY <1>1, <1>8, <2>2, SMTT(30)
    <3>2. CASE p <= n
      <4>1. g[p] = f[p] /\ g[q] = f[q] /\ p \in DOMAIN f /\ q \in DOMAIN f
        BY <1>8, <3>1, <3>2
      <4> QED
        BY <4>1 DEF InPlace
    <3>3. CASE p > n
      <4>1. g[p] = [of |-> m, at |-> p - (n - s)]
        BY <1>6, <3>3
      <4>2. g[p].of = m /\ g[p].at = p - (n - s)
        BY <4>1
      <4>3. q > n - s /\ q - (n - s) = q - p + g[p].at
        BY <1>1, <1>8, <4>2, SMTT(30)
      <4> QED
        BY <1>7, <4>2, <4>3
    <3> QED
      BY <1>1, <1>8, <3>2, <3>3
  <2> QED
    BY <2>1, <2>2
<1>11. EndsWith(g, m, e)
  <2> SUFFICES ASSUME NEW p \in DOMAIN g,
                      p > Len(g) - e \/ p - g[p].at + Size(g[p].of) > Len(g)
               PROVE  g[p] = [of |-> m, at |-> p - (Len(g) - e)]
    BY DEF EndsWith
  <2>1. Len(g) - e = n - s /\ Len(g) >= n
    BY <1>1, <1>4
  <2>2. CASE p > Len(g) - e
    BY <1>7, <2>1, <2>2
  <2>3. CASE p - g[p].at + Size(g[p].of) > Len(g)
    <3>1. p - g[p].at + Size(g[p].of) > n
      BY <1>1, <1>4, <1>8, <2>3, SMTT(30)
    <3> QED
      BY <1>9, <2>1, <3>1
  <2> QED
    BY <2>2, <2>3
<1> QED
  BY <1>4, <1>10, <1>11 DEF g, t

(***************************************************************************)
(* Once all of a message is sent, any other may follow.                    *)
(***************************************************************************)
LEMMA NextMayFollow ==
  ASSUME NEW f \in Seq(Token), NEW m \in Shapes, NEW o \in Shapes,
         EndsWith(f, m, Size(m))
  PROVE  EndsWith(f, o, 0)
<1>1. /\ Len(f) \in Nat /\ DOMAIN f = 1 .. Len(f) /\ Size(m) \in Nat
  BY ShapesHaveSizes, LenProperties
<1> SUFFICES ASSUME NEW p \in DOMAIN f,
                    p > Len(f) - 0 \/ p - f[p].at + Size(f[p].of) > Len(f)
             PROVE  FALSE
  BY DEF EndsWith
<1>2. p \in Nat /\ p <= Len(f)
  BY <1>1
<1>3. p - f[p].at + Size(f[p].of) > Len(f)
  BY <1>1, <1>2
<1>4. f[p] = [of |-> m, at |-> p - (Len(f) - Size(m))]
  BY <1>3 DEF EndsWith
<1>5. f[p].of = m /\ f[p].at = p - (Len(f) - Size(m))
  BY <1>4
<1> QED
  BY <1>1, <1>2, <1>3, <1>5

(***************************************************************************)
(* What rtsp_recv_msg leaves on the wire when it returns.                  *)
(***************************************************************************)
LEMMA RestIsInPlace ==
  ASSUME NEW f \in Seq(Token), NEW g \in Seq(Token), NEW d \in 0 .. Len(f),
         Len(g) = Len(f) - d, \A i \in 1 .. Len(g) : g[i] = f[i + d],
         NEW m, NEW s \in Nat, InPlace(f), EndsWith(f, m, s)
  PROVE  InPlace(g) /\ EndsWith(g, m, s)
<1>1. /\ Len(f) \in Nat /\ DOMAIN f = 1 .. Len(f) /\ d \in Nat
      /\ Len(g) \in Nat /\ DOMAIN g = 1 .. Len(g)
  BY LenProperties
<1>2. ASSUME NEW p \in DOMAIN g
      PROVE  /\ p \in Nat /\ p + d \in DOMAIN f /\ g[p] = f[p + d]
             /\ g[p].at \in Nat /\ Size(g[p].of) \in Nat
  <2>1. p \in 1 .. Len(g)
    BY <1>1
  <2>2. Size(g[p].of) \in Nat /\ g[p].at \in 1 .. Size(g[p].of)
    BY <2>1, TokensAreOfShapes
  <2>3. p \in Nat /\ p + d \in DOMAIN f /\ g[p] = f[p + d]
    BY <1>1, <2>1
  <2> QED
    BY <2>2, <2>3
<1>3. InPlace(g)
  <2> SUFFICES ASSUME NEW p \in DOMAIN g, NEW q \in DOMAIN g,
                      q - p + g[p].at \in 1 .. Size(g[p].of)
               PROVE  g[q] = [of |-> g[p].of, at |-> q - p + g[p].at]
    BY DEF InPlace
  <2>1. (q + d) - (p + d) + f[p + d].at = q - p + g[p].at
    <3>1. /\ f[p + d].at = g[p].at /\ g[p].at \in Nat
          /\ p \in Nat /\ q \in Nat /\ d \in Nat
      BY <1>1, <1>2
    <3>2. \A x, y, u, v \in Nat : (x + u) - (y + u) + v = x - y + v
      OBVIOUS
    <3> QED
      BY <3>1, <3>2
  <2>2. (q + d) - (p + d) + f[p + d].at \in 1 .. Size(f[p + d].of)
    BY <1>2, <2>1
  <2>3. f[q + d] = [of |-> f[p + d].of, at |-> (q + d) - (p + d) + f[p + d].at]
    BY <1>2, <2>2 DEF InPlace
  <2> QED
    BY <1>2, <2>1, <2>3
<1>4. EndsWith(g, m, s)
  <2> SUFFICES ASSUME NEW p \in DOMAIN g,
                      p > Len(g) - s \/ p - g[p].at + Size(g[p].of) > Len(g)
               PROVE  g[p] = [of |-> m, at |-> p - (Len(g) - s)]
    BY DEF EndsWith
  <2>1. (p + d) - (Len(f) - s) = p - (Len(g) - s)
    <3>1. p \in Nat /\ d \in Nat /\ Len(f) \in Nat /\ Len(g) = Len(f) - d
      BY <1>1, <1>2
    <3> QED
      BY <3>1
  <2>2. p > Len(g) - s => p + d > Len(f) - s
    <3>1. p \in Nat /\ d \in Nat /\ Len(f) \in Nat /\ Len(g) = Len(f) - d
      BY <1>1, <1>2
    <3> QED
      BY <3>1
  <2>3. p - g[p].at + Size(g[p].of) > Len(g)
          => (p + d) - f[p + d].at + Size(f[p + d].of) > Len(f)
    <3>1. /\ f[p + d] = g[p] /\ p \in Nat /\ d \in Nat /\ Len(f) \in Nat
          /\ g[p].at \in Nat /\ Size(g[p].of) \in Nat /\ Len(g) = Len(f) - d
      BY <1>1, <1>2
    <3>2. \A x, y, u, v, w \in Nat :
            x - y + u > v - w => (x + w) - y + u > v
      OBVIOUS
    <3> QED
      BY <3>1, <3>2
  <2>4. f[p + d] = [of |-> m, at |-> (p + d) - (Len(f) - s)]
    BY <1>2, <2>2, <2>3 DEF EndsWith
  <2> QED
    BY <1>2, <2>1, <2>4
<1> QED
  BY <1>3, <1>4

(***************************************************************************)
(* A text that begins with the first token of a message and passes the     *)
(* test has all of that message: as long as it has not, it is a beginning  *)
(* of that message's text.                                                 *)
(***************************************************************************)
LEMMA BeginningGoesOn ==
  ASSUME NEW f \in Seq(Token), InPlace(f), NEW n \in 1 .. Len(f), f[1].at = 1
  PROVE  \A i \in 1 .. n : i <= Size(f[1].of) => f[i] = [of |-> f[1].of, at |-> i]
<1> SUFFICES ASSUME NEW i \in 1 .. n, i <= Size(f[1].of)
             PROVE  f[i] = [of |-> f[1].of, at |-> i]
  OBVIOUS
<1>1. /\ Len(f) \in Nat /\ DOMAIN f = 1 .. Len(f)
      /\ 1 \in DOMAIN f /\ i \in DOMAIN f /\ i \in Nat \ {0}
  BY LenProperties
<1>2. Size(f[1].of) \in Nat
  BY <1>1, TokensAreOfShapes
<1>3. i - 1 + f[1].at = i /\ i - 1 + f[1].at \in 1 .. Size(f[1].of)
  BY <1>1, <1>2
<1> QED
  BY <1>1, <1>3 DEF InPlace

LEMMA CompleteHasTheFirst ==
  ASSUME NEW b \in Seq(Token), b # <<>>, NEW m \in Shapes, Complete(b),
         \A i \in 1 .. Len(b) : i <= Size(m) => b[i] = [of |-> m, at |-> i]
  PROVE  Len(b) >= Size(m) /\ SubSeq(b, 1, Size(m)) = Text(m)
<1>1. /\ Len(b) \in Nat \ {0} /\ Size(m) \in Nat \ {0}
      /\ Text(m) \in Seq(Token) /\ Len(Text(m)) = Size(m)
      /\ \A i \in 1 .. Size(m) : Text(m)[i] = [of |-> m, at |-> i]
  BY EmptySeq, ShapesHaveSizes, TextsAreTyped
<1>2. Len(b) >= Size(m)
  <2> SUFFICES ASSUME Len(b) < Size(m)
               PROVE  FALSE
    BY <1>1
  <2>1. Len(b) \in 0 .. Size(m)
    BY <1>1
  <2>2. \A i \in 1 .. Len(b) : Text(m)[i] \in Token
    BY <1>1, ElementOfSeq
  <2>3. /\ SubSeq(Text(m), 1, Len(b)) \in Seq(Token)
        /\ Len(SubSeq(Text(m), 1, Len(b))) = Len(b)
        /\ \A i \in 1 .. Len(b) : SubSeq(Text(m), 1, Len(b))[i] = Text(m)[i]
    <3>1. /\ SubSeq(Text(m), 1, Len(b)) \in Seq(Token)
          /\ Len(SubSeq(Text(m), 1, Len(b))) = IF 1 <= Len(b) THEN Len(b) - 1 + 1 ELSE 0
          /\ \A i \in 1 .. Len(b) - 1 + 1 :
               SubSeq(Text(m), 1, Len(b))[i] = Text(m)[1 + i - 1]
      BY <1>1, <2>2, SubSeqProperties
    <3>2. Len(b) - 1 + 1 = Len(b) /\ \A i \in 1 .. Len(b) : 1 + i - 1 = i
      BY <1>1
    <3> QED
      BY <1>1, <3>1, <3>2
  <2>4. \A i \in 1 .. Len(b) : b[i] = SubSeq(Text(m), 1, Len(b))[i]
    BY <1>1, <2>3
  <2>5. b = SubSeq(Text(m), 1, Len(b))
    BY <2>3, <2>4, SeqEqual
  <2>6. Complete(SubSeq(Text(m), 1, Len(b))) <=> Len(b) = Size(m)
    BY <2>1, OnlyTheWholeIsComplete
  <2>7. Len(b) = Size(m)
    BY <2>5, <2>6
  <2> QED
    BY <1>1, <2>7
<1>3. \A i \in 1 .. Size(m) : b[i] = Text(m)[i] /\ b[i] \in Token
  BY <1>1, <1>2, ElementOfSeq
<1>4. /\ SubSeq(b, 1, Size(m)) \in Seq(Token)
      /\ Len(SubSeq(b, 1, Size(m))) = Size(m)
      /\ \A i \in 1 .. Size(m) : SubSeq(b, 1, Size(m))[i] = b[i]
  <2>1. /\ SubSeq(b, 1, Size(m)) \in Seq(Token)
        /\ Len(SubSeq(b, 1, Size(m))) = IF 1 <= Size(m) THEN Size(m) - 1 + 1 ELSE 0
        /\ \A i \in 1 .. Size(m) - 1 + 1 : SubSeq(b, 1, Size(m))[i] = b[1 + i - 1]
    BY <1>1, <1>3, SubSeqProperties
  <2>2. Size(m) - 1 + 1 = Size(m) /\ \A i \in 1 .. Size(m) : 1 + i - 1 = i
    BY <1>1
  <2> QED
    BY <1>1, <2>1, <2>2
<1>5. SubSeq(b, 1, Size(m)) = Text(m)
  BY <1>1, <1>3, <1>4, SeqEqual
<1> QED
  BY <1>2, <1>5

(***************************************************************************)
(* When the last message is all there, so are those before it.             *)
(***************************************************************************)
LEMMA MessagesAreWhole ==
  ASSUME NEW b \in Seq(Token), NEW m \in Shapes, InPlace(b), EndsWith(b, m, Size(m)),
         NEW i \in 1 .. Len(b), b[i].at = 1
  PROVE  /\ i + Size(b[i].of) - 1 <= Len(b)
         /\ \A j \in 1 .. Size(b[i].of) : b[i + j - 1] = [of |-> b[i].of, at |-> j]
<1> DEFINE z == Size(b[i].of)
           n == Len(b)
<1>1. /\ z \in Nat \ {0} /\ i \in DOMAIN b /\ i \in Nat \ {0} /\ n \in Nat
      /\ DOMAIN b = 1 .. n /\ Size(m) \in Nat
  <2>1. Size(b[i].of) \in Nat \ {0} /\ i \in DOMAIN b
    BY TokensAreOfShapes
  <2>2. Len(b) \in Nat /\ DOMAIN b = 1 .. Len(b) /\ Size(m) \in Nat
    BY LenProperties, ShapesHaveSizes
  <2> QED
    BY <2>1, <2>2
<1> HIDE DEF z, n
<1>2. i + z - 1 <= n
  <2> SUFFICES ASSUME i - 1 + z > n
               PROVE  FALSE
    BY <1>1
  <2>1. b[i] = [of |-> m, at |-> i - (n - Size(m))]
    BY <1>1 DEF EndsWith, z, n
  <2>2. b[i].of = m /\ b[i].at = i - (n - Size(m))
    BY <2>1
  <2>3. z = Size(m)
    BY <2>2 DEF z
  <2> QED
    BY <1>1, <2>2, <2>3
<1>3. ASSUME NEW j \in 1 .. z
      PROVE  b[i + j - 1] = [of |-> b[i].of, at |-> j]
  <2>1. i + j - 1 \in DOMAIN b /\ (i + j - 1) - i + b[i].at = j
    BY <1>1, <1>2
  <2>2. (i + j - 1) - i + b[i].at \in 1 .. Size(b[i].of)
    BY <2>1 DEF z
  <2>3. b[i + j - 1] = [of |-> b[i].of, at |-> (i + j - 1) - i + b[i].at]
    BY <1>1, <2>1, <2>2 DEF InPlace
  <2> QED
    BY <2>1, <2>3
<1> QED
  BY <1>2, <1>3 DEF z, n

(***************************************************************************)
(* In a text that begins with a message every message has its first token. *)
(***************************************************************************)
LEMMA MessagesHaveBeginnings ==
  ASSUME NEW b \in Seq(Token), InPlace(b), NEW q \in 1 .. Len(b), b[1].at = 1
  PROVE  LET i == q - b[q].at + 1
         IN  i \in 1 .. q /\ b[i] = [of |-> b[q].of, at |-> 1]
<1> DEFINE a == b[q].at
           o == b[q].of
<1>1. /\ q \in DOMAIN b /\ 1 \in DOMAIN b /\ q \in Nat \ {0} /\ Len(b) \in Nat
      /\ Size(o) \in Nat \ {0} /\ a \in Nat \ {0} /\ a <= Size(o)
      /\ DOMAIN b = 1 .. Len(b) /\ q <= Len(b)
  <2>1. /\ Size(b[q].of) \in Nat \ {0} /\ q \in DOMAIN b
        /\ b[q].at \in 1 .. Size(b[q].of)
    BY TokensAreOfShapes
  <2>2. Len(b) \in Nat /\ DOMAIN b = 1 .. Len(b)
    BY LenProperties
  <2> QED
    BY <2>1, <2>2
<1>2. \A r \in DOMAIN b : r - q + a \in 1 .. Size(o) => b[r] = [of |-> o, at |-> r - q + a]
  BY <1>1 DEF InPlace
<1> HIDE DEF a, o
<1>3. a <= q
  <2> SUFFICES ASSUME a > q
               PROVE  FALSE
    BY <1>1
  <2>1. 1 - q + a \in 1 .. Size(o)
    BY <1>1
  <2>2. b[1] = [of |-> o, at |-> 1 - q + a]
    BY <1>1, <1>2, <2>1
  <2>3. 1 - q + a = 1
    BY <2>2
  <2> QED
    BY <1>1, <2>3
<1>4. q - a + 1 \in 1 .. q /\ q - a + 1 \in DOMAIN b /\ (q - a + 1) - q + a = 1
  BY <1>1, <1>3
<1>5. b[q - a + 1] = [of |-> o, at |-> 1]
  <2>1. (q - a + 1) - q + a \in 1 .. Size(o)
    BY <1>1, <1>4
  <2>2. b[q - a + 1] = [of |-> o, at |-> (q - a + 1) - q + a]
    BY <1>2, <1>4, <2>1
  <2> QED
    BY <1>4, <2>2
<1> QED
  BY <1>4, <1>5 DEF a, o

(***************************************************************************)
(* First finds the first place.                                            *)
(***************************************************************************)
LEMMA FirstIsFirst ==
  ASSUME NEW S \in SUBSET Nat, S # {}
  PROVE  First(S) \in S /\ \A j \in S : First(S) <= j
BY LeastIsLeast DEF First, Least

LEMMA FirstIsThis ==
  ASSUME NEW S \in SUBSET Nat, NEW i \in S, \A j \in S : i <= j
  PROVE  First(S) = i
<1>1. First(S) \in S /\ \A j \in S : First(S) <= j
  BY FirstIsFirst
<1>2. First(S) <= i /\ i <= First(S) /\ First(S) \in Nat /\ i \in Nat
  BY <1>1
<1> QED
  BY <1>2

(***************************************************************************)
(* A text of whole messages passes rtsp_recv_msg's test, or makes it trap: *)
(* the first Content-Length line is that of a message that is all there    *)
(* and does not end before the first header does.                          *)
(***************************************************************************)
LEMMA WholeMessagesAreComplete ==
  ASSUME NEW b \in Seq(Token), b # <<>>, b[1].at = 1,
         NEW m \in Shapes, InPlace(b), EndsWith(b, m, Size(m))
  PROVE  Complete(b) \/ NullLine(b)
<1> DEFINE o == b[1].of
           h == HeaderLen(o)
           n == Len(b)
<1>1. 1 \in 1 .. n /\ n \in Nat /\ DOMAIN b = 1 .. n
  BY EmptySeq, LenProperties
<1>2. o \in Shapes
  BY <1>1, TokensAreOfShapes
<1>3. /\ o.lines \in Nat /\ o.body \in Nat
      /\ h = o.lines + 1 + (IF o.body > 0 THEN 2 ELSE 0)
      /\ h \in Nat \ {0} /\ Size(o) = h + o.body
  BY <1>2, ShapesHaveSizes
<1>4. Size(o) <= n /\ \A j \in 1 .. Size(o) : b[j].of = o /\ b[j].at = j
  <2>1. /\ 1 + Size(o) - 1 <= n
        /\ \A j \in 1 .. Size(o) : b[1 + j - 1] = [of |-> o, at |-> j]
    BY <1>1, MessagesAreWhole
  <2>2. ASSUME NEW j \in 1 .. Size(o)
        PROVE  b[j].of = o /\ b[j].at = j
    <3>1. 1 + j - 1 = j
      BY <1>3
    <3>2. b[j] = [of |-> o, at |-> j]
      BY <2>1, <3>1
    <3> QED
      BY <3>2
  <2> QED
    BY <1>1, <1>3, <2>1, <2>2
<1> HIDE DEF o, h, n
\* The first header ends where the first message's does.
<1>5. First(Ends(b)) = h /\ Ends(b) # {}
  <2>1. h \in 1 .. Size(o) /\ h \in 1 .. n
    BY <1>1, <1>3, <1>4
  <2>2. h \in Ends(b)
    BY <1>1, <1>4, <2>1 DEF Ends, IsEnd, h
  <2>3. ASSUME NEW j \in Ends(b)
        PROVE  h <= j
    <3>1. j \in 1 .. n /\ b[j].at = HeaderLen(b[j].of)
      BY <1>1 DEF Ends, IsEnd
    <3>2. j \in 1 .. Size(o) => h = j
      BY <1>4, <3>1 DEF h
    <3> QED
      BY <1>1, <1>3, <3>1, <3>2
  <2>4. Ends(b) \in SUBSET Nat
    BY <1>1 DEF Ends
  <2> QED
    BY <2>2, <2>3, <2>4, FirstIsThis
<1> SUFFICES ASSUME Lengths(b) # {}
             PROVE  PayloadThere(b)
  BY <1>5 DEF Complete, NullLine
<1> DEFINE q == First(Lengths(b))
           l == b[q].of
<1>6. q \in 1 .. n /\ l.body > 0 /\ b[q].at = l.lines + 2
      /\ \A j \in Lengths(b) : q <= j
  <2>1. Lengths(b) \in SUBSET Nat
    BY <1>1 DEF Lengths
  <2>2. q \in Lengths(b) /\ \A j \in Lengths(b) : q <= j
    BY <2>1, FirstIsFirst
  <2> QED
    BY <1>1, <2>2 DEF Lengths, IsLength
<1> HIDE DEF q
<1>7. l \in Shapes
  BY <1>6, TokensAreOfShapes DEF n
<1> HIDE DEF l
<1>8. /\ l.lines \in Nat /\ l.body \in Nat /\ Size(l) = l.lines + 3 + l.body
  BY <1>6, <1>7, ShapesHaveSizes, SMTT(30)
\* The message of the first Content-Length line, and where it begins.
<1> DEFINE i == q - b[q].at + 1
<1>9. /\ i \in 1 .. n /\ i \in 1 .. q /\ b[i].of = l /\ b[i].at = 1
      /\ i + Size(l) - 1 <= n
  <2>1. i \in 1 .. q /\ b[i] = [of |-> l, at |-> 1]
    BY <1>6, MessagesHaveBeginnings DEF l, n
  <2>2. i \in 1 .. n
    BY <1>1, <1>6, <2>1
  <2> HIDE DEF i
  <2>3. b[i].of = l /\ b[i].at = 1
    BY <2>1
  <2>4. i + Size(b[i].of) - 1 <= Len(b)
    BY <2>2, <2>3, MessagesAreWhole DEF n
  <2> QED
    BY <2>1, <2>2, <2>3, <2>4 DEF n
<1> HIDE DEF i
<1>10. n - h >= l.body
  <2>1. CASE i <= Size(o)
    <3>1. i \in 1 .. Size(o)
      BY <1>9, <2>1
    <3>2. l = o
      BY <1>4, <1>9, <3>1
    <3> QED
      BY <1>1, <1>3, <1>4, <3>2
  <2>2. CASE i > Size(o)
    <3>1. i \in Nat /\ Size(l) \in Nat /\ l.body <= Size(l) /\ h <= Size(o) /\ Size(o) \in Nat
      <4>1. i \in Nat
        BY <1>1, <1>9
      <4>2. Size(l) \in Nat /\ l.body <= Size(l)
        BY <1>8
      <4>3. h <= Size(o) /\ Size(o) \in Nat
        BY <1>3
      <4> QED
        BY <4>1, <4>2, <4>3
    <3> QED
      BY <1>1, <1>3, <1>8, <1>9, <2>2, <3>1, SMTT(30)
  <2> QED
    BY <1>1, <1>3, <1>9, <2>1, <2>2
<1>11. Announced(b) = l.body
  BY DEF Announced, l, q
<1> QED
  BY <1>5, <1>10, <1>11 DEF PayloadThere, n

-----------------------------------------------------------------------------
(***************************************************************************)
(* The invariant, one action at a time.                                    *)
(***************************************************************************)
LEMMA BeginPipelined ==
  ASSUME PipelinedInv, NEW m \in Shapes, Begin(m)
  PROVE  PipelinedInv'
<1>1. /\ given \in Seq(Shapes) /\ given' = Append(given, m) /\ ~sending
      /\ UNCHANGED <<up, wire, receiver, buf, taken>>
      /\ sending' = TRUE /\ st' = 0
      /\ buf \in Seq(Token) /\ wire \in Seq(Token)
  BY DEF PipelinedInv, TypeOK, Begin, receiverVars
<1>2. /\ given' \in Seq(Shapes) /\ given' # <<>>
      /\ Current' = m
  BY <1>1, AppendProperties DEF Current
<1>3. TypeOK' /\ FirstIsWhole'
  BY <1>1, <1>2 DEF PipelinedInv, TypeOK, FirstIsWhole
<1>4. ASSUME receiver \in {"idle", "recv"}
      PROVE  InPlace(buf \o wire) /\ EndsWith(buf \o wire, m, 0)
  <2>1. CASE given = <<>>
    <3>1. buf = <<>> /\ wire = <<>>
      BY <1>4, <2>1 DEF PipelinedInv
    <3>2. buf \o wire = <<>>
      BY <1>1, <3>1, ConcatEmptySeq
    <3>3. DOMAIN (buf \o wire) = {}
      BY <3>2
    <3> QED
      BY <3>3 DEF InPlace, EndsWith
  <2>2. CASE given # <<>>
    <3>1. /\ InPlace(buf \o wire) /\ EndsWith(buf \o wire, Current, Size(Current))
          /\ Current \in Shapes
      BY <1>1, <1>4, <2>2, CurrentIsAShape DEF PipelinedInv
    <3>2. buf \o wire \in Seq(Token)
      BY <1>1, ConcatProperties
    <3> QED
      BY <3>1, <3>2, NextMayFollow
  <2> QED
    BY <2>1, <2>2
<1>5. 0 <= Size(m)
  BY ShapesHaveSizes
<1>6. /\ receiver = "idle" => buf = <<>>
      /\ receiver \in {"idle", "recv"} => ~Complete(buf) /\ ~NullLine(buf)
  BY DEF PipelinedInv
<1> QED
  BY <1>1, <1>2, <1>3, <1>4, <1>5, <1>6 DEF PipelinedInv

LEMMA SendSegmentPipelined ==
  ASSUME PipelinedInv, SendSegment
  PROVE  PipelinedInv'
<1> DEFINE m == Current
           e == st + SegmentLen
           t == SubSeq(Text(m), st + 1, e)
<1>1. /\ TypeOK /\ sending /\ st < Size(m)
      /\ wire' = wire \o t /\ st' = e
      /\ UNCHANGED <<given, sending, up, receiver, buf, taken>>
      /\ given # <<>> /\ buf \in Seq(Token) /\ wire \in Seq(Token) /\ st \in Nat
  BY DEF PipelinedInv, TypeOK, SendSegment, receiverVars
<1>2. m \in Shapes /\ Size(m) \in Nat
  BY <1>1, CurrentIsAShape, ShapesHaveSizes
<1>3. e \in st .. Size(m) /\ st \in 0 .. Size(m)
  BY <1>1, <1>2, SizesAssumption DEF SegmentLen
<1>4. t \in Seq(Token)
  <2>1. Size(m) \in e .. Size(m)
    BY <1>2, <1>3
  <2> QED
    BY <1>2, <1>3, Adjacent
<1>5. Current' = m
  BY <1>1 DEF Current
<1> HIDE DEF m, e, t
<1>6. wire' \in Seq(Token) /\ st' \in Nat /\ st' <= Size(m)
  BY <1>1, <1>2, <1>3, <1>4, ConcatProperties
<1>7. TypeOK' /\ FirstIsWhole'
  BY <1>1, <1>6 DEF PipelinedInv, TypeOK, FirstIsWhole
<1>8. ASSUME receiver \in {"idle", "recv"}
      PROVE  InPlace(buf \o wire') /\ EndsWith(buf \o wire', m, e)
  <2>1. InPlace(buf \o wire) /\ EndsWith(buf \o wire, m, st)
    BY <1>1, <1>8 DEF PipelinedInv, m
  <2>2. buf \o wire \in Seq(Token)
    BY <1>1, ConcatProperties
  <2>3. InPlace((buf \o wire) \o t) /\ EndsWith((buf \o wire) \o t, m, e)
    BY <1>2, <1>3, <2>1, <2>2, SegmentFits DEF t
  <2>4. buf \o wire' = (buf \o wire) \o t
    BY <1>1, <1>4, ConcatAssociative, SMTT(30)
  <2> QED
    BY <2>3, <2>4
<1>9. /\ receiver = "idle" => buf = <<>>
      /\ receiver \in {"idle", "recv"} => ~Complete(buf) /\ ~NullLine(buf)
  BY DEF PipelinedInv
<1> QED
  BY <1>1, <1>5, <1>6, <1>7, <1>8, <1>9 DEF PipelinedInv

LEMMA QuietStepsPipelined ==
  ASSUME PipelinedInv,
         SendDone \/ SendFails \/ SenderEnds \/ CallRecv \/ RecvFails \/ ReceiverEnds
  PROVE  PipelinedInv'
<1>1. /\ UNCHANGED <<given, st, wire, buf, taken>> /\ (sending' => sending)
      /\ receiver' \in {"idle", "recv"} => receiver \in {"idle", "recv"}
      /\ receiver' = "idle" => receiver = "idle"
  BY DEF SendDone, SendFails, SenderEnds, CallRecv, RecvFails, ReceiverEnds,
         senderVars, receiverVars
<1>2. TypeOK' /\ FirstIsWhole'
  BY <1>1 DEF PipelinedInv, TypeOK, FirstIsWhole, SendDone, SendFails, SenderEnds, CallRecv,
              RecvFails, ReceiverEnds, senderVars, receiverVars
<1>3. Current' = Current
  BY <1>1 DEF Current
<1>4. ASSUME receiver' \in {"idle", "recv"}, given # <<>>, ~sending'
      PROVE  st = Size(Current)
  <2>1. CASE SendDone
    <3>1. st >= Size(Current) /\ st <= Size(Current)
      BY <1>1, <1>4, <2>1 DEF SendDone, PipelinedInv
    <3>2. st \in Nat /\ Size(Current) \in Nat
      BY <1>4, CurrentIsAShape, ShapesHaveSizes DEF PipelinedInv, TypeOK
    <3> QED
      BY <3>1, <3>2
  <2>2. CASE ~SendDone
    <3>1. ~sending
      BY <1>4, <2>2 DEF SendFails, SenderEnds, CallRecv, RecvFails, ReceiverEnds,
                        senderVars, receiverVars
    <3> QED
      BY <1>1, <1>4, <3>1 DEF PipelinedInv
  <2> QED
    BY <2>1, <2>2
<1> QED
  BY <1>1, <1>2, <1>3, <1>4 DEF PipelinedInv

(***************************************************************************)
(* A recv moves tokens from the wire to the buffer and changes neither     *)
(* them nor their order.                                                   *)
(***************************************************************************)
LEMMA RecvKeepsPlaces ==
  ASSUME PipelinedInv, NEW k \in 1 .. Len(wire), Recv(k)
  PROVE  LET f == buf \o wire
             n == Len(buf) + k
         IN  /\ f \in Seq(Token) /\ n \in 1 .. Len(f)
             /\ InPlace(f) /\ EndsWith(f, Current, st)
             /\ given # <<>> /\ Current \in Shapes /\ st \in Nat
             /\ Arrived(k) \in Seq(Token) /\ Len(Arrived(k)) = n
             /\ \A i \in 1 .. n : Arrived(k)[i] = f[i]
             /\ wire' \in Seq(Token) /\ Len(wire') = Len(f) - n
             /\ \A i \in 1 .. Len(wire') : wire'[i] = f[i + n]
             /\ Arrived(k) \o wire' = f
<1> DEFINE f == buf \o wire
           a == Len(buf)
           w == Len(wire)
           b == SubSeq(wire, 1, k)
           n == a + k
<1>1. /\ TypeOK /\ buf \in Seq(Token) /\ wire \in Seq(Token) /\ st \in Nat
      /\ receiver = "recv" /\ wire' = SubSeq(wire, k + 1, w)
  BY DEF PipelinedInv, TypeOK, Recv
<1>2. a \in Nat /\ w \in Nat /\ k \in Nat /\ 1 <= k /\ k <= w /\ wire # <<>>
  BY <1>1, LenProperties, EmptySeq
<1>3. given # <<>> /\ Current \in Shapes /\ InPlace(f) /\ EndsWith(f, Current, st)
  BY <1>1, <1>2, CurrentIsAShape DEF PipelinedInv
<1>4. /\ f \in Seq(Token) /\ Len(f) = a + w
      /\ \A i \in 1 .. a + w : f[i] = IF i <= a THEN buf[i] ELSE wire[i - a]
  BY <1>1, ConcatProperties
<1>5. b \in Seq(Token) /\ Len(b) = k /\ \A i \in 1 .. k : b[i] = wire[i]
  <2>1. \A i \in 1 .. k : wire[i] \in Token
    BY <1>1, <1>2, ElementOfSeq
  <2>2. /\ b \in Seq(Token)
        /\ Len(b) = IF 1 <= k THEN k - 1 + 1 ELSE 0
        /\ \A i \in 1 .. k - 1 + 1 : b[i] = wire[1 + i - 1]
    BY <1>2, <2>1, SubSeqProperties
  <2>3. k - 1 + 1 = k /\ \A i \in 1 .. k : 1 + i - 1 = i
    BY <1>2
  <2> QED
    BY <1>2, <2>2, <2>3
<1>6. /\ wire' \in Seq(Token) /\ Len(wire') = w - k
      /\ \A i \in 1 .. w - k : wire'[i] = wire[i + k]
  <2>1. \A i \in k + 1 .. w : wire[i] \in Token
    BY <1>1, <1>2, ElementOfSeq
  <2>2. /\ SubSeq(wire, k + 1, w) \in Seq(Token)
        /\ Len(SubSeq(wire, k + 1, w)) = IF k + 1 <= w THEN w - (k + 1) + 1 ELSE 0
        /\ \A i \in 1 .. w - (k + 1) + 1 : SubSeq(wire, k + 1, w)[i] = wire[(k + 1) + i - 1]
    BY <1>2, <2>1, SubSeqProperties
  <2>3. w - (k + 1) + 1 = w - k /\ \A i \in 1 .. w - k : (k + 1) + i - 1 = i + k
    BY <1>2
  <2>4. (IF k + 1 <= w THEN w - (k + 1) + 1 ELSE 0) = w - k
    BY <1>2
  <2>5. wire' \in Seq(Token) /\ Len(wire') = w - k
    BY <1>1, <2>2, <2>4
  <2>6. ASSUME NEW i \in 1 .. w - k
        PROVE  wire'[i] = wire[i + k]
    <3>1. i \in 1 .. w - (k + 1) + 1 /\ (k + 1) + i - 1 = i + k
      BY <2>3
    <3>2. SubSeq(wire, k + 1, w)[i] = wire[(k + 1) + i - 1]
      BY <2>2, <3>1
    <3> QED
      BY <1>1, <3>1, <3>2
  <2> QED
    BY <2>5, <2>6
<1>7. Arrived(k) = buf \o b
  BY DEF Arrived
<1> HIDE DEF b
<1>8. /\ Arrived(k) \in Seq(Token) /\ Len(Arrived(k)) = n
      /\ \A i \in 1 .. n : Arrived(k)[i] = IF i <= a THEN buf[i] ELSE b[i - a]
  <2>1. /\ buf \o b \in Seq(Token) /\ Len(buf \o b) = Len(buf) + Len(b)
        /\ \A i \in 1 .. Len(buf) + Len(b) :
             (buf \o b)[i] = IF i <= Len(buf) THEN buf[i] ELSE b[i - Len(buf)]
    BY <1>1, <1>5, ConcatProperties
  <2> QED
    BY <1>5, <1>7, <2>1
<1>9. b \o wire' = wire
  <2>1. 1 \in 1 .. Len(wire) + 1 /\ k \in 1 - 1 .. Len(wire) /\ w \in k .. Len(wire)
    BY <1>2
  <2>2. SubSeq(wire, 1, k) \o SubSeq(wire, k + 1, w) = SubSeq(wire, 1, w)
    BY <1>1, <2>1, ConcatAdjacentSubSeq
  <2> QED
    BY <1>1, <2>2, SubSeqFull DEF b
<1>10. Arrived(k) \o wire' = f
  <2>1. buf \in Seq(Token) /\ b \in Seq(Token) /\ wire' \in Seq(Token)
    BY <1>1, <1>5, <1>6
  <2>2. (buf \o b) \o wire' = buf \o (b \o wire')
    BY <2>1, ConcatAssociative
  <2> QED
    BY <1>7, <1>9, <2>2
<1> HIDE DEF f, a, w
<1>11. n \in 1 .. Len(f) /\ Len(wire') = Len(f) - n
  BY <1>2, <1>4, <1>6
<1>12. ASSUME NEW i \in 1 .. n
       PROVE  Arrived(k)[i] = f[i]
  <2>1. i \in 1 .. a + w
    BY <1>2
  <2>2. CASE i <= a
    BY <1>4, <1>8, <2>1, <2>2
  <2>3. CASE ~(i <= a)
    <3>1. i - a \in 1 .. k
      BY <1>2, <2>3
    <3> QED
      BY <1>4, <1>5, <1>8, <2>1, <2>3, <3>1
  <2> QED
    BY <2>2, <2>3
<1>13. ASSUME NEW i \in 1 .. Len(wire')
       PROVE  wire'[i] = f[i + n]
  <2>1. i \in 1 .. w - k /\ i \in Nat /\ i + n \in 1 .. a + w
    BY <1>2, <1>6
  <2>2. wire'[i] = wire[i + k]
    BY <1>6, <2>1
  <2>3. PICK x \in 1 .. a + w : x = i + n
    BY <2>1
  <2>4. x - a = i + k /\ ~(x <= a)
    BY <1>2, <2>1, <2>3
  <2>5. f[x] = wire[x - a]
    BY <1>4, <2>4
  <2> QED
    BY <2>2, <2>3, <2>4, <2>5
<1> QED
  BY <1>1, <1>3, <1>4, <1>6, <1>8, <1>10, <1>11, <1>12, <1>13 DEF f, a

LEMMA ReceivePartPipelined ==
  ASSUME PipelinedInv, NEW k \in 1 .. Len(wire), ReceivePart(k)
  PROVE  PipelinedInv'
<1>1. /\ Recv(k) /\ ~Complete(Arrived(k)) /\ ~NullLine(Arrived(k)) /\ buf' = Arrived(k)
      /\ UNCHANGED <<given, sending, st, up, receiver, taken>> /\ receiver = "recv"
  BY DEF ReceivePart, Recv, senderVars
<1>2. /\ Arrived(k) \in Seq(Token) /\ wire' \in Seq(Token) /\ given # <<>>
      /\ Arrived(k) \o wire' = buf \o wire
      /\ InPlace(buf \o wire) /\ EndsWith(buf \o wire, Current, st)
  BY <1>1, RecvKeepsPlaces
<1>3. TypeOK' /\ FirstIsWhole'
  BY <1>1, <1>2 DEF PipelinedInv, TypeOK, FirstIsWhole
<1>4. Current' = Current
  BY <1>1 DEF Current
<1>5. st <= Size(Current) /\ (~sending => st = Size(Current)) /\ (sending => given # <<>>)
  BY <1>1, <1>2 DEF PipelinedInv
<1> QED
  BY <1>1, <1>2, <1>3, <1>4, <1>5 DEF PipelinedInv

LEMMA ReceiveRestPipelined ==
  ASSUME PipelinedInv, NEW k \in 1 .. Len(wire), ReceiveRest(k)
  PROVE  PipelinedInv'
<1> DEFINE f == buf \o wire
           b == Arrived(k)
           n == Len(buf) + k
<1>1. /\ Recv(k) /\ Complete(b) /\ taken' = Append(taken, b)
      /\ buf' = <<>> /\ receiver' = "idle"
      /\ UNCHANGED <<given, sending, st, up>> /\ receiver = "recv"
  BY DEF ReceiveRest, Recv, senderVars
<1>2. /\ f \in Seq(Token) /\ n \in 1 .. Len(f)
      /\ InPlace(f) /\ EndsWith(f, Current, st)
      /\ given # <<>> /\ Current \in Shapes /\ st \in Nat
      /\ b \in Seq(Token) /\ Len(b) = n
      /\ \A i \in 1 .. n : b[i] = f[i]
      /\ wire' \in Seq(Token) /\ Len(wire') = Len(f) - n
      /\ \A i \in 1 .. Len(wire') : wire'[i] = f[i + n]
  BY <1>1, RecvKeepsPlaces
<1> HIDE DEF f, b, n
<1>3. taken \in Seq(Seq(Token)) /\ Len(f) \in Nat
  BY <1>2, LenProperties DEF PipelinedInv, TypeOK
<1>4. /\ taken' \in Seq(Seq(Token)) /\ Len(taken') = Len(taken) + 1
      /\ \A i \in 1 .. Len(taken) : taken'[i] = taken[i]
      /\ taken'[Len(taken) + 1] = b
  BY <1>1, <1>2, <1>3, AppendProperties
<1>5. buf' \in Seq(Token)
  BY <1>1, EmptySeq
<1>6. TypeOK'
  BY <1>1, <1>2, <1>4, <1>5 DEF PipelinedInv, TypeOK
\* What is returned has all of the message it begins with.
<1>7. ASSUME BeginsAMessage(b)
      PROVE  /\ Len(b) >= Size(b[1].of)
             /\ SubSeq(b, 1, Size(b[1].of)) = Text(b[1].of)
  <2>1. /\ b # <<>> /\ b[1] = f[1] /\ f[1].at = 1 /\ 1 \in 1 .. Len(b)
    BY <1>2, <1>3, <1>7 DEF BeginsAMessage
  <2>2. b[1].of \in Shapes
    BY <1>2, <2>1, TokensAreOfShapes
  <2>3. \A i \in 1 .. n : i <= Size(f[1].of) => f[i] = [of |-> f[1].of, at |-> i]
    BY <1>2, <2>1, BeginningGoesOn
  <2>4. \A i \in 1 .. Len(b) : i <= Size(b[1].of) => b[i] = [of |-> b[1].of, at |-> i]
    BY <1>2, <2>1, <2>3
  <2> QED
    BY <1>1, <1>2, <2>1, <2>2, <2>4, CompleteHasTheFirst
<1>8. FirstIsWhole'
  <2>1. DOMAIN taken' = 1 .. Len(taken) + 1 /\ DOMAIN taken = 1 .. Len(taken)
        /\ Len(taken) \in Nat
    BY <1>3, <1>4, LenProperties
  <2> SUFFICES ASSUME NEW i \in DOMAIN taken', BeginsAMessage(taken'[i])
               PROVE  /\ Len(taken'[i]) >= Size(taken'[i][1].of)
                      /\ SubSeq(taken'[i], 1, Size(taken'[i][1].of)) = Text(taken'[i][1].of)
    BY DEF FirstIsWhole, BeginsAMessage
  <2>2. CASE i = Len(taken) + 1
    BY <1>4, <1>7, <2>2
  <2>3. CASE i \in 1 .. Len(taken)
    <3>1. taken'[i] = taken[i] /\ i \in DOMAIN taken
      BY <1>4, <2>1, <2>3
    <3> QED
      BY <3>1 DEF PipelinedInv, FirstIsWhole
  <2> QED
    BY <2>1, <2>2, <2>3
<1>9. InPlace(wire') /\ EndsWith(wire', Current, st)
  <2>1. n \in 0 .. Len(f)
    BY <1>2
  <2> QED
    BY <1>2, <2>1, RestIsInPlace
<1>10. buf' \o wire' = wire'
  BY <1>1, <1>2, ConcatEmptySeq
<1>11. ~Complete(buf') /\ ~NullLine(buf')
  <2>1. Ends(buf') = {}
    BY <1>1 DEF Ends
  <2> QED
    BY <2>1 DEF Complete, NullLine
<1>12. Current' = Current
  BY <1>1 DEF Current
<1>13. st <= Size(Current) /\ (~sending => st = Size(Current)) /\ (sending => given # <<>>)
  BY <1>1, <1>2 DEF PipelinedInv
<1> QED
  BY <1>1, <1>2, <1>6, <1>8, <1>9, <1>10, <1>11, <1>12, <1>13 DEF PipelinedInv

LEMMA ReceiveTrapsPipelined ==
  ASSUME PipelinedInv, NEW k \in 1 .. Len(wire), ReceiveTraps(k)
  PROVE  PipelinedInv'
<1>1. /\ Recv(k) /\ buf' = Arrived(k) /\ receiver' = "trap"
      /\ UNCHANGED <<given, sending, st, up, taken>>
  BY DEF ReceiveTraps, Recv, senderVars
<1>2. Arrived(k) \in Seq(Token) /\ wire' \in Seq(Token)
  BY <1>1, RecvKeepsPlaces
<1> QED
  BY <1>1, <1>2 DEF PipelinedInv, TypeOK, FirstIsWhole

LEMMA InitPipelined == Init => PipelinedInv
<1> SUFFICES ASSUME Init
             PROVE  PipelinedInv
  OBVIOUS
<1>1. TypeOK
  BY EmptySeq DEF Init, TypeOK
<1>2. FirstIsWhole
  BY DEF Init, FirstIsWhole
<1>3. Ends(buf) = {}
  BY DEF Init, Ends
<1>4. ~Complete(buf) /\ ~NullLine(buf)
  BY <1>3 DEF Complete, NullLine
<1> QED
  BY <1>1, <1>2, <1>4 DEF Init, PipelinedInv

LEMMA NextPipelined ==
  ASSUME PipelinedInv, [Next]_vars
  PROVE  PipelinedInv'
<1>1. ASSUME NEW m \in Shapes, Begin(m)
      PROVE  PipelinedInv'
  BY <1>1, BeginPipelined
<1>2. CASE SendLoop
  BY <1>2, SendSegmentPipelined, QuietStepsPipelined DEF SendLoop
<1>3. CASE SenderEnds \/ ReceiverEnds
  BY <1>3, QuietStepsPipelined
<1>4. CASE ReceiveLoop
  BY <1>4, QuietStepsPipelined, ReceivePartPipelined, ReceiveRestPipelined,
     ReceiveTrapsPipelined DEF ReceiveLoop
<1>5. CASE UNCHANGED vars
  BY <1>5 DEF vars, senderVars, receiverVars, PipelinedInv, TypeOK, FirstIsWhole, Current
<1> QED
  BY <1>1, <1>2, <1>3, <1>4, <1>5 DEF Next

(***************************************************************************)
(* In any stream every token received or on its way is in the place its    *)
(* message gives it.                                                       *)
(***************************************************************************)
THEOREM PipelinedInvariance == Spec => []PipelinedInv
<1>1. Init => PipelinedInv
  BY InitPipelined
<1>2. PipelinedInv /\ [Next]_vars => PipelinedInv'
  BY NextPipelined
<1> QED
  BY <1>1, <1>2, PTL DEF Spec

(***************************************************************************)
(* rtsp_recv_msg, called where a message begins, returns all of that       *)
(* message, whatever has arrived of the messages behind it.                *)
(***************************************************************************)
THEOREM FirstMessageIsWhole == Spec => []FirstIsWhole
<1>1. PipelinedInv => FirstIsWhole
  BY DEF PipelinedInv
<1> QED
  BY <1>1, PipelinedInvariance, PTL

(***************************************************************************)
(* Called there, it does not wait for bytes that nobody will send.         *)
(***************************************************************************)
THEOREM NeverStuck == Spec => []NeverStuckAtAMessage
<1>1. ASSUME PipelinedInv
      PROVE  NeverStuckAtAMessage
  <2> SUFFICES ASSUME BeginsAMessage(buf), receiver = "recv", ~sending, wire = <<>>
               PROVE  FALSE
    BY DEF NeverStuckAtAMessage
  <2>1. TypeOK /\ buf \in Seq(Token) /\ buf # <<>> /\ buf[1].at = 1
    BY <1>1 DEF PipelinedInv, TypeOK, BeginsAMessage
  <2>2. buf \o wire = buf
    BY <2>1, ConcatEmptySeq
  <2>3. given # <<>>
    BY <1>1, <2>1 DEF PipelinedInv
  <2>4. /\ Current \in Shapes /\ ~Complete(buf) /\ ~NullLine(buf)
        /\ InPlace(buf) /\ EndsWith(buf, Current, Size(Current))
    BY <1>1, <2>1, <2>2, <2>3, CurrentIsAShape DEF PipelinedInv
  <2> QED
    BY <2>1, <2>4, WholeMessagesAreComplete
<1> QED
  BY <1>1, PipelinedInvariance, PTL

-----------------------------------------------------------------------------
(***************************************************************************)
(* Nothing is lost, doubled or out of order: what was returned, what is    *)
(* received and what is on its way are the beginning of what was given.    *)
(***************************************************************************)
LEMMA PrefixOfConcat ==
  ASSUME NEW S, NEW s \in Seq(S), NEW t \in Seq(S), NEW e \in 0 .. Len(t)
  PROVE  SubSeq(s \o t, 1, Len(s) + e) = s \o SubSeq(t, 1, e)
<1> DEFINE n == Len(s)
           f == s \o t
           l == SubSeq(f, 1, n + e)
           u == SubSeq(t, 1, e)
           r == s \o u
<1>1. n \in Nat /\ Len(t) \in Nat /\ e \in Nat /\ e <= Len(t)
  BY LenProperties
<1>2. /\ f \in Seq(S) /\ Len(f) = n + Len(t)
      /\ \A i \in 1 .. n + Len(t) : f[i] = IF i <= n THEN s[i] ELSE t[i - n]
  BY ConcatProperties
<1>3. u \in Seq(S) /\ Len(u) = e /\ \A i \in 1 .. e : u[i] = t[i]
  <2>1. \A i \in 1 .. e : t[i] \in S
    BY <1>1, ElementOfSeq
  <2>2. /\ u \in Seq(S) /\ Len(u) = IF 1 <= e THEN e - 1 + 1 ELSE 0
        /\ \A i \in 1 .. e - 1 + 1 : u[i] = t[1 + i - 1]
    BY <1>1, <2>1, SubSeqProperties
  <2> HIDE DEF u
  <2>3. e - 1 + 1 = e /\ \A i \in 1 .. e : 1 + i - 1 = i
    BY <1>1
  <2> QED
    BY <1>1, <2>2, <2>3
<1> HIDE DEF f, u
<1>4. /\ r \in Seq(S) /\ Len(r) = n + e
      /\ \A i \in 1 .. n + e : r[i] = IF i <= n THEN s[i] ELSE u[i - n]
  <2>1. /\ r \in Seq(S) /\ Len(r) = Len(s) + Len(u)
        /\ \A i \in 1 .. Len(s) + Len(u) : r[i] = IF i <= Len(s) THEN s[i] ELSE u[i - Len(s)]
    BY <1>3, ConcatProperties
  <2> QED
    BY <1>3, <2>1
<1>5. l \in Seq(S) /\ Len(l) = n + e /\ \A i \in 1 .. n + e : l[i] = f[i]
  <2>1. \A i \in 1 .. n + e : f[i] \in S
    BY <1>1, <1>2, ElementOfSeq
  <2>2. /\ l \in Seq(S) /\ Len(l) = IF 1 <= n + e THEN n + e - 1 + 1 ELSE 0
        /\ \A i \in 1 .. n + e - 1 + 1 : l[i] = f[1 + i - 1]
    BY <1>1, <2>1, SubSeqProperties
  <2> HIDE DEF l
  <2>3. n + e - 1 + 1 = n + e /\ \A i \in 1 .. n + e : 1 + i - 1 = i
    BY <1>1
  <2> QED
    BY <1>1, <2>2, <2>3
<1> HIDE DEF n, r, l
<1>6. ASSUME NEW i \in 1 .. n + e
      PROVE  l[i] = r[i]
  <2>1. i \in 1 .. n + Len(t) /\ (~(i <= n) => i - n \in 1 .. e)
    BY <1>1
  <2> QED
    BY <1>2, <1>3, <1>4, <1>5, <2>1
<1>7. l = r
  BY <1>4, <1>5, <1>6, SeqEqual
<1> QED
  BY <1>7 DEF l, f, n, r, u

\* All of the messages given, and how much of it the sender has sent.
AllGiven == FlattenSeq(Texts(given))

AllSent == SubSeq(AllGiven, 1, IF given = <<>> THEN 0 ELSE Len(AllGiven) - Size(Current) + st)

LEMMA LostOrReordered ==
  NothingLostOrReordered
    <=> (receiver \in {"idle", "recv"} => FlattenSeq(taken) \o buf \o wire = AllSent)
BY DEF NothingLostOrReordered, AllSent, AllGiven, Texts

LEMMA GivenIsTyped ==
  ASSUME NEW g \in Seq(Shapes)
  PROVE  FlattenSeq(Texts(g)) \in Seq(Token) /\ Len(FlattenSeq(Texts(g))) \in Nat
<1>1. FlattenSeq(Texts(g)) \in Seq(Token)
  BY TextsAreASequence, FlattenIsTyped
<1> QED
  BY <1>1, LenProperties

LEMMA OneMoreGiven ==
  ASSUME NEW g \in Seq(Shapes), NEW m \in Shapes
  PROVE  FlattenSeq(Texts(Append(g, m))) = FlattenSeq(Texts(g)) \o Text(m)
<1>1. Texts(g) \in Seq(Seq(Token)) /\ Text(m) \in Seq(Token)
  BY TextsAreASequence, TextsAreTyped
<1> QED
  BY <1>1, OneMoreText, FlattenAppend

\* What is sent is all of the messages before, and the beginning of the last.
LEMMA SentOfTheLast ==
  ASSUME NEW g \in Seq(Shapes), NEW m \in Shapes, NEW s \in 0 .. Size(m)
  PROVE  LET all == FlattenSeq(Texts(Append(g, m)))
         IN  SubSeq(all, 1, Len(all) - Size(m) + s)
               = FlattenSeq(Texts(g)) \o SubSeq(Text(m), 1, s)
<1> DEFINE before == FlattenSeq(Texts(g))
           all == FlattenSeq(Texts(Append(g, m)))
<1>1. /\ before \in Seq(Token) /\ Len(before) \in Nat
      /\ Text(m) \in Seq(Token) /\ Len(Text(m)) = Size(m) /\ Size(m) \in Nat
  BY GivenIsTyped, TextsAreTyped, ShapesHaveSizes
<1>2. all = before \o Text(m)
  BY OneMoreGiven
<1> HIDE DEF before, all
<1>3. Len(all) = Len(before) + Size(m)
  BY <1>1, <1>2, ConcatProperties
<1>4. Len(all) - Size(m) + s = Len(before) + s
  BY <1>1, <1>3
<1>5. SubSeq(all, 1, Len(before) + s) = before \o SubSeq(Text(m), 1, s)
  BY <1>1, <1>2, PrefixOfConcat, SMTT(30)
<1> QED
  BY <1>4, <1>5 DEF before, all

LEMMA CurrentIsLast ==
  ASSUME TypeOK, given # <<>>
  PROVE  \E g \in Seq(Shapes), m \in Shapes : given = Append(g, m) /\ Current = m
<1>1. PICK g \in Seq(Shapes), m \in Shapes : given = Append(g, m)
  BY SequenceEmptyOrAppend DEF TypeOK
<1>2. Current = m
  BY <1>1, AppendProperties DEF Current
<1> QED
  BY <1>1, <1>2

LEMMA BeginKeepsAll ==
  ASSUME PipelinedInv, NothingLostOrReordered, NEW m \in Shapes, Begin(m)
  PROVE  NothingLostOrReordered'
<1>1. /\ TypeOK /\ given \in Seq(Shapes) /\ given' = Append(given, m) /\ ~sending /\ st' = 0
      /\ UNCHANGED <<wire, receiver, buf, taken>>
  BY DEF PipelinedInv, TypeOK, Begin, receiverVars
<1>2. Current' = m /\ given' # <<>>
  BY <1>1, AppendProperties DEF Current
<1>3. AllGiven \in Seq(Token) /\ Len(AllGiven) \in Nat
  BY <1>1, GivenIsTyped DEF AllGiven
<1>4. AllSent' = AllGiven
  <2>1. Size(m) \in Nat
    BY ShapesHaveSizes
  <2>2. AllSent' = AllGiven \o SubSeq(Text(m), 1, 0)
    <3>1. 0 \in 0 .. Size(m)
      BY <2>1
    <3> QED
      BY <1>1, <1>2, <3>1, SentOfTheLast DEF AllSent, AllGiven
  <2>3. SubSeq(Text(m), 1, 0) = <<>>
    BY SubSeqEmpty
  <2> QED
    BY <1>3, <2>2, <2>3, ConcatEmptySeq
<1>5. receiver \in {"idle", "recv"} => AllSent = AllGiven
  <2>1. CASE given = <<>>
    <3>1. AllGiven = <<>>
      <4>1. Len(Texts(given)) = 0 /\ Texts(given) \in Seq(Seq(Token))
        BY <1>1, <2>1, TextsAreASequence, EmptySeq
      <4>2. Texts(given) = <<>>
        BY <4>1, EmptySeq
      <4> QED
        BY <4>2, FlattenNothing DEF AllGiven
    <3>2. AllSent = <<>>
      BY <2>1, SubSeqEmpty DEF AllSent
    <3> QED
      BY <3>1, <3>2
  <2>2. CASE given # <<>>
    <3>1. receiver \in {"idle", "recv"} => st = Size(Current)
      BY <1>1, <2>2 DEF PipelinedInv
    <3>2. Size(Current) \in Nat
      BY <1>1, <2>2, CurrentIsAShape, ShapesHaveSizes
    <3>3. Len(AllGiven) - Size(Current) + Size(Current) = Len(AllGiven)
      BY <1>3, <3>2
    <3> QED
      BY <1>3, <2>2, <3>1, <3>3, SubSeqFull DEF AllSent
  <2> QED
    BY <2>1, <2>2
<1>6. (receiver \in {"idle", "recv"} => FlattenSeq(taken) \o buf \o wire = AllSent)'
  BY <1>1, <1>4, <1>5, LostOrReordered
<1> QED
  BY <1>6 DEF NothingLostOrReordered, AllSent, AllGiven, Texts

LEMMA SendSegmentKeepsAll ==
  ASSUME PipelinedInv, NothingLostOrReordered, SendSegment
  PROVE  NothingLostOrReordered'
<1> DEFINE e == st + SegmentLen
<1>1. /\ TypeOK /\ st < Size(Current) /\ given # <<>> /\ given \in Seq(Shapes)
      /\ wire' = wire \o SubSeq(Text(Current), st + 1, e) /\ st' = e
      /\ UNCHANGED <<given, receiver, buf, taken>>
      /\ buf \in Seq(Token) /\ wire \in Seq(Token) /\ st \in Nat
      /\ taken \in Seq(Seq(Token))
  BY DEF PipelinedInv, TypeOK, SendSegment, receiverVars
<1>2. PICK g \in Seq(Shapes), m \in Shapes : given = Append(g, m) /\ Current = m
  BY <1>1, CurrentIsLast
<1>3. Size(m) \in Nat /\ e \in st .. Size(m) /\ st \in 0 .. Size(m) /\ e \in 0 .. Size(m)
  BY <1>1, <1>2, ShapesHaveSizes, SizesAssumption, SMTT(30) DEF SegmentLen
<1> DEFINE before == FlattenSeq(Texts(g))
           head == SubSeq(Text(m), 1, st)
           t == SubSeq(Text(m), st + 1, e)
           got == FlattenSeq(taken)
<1> HIDE DEF e
<1>4. Current' = m /\ given' = Append(g, m)
  BY <1>1, <1>2 DEF Current
<1>5. AllSent = before \o head /\ AllSent' = before \o SubSeq(Text(m), 1, e)
  <2>1. Append(g, m) # <<>>
    BY AppendProperties
  <2>2. AllSent = before \o head
    BY <1>2, <1>3, <2>1, SentOfTheLast DEF AllSent, AllGiven
  <2>3. AllSent' = before \o SubSeq(Text(m), 1, e)
    BY <1>1, <1>3, <1>4, <2>1, SentOfTheLast DEF AllSent, AllGiven
  <2> QED
    BY <2>2, <2>3
<1>6. SubSeq(Text(m), 1, e) = head \o t /\ head \in Seq(Token) /\ t \in Seq(Token)
  <2>1. 0 \in 0 .. Size(m) /\ st \in 0 .. Size(m) /\ Size(m) \in e .. Size(m) /\ 0 + 1 = 1
    BY <1>3
  <2>2. SubSeq(Text(m), 0 + 1, st) \o t = SubSeq(Text(m), 0 + 1, e)
        /\ SubSeq(Text(m), 0 + 1, st) \in Seq(Token)
    BY <1>3, <2>1, Adjacent
  <2>3. t \in Seq(Token)
    BY <1>3, <2>1, Adjacent
  <2> QED
    BY <2>1, <2>2, <2>3
<1>7. before \in Seq(Token) /\ got \in Seq(Token)
  BY <1>1, GivenIsTyped, FlattenIsTyped
<1> HIDE DEF before, head, t, got
<1>8. before \o SubSeq(Text(m), 1, e) = (before \o head) \o t
  <2>1. before \in Seq(Token) /\ head \in Seq(Token) /\ t \in Seq(Token)
    BY <1>6, <1>7
  <2>2. (before \o head) \o t = before \o (head \o t)
    BY <2>1, ConcatAssociative
  <2> QED
    BY <1>6, <2>2
<1>9. got \o buf \o (wire \o t) = (got \o buf \o wire) \o t
  <2> DEFINE first == got \o buf
  <2>1. first \in Seq(Token) /\ wire \in Seq(Token) /\ t \in Seq(Token)
    BY <1>1, <1>6, <1>7, ConcatProperties
  <2> HIDE DEF first
  <2>2. first \o (wire \o t) = (first \o wire) \o t
    BY <2>1, ConcatAssociative
  <2> QED
    BY <2>2 DEF first
<1>10. wire' = wire \o t
  BY <1>1, <1>2 DEF t
<1>11. receiver \in {"idle", "recv"} => got \o buf \o wire = AllSent
  BY LostOrReordered DEF got
<1>12. receiver' \in {"idle", "recv"} => got \o buf' \o wire' = AllSent'
  BY <1>1, <1>5, <1>8, <1>9, <1>10, <1>11
<1>13. got = FlattenSeq(taken')
  BY <1>1 DEF got
<1> QED
  BY <1>12, <1>13 DEF NothingLostOrReordered, AllSent, AllGiven, Texts

LEMMA ReceiveKeepsAll ==
  ASSUME PipelinedInv, NothingLostOrReordered,
         NEW k \in 1 .. Len(wire), ReceivePart(k) \/ ReceiveRest(k)
  PROVE  NothingLostOrReordered'
<1> DEFINE got == FlattenSeq(taken)
           b == Arrived(k)
<1>1. /\ Recv(k) /\ receiver = "recv" /\ UNCHANGED <<given, st>>
      /\ buf \in Seq(Token) /\ wire \in Seq(Token) /\ taken \in Seq(Seq(Token))
  BY DEF ReceivePart, ReceiveRest, Recv, senderVars, PipelinedInv, TypeOK
<1>2. b \in Seq(Token) /\ wire' \in Seq(Token) /\ b \o wire' = buf \o wire
  BY <1>1, RecvKeepsPlaces
<1>3. AllSent' = AllSent
  BY <1>1 DEF AllSent, AllGiven, Texts, Current
<1>4. got \in Seq(Token)
  BY <1>1, FlattenIsTyped
<1>5. got \o buf \o wire = AllSent
  BY <1>1, LostOrReordered
<1>6. got \o b \o wire' = AllSent
  <2> HIDE DEF got, b
  <2>1. (got \o b) \o wire' = got \o (b \o wire')
    <3>1. got \in Seq(Token) /\ b \in Seq(Token) /\ wire' \in Seq(Token)
      BY <1>2, <1>4
    <3> QED
      BY <3>1, ConcatAssociative
  <2>2. (got \o buf) \o wire = got \o (buf \o wire)
    BY <1>1, <1>4, ConcatAssociative, SMTT(30)
  <2> QED
    BY <1>2, <1>5, <2>1, <2>2
<1>7. CASE ReceivePart(k)
  <2>1. buf' = b /\ taken' = taken
    BY <1>7 DEF ReceivePart
  <2>2. FlattenSeq(taken') \o buf' \o wire' = AllSent'
    BY <1>3, <1>6, <2>1
  <2> QED
    BY <2>2 DEF NothingLostOrReordered, AllSent, AllGiven, Texts
<1>8. CASE ReceiveRest(k)
  <2>1. buf' = <<>> /\ taken' = Append(taken, b)
    BY <1>8 DEF ReceiveRest
  <2> HIDE DEF b
  <2>2. FlattenSeq(taken') = got \o b
    BY <1>1, <1>2, <2>1, FlattenAppend
  <2>3. got \o b \in Seq(Token)
    BY <1>2, <1>4, ConcatProperties
  <2>4. (got \o b) \o buf' = got \o b
    BY <2>1, <2>3, ConcatEmptySeq
  <2>5. FlattenSeq(taken') \o buf' \o wire' = AllSent'
    BY <1>3, <1>6, <2>2, <2>4
  <2> QED
    BY <2>5 DEF NothingLostOrReordered, AllSent, AllGiven, Texts
<1> QED
  BY <1>7, <1>8

LEMMA QuietStepsKeepAll ==
  ASSUME NothingLostOrReordered, UNCHANGED <<given, st, wire, buf, taken>>,
         receiver' \in {"idle", "recv"} => receiver \in {"idle", "recv"}
  PROVE  NothingLostOrReordered'
BY DEF NothingLostOrReordered, Current

LEMMA NextKeepsAll ==
  ASSUME PipelinedInv, NothingLostOrReordered, [Next]_vars
  PROVE  NothingLostOrReordered'
<1>1. ASSUME NEW m \in Shapes, Begin(m)
      PROVE  NothingLostOrReordered'
  BY <1>1, BeginKeepsAll
<1>2. CASE \/ SendDone \/ SendFails \/ SenderEnds
           \/ CallRecv \/ RecvFails \/ ReceiverEnds \/ UNCHANGED vars
  <2>1. /\ UNCHANGED <<given, st, wire, buf, taken>>
        /\ receiver' \in {"idle", "recv"} => receiver \in {"idle", "recv"}
    BY <1>2 DEF SendDone, SendFails, SenderEnds, CallRecv, RecvFails, ReceiverEnds,
                vars, senderVars, receiverVars
  <2> QED
    BY <2>1, QuietStepsKeepAll
<1>3. ASSUME NEW k \in 1 .. Len(wire), ReceiveTraps(k)
      PROVE  NothingLostOrReordered'
  BY <1>3 DEF ReceiveTraps, NothingLostOrReordered
<1> QED
  BY <1>1, <1>2, <1>3, SendSegmentKeepsAll, ReceiveKeepsAll DEF Next, SendLoop, ReceiveLoop

(***************************************************************************)
(* No byte is lost, doubled or out of order between the sender's loop and  *)
(* the texts rtsp_recv_msg has returned, whatever messages follow one      *)
(* another and wherever send and recv cut them.                            *)
(***************************************************************************)
THEOREM AllArrivesInOrder == Spec => []NothingLostOrReordered
<1>1. Init => NothingLostOrReordered
  <2> SUFFICES ASSUME Init
               PROVE  NothingLostOrReordered
    OBVIOUS
  <2>1. given = <<>> /\ taken = <<>> /\ buf = <<>> /\ wire = <<>>
    BY DEF Init
  <2>2. FlattenSeq(taken) \o buf \o wire = <<>>
    <3>1. FlattenSeq(taken) = <<>> /\ <<>> \in Seq(Token)
      BY <2>1, FlattenNothing, EmptySeq
    <3> QED
      BY <2>1, <3>1, ConcatEmptySeq
  <2>3. AllSent = <<>>
    BY <2>1, SubSeqEmpty DEF AllSent
  <2> QED
    BY <2>2, <2>3, LostOrReordered
<1>2. PipelinedInv /\ NothingLostOrReordered /\ [Next]_vars => NothingLostOrReordered'
  BY NextKeepsAll
<1> QED
  BY <1>1, <1>2, PipelinedInvariance, PTL DEF Spec
=============================================================================
