--------------------------- MODULE RtspCodecProofs ---------------------------
(***************************************************************************)
(* Proofs about payloads, messages and descriptions of any length.         *)
(*                                                                         *)
(* First the description parser, with lines of every kind in every order:  *)
(* the entries it makes (MediaMatch) and when it stops (TrapsForAReason).  *)
(*                                                                         *)
(* Then messages: what the parsers make of every line                      *)
(* (AttributesReadBack), that a description is read as it was written      *)
(* (DescriptionReadBack), and that the space allocated for both is what    *)
(* they take (SizesAreExact).  The parser of messages is inductive once    *)
(* each buffer is known to hold the word of the nearest line that had one  *)
(* for it (Held).  That a description is read back rests on where its      *)
(* lines are written (Layout): reading finds the media at the increasing   *)
(* sequence of their places, and there is only one such sequence           *)
(* (IncreasingAgree).  The invariant puts the two parsers together: a      *)
(* description is read only of a message that announces one, after that    *)
(* message is read.                                                        *)
(***************************************************************************)
EXTENDS RtspCodec, SequenceFolds, TLAPS, SequenceTheorems, FiniteSetTheorems,
        FunctionTheorems

-----------------------------------------------------------------------------
(* The parser of descriptions.                                             *)

\* The provers do not know of any literal that it is a string.  Those of the
\* server's own description, and the word of a line that has none, are named.
Literals ==
  {NoWord, "v", "o", "s", "t", "m", "a", "0", "-", "1700000000000", "IN", "IP4",
   "192.168.1.200", "simple-rtsp", "video", "audio", "RTP/AVP", "96", "97",
   "rtpmap", "control", "96 H265/90000", "97 OPUS/48000/2"}
Words == STRING \cup Literals

LineType == [key : Words, parts : Seq(Words)]
MediumType == [desc : Seq(Words), attrs : Seq(Seq(Words))]

SdpTypeOK ==
  /\ lines \in Seq(LineType)
  /\ at \in {"top", "attrs", "done", "trap"}
  /\ j \in Nat \ {0} /\ num \in Nat
  /\ media \in Seq(MediumType)
  /\ heads \in Seq(Nat)

\* Inside the nested loop one entry is open, and the line to read next is the
\* one after its last attribute.
OpenEntry ==
  /\ num <= Len(media)
  /\ at = "attrs" =>
       /\ Len(media) = num + 1
       /\ j = heads[num + 1] + Len(media[num + 1].attrs) + 1

SdpInv == SdpTypeOK /\ OpenEntry /\ MediaMatch

-----------------------------------------------------------------------------
\* What is scanned from words are words.
LEMMA ScannedWords ==
  ASSUME NEW parts \in Seq(Words), NEW n \in Nat
  PROVE  Scanned(parts, n, <<>>) \in Seq(Words)
<1>1. \A w \in 1 .. n : w <= Len(parts) => parts[w] \in Words
  BY ElementOfSeq, LenProperties
<1>2. ASSUME NEW w \in 1 .. n
      PROVE  (IF w <= Len(parts) THEN parts[w] ELSE NoWord) \in Words
  <2>1. NoWord \in Words
    BY DEF Words, Literals
  <2> QED
    BY <1>1, <2>1
<1>3. Scanned(parts, n, <<>>)
        = [w \in 1 .. n |-> IF w <= Len(parts) THEN parts[w] ELSE NoWord]
  BY DEF Scanned
<1>4. Scanned(parts, n, <<>>) \in [1 .. n -> Words]
  BY <1>2, <1>3
<1> QED
  BY <1>4, SeqDef

LEMMA SdpBegins ==
  ASSUME lines \in Seq(LineType), SdpStart
  PROVE  SdpInv
<1>1. /\ media = <<>> /\ heads = <<>> /\ Len(media) = 0 /\ Len(heads) = 0
      /\ at = "top" /\ j = 1 /\ num = 0
  BY EmptySeq DEF SdpStart
<1>2. lines \in Seq(LineType) /\ Len(lines) \in Nat
  BY LenProperties
<1>3. media \in Seq(MediumType) /\ heads \in Seq(Nat)
  BY <1>1, EmptySeq
<1>4. SdpTypeOK
  BY <1>1, <1>2, <1>3 DEF SdpTypeOK
<1>5. HeadsInOrder
  BY <1>1, <1>2 DEF HeadsInOrder
<1> QED
  BY <1>1, <1>4, <1>5 DEF SdpInv, OpenEntry, MediaMatch

LEMMA SeqOfMore ==
  ASSUME NEW S, NEW T, S \subseteq T, NEW s \in Seq(S)
  PROVE  s \in Seq(T)
<1>1. PICK n \in Nat : s \in [1 .. n -> S]
  BY SeqDef
<1>2. s \in [1 .. n -> T]
  BY <1>1
<1> QED
  BY <1>2, SeqDef

LEMMA TextsAreLines ==
  ASSUME NEW t \in Seq([key : STRING, parts : Seq(STRING)])
  PROVE  t \in Seq(LineType)
<1>1. \A s \in Seq(STRING) : s \in Seq(Words)
  BY SeqOfMore DEF Words
<1>2. \A w \in STRING : w \in Words
  BY DEF Words
<1>3. [key : STRING, parts : Seq(STRING)] \subseteq LineType
  BY <1>1, <1>2 DEF LineType
<1> QED
  BY <1>3, SeqOfMore

LEMMA SdpInitially == SdpInit => SdpInv
<1>1. SdpInit => lines \in Seq(LineType) /\ SdpStart
  BY SdpAssumption, TextsAreLines DEF SdpInit
<1> QED
  BY <1>1, SdpBegins

\* A line outside the nested loop that is no medium.
LEMMA ReadSessionKeeps ==
  ASSUME SdpInv, ReadSession
  PROVE  SdpInv'
<1> USE DEF SdpInv
<1>1. /\ at = "top" /\ j <= Len(lines) /\ lines[j].key # "m" /\ j' = j + 1
      /\ UNCHANGED <<lines, at, media, num, heads>>
  BY DEF ReadSession, More
<1>2. SdpTypeOK' /\ OpenEntry'
  BY <1>1 DEF SdpTypeOK, OpenEntry
<1>3. Len(heads) \in Nat /\ Len(lines) \in Nat
  BY LenProperties DEF SdpTypeOK
<1>4. HeadsInOrder'
  <2>1. \A p \in 1 .. Len(lines) : p < j + 1 => p < j \/ p = j
    BY DEF SdpTypeOK
  <2>2. \A e \in 1 .. Len(heads) : heads[e] < j + 1
    BY ElementOfSeq DEF SdpTypeOK, MediaMatch, HeadsInOrder
  <2> QED
    BY <1>1, <2>1, <2>2 DEF MediaMatch, HeadsInOrder, IsMedium
<1>5. (\A e \in 1 .. Len(media) : EntryMatches(e))'
  BY <1>1 DEF MediaMatch, EntryMatches, IsAttr
<1> QED
  BY <1>1, <1>2, <1>4, <1>5 DEF MediaMatch

\* A medium opens an entry.
LEMMA ReadMediumKeeps ==
  ASSUME SdpInv, ReadMedium
  PROVE  SdpInv'
<1> USE DEF SdpInv
<1> DEFINE desc == Scanned(lines[j].parts, 4, <<>>)
<1>1. /\ at = "top" /\ j <= Len(lines) /\ lines[j].key = "m" /\ j' = j + 1
      /\ at' = "attrs" /\ lines' = lines /\ num' = num
      /\ media' = Append(media, [desc |-> desc, attrs |-> <<>>])
      /\ heads' = Append(heads, j)
  BY DEF ReadMedium, More
<1>2. /\ Len(heads) \in Nat /\ Len(lines) \in Nat /\ Len(media) \in Nat
      /\ j \in 1 .. Len(lines) /\ Len(heads) = Len(media) /\ num = Len(media)
  BY <1>1, LenProperties DEF SdpTypeOK, MediaMatch, HeadsInOrder
<1>3. lines[j] \in LineType
  BY <1>2, ElementOfSeq DEF SdpTypeOK
<1>4. desc \in Seq(Words)
  BY <1>3, ScannedWords DEF LineType
<1>5. PICK m \in MediumType : m = [desc |-> desc, attrs |-> <<>>]
  <2>1. <<>> \in Seq(Seq(Words))
    BY EmptySeq
  <2> QED
    BY <1>4, <2>1 DEF MediumType
<1>6. m.desc = desc /\ m.attrs = <<>> /\ Len(m.attrs) = 0
  BY <1>5, EmptySeq
<1>7. /\ media' \in Seq(MediumType) /\ Len(media') = Len(media) + 1
      /\ \A e \in 1 .. Len(media) : media'[e] = media[e]
      /\ media'[Len(media) + 1] = m
  BY <1>1, <1>5, AppendProperties DEF SdpTypeOK
<1>8. /\ heads' \in Seq(Nat) /\ Len(heads') = Len(heads) + 1
      /\ \A e \in 1 .. Len(heads) : heads'[e] = heads[e]
      /\ heads'[Len(heads) + 1] = j
  BY <1>1, <1>2, AppendProperties DEF SdpTypeOK
<1> HIDE DEF desc
<1>9. SdpTypeOK'
  BY <1>1, <1>7, <1>8 DEF SdpTypeOK
<1>10. OpenEntry'
  BY <1>1, <1>2, <1>6, <1>7, <1>8 DEF OpenEntry
<1>11. \A e \in 1 .. Len(heads') : e \in 1 .. Len(heads) \/ e = Len(heads) + 1
  BY <1>2, <1>8
<1>12. \A e \in 1 .. Len(heads) :
         heads[e] \in 1 .. Len(lines) /\ heads[e] < j /\ IsMedium(heads[e])
  BY DEF MediaMatch, HeadsInOrder
<1>13. HeadsInOrder'
  <2>1. ASSUME NEW e \in 1 .. Len(heads')
        PROVE  heads'[e] \in 1 .. Len(lines) /\ heads'[e] < j + 1
               /\ lines[heads'[e]].key = "m"
    BY <1>1, <1>2, <1>8, <1>11, <1>12 DEF IsMedium
  <2>2. ASSUME NEW e \in 1 .. Len(heads'), NEW f \in 1 .. Len(heads'), e < f
        PROVE  heads'[e] < heads'[f]
    <3>1. e \in 1 .. Len(heads)
      BY <2>2, <1>2, <1>8
    <3>2. CASE f \in 1 .. Len(heads)
      BY <2>2, <3>1, <3>2, <1>8 DEF MediaMatch, HeadsInOrder
    <3>3. CASE f = Len(heads) + 1
      BY <3>1, <3>3, <1>8, <1>12
    <3> QED
      BY <3>2, <3>3, <1>11
  <2>3. ASSUME NEW p \in 1 .. Len(lines), p < j + 1, lines[p].key = "m"
        PROVE  \E e \in 1 .. Len(heads') : heads'[e] = p
    <3>1. CASE p = j
      BY <3>1, <1>2, <1>8
    <3>2. CASE p # j
      <4>1. p < j
        BY <2>3, <3>2, <1>2
      <4>2. PICK e \in 1 .. Len(heads) : heads[e] = p
        BY <2>3, <4>1 DEF MediaMatch, HeadsInOrder, IsMedium
      <4> QED
        BY <4>2, <1>2, <1>8
    <3> QED
      BY <3>1, <3>2
  <2> QED
    BY <1>1, <1>2, <1>7, <1>8, <2>1, <2>2, <2>3 DEF HeadsInOrder, IsMedium
<1>14. ASSUME NEW e \in 1 .. Len(media') PROVE EntryMatches(e)'
  <2>1. CASE e \in 1 .. Len(media)
    <3>1. media'[e] = media[e] /\ heads'[e] = heads[e]
      BY <2>1, <1>2, <1>7, <1>8
    <3>2. EntryMatches(e)
      BY <2>1 DEF MediaMatch
    <3> QED
      BY <1>1, <3>1, <3>2 DEF EntryMatches, IsAttr
  <2>2. CASE e = Len(media) + 1
    <3>1. media'[e] = m /\ heads'[e] = j /\ ~(e <= num')
      BY <2>2, <1>1, <1>2, <1>7, <1>8
    <3>2. m.desc = Scanned(lines'[heads'[e]].parts, 4, <<>>)
      BY <1>1, <1>6, <3>1 DEF desc
    <3>3. \A x \in 1 .. Len(m.attrs) : FALSE
      BY <1>6
    <3> QED
      BY <3>1, <3>2, <3>3 DEF EntryMatches
  <2> QED
    BY <2>1, <2>2, <1>2, <1>7
<1> QED
  BY <1>1, <1>9, <1>10, <1>13, <1>14 DEF MediaMatch

\* An attribute extends the open entry.
LEMMA ReadAttrKeeps ==
  ASSUME SdpInv, ReadAttr, Len(lines[j].parts) >= 2
  PROVE  SdpInv'
<1> USE DEF SdpInv
<1> DEFINE pair == <<lines[j].parts[1], lines[j].parts[2]>>
<1>1. /\ Len(lines) \in Nat /\ Len(heads) = Len(media) /\ num \in Nat
      /\ Len(media) \in Nat /\ Len(media) = num + 1
      /\ at = "attrs" /\ j \in 1 .. Len(lines) /\ IsAttr(j)
      /\ Len(lines[j].parts) >= 2
  BY LenProperties DEF SdpTypeOK, OpenEntry, ReadAttr, AtAttr, More, MediaMatch,
       HeadsInOrder, IsAttr
<1>2. PICK last \in 1 .. Len(media) : last = num + 1 /\ last = Len(media)
  BY <1>1
<1>3. PICK old \in MediumType : old = media[last]
  BY ElementOfSeq DEF SdpTypeOK
<1>4. lines[j] \in LineType
  BY <1>1, ElementOfSeq DEF SdpTypeOK
<1>5. old.attrs \in Seq(Seq(Words)) /\ lines[j].parts \in Seq(Words)
  BY <1>4 DEF LineType, MediumType
<1>6. PICK n \in Nat : n = Len(old.attrs)
  BY <1>5, LenProperties
<1>7. heads[last] \in 1 .. Len(lines) /\ j = heads[last] + n + 1
  BY <1>1, <1>2, <1>3, <1>6 DEF OpenEntry, MediaMatch, HeadsInOrder
<1>8. pair \in Seq(Words)
  <2>1. 1 \in 1 .. Len(lines[j].parts) /\ 2 \in 1 .. Len(lines[j].parts)
    BY <1>1, <1>5, LenProperties
  <2>2. lines[j].parts[1] \in Words /\ lines[j].parts[2] \in Words
    BY <1>5, <2>1, ElementOfSeq
  <2> QED
    BY <2>2
<1>9. /\ media' = [media EXCEPT ![last].attrs = Append(@, pair)]
      /\ j' = j + 1 /\ at' = at
      /\ lines' = lines /\ num' = num /\ heads' = heads
  BY <1>1, <1>2, <1>5, LenProperties DEF ReadAttr
<1> HIDE DEF pair
<1>10. PICK longer \in Seq(Seq(Words)) : longer = Append(old.attrs, pair)
  BY <1>5, <1>8, AppendProperties
<1>11. /\ Len(longer) = n + 1 /\ longer[n + 1] = pair
       /\ \A x \in 1 .. n : longer[x] = old.attrs[x]
  BY <1>5, <1>6, <1>8, <1>10, AppendProperties
<1>12. PICK m \in MediumType : m = [desc |-> old.desc, attrs |-> longer]
  BY DEF MediumType
<1>13. media' = [media EXCEPT ![last] = m]
  <2>1. media' = [media EXCEPT ![last] =
                    [media[last] EXCEPT !.attrs = Append(media[last].attrs, pair)]]
    BY <1>9
  <2>2. PICK d \in Seq(Words), a \in Seq(Seq(Words)) :
          old = [desc |-> d, attrs |-> a]
    BY DEF MediumType
  <2>3. [old EXCEPT !.attrs = longer] = m
    BY <1>12, <2>2
  <2> QED
    BY <1>3, <1>10, <2>1, <2>3
<1>14. /\ media' \in Seq(MediumType) /\ Len(media') = Len(media)
       /\ \A e \in 1 .. Len(media) : e # last => media'[e] = media[e]
       /\ media'[last] = m
  BY <1>13, ExceptSeq DEF SdpTypeOK
<1>15. SdpTypeOK'
  BY <1>9, <1>14 DEF SdpTypeOK
<1>16. OpenEntry'
  <2>1. Len(media'[num + 1].attrs) = n + 1
    BY <1>2, <1>11, <1>12, <1>14
  <2>2. j + 1 = heads[num + 1] + Len(media'[num + 1].attrs) + 1
    BY <1>1, <1>2, <1>7, <2>1
  <2>3. num <= Len(media') /\ Len(media') = num + 1
    BY <1>1, <1>14
  <2> QED
    BY <1>9, <2>2, <2>3 DEF OpenEntry
<1>17. HeadsInOrder'
  <2>1. \A p \in 1 .. Len(lines) : p < j + 1 /\ lines[p].key = "m" => p < j
    BY <1>1 DEF IsAttr
  <2>2. \A e \in 1 .. Len(heads) : heads[e] \in Nat /\ heads[e] < j
    BY ElementOfSeq DEF SdpTypeOK, MediaMatch, HeadsInOrder
  <2>3. \A e \in 1 .. Len(heads) : heads[e] < j + 1
    BY <2>2 DEF SdpTypeOK
  <2> QED
    BY <1>9, <1>14, <2>1, <2>3 DEF MediaMatch, HeadsInOrder, IsMedium
<1>18. ASSUME NEW e \in 1 .. Len(media') PROVE EntryMatches(e)'
  <2>1. EntryMatches(e) /\ e \in 1 .. Len(media)
    BY <1>14 DEF MediaMatch
  <2>2. CASE e # last
    <3>1. media'[e] = media[e]
      BY <1>14, <2>1, <2>2
    <3> QED
      BY <1>9, <2>1, <3>1 DEF EntryMatches, IsAttr
  <2>3. CASE e = last
    <3>1. media'[e] = m /\ ~(e <= num')
      BY <1>1, <1>2, <1>9, <1>14, <2>3, SMTT(30)
    <3>2. m.desc = Scanned(lines'[heads'[e]].parts, 4, <<>>)
      BY <1>3, <1>9, <1>12, <2>1, <2>3 DEF EntryMatches
    <3>3. ASSUME NEW x \in 1 .. Len(m.attrs)
          PROVE  IsAttr(heads[e] + x)
                 /\ m.attrs[x] = <<lines[heads[e] + x].parts[1],
                                   lines[heads[e] + x].parts[2]>>
      <4>1. CASE x \in 1 .. n
        BY <1>3, <1>6, <1>11, <1>12, <2>1, <2>3, <4>1 DEF EntryMatches
      <4>2. CASE x = n + 1
        <5>1. heads[e] + x = j
          BY <1>1, <1>7, <2>3, <4>2
        <5> QED
          BY <1>1, <1>11, <1>12, <4>2, <5>1 DEF pair
      <4>3. x \in 1 .. n \/ x = n + 1
        BY <1>11, <1>12
      <4> QED
        BY <4>1, <4>2, <4>3
    <3> QED
      BY <1>9, <3>1, <3>2, <3>3 DEF EntryMatches, IsAttr
  <2> QED
    BY <2>2, <2>3
<1> QED
  BY <1>1, <1>9, <1>15, <1>16, <1>17, <1>18 DEF MediaMatch

\* The nested loop leaves: what it stopped at is no attribute, so the entry is
\* complete.
LEMMA EndMediumKeeps ==
  ASSUME SdpInv, EndMedium
  PROVE  SdpInv'
<1> USE DEF SdpInv
<1>1. /\ at = "attrs" /\ ~AtAttr /\ at' = "top" /\ num' = num + 1
      /\ UNCHANGED <<lines, j, session, media, heads>>
  BY DEF EndMedium
<1>2. /\ Len(media) = num + 1 /\ j = heads[num + 1] + Len(media[num + 1].attrs) + 1
      /\ num \in Nat /\ Len(media) \in Nat
  BY <1>1 DEF OpenEntry, SdpTypeOK
<1>3. ~IsAttr(j)
  BY <1>1 DEF IsAttr, AtAttr, More
<1>4. SdpTypeOK' /\ OpenEntry'
  BY <1>1, <1>2 DEF SdpTypeOK, OpenEntry
<1>5. HeadsInOrder'
  BY <1>1 DEF MediaMatch, HeadsInOrder, IsMedium
<1>6. ASSUME NEW e \in 1 .. Len(media) PROVE EntryMatches(e)'
  <2>1. EntryMatches(e)
    BY DEF MediaMatch
  <2>2. e <= num + 1 => ~IsAttr(heads[e] + Len(media[e].attrs) + 1)
    <3>1. CASE e <= num
      BY <2>1, <3>1 DEF EntryMatches
    <3>2. CASE e = num + 1
      BY <1>2, <1>3, <3>2
    <3> QED
      BY <1>2, <3>1, <3>2
  <2> QED
    BY <1>1, <2>1, <2>2 DEF EntryMatches, IsAttr
<1> QED
  BY <1>1, <1>2, <1>4, <1>5, <1>6 DEF MediaMatch

\* The end of the text, a trap, and a step that changes nothing.
Stops ==
  \/ SdpTraps
  \/ SdpFinish
  \/ UNCHANGED sdpVars
  \/ ReadAttr /\ Len(lines[j].parts) < 2

LEMMA StopsKeep ==
  ASSUME SdpInv, Stops
  PROVE  SdpInv'
<1> USE DEF SdpInv
<1>1. /\ UNCHANGED <<lines, j, media, num, heads>>
      /\ at' = at \/ at' = "trap" \/ (at' = "done" /\ at = "top")
  BY DEF Stops, SdpTraps, SdpFinish, sdpVars, ReadAttr
<1>2. SdpTypeOK' /\ OpenEntry'
  BY <1>1 DEF SdpTypeOK, OpenEntry
<1>3. HeadsInOrder'
  BY <1>1 DEF MediaMatch, HeadsInOrder, IsMedium
<1>4. (\A e \in 1 .. Len(media) : EntryMatches(e))'
  BY <1>1 DEF MediaMatch, EntryMatches, IsAttr
<1> QED
  BY <1>1, <1>2, <1>3, <1>4 DEF MediaMatch

LEMMA SdpStepKeeps == SdpInv /\ [SdpNext]_sdpVars => SdpInv'
<1> SUFFICES ASSUME SdpInv, [SdpNext]_sdpVars PROVE SdpInv'
  OBVIOUS
<1>1. CASE ReadAttr
  <2>1. CASE Len(lines[j].parts) < 2
    BY <1>1, <2>1, StopsKeep DEF Stops
  <2>2. CASE ~(Len(lines[j].parts) < 2)
    <3>1. lines[j] \in LineType
      BY <1>1, ElementOfSeq DEF ReadAttr, AtAttr, More, SdpInv, SdpTypeOK
    <3>2. Len(lines[j].parts) \in Nat
      BY <3>1, LenProperties DEF LineType
    <3>3. Len(lines[j].parts) >= 2
      BY <2>2, <3>2
    <3> QED
      BY <1>1, <3>3, ReadAttrKeeps
  <2> QED
    BY <2>1, <2>2
<1>2. CASE SdpTraps \/ SdpFinish
  BY <1>2, StopsKeep DEF Stops
<1>3. CASE UNCHANGED sdpVars
  BY <1>3, StopsKeep DEF Stops
<1> QED
  BY <1>1, <1>2, <1>3, ReadSessionKeeps, ReadMediumKeeps, EndMediumKeeps DEF SdpNext

\* The inductive invariant of the line parser: types, which entry is open, and
\* that the entries and the lines match.
THEOREM DescriptionParsing == SdpSpec => []SdpInv
<1> QED
  BY SdpInitially, SdpStepKeeps, PTL DEF SdpSpec

\* However many lines of whatever kind a payload has, the entries of sdp->media
\* stand for its "m" lines in order, each with exactly the attributes that
\* directly follow it.
THEOREM MediaAreMatched == SdpSpec => []MediaMatch
<1>1. SdpInv => MediaMatch
  BY DEF SdpInv
<1> QED
  BY <1>1, DescriptionParsing, PTL

-----------------------------------------------------------------------------
\* Every line passed could be taken, the attributes of an entry are behind, and
\* the parser stops where its end says.
Taken(p) ==
  /\ ~Overflows(lines[p].parts, Scans(lines[p].key))
  /\ ~(lines[p].key = "o" /\ Len(lines[p].parts) > 6)
  /\ OfAMedium(p) => Len(lines[p].parts) >= 2

EntriesPassed ==
  \A e \in 1 .. Len(media) : heads[e] + Len(media[e].attrs) < j

PassInv ==
  /\ SdpInv
  /\ EntriesPassed
  /\ \A p \in 1 .. Len(lines) : p < j => Taken(p)
  /\ Len(media) <= MaxMedia
  /\ at = "trap" => Unreadable
  /\ at = "done" => lines # <<>> /\ ~More

MediaLines == {p \in 1 .. Len(lines) : IsMedium(p)}

\* There are at least as many media as entries, more when one is still to be
\* read, and no more when all lines are passed.
LEMMA MediaAreCounted ==
  ASSUME SdpInv
  PROVE  /\ Cardinality(MediaLines) \in Nat
         /\ Len(heads) <= Cardinality(MediaLines)
         /\ j \in MediaLines => Len(heads) < Cardinality(MediaLines)
         /\ ~More => Cardinality(MediaLines) = Len(heads)
<1>1. Len(lines) \in Nat /\ Len(heads) \in Nat /\ j \in Nat
  BY LenProperties DEF SdpInv, SdpTypeOK
<1>2. IsFiniteSet(MediaLines) /\ Cardinality(MediaLines) \in Nat
  <2>1. IsFiniteSet(1 .. Len(lines))
    BY <1>1, FS_Interval
  <2>2. MediaLines \in SUBSET (1 .. Len(lines))
    BY DEF MediaLines
  <2>3. IsFiniteSet(MediaLines)
    BY <2>1, <2>2, FS_Subset
  <2> QED
    BY <2>3, FS_CardinalityType
<1>3. \A e \in 1 .. Len(heads) : heads[e] \in MediaLines /\ heads[e] < j
  BY DEF SdpInv, MediaMatch, HeadsInOrder, MediaLines
<1>4. heads \in [1 .. Len(heads) -> MediaLines]
  <2>1. heads \in [1 .. Len(heads) -> Nat]
    BY LenProperties DEF SdpInv, SdpTypeOK
  <2> QED
    BY <1>3, <2>1
<1>5. heads \in Injection(1 .. Len(heads), MediaLines)
  <2>1. ASSUME NEW e \in 1 .. Len(heads), NEW f \in 1 .. Len(heads),
               heads[e] = heads[f]
        PROVE  e = f
    <3>1. e < f => heads[e] < heads[f]
      BY DEF SdpInv, MediaMatch, HeadsInOrder
    <3>2. f < e => heads[f] < heads[e]
      BY DEF SdpInv, MediaMatch, HeadsInOrder
    <3>3. heads[e] \in Nat
      BY <1>3 DEF MediaLines
    <3> QED
      BY <1>1, <2>1, <3>1, <3>2, <3>3
  <2> QED
    BY <1>4, <2>1, Fun_IsInj
<1>6. IsFiniteSet(1 .. Len(heads)) /\ Cardinality(1 .. Len(heads)) = Len(heads)
  <2>1. PICK n \in Int : n = Len(heads)
    BY <1>1
  <2>2. IsFiniteSet(1 .. n)
    BY FS_Interval
  <2>3. Cardinality(1 .. n) = IF 1 > n THEN 0 ELSE n - 1 + 1
    BY FS_Interval
  <2> QED
    BY <1>1, <2>1, <2>2, <2>3
<1>7. /\ Len(heads) <= Cardinality(MediaLines)
      /\ Len(heads) = Cardinality(MediaLines) <=>
           heads \in Surjection(1 .. Len(heads), MediaLines)
  BY <1>2, <1>5, <1>6, FS_Injection
<1>8. ASSUME j \in MediaLines PROVE Len(heads) # Cardinality(MediaLines)
  <2>1. SUFFICES ASSUME heads \in Surjection(1 .. Len(heads), MediaLines)
                 PROVE  FALSE
    BY <1>7
  <2>2. PICK e \in 1 .. Len(heads) : heads[e] = j
    BY <1>8, <2>1, Fun_SurjectionProperties
  <2> QED
    BY <1>1, <1>3, <2>2
<1>9. ASSUME ~More PROVE heads \in Surjection(1 .. Len(heads), MediaLines)
  <2>1. ASSUME NEW p \in MediaLines
        PROVE  \E e \in 1 .. Len(heads) : heads[e] = p
    <3>1. p \in 1 .. Len(lines) /\ IsMedium(p) /\ p < j
      BY <1>1, <1>9 DEF MediaLines, More
    <3> QED
      BY <3>1 DEF SdpInv, MediaMatch, HeadsInOrder
  <2> QED
    BY <1>4, <2>1, Fun_IsSurj
<1> QED
  BY <1>1, <1>2, <1>7, <1>8, <1>9

LEMMA PassBegins ==
  ASSUME lines \in Seq(LineType), SdpStart
  PROVE  PassInv
<1>1. SdpInv
  BY SdpBegins
<1>2. media = <<>> /\ Len(media) = 0 /\ at = "top" /\ j = 1
  BY EmptySeq DEF SdpStart
<1>3. Len(lines) \in Nat
  BY <1>1, LenProperties DEF SdpInv, SdpTypeOK
<1> QED
  BY <1>1, <1>2, <1>3, SdpAssumption DEF PassInv, EntriesPassed

LEMMA PassInitially == SdpInit => PassInv
<1>1. SdpInit => lines \in Seq(LineType) /\ SdpStart
  BY SdpAssumption, TextsAreLines DEF SdpInit
<1> QED
  BY <1>1, PassBegins

\* Outside the nested loop the line to read next is no attribute of a medium: the
\* attributes of the nearest medium before it have ended.
LEMMA NoAttrAtTop ==
  ASSUME PassInv, at = "top", j \in 1 .. Len(lines)
  PROVE  ~OfAMedium(j)
<1> SUFFICES ASSUME NEW h \in 1 .. j - 1, IsMedium(h),
                    \A q \in h + 1 .. j : IsAttr(q)
             PROVE  FALSE
  BY DEF OfAMedium
<1>1. Len(lines) \in Nat /\ Len(media) \in Nat /\ Len(heads) = Len(media)
  BY LenProperties DEF PassInv, SdpInv, SdpTypeOK, MediaMatch, HeadsInOrder
<1>2. h \in 1 .. Len(lines) /\ h < j
  BY <1>1
<1>3. PICK e \in 1 .. Len(media) : heads[e] = h
  BY <1>1, <1>2 DEF PassInv, SdpInv, MediaMatch, HeadsInOrder
<1>4. media[e] \in MediumType
  BY ElementOfSeq DEF PassInv, SdpInv, SdpTypeOK
<1>5. Len(media[e].attrs) \in Nat
  BY <1>4, LenProperties DEF MediumType
<1>6. ~IsAttr(h + Len(media[e].attrs) + 1)
  BY <1>1, <1>3 DEF PassInv, SdpInv, MediaMatch, EntryMatches
<1>7. h + Len(media[e].attrs) < j
  BY <1>3 DEF PassInv, EntriesPassed
<1> QED
  BY <1>2, <1>5, <1>6, <1>7

\* In the nested loop it is one, when it is an attribute at all.
LEMMA AttrOfTheOpenEntry ==
  ASSUME SdpInv, at = "attrs", AtAttr
  PROVE  OfAMedium(j)
<1>1. /\ Len(media) \in Nat /\ Len(media) = num + 1 /\ num \in Nat
      /\ Len(heads) = Len(media)
      /\ j = heads[num + 1] + Len(media[num + 1].attrs) + 1 /\ j \in Nat
  BY LenProperties DEF SdpInv, SdpTypeOK, OpenEntry, MediaMatch, HeadsInOrder
<1>2. PICK e \in 1 .. Len(media) : e = num + 1
  BY <1>1
<1>3. /\ heads[e] \in 1 .. Len(lines) /\ heads[e] < j /\ IsMedium(heads[e])
      /\ EntryMatches(e)
  BY <1>1 DEF SdpInv, MediaMatch, HeadsInOrder
<1>4. IsAttr(j) /\ Len(lines) \in Nat /\ j \in 1 .. Len(lines)
  BY LenProperties DEF AtAttr, More, IsAttr, SdpInv, SdpTypeOK
<1>5. media[e] \in MediumType
  BY ElementOfSeq DEF SdpInv, SdpTypeOK
<1>6. Len(media[e].attrs) \in Nat
  BY <1>5, LenProperties DEF MediumType
<1>7. ASSUME NEW q \in heads[e] + 1 .. j PROVE IsAttr(q)
  <2>1. CASE q = j
    BY <1>4, <2>1
  <2>2. CASE q # j
    <3>1. PICK x \in 1 .. Len(media[e].attrs) : q = heads[e] + x
      <4>1. q - heads[e] \in 1 .. Len(media[e].attrs)
        BY <1>1, <1>2, <1>3, <1>4, <1>6, <2>2
      <4>2. q = heads[e] + (q - heads[e])
        BY <1>3, <1>4
      <4> QED
        BY <4>1, <4>2
    <3> QED
      BY <1>3, <3>1 DEF EntryMatches
  <2> QED
    BY <2>1, <2>2
<1>8. heads[e] \in 1 .. j - 1
  BY <1>3, <1>4
<1> QED
  BY <1>3, <1>4, <1>7, <1>8 DEF OfAMedium

\* A step that leaves the text alone leaves what is said of the text alone.
LEMMA TextFixed ==
  ASSUME lines' = lines
  PROVE  (Unreadable <=> Unreadable') /\ \A p : Taken(p) <=> Taken(p)'
BY DEF Unreadable, Taken, OfAMedium, IsAttr, IsMedium, Overflows

LEMMA PassedOneMore ==
  ASSUME PassInv, lines' = lines, j' = j + 1, Taken(j)
  PROVE  (\A p \in 1 .. Len(lines) : p < j => Taken(p))'
<1>1. \A p \in 1 .. Len(lines) : p < j + 1 => p < j \/ p = j
  BY LenProperties DEF PassInv, SdpInv, SdpTypeOK
<1>2. ASSUME NEW p \in 1 .. Len(lines), p < j + 1
      PROVE  Taken(p)'
  <2>1. Taken(p)
    BY <1>1, <1>2 DEF PassInv
  <2> QED
    BY <2>1, TextFixed
<1> QED
  BY <1>2

LEMMA PassReadSession ==
  ASSUME PassInv, ReadSession
  PROVE  PassInv'
<1>1. /\ at = "top" /\ ~LineTraps /\ lines[j].key # "m"
      /\ UNCHANGED <<lines, at, media, num, heads>> /\ j' = j + 1
  BY DEF ReadSession
<1>2. j \in 1 .. Len(lines) /\ Len(media) \in Nat /\ j \in Nat
  BY LenProperties DEF ReadSession, More, PassInv, SdpInv, SdpTypeOK
<1>3. Taken(j)
  BY <1>1, <1>2, NoAttrAtTop DEF Taken, LineTraps
<1>4. EntriesPassed'
  <2>1. ASSUME NEW e \in 1 .. Len(media)
        PROVE  heads[e] + Len(media[e].attrs) < j + 1
    <3>1. heads[e] + Len(media[e].attrs) < j
      BY DEF PassInv, EntriesPassed
    <3>2. heads[e] + Len(media[e].attrs) \in Nat
      <4>1. media[e] \in MediumType
        BY ElementOfSeq DEF PassInv, SdpInv, SdpTypeOK
      <4>2. Len(media[e].attrs) \in Nat
        BY <4>1, LenProperties DEF MediumType
      <4>3. heads[e] \in Nat
        BY DEF PassInv, SdpInv, MediaMatch, HeadsInOrder
      <4> QED
        BY <4>2, <4>3
    <3> QED
      BY <1>2, <3>1, <3>2
  <2> QED
    BY <1>1, <2>1 DEF EntriesPassed
<1>5. SdpInv'
  BY ReadSessionKeeps DEF PassInv
<1> QED
  BY <1>1, <1>3, <1>4, <1>5, PassedOneMore DEF PassInv

LEMMA PassReadMedium ==
  ASSUME PassInv, ReadMedium
  PROVE  PassInv'
<1> DEFINE entry == [desc |-> Scanned(lines[j].parts, 4, <<>>), attrs |-> <<>>]
<1>1. /\ at = "top" /\ ~LineTraps /\ at' = "attrs" /\ lines[j].key = "m"
      /\ lines' = lines /\ j' = j + 1 /\ num' = num
      /\ media' = Append(media, entry) /\ heads' = Append(heads, j)
  BY DEF ReadMedium
<1>2. /\ j \in 1 .. Len(lines) /\ Len(media) \in Nat /\ j \in Nat
      /\ num = Len(media) /\ Len(heads) = Len(media)
  BY <1>1, LenProperties DEF ReadMedium, More, PassInv, SdpInv, SdpTypeOK, MediaMatch,
       HeadsInOrder
<1>3. SdpInv'
  BY ReadMediumKeeps DEF PassInv
<1>4. Taken(j)
  BY <1>1, <1>2, NoAttrAtTop DEF Taken, LineTraps
<1>5. /\ Len(media') = Len(media) + 1
      /\ \A e \in 1 .. Len(media) : media'[e] = media[e] /\ heads'[e] = heads[e]
      /\ media'[Len(media) + 1] = entry /\ heads'[Len(media) + 1] = j
  <2>1. lines[j] \in LineType
    BY <1>2, ElementOfSeq DEF PassInv, SdpInv, SdpTypeOK
  <2>2. Scanned(lines[j].parts, 4, <<>>) \in Seq(Words)
    BY <2>1, ScannedWords DEF LineType
  <2>3. <<>> \in Seq(Seq(Words))
    BY EmptySeq
  <2>4. entry \in MediumType
    BY <2>2, <2>3 DEF MediumType
  <2>5. media \in Seq(MediumType) /\ heads \in Seq(Nat)
    BY DEF PassInv, SdpInv, SdpTypeOK
  <2> HIDE DEF entry
  <2> QED
    BY <1>1, <1>2, <2>4, <2>5, AppendProperties
<1>6. EntriesPassed'
  <2>1. ASSUME NEW e \in 1 .. Len(media')
        PROVE  heads'[e] + Len(media'[e].attrs) < j + 1
    <3>1. CASE e \in 1 .. Len(media)
      <4>1. heads[e] + Len(media[e].attrs) < j
        BY <3>1 DEF PassInv, EntriesPassed
      <4>2. media[e] \in MediumType
        BY <3>1, ElementOfSeq DEF PassInv, SdpInv, SdpTypeOK
      <4>3. Len(media[e].attrs) \in Nat
        BY <4>2, LenProperties DEF MediumType
      <4>4. heads[e] \in Nat
        BY <3>1, <1>2 DEF PassInv, SdpInv, MediaMatch, HeadsInOrder
      <4> QED
        BY <1>2, <1>5, <3>1, <4>1, <4>3, <4>4
    <3>2. CASE e = Len(media) + 1
      <4>1. Len(media'[e].attrs) = 0
        BY <1>5, <3>2, EmptySeq
      <4> QED
        BY <1>2, <1>5, <3>2, <4>1
    <3> QED
      BY <1>2, <1>5, <3>1, <3>2
  <2> QED
    BY <1>1, <2>1 DEF EntriesPassed
<1>7. Len(media') <= MaxMedia
  BY <1>1, <1>2, <1>5, SdpAssumption DEF LineTraps
<1> HIDE DEF entry
<1> QED
  BY <1>1, <1>3, <1>4, <1>6, <1>7, PassedOneMore DEF PassInv

LEMMA PassReadAttr ==
  ASSUME PassInv, ReadAttr, Len(lines[j].parts) >= 2
  PROVE  PassInv'
<1>1. /\ at = "attrs" /\ lines[j].key = "a" /\ AtAttr
      /\ lines' = lines /\ j' = j + 1 /\ at' = at /\ num' = num /\ heads' = heads
  <2>1. lines[j] \in LineType
    BY ElementOfSeq DEF ReadAttr, AtAttr, More, PassInv, SdpInv, SdpTypeOK
  <2>2. Len(lines[j].parts) \in Nat
    BY <2>1, LenProperties DEF LineType
  <2> QED
    BY <2>2 DEF ReadAttr, AtAttr
<1>2. SdpInv'
  BY ReadAttrKeeps DEF PassInv
<1>3. Taken(j)
  BY <1>1 DEF Taken, Overflows, Scans
<1>4. /\ Len(media) \in Nat /\ Len(media') \in Nat
      /\ Len(media) = num + 1 /\ Len(media') = num + 1
      /\ num \in Nat /\ j \in Nat /\ Len(heads) = Len(media)
  BY <1>1, <1>2, LenProperties DEF PassInv, SdpInv, SdpTypeOK, OpenEntry, MediaMatch,
       HeadsInOrder
<1>5. EntriesPassed'
  <2>1. ASSUME NEW e \in 1 .. Len(media')
        PROVE  heads[e] + Len(media'[e].attrs) < j + 1
    <3>1. media'[e] \in MediumType
      BY <1>2, ElementOfSeq DEF SdpInv, SdpTypeOK
    <3>2. Len(media'[e].attrs) \in Nat
      BY <3>1, LenProperties DEF MediumType
    <3>3. heads[e] \in Nat
      BY <1>4 DEF PassInv, SdpInv, MediaMatch, HeadsInOrder
    <3>4. CASE e = num + 1
      <4>1. j + 1 = heads[e] + Len(media'[e].attrs) + 1
        BY <1>1, <1>2, <3>4 DEF SdpInv, OpenEntry
      <4> QED
        BY <1>4, <3>2, <3>3, <4>1
    <3>5. CASE e # num + 1
      <4>1. media'[e] = media[e]
        BY <1>1, <1>4, <3>5 DEF ReadAttr, PassInv, SdpInv, SdpTypeOK
      <4>2. heads[e] + Len(media[e].attrs) < j
        BY <1>4 DEF PassInv, EntriesPassed
      <4> QED
        BY <1>4, <3>2, <3>3, <4>1, <4>2
    <3> QED
      BY <3>4, <3>5
  <2> QED
    BY <1>1, <2>1 DEF EntriesPassed
<1> QED
  BY <1>1, <1>2, <1>3, <1>4, <1>5, PassedOneMore DEF PassInv

LEMMA PassEndMedium ==
  ASSUME PassInv, EndMedium
  PROVE  PassInv'
<1>1. at' = "top" /\ UNCHANGED <<lines, j, media, heads>>
  BY DEF EndMedium
<1>2. SdpInv'
  BY EndMediumKeeps DEF PassInv
<1>3. EntriesPassed'
  BY <1>1 DEF PassInv, EntriesPassed
<1>4. (\A p \in 1 .. Len(lines) : p < j => Taken(p))'
  BY <1>1, TextFixed DEF PassInv
<1> QED
  BY <1>1, <1>2, <1>3, <1>4 DEF PassInv

\* A trap, the end, or nothing.
LEMMA PassStops ==
  ASSUME PassInv, Stops
  PROVE  PassInv'
<1>1. UNCHANGED <<lines, j, media, num, heads>>
  BY DEF Stops, SdpTraps, SdpFinish, sdpVars, ReadAttr
<1>2. SdpInv'
  BY StopsKeep DEF PassInv
<1>3. EntriesPassed'
  BY <1>1 DEF PassInv, EntriesPassed
<1>4. (\A p \in 1 .. Len(lines) : p < j => Taken(p))'
  BY <1>1, TextFixed DEF PassInv
<1>5. at' = "trap" => Unreadable
  <2>1. CASE SdpTraps
    <3>1. CASE lines = <<>>
      BY <3>1 DEF Unreadable
    <3>2. CASE lines # <<>>
      <4>1. at = "top" /\ LineTraps /\ j \in 1 .. Len(lines)
        BY <2>1, <3>2, LenProperties DEF SdpTraps, More, PassInv, SdpInv, SdpTypeOK
      <4>2. CASE Overflows(lines[j].parts, Scans(lines[j].key))
        BY <4>1, <4>2 DEF Unreadable
      <4>3. CASE lines[j].key = "o" /\ Len(lines[j].parts) > 6
        BY <4>1, <4>3 DEF Unreadable
      <4>4. CASE lines[j].key = "m" /\ num >= MaxMedia
        <5>1. j \in MediaLines
          BY <4>1, <4>4 DEF MediaLines, IsMedium
        <5>2. Len(heads) < Cardinality(MediaLines) /\ Cardinality(MediaLines) \in Nat
          BY <5>1, MediaAreCounted DEF PassInv
        <5>3. num = Len(heads) /\ num \in Nat
          BY <4>1 DEF PassInv, SdpInv, SdpTypeOK, MediaMatch, HeadsInOrder
        <5>4. Cardinality(MediaLines) > MaxMedia
          BY <4>4, <5>2, <5>3, SdpAssumption
        <5> QED
          BY <5>4 DEF Unreadable, MediaLines
      <4> QED
        BY <4>1, <4>2, <4>3, <4>4 DEF LineTraps
    <3> QED
      BY <3>1, <3>2
  <2>2. CASE ReadAttr /\ Len(lines[j].parts) < 2
    <3>1. at = "attrs" /\ AtAttr /\ j \in 1 .. Len(lines)
      BY <2>2, LenProperties DEF ReadAttr, AtAttr, More, PassInv, SdpInv, SdpTypeOK
    <3>2. OfAMedium(j)
      BY <3>1, AttrOfTheOpenEntry DEF PassInv
    <3> QED
      BY <2>2, <3>1, <3>2 DEF Unreadable
  <2>3. CASE SdpFinish \/ UNCHANGED sdpVars
    BY <2>3 DEF SdpFinish, sdpVars, PassInv
  <2> QED
    BY <2>1, <2>2, <2>3 DEF Stops
<1>6. at' = "done" => lines # <<>> /\ ~More
  <2>1. CASE SdpTraps
    BY <2>1 DEF SdpTraps
  <2>2. CASE ReadAttr
    BY <2>2 DEF ReadAttr
  <2>3. CASE SdpFinish
    BY <2>3 DEF SdpFinish
  <2>4. CASE UNCHANGED sdpVars
    BY <2>4 DEF sdpVars, PassInv
  <2> QED
    BY <2>1, <2>2, <2>3, <2>4 DEF Stops
<1>7. (at = "trap" => Unreadable)'
  BY <1>1, <1>5, TextFixed
<1>8. (at = "done" => lines # <<>> /\ ~More)'
  BY <1>1, <1>6 DEF More
<1>9. (Len(media) <= MaxMedia)'
  BY <1>1 DEF PassInv
<1> QED
  BY <1>2, <1>3, <1>4, <1>7, <1>8, <1>9 DEF PassInv

LEMMA PassStep == PassInv /\ [SdpNext]_sdpVars => PassInv'
<1> SUFFICES ASSUME PassInv, [SdpNext]_sdpVars PROVE PassInv'
  OBVIOUS
<1>1. CASE ReadAttr
  <2>1. lines[j] \in LineType
    BY <1>1, ElementOfSeq DEF ReadAttr, AtAttr, More, PassInv, SdpInv, SdpTypeOK
  <2>2. Len(lines[j].parts) \in Nat
    BY <2>1, LenProperties DEF LineType
  <2>3. CASE Len(lines[j].parts) < 2
    BY <1>1, <2>3, PassStops DEF Stops
  <2>4. CASE Len(lines[j].parts) >= 2
    BY <1>1, <2>4, PassReadAttr
  <2> QED
    BY <2>2, <2>3, <2>4
<1>2. CASE SdpTraps \/ SdpFinish
  BY <1>2, PassStops DEF Stops
<1>3. CASE UNCHANGED sdpVars
  BY <1>3, PassStops DEF Stops
<1> QED
  BY <1>1, <1>2, <1>3, PassReadSession, PassReadMedium, PassEndMedium DEF SdpNext

LEMMA PassImpliesReason == PassInv => TrapsForAReason
<1> SUFFICES ASSUME PassInv PROVE TrapsForAReason
  OBVIOUS
<1>1. ASSUME at = "done" PROVE ~Unreadable
  <2>1. lines # <<>> /\ ~More
    BY <1>1 DEF PassInv
  <2>2. \A p \in 1 .. Len(lines) : Taken(p)
    <3>1. \A p \in 1 .. Len(lines) : p < j
      BY <2>1, LenProperties DEF More, PassInv, SdpInv, SdpTypeOK
    <3> QED
      BY <3>1 DEF PassInv
  <2>3. ASSUME NEW p \in 1 .. Len(lines), OfAMedium(p)
        PROVE  ~(Len(lines[p].parts) < 2)
    <3>1. lines[p] \in LineType
      BY ElementOfSeq DEF PassInv, SdpInv, SdpTypeOK
    <3>2. Len(lines[p].parts) \in Nat
      BY <3>1, LenProperties DEF LineType
    <3>3. Len(lines[p].parts) >= 2
      BY <2>2, <2>3 DEF Taken
    <3> QED
      BY <3>2, <3>3
  <2>4. ~(Cardinality(MediaLines) > MaxMedia)
    <3>1. Cardinality(MediaLines) = Len(heads) /\ Cardinality(MediaLines) \in Nat
      BY <2>1, MediaAreCounted DEF PassInv
    <3>2. Len(heads) <= MaxMedia
      BY DEF PassInv, SdpInv, MediaMatch, HeadsInOrder
    <3> QED
      BY <3>1, <3>2, SdpAssumption
  <2> QED
    BY <2>1, <2>2, <2>3, <2>4 DEF Unreadable, Taken, MediaLines
<1> QED
  BY <1>1 DEF TrapsForAReason, PassInv

\* The parser runs into undefined behaviour exactly on the texts of which one
\* can tell without it, and never writes an entry beyond the array.
THEOREM TrapsAreForeseeable == SdpSpec => []TrapsForAReason
<1>1. SdpSpec => []PassInv
  BY PassInitially, PassStep, PTL DEF SdpSpec
<1> QED
  BY <1>1, PassImpliesReason, PTL

-----------------------------------------------------------------------------
(* Messages, and the descriptions in them.                                 *)

\* Lines and attributes of words of a set V.  Some words of an answer are put
\* together of others, of which the provers do not know that these are strings.
LinesOf(V) == [key : V, parts : Seq(V)]
AttrsOf(V) == [key : Known, val : V]

RtspTypeOK(V) ==
  /\ NoWord \in V
  /\ message.first \in Seq(V)
  /\ message.header \in Seq(LinesOf(V)) /\ message.body \in Seq(LinesOf(V))
  /\ k \in 1 .. Len(Rest) + 1
  /\ attrs \in Seq(AttrsOf(V))
  /\ scanned \in [Known -> [1 .. 1 -> V]]

\* The lines up to n that have a word for the buffer of a key, and what the
\* buffer holds after them.
Filling(key, n) == {i \in 1 .. n : Rest[i].key = key /\ Rest[i].parts # <<>>}

LastWord(S) ==
  IF S = {} THEN NoWord
  ELSE LET i == CHOOSE i \in S : \A o \in S : o <= i IN Rest[i].parts[1]

Held(key, n) == LastWord(Filling(key, n))

\* The lines up to n that become attributes.
KnownTo(n) == {l \in 1 .. n : Rest[l].key \in Known}

\* Each buffer holds the word of the nearest line passed that had one for it,
\* which is what makes the value of a line without a word.
ParserInv(V) ==
  /\ RtspTypeOK(V)
  /\ \A key \in Known : scanned[key][1] = Held(key, k - 1)
  /\ AttributesReadBack

-----------------------------------------------------------------------------
LEMMA LinesAreTyped ==
  ASSUME NEW V, RtspTypeOK(V)
  PROVE  Rest \in Seq(LinesOf(V)) /\ Len(Rest) \in Nat
<1>1. Rest \in Seq(LinesOf(V))
  BY ConcatProperties DEF RtspTypeOK, Rest
<1> QED
  BY <1>1, LenProperties

\* The value of a line is what its buffer holds after it.
LEMMA ValueIsHeld == \A l : ValueOf(l) = Held(Rest[l].key, l)
BY DEF ValueOf, Held, LastWord, Filling

LEMMA TextStays ==
  ASSUME message' = message
  PROVE  /\ Rest' = Rest
         /\ \A key, n : Held(key, n)' = Held(key, n)
         /\ \A l : ValueOf(l)' = ValueOf(l)
<1>1. Rest' = Rest
  BY DEF Rest
<1>2. ASSUME NEW key, NEW n
      PROVE  Held(key, n)' = Held(key, n)
  <2>1. Filling(key, n)' = Filling(key, n)
    BY <1>1 DEF Filling
  <2> QED
    BY <1>1, <2>1 DEF Held, LastWord
<1>3. ASSUME NEW l
      PROVE  ValueOf(l)' = ValueOf(l)
  BY <1>1 DEF ValueOf
<1> QED
  BY <1>1, <1>2, <1>3

LEMMA SameLines ==
  ASSUME NEW V, ParserInv(V), UNCHANGED <<message, k, attrs, scanned>>
  PROVE  ParserInv(V)'
<1>1. Rest' = Rest
  BY TextStays
<1>2. RtspTypeOK(V)'
  BY <1>1 DEF ParserInv, RtspTypeOK
<1>3. (\A key \in Known : scanned[key][1] = Held(key, k - 1))'
  BY TextStays DEF ParserInv
<1>4. AttributesReadBack'
  BY TextStays DEF ParserInv, AttributesReadBack
<1> QED
  BY <1>2, <1>3, <1>4 DEF ParserInv

\* A line whose key is another, or that has no word, leaves the buffer as it is.
LEMMA HeldStays ==
  ASSUME NEW n \in Nat, NEW key, Rest[n + 1].key # key \/ Rest[n + 1].parts = <<>>
  PROVE  Held(key, n + 1) = Held(key, n)
<1>1. Filling(key, n + 1) = Filling(key, n)
  BY DEF Filling
<1> QED
  BY <1>1 DEF Held

\* A line with a word puts it into the buffer.
LEMMA HeldIsNew ==
  ASSUME NEW n \in Nat, Rest[n + 1].parts # <<>>
  PROVE  Held(Rest[n + 1].key, n + 1) = Rest[n + 1].parts[1]
<1> DEFINE S == Filling(Rest[n + 1].key, n + 1)
<1>1. n + 1 \in S /\ \A o \in S : o <= n + 1
  BY DEF Filling
<1>2. S \subseteq Nat
  BY DEF Filling
<1>3. \A i \in S : (\A o \in S : o <= i) => i = n + 1
  BY <1>1, <1>2
<1>4. (CHOOSE i \in S : \A o \in S : o <= i) = n + 1
  <2> HIDE DEF S
  <2> QED
    BY <1>1, <1>3
<1> QED
  BY <1>1, <1>4 DEF Held, LastWord

LEMMA KnownIsFinite ==
  ASSUME NEW n \in Nat
  PROVE  /\ IsFiniteSet(KnownTo(n)) /\ Cardinality(KnownTo(n)) \in Nat
         /\ \A l \in KnownTo(n) :
              LET s == {i \in KnownTo(n) : i <= l}
              IN  Cardinality(s) \in 1 .. Cardinality(KnownTo(n))
<1>1. IsFiniteSet(KnownTo(n))
  <2>1. IsFiniteSet(1 .. n)
    BY FS_Interval
  <2> QED
    BY <2>1, FS_Subset DEF KnownTo
<1>2. Cardinality(KnownTo(n)) \in Nat
  BY <1>1, FS_CardinalityType
<1>3. ASSUME NEW l \in KnownTo(n)
      PROVE  Cardinality({i \in KnownTo(n) : i <= l}) \in 1 .. Cardinality(KnownTo(n))
  <2> DEFINE s == {i \in KnownTo(n) : i <= l}
  <2>1. IsFiniteSet(s) /\ Cardinality(s) <= Cardinality(KnownTo(n))
    BY <1>1, FS_Subset
  <2>2. l \in s
    BY <1>3 DEF KnownTo
  <2> HIDE DEF s
  <2>3. Cardinality(s) \in Nat /\ Cardinality(s) # 0
    BY <2>1, <2>2, FS_CardinalityType, FS_EmptySet
  <2> QED
    BY <1>2, <2>1, <2>3 DEF s
<1> QED
  BY <1>1, <1>2, <1>3

-----------------------------------------------------------------------------
\* Where a message begins to be read.
Begun ==
  /\ rd = "first" /\ k = 1 /\ first = <<>> /\ attrs = <<>>
  /\ scanned = [key \in Known |-> <<NoWord>>] /\ payload = FALSE

LEMMA ParserBegins ==
  ASSUME NEW V, NoWord \in V, message.first \in Seq(V),
         message.header \in Seq(LinesOf(V)), message.body \in Seq(LinesOf(V)), Begun
  PROVE  ParserInv(V)
<1>1. Rest \in Seq(LinesOf(V)) /\ Len(Rest) \in Nat
  <2>1. Rest \in Seq(LinesOf(V))
    BY ConcatProperties DEF Rest
  <2> QED
    BY <2>1, LenProperties
<1>3. k = 1 /\ k - 1 = 0 /\ attrs = <<>> /\ Len(attrs) = 0
  <2>1. k = 1 /\ attrs = <<>>
    BY DEF Begun
  <2> QED
    BY <2>1, EmptySeq
<1>4. scanned \in [Known -> [1 .. 1 -> V]] /\ \A key \in Known : scanned[key][1] = NoWord
  <2>1. scanned = [key \in Known |-> <<NoWord>>]
    BY DEF Begun
  <2>2. <<NoWord>> \in [1 .. 1 -> V] /\ <<NoWord>>[1] = NoWord
    <3>1. <<NoWord>> \in Seq(V) /\ Len(<<NoWord>>) = 1 /\ <<NoWord>>[1] = NoWord
      OBVIOUS
    <3> QED
      BY <3>1, LenProperties
  <2> QED
    BY <2>1, <2>2
<1>5. RtspTypeOK(V)
  <2>1. k \in 1 .. Len(Rest) + 1
    BY <1>1, <1>3
  <2>2. attrs \in Seq(AttrsOf(V))
    BY <1>3, EmptySeq
  <2> QED
    BY <1>4, <2>1, <2>2 DEF RtspTypeOK
<1>6. \A key : Held(key, 0) = NoWord
  BY DEF Held, LastWord, Filling
<1>7. AttributesReadBack
  <2>1. {l \in 1 .. k - 1 : Rest[l].key \in Known} = {}
    BY <1>3
  <2>2. Len(attrs) = 0
    BY <1>3, EmptySeq
  <2> QED
    BY <2>1, <2>2, FS_EmptySet DEF AttributesReadBack
<1> QED
  BY <1>3, <1>4, <1>5, <1>6, <1>7 DEF ParserInv

LEMMA ReadKnownKeeps ==
  ASSUME NEW V, ParserInv(V), ReadKnown
  PROVE  ParserInv(V)'
<1> DEFINE key == Rest[k].key
           val == Scanned(Rest[k].parts, 1, scanned[key])
<1> USE DEF ParserInv
<1>1. Rest \in Seq(LinesOf(V)) /\ Len(Rest) \in Nat /\ Rest' = Rest /\ message' = message
  BY LinesAreTyped DEF ReadKnown, Rest
<1>2. k \in 1 .. Len(Rest) /\ k \in Nat /\ k - 1 \in Nat /\ key \in Known
  BY <1>1 DEF RtspTypeOK, ReadKnown, MoreLines
<1>3. CASE Overflows(Rest[k].parts, 1)
  <2>1. UNCHANGED <<k, attrs, scanned>>
    BY <1>3 DEF ReadKnown
  <2> QED
    BY <1>1, <2>1, SameLines
<1>4. CASE ~Overflows(Rest[k].parts, 1)
  <2>1. /\ attrs' = Append(attrs, [key |-> key, val |-> val[1]])
        /\ scanned' = [scanned EXCEPT ![key] = val] /\ k' = k + 1
    BY <1>4 DEF ReadKnown
  <2>2. Rest[k] \in LinesOf(V)
    BY <1>1, <1>2, ElementOfSeq
  <2>3. val \in [1 .. 1 -> V] /\ val[1] = Held(key, k)
    <3>1. scanned[key] \in [1 .. 1 -> V] /\ scanned[key][1] = Held(key, k - 1)
      BY <1>2 DEF RtspTypeOK
    <3>2. scanned[key] # <<>>
      BY <3>1
    <3>3. Len(Rest[k].parts) \in Nat /\ Rest[k].parts \in Seq(V)
      BY <2>2, LenProperties DEF LinesOf
    <3>4. val = [w \in 1 .. 1 |-> IF w <= Len(Rest[k].parts) THEN Rest[k].parts[w]
                                  ELSE scanned[key][w]]
      BY <3>2 DEF Scanned
    <3>5. CASE Rest[k].parts = <<>>
      <4>1. Len(Rest[k].parts) = 0
        BY <3>5, EmptySeq
      <4>2. Held(key, k) = Held(key, k - 1)
        BY <1>2, <3>5, HeldStays
      <4>3. val = [w \in 1 .. 1 |-> scanned[key][w]]
        BY <3>4, <4>1
      <4> QED
        BY <3>1, <4>2, <4>3
    <3>6. CASE Rest[k].parts # <<>>
      <4>1. Len(Rest[k].parts) >= 1
        BY <3>3, <3>6, EmptySeq
      <4>2. Rest[k].parts[1] \in V
        BY <3>3, <4>1, ElementOfSeq
      <4>3. Held(key, k) = Rest[k].parts[1]
        <5>1. Rest[(k - 1) + 1].parts # <<>> /\ (k - 1) + 1 = k
          BY <1>2, <3>6
        <5>2. Held(Rest[(k - 1) + 1].key, (k - 1) + 1) = Rest[(k - 1) + 1].parts[1]
          BY <1>2, <5>1, HeldIsNew
        <5> QED
          BY <5>1, <5>2
      <4>4. val = [w \in 1 .. 1 |-> Rest[k].parts[w]]
        BY <3>4, <4>1
      <4> QED
        <5>1. val[1] = Rest[k].parts[1]
          BY <4>4
        <5>2. Rest[k].parts[1] \in V
          BY <4>2
        <5> QED
          BY <4>3, <4>4, <5>1, <5>2
    <3> QED
      BY <3>5, <3>6
  <2> HIDE DEF val, key
  <2>4. val[1] \in V
    BY <2>3
  <2>5. PICK a \in AttrsOf(V) : a = [key |-> key, val |-> val[1]]
    BY <1>2, <2>4 DEF AttrsOf
  <2>6. /\ attrs' \in Seq(AttrsOf(V)) /\ Len(attrs') = Len(attrs) + 1
        /\ \A x \in 1 .. Len(attrs) : attrs'[x] = attrs[x]
        /\ attrs'[Len(attrs) + 1] = a /\ Len(attrs) \in Nat
    BY <2>1, <2>5, AppendProperties, LenProperties DEF RtspTypeOK
  <2>7. scanned' \in [Known -> [1 .. 1 -> V]]
    BY <2>1, <2>3 DEF RtspTypeOK
  <2>8. RtspTypeOK(V)'
    BY <1>1, <1>2, <2>1, <2>6, <2>7 DEF RtspTypeOK
  <2>9. \A other, n : Held(other, n)' = Held(other, n)
    BY <1>1, TextStays
  <2>10. (\A other \in Known : scanned[other][1] = Held(other, k - 1))'
    <3> SUFFICES ASSUME NEW other \in Known
                 PROVE  scanned'[other][1] = Held(other, k)
      BY <1>2, <2>1, <2>9
    <3>1. CASE other = key
      BY <2>1, <2>3, <3>1 DEF RtspTypeOK
    <3>2. CASE other # key
      <4>1. Held(other, k) = Held(other, k - 1)
        BY <1>2, <3>2, HeldStays DEF key
      <4> QED
        BY <2>1, <3>2, <4>1 DEF RtspTypeOK
    <3> QED
      BY <3>1, <3>2
  <2>11. AttributesReadBack'
    <3> DEFINE S == KnownTo(k - 1)
    <3>1. /\ Len(attrs) = Cardinality(S)
          /\ \A l \in S : attrs[Cardinality({i \in S : i <= l})]
                            = [key |-> Rest[l].key, val |-> ValueOf(l)]
      BY DEF AttributesReadBack, KnownTo
    <3>2. KnownTo(k) = S \cup {k} /\ k \notin S /\ \A l \in S : l < k
      BY <1>2 DEF KnownTo, key
    <3>3. /\ IsFiniteSet(S) /\ Cardinality(S) \in Nat
          /\ \A l \in S : Cardinality({i \in S : i <= l}) \in 1 .. Cardinality(S)
      BY <1>2, KnownIsFinite
    <3>4. S \subseteq Nat
      BY DEF KnownTo
    <3> HIDE DEF S
    <3>5. Cardinality(KnownTo(k)) = Cardinality(S) + 1
      BY <3>2, <3>3, FS_AddElement
    <3>6. ASSUME NEW l \in KnownTo(k)
          PROVE  attrs'[Cardinality({i \in KnownTo(k) : i <= l})]
                   = [key |-> Rest[l].key, val |-> ValueOf(l)]
      <4>1. CASE l = k
        <5>1. {i \in KnownTo(k) : i <= k} = KnownTo(k)
          <6>1. \A i \in KnownTo(k) : i <= k
            BY <1>2 DEF KnownTo
          <6> QED
            BY <6>1
        <5>2. ValueOf(k) = val[1]
          BY <2>3, ValueIsHeld DEF key
        <5> QED
          BY <2>5, <2>6, <3>1, <3>5, <4>1, <5>1, <5>2 DEF key
      <4>2. CASE l \in S
        <5>1. {i \in KnownTo(k) : i <= l} = {i \in S : i <= l}
          <6>1. l \in Nat /\ l < k /\ k \in Nat
            BY <1>2, <3>2, <3>4, <4>2
          <6>2. ~(k <= l)
            BY <6>1
          <6> QED
            BY <3>2, <6>2
        <5> QED
          BY <2>6, <3>1, <3>3, <4>2, <5>1
      <4> QED
        BY <3>2, <4>1, <4>2
    <3>7. \A l : ValueOf(l)' = ValueOf(l)
      BY <1>1 DEF ValueOf
    <3>8. {l \in 1 .. k - 1 : Rest[l].key \in Known}' = KnownTo(k)
      BY <1>1, <1>2, <2>1 DEF KnownTo
    <3> QED
      BY <1>1, <2>6, <3>1, <3>5, <3>6, <3>7, <3>8 DEF AttributesReadBack
  <2> QED
    BY <2>8, <2>10, <2>11
<1> QED
  BY <1>3, <1>4

LEMMA SkipLineKeeps ==
  ASSUME NEW V, ParserInv(V), SkipLine
  PROVE  ParserInv(V)'
<1> USE DEF ParserInv
<1>1. /\ Rest \in Seq(LinesOf(V)) /\ Len(Rest) \in Nat /\ Rest' = Rest /\ message' = message
      /\ k' = k + 1 /\ attrs' = attrs /\ scanned' = scanned
  BY LinesAreTyped DEF SkipLine, Rest
<1>2. k \in 1 .. Len(Rest) /\ k \in Nat /\ k - 1 \in Nat /\ Rest[k].key \notin Known
  BY <1>1 DEF RtspTypeOK, SkipLine, MoreLines
<1>3. RtspTypeOK(V)'
  BY <1>1, <1>2 DEF RtspTypeOK
<1>4. \A key \in Known : Held(key, k) = Held(key, k - 1)
  BY <1>2, HeldStays
<1>5. \A key, n : Held(key, n)' = Held(key, n)
  BY <1>1, TextStays
<1>6. (\A key \in Known : scanned[key][1] = Held(key, k - 1))'
  BY <1>1, <1>2, <1>4, <1>5
<1>7. {l \in 1 .. k - 1 : Rest[l].key \in Known}'
        = {l \in 1 .. k - 1 : Rest[l].key \in Known}
  BY <1>1, <1>2
<1>8. \A l : ValueOf(l)' = ValueOf(l)
  BY <1>1 DEF ValueOf
<1>9. AttributesReadBack'
  BY <1>1, <1>7, <1>8 DEF AttributesReadBack
<1> QED
  BY <1>3, <1>6, <1>9

LEMMA ParserStep ==
  ASSUME NEW V, ParserInv(V), [RtspNext]_rtspVars
  PROVE  ParserInv(V)'
<1>1. CASE ReadFirst \/ RtspFinish \/ UNCHANGED rtspVars
  <2>1. UNCHANGED <<message, k, attrs, scanned>>
    BY <1>1 DEF ReadFirst, RtspFinish, rtspVars
  <2> QED
    BY <2>1, SameLines
<1> QED
  BY <1>1, ReadKnownKeeps, SkipLineKeeps DEF RtspNext

-----------------------------------------------------------------------------
(***************************************************************************)
(* Where sdp_marshaller_msg puts what.                                     *)
(***************************************************************************)
MediumOf == [desc : [1 .. 4 -> Words], attrs : Seq([1 .. 2 -> Words])]

BlockOf(m) ==
  <<Line("m", m.desc)>> \o [x \in DOMAIN m.attrs |-> Line("a", m.attrs[x])]

Blocks(ms) == [i \in DOMAIN ms |-> BlockOf(ms[i])]
BodyOf(ms) == FlattenSeq(Blocks(ms))

Preamble(d) == <<Line("v", <<d.v>>), Line("o", d.o), Line("s", <<d.s>>), Line("t", d.t)>>

LEMMA WrittenIs == \A d : Written(d) = Preamble(d) \o BodyOf(d.media)
BY DEF Written, Preamble, BodyOf, Blocks, BlockOf

\* Some words are a sequence of words.
LEMMA WordsAreSeq ==
  ASSUME NEW n \in Nat, NEW w \in [1 .. n -> Words]
  PROVE  w \in Seq(Words) /\ Len(w) = n
<1>1. w \in Seq(Words)
  BY SeqDef
<1>2. Len(w) \in Nat /\ 1 .. Len(w) = 1 .. n
  BY <1>1, LenProperties
<1> QED
  BY <1>1, <1>2

LEMMA LineIsTyped ==
  ASSUME NEW l \in Words, NEW w \in Seq(Words)
  PROVE  Line(l, w) \in LineType /\ Line(l, w).key = l /\ Line(l, w).parts = w
BY DEF Line, LineType

LEMMA KeysAreWords == {"v", "o", "s", "t", "m", "a"} \subseteq Words
BY DEF Words, Literals

LEMMA BlockIsTyped ==
  ASSUME NEW m \in MediumOf
  PROVE  /\ BlockOf(m) \in Seq(LineType)
         /\ Len(m.attrs) \in Nat /\ Len(BlockOf(m)) = 1 + Len(m.attrs)
         /\ BlockOf(m)[1] = Line("m", m.desc)
         /\ \A x \in 1 .. Len(m.attrs) : BlockOf(m)[1 + x] = Line("a", m.attrs[x])
<1> DEFINE l == Line("m", m.desc)
           t == [x \in DOMAIN m.attrs |-> Line("a", m.attrs[x])]
<1>1. m.desc \in [1 .. 4 -> Words] /\ m.attrs \in Seq([1 .. 2 -> Words])
  BY DEF MediumOf
<1>2. l \in LineType
  <2>1. m.desc \in Seq(Words)
    BY <1>1, WordsAreSeq
  <2> QED
    BY <2>1, KeysAreWords, LineIsTyped
<1>3. /\ Len(m.attrs) \in Nat /\ DOMAIN m.attrs = 1 .. Len(m.attrs)
  BY <1>1, LenProperties
<1>4. ASSUME NEW x \in 1 .. Len(m.attrs)
      PROVE  Line("a", m.attrs[x]) \in LineType
  <2>1. m.attrs[x] \in [1 .. 2 -> Words]
    BY <1>1, ElementOfSeq
  <2>2. m.attrs[x] \in Seq(Words)
    BY <2>1, WordsAreSeq
  <2> QED
    BY <2>2, KeysAreWords, LineIsTyped
<1>5. /\ t \in Seq(LineType) /\ Len(t) = Len(m.attrs)
      /\ \A x \in 1 .. Len(m.attrs) : t[x] = Line("a", m.attrs[x])
  <2>1. t \in [1 .. Len(m.attrs) -> LineType]
    BY <1>3, <1>4
  <2>2. t \in Seq(LineType)
    BY <1>3, <2>1, SeqDef
  <2>3. Len(t) \in Nat /\ 1 .. Len(t) = 1 .. Len(m.attrs)
    BY <2>1, <2>2, LenProperties
  <2> QED
    BY <1>3, <2>2, <2>3
<1>6. <<l>> \in Seq(LineType) /\ Len(<<l>>) = 1 /\ <<l>>[1] = l
  BY <1>2
<1> HIDE DEF l, t
<1>7. /\ <<l>> \o t \in Seq(LineType) /\ Len(<<l>> \o t) = 1 + Len(t)
      /\ \A i \in 1 .. 1 + Len(t) : (<<l>> \o t)[i] = IF i <= 1 THEN <<l>>[i] ELSE t[i - 1]
  <2>1. PICK h \in Seq(LineType) : h = <<l>>
    BY <1>6
  <2>2. Len(h) = 1 /\ t \in Seq(LineType)
    BY <1>5, <1>6, <2>1
  <2>3. /\ h \o t \in Seq(LineType) /\ Len(h \o t) = Len(h) + Len(t)
        /\ \A i \in 1 .. Len(h) + Len(t) :
             (h \o t)[i] = IF i <= Len(h) THEN h[i] ELSE t[i - Len(h)]
    BY <2>2, ConcatProperties
  <2>4. /\ h \o t \in Seq(LineType) /\ Len(h \o t) = 1 + Len(t)
        /\ \A i \in 1 .. 1 + Len(t) : (h \o t)[i] = IF i <= 1 THEN h[i] ELSE t[i - 1]
    BY <2>2, <2>3
  <2> QED
    BY <2>1, <2>4
<1>8. BlockOf(m) = <<l>> \o t
  BY DEF BlockOf, l, t
<1>9. ASSUME NEW x \in 1 .. Len(m.attrs)
      PROVE  BlockOf(m)[1 + x] = t[x]
  <2>1. 1 + x \in 1 .. 1 + Len(t) /\ ~(1 + x <= 1) /\ (1 + x) - 1 = x
    BY <1>3, <1>5
  <2> QED
    BY <1>7, <1>8, <2>1
<1>10. BlockOf(m)[1] = l
  BY <1>3, <1>5, <1>6, <1>7, <1>8
<1> QED
  BY <1>3, <1>5, <1>7, <1>8, <1>9, <1>10 DEF l

LEMMA BlocksAreTyped ==
  ASSUME NEW ms \in Seq(MediumOf)
  PROVE  /\ Blocks(ms) \in Seq(Seq(LineType)) /\ Len(Blocks(ms)) = Len(ms)
         /\ \A i \in 1 .. Len(ms) : Blocks(ms)[i] = BlockOf(ms[i])
<1>1. Len(ms) \in Nat /\ DOMAIN ms = 1 .. Len(ms)
  BY LenProperties
<1>2. \A i \in 1 .. Len(ms) : BlockOf(ms[i]) \in Seq(LineType)
  BY ElementOfSeq, BlockIsTyped
<1>3. Blocks(ms) \in [1 .. Len(ms) -> Seq(LineType)]
  BY <1>1, <1>2 DEF Blocks
<1>4. Blocks(ms) \in Seq(Seq(LineType))
  BY <1>1, <1>3, SeqDef
<1>5. Len(Blocks(ms)) \in Nat /\ 1 .. Len(Blocks(ms)) = 1 .. Len(ms)
  BY <1>3, <1>4, LenProperties
<1> QED
  BY <1>1, <1>4, <1>5 DEF Blocks

LEMMA BodyOfNothing == BodyOf(<<>>) = <<>>
<1>1. <<>> \in Seq(MediumOf) /\ Len(<<>>) = 0
  BY EmptySeq
<1>2. Blocks(<<>>) \in Seq(Seq(LineType)) /\ Len(Blocks(<<>>)) = 0
  BY <1>1, BlocksAreTyped
<1>3. Blocks(<<>>) = <<>>
  BY <1>2, EmptySeq
<1> QED
  BY <1>3, FlattenNothing DEF BodyOf

LEMMA BodyAppend ==
  ASSUME NEW ms \in Seq(MediumOf), NEW m \in MediumOf
  PROVE  /\ BodyOf(Append(ms, m)) = BodyOf(ms) \o BlockOf(m)
         /\ BodyOf(ms) \in Seq(LineType)
<1> DEFINE n == Len(ms)
           ns == Append(ms, m)
<1>1. /\ ns \in Seq(MediumOf) /\ Len(ns) = n + 1 /\ ns[n + 1] = m /\ n \in Nat
      /\ \A i \in 1 .. n : ns[i] = ms[i]
  BY AppendProperties, LenProperties
<1>2. /\ Blocks(ms) \in Seq(Seq(LineType)) /\ Len(Blocks(ms)) = n
      /\ \A i \in 1 .. n : Blocks(ms)[i] = BlockOf(ms[i])
  BY BlocksAreTyped
<1> HIDE DEF ns
<1>3. /\ Blocks(ns) \in Seq(Seq(LineType)) /\ Len(Blocks(ns)) = n + 1
      /\ \A i \in 1 .. n + 1 : Blocks(ns)[i] = BlockOf(ns[i])
  BY <1>1, BlocksAreTyped
<1>4. BlockOf(m) \in Seq(LineType)
  BY BlockIsTyped
<1> DEFINE bs == Append(Blocks(ms), BlockOf(m))
<1>5. /\ bs \in Seq(Seq(LineType)) /\ Len(bs) = n + 1 /\ bs[n + 1] = BlockOf(m)
      /\ \A i \in 1 .. n : bs[i] = BlockOf(ms[i])
  BY <1>2, <1>4, AppendProperties
<1> HIDE DEF bs, n
<1>6. \A i \in 1 .. n + 1 : i \in 1 .. n \/ i = n + 1
  BY <1>1
<1>7. Blocks(ns) = bs
  <2>1. \A i \in 1 .. n + 1 : Blocks(ns)[i] = bs[i]
    BY <1>1, <1>3, <1>5, <1>6
  <2>2. /\ Blocks(ns) = [i \in 1 .. n + 1 |-> Blocks(ns)[i]]
        /\ bs = [i \in 1 .. n + 1 |-> bs[i]]
    BY <1>3, <1>5, LenProperties
  <2> QED
    BY <2>1, <2>2
<1>8. FlattenSeq(bs) = FlattenSeq(Blocks(ms)) \o BlockOf(m)
  BY <1>2, <1>4, FlattenAppend DEF bs
<1>9. BodyOf(ms) \in Seq(LineType)
  BY <1>2, FlattenIsTyped DEF BodyOf
<1> QED
  BY <1>7, <1>8, <1>9 DEF BodyOf, ns

\* pos says where in the body the medium lines are, and where it ends.
Layout(ms, pos) ==
  /\ pos \in [1 .. Len(ms) + 1 -> Nat \ {0}]
  /\ pos[Len(ms) + 1] = Len(BodyOf(ms)) + 1
  /\ \A i \in 1 .. Len(ms) :
       /\ pos[i + 1] = pos[i] + 1 + Len(ms[i].attrs)
       /\ BodyOf(ms)[pos[i]] = Line("m", ms[i].desc)
       /\ \A x \in 1 .. Len(ms[i].attrs) :
            BodyOf(ms)[pos[i] + x] = Line("a", ms[i].attrs[x])
  /\ \A i, o \in 1 .. Len(ms) + 1 : i < o => pos[i] < pos[o]
  /\ \A p \in 1 .. Len(BodyOf(ms)) :
       BodyOf(ms)[p].key = "m" => \E i \in 1 .. Len(ms) : pos[i] = p

LEMMA LayoutOfNothing == Layout(<<>>, [i \in 1 .. 1 |-> 1])
<1>1. Len(<<>>) = 0 /\ BodyOf(<<>>) = <<>>
  BY BodyOfNothing, EmptySeq
<1> QED
  BY <1>1 DEF Layout

LEMMA LayoutAppend ==
  ASSUME NEW ms \in Seq(MediumOf), NEW m \in MediumOf, NEW pos, Layout(ms, pos)
  PROVE  \E more : Layout(Append(ms, m), more)
<1> DEFINE n == Len(ms)
           ns == Append(ms, m)
           b == BodyOf(ms)
           c == BodyOf(ns)
           w == Len(m.attrs)
           end == Len(b) + 1
           more == [i \in 1 .. n + 2 |-> IF i <= n + 1 THEN pos[i] ELSE end + 1 + w]
<1>1. /\ n \in Nat /\ Len(ns) = n + 1 /\ ns[n + 1] = m
      /\ \A i \in 1 .. n : ns[i] = ms[i]
  BY AppendProperties, LenProperties
<1>2. /\ BlockOf(m) \in Seq(LineType) /\ w \in Nat /\ Len(BlockOf(m)) = 1 + w
      /\ BlockOf(m)[1] = Line("m", m.desc)
      /\ \A x \in 1 .. w : BlockOf(m)[1 + x] = Line("a", m.attrs[x])
  BY BlockIsTyped
<1>3. b \in Seq(LineType) /\ c = b \o BlockOf(m) /\ Len(b) \in Nat /\ end \in Nat
  BY BodyAppend, LenProperties
<1> HIDE DEF ns, w
<1>4. /\ Len(c) = Len(b) + 1 + w
      /\ \A p \in 1 .. Len(b) : c[p] = b[p]
      /\ \A x \in 1 .. 1 + w : c[Len(b) + x] = BlockOf(m)[x]
  <2>1. /\ Len(b \o BlockOf(m)) = Len(b) + Len(BlockOf(m))
        /\ \A i \in 1 .. Len(b) + Len(BlockOf(m)) :
             (b \o BlockOf(m))[i] = IF i <= Len(b) THEN b[i] ELSE BlockOf(m)[i - Len(b)]
    BY <1>2, <1>3, ConcatProperties
  <2> HIDE DEF b, c
  <2>2. ASSUME NEW x \in 1 .. 1 + w
        PROVE  c[Len(b) + x] = BlockOf(m)[x]
    <3>1. /\ Len(b) + x \in 1 .. Len(b) + Len(BlockOf(m))
          /\ ~(Len(b) + x <= Len(b)) /\ (Len(b) + x) - Len(b) = x
      BY <1>2, <1>3
    <3> QED
      BY <1>3, <2>1, <3>1
  <2>3. \A p \in 1 .. Len(b) : c[p] = b[p]
    BY <1>2, <1>3, <2>1
  <2> QED
    BY <1>2, <1>3, <2>1, <2>2, <2>3
<1>5. /\ pos \in [1 .. n + 1 -> Nat \ {0}] /\ pos[n + 1] = end
      /\ \A i \in 1 .. n :
           /\ pos[i + 1] = pos[i] + 1 + Len(ms[i].attrs)
           /\ b[pos[i]] = Line("m", ms[i].desc)
           /\ \A x \in 1 .. Len(ms[i].attrs) : b[pos[i] + x] = Line("a", ms[i].attrs[x])
      /\ \A i, o \in 1 .. n + 1 : i < o => pos[i] < pos[o]
      /\ \A p \in 1 .. Len(b) : b[p].key = "m" => \E i \in 1 .. n : pos[i] = p
  BY DEF Layout
<1>6. \A i \in 1 .. n : Len(ms[i].attrs) \in Nat
  BY ElementOfSeq, BlockIsTyped
<1> HIDE DEF n, b, c, end
<1>7. /\ more \in [1 .. n + 2 -> Nat \ {0}]
      /\ \A i \in 1 .. n + 1 : more[i] = pos[i]
      /\ more[n + 2] = end + 1 + w
  BY <1>1, <1>2, <1>3, <1>5
<1> HIDE DEF more
<1>8. ASSUME NEW i \in 1 .. n, NEW x \in 0 .. Len(ms[i].attrs)
      PROVE  pos[i] + x \in 1 .. Len(b)
  <2>1. pos[i + 1] = pos[i] + 1 + Len(ms[i].attrs) /\ pos[i] \in Nat \ {0}
    <3>1. i \in 1 .. n + 1
      BY <1>1
    <3>2. pos[i] \in Nat \ {0}
      BY <1>5, <3>1
    <3> QED
      BY <1>5, <3>2
  <2>2. pos[i + 1] <= end
    <3>1. i + 1 \in 1 .. n + 1 /\ (i + 1 = n + 1 \/ i + 1 < n + 1) /\ n + 1 \in 1 .. n + 1
      BY <1>1
    <3>2. pos[i + 1] \in Nat /\ pos[n + 1] \in Nat
      BY <1>5, <3>1
    <3>3. pos[i + 1] = pos[n + 1] \/ pos[i + 1] < pos[n + 1]
      BY <1>5, <3>1
    <3> QED
      BY <1>5, <3>2, <3>3
  <2>3. PICK l \in Nat : l = Len(ms[i].attrs)
    BY <1>6
  <2>4. PICK q \in Nat \ {0} : q = pos[i]
    BY <2>1
  <2>5. q + 1 + l <= Len(b) + 1 /\ x \in 0 .. l
    BY <2>1, <2>2, <2>3, <2>4 DEF end
  <2>6. q + x \in 1 .. Len(b)
    BY <1>3, <2>5
  <2> QED
    BY <2>4, <2>6
<1>9. ASSUME NEW i \in 1 .. n + 1
      PROVE  /\ more[i + 1] = more[i] + 1 + Len(ns[i].attrs)
             /\ c[more[i]] = Line("m", ns[i].desc)
             /\ \A x \in 1 .. Len(ns[i].attrs) : c[more[i] + x] = Line("a", ns[i].attrs[x])
  <2>1. CASE i \in 1 .. n
    <3>1. ns[i] = ms[i] /\ more[i] = pos[i] /\ more[i + 1] = pos[i + 1]
      <4>1. i + 1 \in 1 .. n + 1
        BY <1>1, <2>1
      <4> QED
        BY <1>1, <1>7, <2>1, <4>1
    <3>2. \A x \in 0 .. Len(ms[i].attrs) : c[pos[i] + x] = b[pos[i] + x]
      BY <1>4, <1>8, <2>1
    <3>3. pos[i] + 0 = pos[i] /\ 0 \in 0 .. Len(ms[i].attrs)
      <4>1. i \in 1 .. n + 1
        BY <1>1, <2>1
      <4>2. pos[i] \in Nat
        BY <1>5, <4>1
      <4> QED
        BY <1>6, <2>1, <4>2
    <3>4. c[pos[i]] = b[pos[i]]
      BY <3>2, <3>3
    <3>5. \A x \in 1 .. Len(ms[i].attrs) : c[pos[i] + x] = Line("a", ms[i].attrs[x])
      <4>1. \A x \in 1 .. Len(ms[i].attrs) : x \in 0 .. Len(ms[i].attrs)
        BY <1>6, <2>1
      <4> QED
        BY <1>5, <2>1, <3>2, <4>1
    <3>6. c[pos[i]] = Line("m", ms[i].desc) /\ pos[i + 1] = pos[i] + 1 + Len(ms[i].attrs)
      BY <1>5, <2>1, <3>4
    <3> QED
      BY <3>1, <3>5, <3>6
  <2>2. CASE i = n + 1
    <3>1. ns[i] = m /\ more[i] = end /\ more[i + 1] = end + 1 + w
      <4>1. i \in 1 .. n + 1 /\ i + 1 = n + 2
        BY <1>1, <2>2
      <4> QED
        BY <1>1, <1>5, <1>7, <2>2, <4>1
    <3>2. c[end] = Line("m", m.desc)
      <4>1. 1 \in 1 .. 1 + w
        BY <1>2
      <4> QED
        BY <1>2, <1>4, <4>1 DEF end
    <3>3. ASSUME NEW x \in 1 .. w
          PROVE  c[end + x] = Line("a", m.attrs[x])
      <4>1. 1 + x \in 1 .. 1 + w /\ Len(b) + (1 + x) = end + x
        BY <1>2, <1>3 DEF end
      <4>2. c[Len(b) + (1 + x)] = BlockOf(m)[1 + x]
        BY <1>4, <4>1
      <4> QED
        BY <1>2, <4>1, <4>2
    <3> QED
      BY <3>1, <3>2, <3>3 DEF w
  <2> QED
    BY <1>1, <2>1, <2>2
<1>10. ASSUME NEW i \in 1 .. n + 2, NEW o \in 1 .. n + 2, i < o
       PROVE  more[i] < more[o]
  <2>1. i \in 1 .. n + 1 /\ more[i] = pos[i] /\ pos[i] \in Nat
    <3>1. i \in 1 .. n + 1
      BY <1>1, <1>10
    <3> QED
      BY <1>5, <1>7, <3>1
  <2>2. CASE o \in 1 .. n + 1
    BY <1>5, <1>7, <1>10, <2>1, <2>2
  <2>3. CASE o = n + 2
    <3>1. pos[i] <= end
      <4>1. (i = n + 1 \/ i < n + 1) /\ n + 1 \in 1 .. n + 1
        BY <1>1, <2>1
      <4> QED
        BY <1>3, <1>5, <2>1, <4>1
    <3> QED
      BY <1>2, <1>3, <1>7, <2>1, <2>3, <3>1
  <2> QED
    BY <1>1, <2>2, <2>3
<1>11. ASSUME NEW p \in 1 .. Len(c), c[p].key = "m"
       PROVE  \E i \in 1 .. n + 1 : more[i] = p
  <2>1. CASE p \in 1 .. Len(b)
    <3>1. PICK i \in 1 .. n : pos[i] = p
      BY <1>4, <1>5, <1>11, <2>1
    <3>2. i \in 1 .. n + 1
      BY <1>1
    <3> QED
      BY <1>7, <3>1, <3>2
  <2>2. CASE p = end
    <3>1. n + 1 \in 1 .. n + 1
      BY <1>1
    <3> QED
      BY <1>5, <1>7, <2>2, <3>1
  <2>3. CASE p \notin 1 .. Len(b) /\ p # end
    <3>1. PICK x \in 1 .. w : p = Len(b) + (1 + x)
      <4>1. p \in 1 .. Len(b) + 1 + w
        BY <1>4
      <4>2. p - (Len(b) + 1) \in 1 .. w
        BY <1>2, <1>3, <2>3, <4>1 DEF end
      <4>3. p = Len(b) + (1 + (p - (Len(b) + 1)))
        BY <1>3, <4>1
      <4> QED
        BY <4>2, <4>3
    <3>2. 1 + x \in 1 .. 1 + w
      BY <1>2
    <3>3. c[p] = Line("a", m.attrs[x])
      BY <1>2, <1>4, <3>1, <3>2
    <3>4. c[p].key = "a"
      BY <3>3 DEF Line
    <3> QED
      BY <1>11, <3>4
  <2> QED
    BY <2>1, <2>2, <2>3
<1>12. more[n + 2] = Len(c) + 1
  BY <1>2, <1>3, <1>4, <1>7 DEF end
<1>13. Layout(ns, more)
  <2>1. Len(ns) = n + 1 /\ (n + 1) + 1 = n + 2
    BY <1>1
  <2> QED
    BY <1>7, <1>9, <1>10, <1>11, <1>12, <2>1 DEF Layout, c
<1> QED
  BY <1>13 DEF ns

LEMMA LayoutExists ==
  ASSUME NEW ms \in Seq(MediumOf)
  PROVE  \E pos : Layout(ms, pos)
<1> DEFINE P == {t \in Seq(MediumOf) : \E pos : Layout(t, pos)}
<1>1. <<>> \in P
  BY LayoutOfNothing, EmptySeq
<1>2. ASSUME NEW t \in P, NEW m \in MediumOf
      PROVE  Append(t, m) \in P
  BY LayoutAppend, AppendProperties
<1>3. P = Seq(MediumOf)
  <2> HIDE DEF P
  <2>1. P \in SUBSET Seq(MediumOf)
    BY DEF P
  <2> QED
    BY <1>1, <1>2, <2>1, InductionOnLength
<1> QED
  BY <1>3

\* A sequence of n places, in order; and one whose places are all in another.
Rises(f, n) ==
  f \in [1 .. n -> Nat] /\ \A i, o \in 1 .. n : i < o => f[i] < f[o]

Among(f, n, g, m) == \A i \in 1 .. n : \E o \in 1 .. m : f[i] = g[o]

\* Two increasing sequences with the same members are the same.
LEMMA IncreasingAgree ==
  ASSUME NEW n \in Nat, NEW f, Rises(f, n), NEW m \in Nat, NEW g, Rises(g, m),
         Among(f, n, g, m), Among(g, m, f, n)
  PROVE  n = m /\ \A i \in 1 .. n : f[i] = g[i]
<1> USE DEF Rises, Among
<1> DEFINE B == {i \in 1 .. n : ~(i \in 1 .. m /\ f[i] = g[i])}
<1>1. B = {}
  <2> SUFFICES ASSUME B # {}
               PROVE  FALSE
    OBVIOUS
  <2>1. PICK i \in 1 .. n : ~(i \in 1 .. m /\ f[i] = g[i]) /\ \A o \in B : i <= o
    <3>1. B \in SUBSET Nat
      OBVIOUS
    <3>2. Least(B) \in B /\ \A o \in B : Least(B) <= o
      <4> HIDE DEF B
      <4> QED
        BY <3>1, LeastIsLeast
    <3> QED
      BY <3>2
  <2>2. \A o \in 1 .. n : o < i => o \in 1 .. m /\ f[o] = g[o]
    <3>1. \A o \in 1 .. n : o < i => o \notin B
      <4> HIDE DEF B
      <4> QED
        BY <2>1
    <3> QED
      BY <3>1
  <2> HIDE DEF B
  <2>3. PICK o \in 1 .. m : f[i] = g[o]
    OBVIOUS
  <2>4. ~(o < i)
    <3> SUFFICES ASSUME o < i
                 PROVE  FALSE
      OBVIOUS
    <3>1. o \in 1 .. n
      BY <2>1
    <3>2. f[o] = g[o] /\ f[o] < f[i] /\ f[o] \in Nat
      BY <2>2, <3>1
    <3> QED
      BY <2>3, <3>2
  <2>5. i < o /\ i \in 1 .. m
    <3>1. i # o
      BY <2>1, <2>3
    <3> QED
      BY <2>4, <3>1
  <2>6. g[i] < f[i] /\ g[i] \in Nat
    BY <2>3, <2>5
  <2>7. PICK x \in 1 .. n : f[x] = g[i]
    BY <2>5
  <2>8. x < i
    <3>1. i < x => f[i] < f[x]
      OBVIOUS
    <3>2. f[i] \in Nat /\ f[x] \in Nat /\ f[x] < f[i]
      BY <2>6, <2>7
    <3>3. i # x
      BY <3>2
    <3> QED
      BY <3>1, <3>2, <3>3
  <2>9. g[x] = g[i] /\ g[x] < g[i]
    BY <2>2, <2>5, <2>7, <2>8
  <2> QED
    BY <2>6, <2>9
<1>2. \A i \in 1 .. n : i \in 1 .. m /\ f[i] = g[i]
  BY <1>1
<1>3. ~(n < m)
  <2> SUFFICES ASSUME n < m
               PROVE  FALSE
    OBVIOUS
  <2>1. PICK i \in 1 .. n : f[i] = g[m]
    OBVIOUS
  <2>2. i \in 1 .. m /\ i < m /\ m \in 1 .. m /\ g[i] = g[m]
    BY <1>2, <2>1
  <2>3. g[i] < g[m] /\ g[m] \in Nat
    BY <2>2
  <2> QED
    BY <2>2, <2>3
<1>4. ~(m < n)
  BY <1>2
<1> QED
  BY <1>2, <1>3, <1>4

\* Descriptions whose words are among those that the proofs about the parser know.
Described ==
  [v : Words, o : [1 .. 6 -> Words], s : Words, t : [1 .. 2 -> Words],
   media : Seq(MediumOf)]

LEMMA DescriptionIsTyped == Description \subseteq Described
<1> SUFFICES ASSUME NEW d \in Description
             PROVE  d \in Described
  OBVIOUS
<1>1. STRING \subseteq Words
  BY DEF Words
<1>2. /\ d.v \in STRING /\ d.o \in [1 .. 6 -> STRING]
      /\ d.s \in STRING /\ d.t \in [1 .. 2 -> STRING]
      /\ d.media \in Seq([desc : [1 .. 4 -> STRING], attrs : Seq([1 .. 2 -> STRING])])
  BY DEF Description
<1>3. d.o \in [1 .. 6 -> Words] /\ d.t \in [1 .. 2 -> Words]
  BY <1>1, <1>2
<1>4. [1 .. 4 -> STRING] \subseteq [1 .. 4 -> Words]
  BY <1>1
<1>5. [1 .. 2 -> STRING] \subseteq [1 .. 2 -> Words]
  BY <1>1
<1>6. \A s \in Seq([1 .. 2 -> STRING]) : s \in Seq([1 .. 2 -> Words])
  BY <1>5, SeqOfMore
<1>7. [desc : [1 .. 4 -> STRING], attrs : Seq([1 .. 2 -> STRING])] \subseteq MediumOf
  BY <1>4, <1>6 DEF MediumOf
<1>8. d.media \in Seq(MediumOf)
  BY <1>2, <1>7, SeqOfMore
<1>9. d = [v |-> d.v, o |-> d.o, s |-> d.s, t |-> d.t, media |-> d.media]
  BY DEF Description
<1> QED
  BY <1>1, <1>2, <1>3, <1>8, <1>9 DEF Described

LEMMA DescribedIs ==
  ASSUME NEW d \in Described
  PROVE  /\ d.v \in Words /\ d.o \in [1 .. 6 -> Words]
         /\ d.s \in Words /\ d.t \in [1 .. 2 -> Words]
         /\ d.media \in Seq(MediumOf)
BY DEF Described

LEMMA PreambleIs ==
  ASSUME NEW d \in Described
  PROVE  /\ Preamble(d) \in Seq(LineType) /\ Len(Preamble(d)) = 4
         /\ Preamble(d)[1] = Line("v", <<d.v>>) /\ Preamble(d)[2] = Line("o", d.o)
         /\ Preamble(d)[3] = Line("s", <<d.s>>) /\ Preamble(d)[4] = Line("t", d.t)
<1>1. /\ <<d.v>> \in Seq(Words) /\ <<d.s>> \in Seq(Words)
      /\ d.o \in Seq(Words) /\ d.t \in Seq(Words)
  <2>1. d.v \in Words /\ d.s \in Words
    BY DescribedIs
  <2>2. d.o \in [1 .. 6 -> Words] /\ d.t \in [1 .. 2 -> Words]
    BY DescribedIs
  <2>3. d.o \in Seq(Words) /\ d.t \in Seq(Words)
    BY <2>2, WordsAreSeq
  <2> QED
    BY <2>1, <2>3
<1>2. /\ Line("v", <<d.v>>) \in LineType /\ Line("o", d.o) \in LineType
      /\ Line("s", <<d.s>>) \in LineType /\ Line("t", d.t) \in LineType
  BY <1>1, KeysAreWords, LineIsTyped
<1> QED
  BY <1>2 DEF Preamble

\* The text is four lines and the body.
LEMMA WrittenAre ==
  ASSUME NEW d \in Described
  PROVE  LET w == Written(d)
             b == BodyOf(d.media)
         IN  /\ w \in Seq(LineType) /\ b \in Seq(LineType) /\ Len(b) \in Nat
             /\ Len(w) = 4 + Len(b)
             /\ w[1] = Line("v", <<d.v>>) /\ w[2] = Line("o", d.o)
             /\ w[3] = Line("s", <<d.s>>) /\ w[4] = Line("t", d.t)
             /\ \A p \in 1 .. Len(b) : w[4 + p] = b[p]
<1> DEFINE p == Preamble(d)
           b == BodyOf(d.media)
<1>1. b \in Seq(LineType)
  <2>1. Blocks(d.media) \in Seq(Seq(LineType))
    BY DescribedIs, BlocksAreTyped
  <2> QED
    BY <2>1, FlattenIsTyped DEF BodyOf
<1>2. /\ p \in Seq(LineType) /\ Len(p) = 4
      /\ p[1] = Line("v", <<d.v>>) /\ p[2] = Line("o", d.o)
      /\ p[3] = Line("s", <<d.s>>) /\ p[4] = Line("t", d.t)
  BY PreambleIs
<1>3. Written(d) = p \o b
  BY WrittenIs
<1> HIDE DEF p, b
<1>4. Len(b) \in Nat
  BY <1>1, LenProperties
<1>5. /\ p \o b \in Seq(LineType) /\ Len(p \o b) = 4 + Len(b)
      /\ \A i \in 1 .. 4 + Len(b) : (p \o b)[i] = IF i <= 4 THEN p[i] ELSE b[i - 4]
  <2>1. /\ p \o b \in Seq(LineType) /\ Len(p \o b) = Len(p) + Len(b)
        /\ \A i \in 1 .. Len(p) + Len(b) :
             (p \o b)[i] = IF i <= Len(p) THEN p[i] ELSE b[i - Len(p)]
    BY <1>1, <1>2, ConcatProperties
  <2> QED
    BY <1>2, <2>1
<1>6. ASSUME NEW x \in 1 .. Len(b)
      PROVE  (p \o b)[4 + x] = b[x]
  <2>1. 4 + x \in 1 .. 4 + Len(b) /\ ~(4 + x <= 4) /\ (4 + x) - 4 = x
    BY <1>4
  <2> QED
    BY <1>5, <2>1
<1>7. \A i \in {1, 2, 3, 4} : (p \o b)[i] = p[i]
  BY <1>4, <1>5
<1> QED
  BY <1>1, <1>2, <1>3, <1>4, <1>5, <1>6, <1>7 DEF b

\* What MediaMatch says of a text that was written is that what was written is read.
LEMMA MediaReadBack ==
  ASSUME SdpInv, NEW d \in Described, lines = Written(d), ~More, at = "done"
  PROVE  media = d.media
<1> DEFINE ms == d.media
           b == BodyOf(ms)
           n == Len(heads)
           m == Len(ms)
<1>1. ms \in Seq(MediumOf) /\ m \in Nat
  BY DescribedIs, LenProperties
<1>2. /\ b \in Seq(LineType) /\ Len(b) \in Nat /\ Len(lines) = 4 + Len(b)
      /\ lines[1] = Line("v", <<d.v>>) /\ lines[2] = Line("o", d.o)
      /\ lines[3] = Line("s", <<d.s>>) /\ lines[4] = Line("t", d.t)
      /\ \A p \in 1 .. Len(b) : lines[4 + p] = b[p]
  BY WrittenAre
<1>3. PICK pos : Layout(ms, pos)
  BY <1>1, LayoutExists
<1>4. /\ pos \in [1 .. m + 1 -> Nat \ {0}] /\ pos[m + 1] = Len(b) + 1
      /\ \A i \in 1 .. m :
           /\ pos[i + 1] = pos[i] + 1 + Len(ms[i].attrs)
           /\ b[pos[i]] = Line("m", ms[i].desc)
           /\ \A x \in 1 .. Len(ms[i].attrs) : b[pos[i] + x] = Line("a", ms[i].attrs[x])
      /\ \A i, o \in 1 .. m + 1 : i < o => pos[i] < pos[o]
      /\ \A p \in 1 .. Len(b) : b[p].key = "m" => \E i \in 1 .. m : pos[i] = p
  BY <1>3 DEF Layout
<1>5. \A i \in 1 .. m : ms[i] \in MediumOf /\ Len(ms[i].attrs) \in Nat
  BY <1>1, ElementOfSeq, BlockIsTyped
<1>6. /\ media \in Seq(MediumType) /\ heads \in Seq(Nat) /\ n \in Nat /\ n = Len(media)
      /\ j \in Nat /\ num = n
      /\ \A e \in 1 .. n : heads[e] \in 1 .. Len(lines) /\ IsMedium(heads[e])
      /\ \A e, f \in 1 .. n : e < f => heads[e] < heads[f]
      /\ \A p \in 1 .. Len(lines) : IsMedium(p) => \E e \in 1 .. n : heads[e] = p
      /\ \A e \in 1 .. n : EntryMatches(e)
  <2>1. Len(lines) < j
    BY <1>2 DEF More, SdpInv, SdpTypeOK
  <2>2. \A p \in 1 .. Len(lines) : p < j
    BY <1>2, <2>1 DEF SdpInv, SdpTypeOK
  <2> QED
    BY <2>2, LenProperties DEF SdpInv, SdpTypeOK, MediaMatch, HeadsInOrder
<1> HIDE DEF ms, b, n, m
<1>7. \A i \in 1 .. m : pos[i] \in 1 .. Len(b) /\ IsMedium(4 + pos[i])
  <2> TAKE i \in 1 .. m
  <2>1. i \in 1 .. m + 1 /\ m + 1 \in 1 .. m + 1 /\ i < m + 1
    BY <1>1
  <2>2. pos[i] \in Nat \ {0} /\ pos[i] < Len(b) + 1
    BY <1>4, <2>1
  <2>3. pos[i] \in 1 .. Len(b)
    BY <1>2, <2>2
  <2>4. lines[4 + pos[i]] = Line("m", ms[i].desc)
    BY <1>2, <1>4, <2>3
  <2> QED
    BY <2>3, <2>4 DEF IsMedium, Line
<1>8. ASSUME NEW p \in 1 .. Len(lines), IsMedium(p)
      PROVE  \E i \in 1 .. m : p = 4 + pos[i]
  <2>1. lines[p].key = "m"
    BY <1>8 DEF IsMedium
  <2>2. p \notin {1, 2, 3, 4}
    BY <1>2, <2>1 DEF Line
  <2>3. PICK q \in 1 .. Len(b) : p = 4 + q
    <3>1. p - 4 \in 1 .. Len(b) /\ p = 4 + (p - 4)
      BY <1>2, <2>2
    <3> QED
      BY <3>1
  <2>4. b[q].key = "m"
    BY <1>2, <2>1, <2>3
  <2> QED
    BY <1>4, <2>3, <2>4
<1> DEFINE g == [i \in 1 .. m |-> 4 + pos[i]]
<1>9. n = m /\ \A e \in 1 .. n : heads[e] = 4 + pos[e]
  <2>1. heads \in [1 .. n -> Nat]
    BY <1>6, LenProperties DEF n
  <2>2. g \in [1 .. m -> Nat] /\ \A i \in 1 .. m : g[i] = 4 + pos[i]
    <3>1. \A i \in 1 .. m : pos[i] \in Nat
      BY <1>7
    <3> QED
      BY <3>1
  <2>3. ASSUME NEW i \in 1 .. m, NEW o \in 1 .. m, i < o
        PROVE  g[i] < g[o]
    <3>1. pos[i] < pos[o] /\ pos[i] \in Nat /\ pos[o] \in Nat
      <4>1. i \in 1 .. m + 1 /\ o \in 1 .. m + 1
        BY <1>1
      <4> QED
        BY <1>4, <2>3, <4>1
    <3> QED
      BY <2>2, <3>1
  <2> HIDE DEF g
  <2>4. \A e \in 1 .. n : \E i \in 1 .. m : heads[e] = g[i]
    <3> TAKE e \in 1 .. n
    <3>1. heads[e] \in 1 .. Len(lines) /\ IsMedium(heads[e])
      BY <1>6
    <3>2. PICK i \in 1 .. m : heads[e] = 4 + pos[i]
      BY <1>8, <3>1
    <3> QED
      BY <2>2, <3>2
  <2>5. \A i \in 1 .. m : \E e \in 1 .. n : heads[e] = g[i]
    <3> TAKE i \in 1 .. m
    <3>1. 4 + pos[i] \in 1 .. Len(lines) /\ IsMedium(4 + pos[i])
      BY <1>2, <1>7
    <3> QED
      BY <1>6, <2>2, <3>1
  <2>6. n = m /\ \A e \in 1 .. n : heads[e] = g[e]
    <3>1. PICK f \in [1 .. n -> Nat] : f = heads
      BY <2>1
    <3>2. PICK h \in [1 .. m -> Nat] : h = g
      BY <2>2
    <3>3. n \in Nat /\ m \in Nat
      BY <1>1, <1>6
    <3>4. Rises(f, n)
      BY <1>6, <3>1 DEF Rises
    <3>5. Rises(h, m)
      BY <2>3, <3>2 DEF Rises
    <3>6. Among(f, n, h, m)
      BY <2>4, <3>1, <3>2 DEF Among
    <3>7. Among(h, m, f, n)
      BY <2>5, <3>1, <3>2 DEF Among
    <3>8. n = m /\ \A e \in 1 .. n : f[e] = h[e]
      BY <3>3, <3>4, <3>5, <3>6, <3>7, IncreasingAgree
    <3> QED
      BY <3>1, <3>2, <3>8
  <2> QED
    BY <2>2, <2>6
<1> HIDE DEF g
<1>10. ASSUME NEW e \in 1 .. n
       PROVE  media[e] = ms[e]
  <2>1. /\ e \in 1 .. m /\ ms[e] \in MediumOf /\ pos[e] \in 1 .. Len(b)
        /\ heads[e] = 4 + pos[e] /\ media[e] \in MediumType /\ EntryMatches(e) /\ e <= num
    <3>1. e \in 1 .. m /\ e <= num
      BY <1>6, <1>9
    <3>2. media[e] \in MediumType
      BY <1>6, ElementOfSeq
    <3> QED
      BY <1>5, <1>6, <1>7, <1>9, <3>1, <3>2
  <2>2. PICK q \in 1 .. Len(b) : q = pos[e]
    BY <2>1
  <2>3. /\ b[q] = Line("m", ms[e].desc) /\ heads[e] = 4 + q
        /\ pos[e + 1] = q + 1 + Len(ms[e].attrs)
        /\ \A x \in 1 .. Len(ms[e].attrs) : b[q + x] = Line("a", ms[e].attrs[x])
    BY <1>4, <2>1, <2>2
  <2>4. PICK l \in Nat : l = Len(ms[e].attrs)
    BY <1>5, <2>1
  <2>5. PICK c \in Nat : c = Len(media[e].attrs)
    BY <2>1, LenProperties DEF MediumType
  <2>6. /\ media[e].desc = Scanned(lines[4 + q].parts, 4, <<>>)
        /\ \A x \in 1 .. c : /\ IsAttr(4 + q + x)
                             /\ media[e].attrs[x] = <<lines[4 + q + x].parts[1],
                                                      lines[4 + q + x].parts[2]>>
        /\ ~IsAttr(4 + q + c + 1)
    BY <2>1, <2>3, <2>5 DEF EntryMatches
  <2>7. \A x \in 1 .. l : q + x \in 1 .. Len(b)
    <3>1. q + 1 + l <= Len(b) + 1
      <4>1. e + 1 \in 1 .. m + 1 /\ m + 1 \in 1 .. m + 1 /\ (e + 1 = m + 1 \/ e + 1 < m + 1)
        BY <1>1, <2>1
      <4>2. pos[e + 1] = pos[m + 1] \/ pos[e + 1] < pos[m + 1]
        BY <1>4, <4>1
      <4>3. pos[e + 1] \in Nat /\ pos[m + 1] = Len(b) + 1 /\ pos[e + 1] = q + 1 + l
        BY <1>4, <2>3, <2>4, <4>1
      <4> QED
        BY <1>2, <4>2, <4>3
    <3> QED
      BY <1>2, <3>1, SMTT(30)
  <2>8. \A x \in 1 .. l : /\ 4 + q + x \in 1 .. Len(lines)
                          /\ lines[4 + q + x] = Line("a", ms[e].attrs[x])
    <3> TAKE x \in 1 .. l
    <3>1. q + x \in 1 .. Len(b) /\ 4 + q + x = 4 + (q + x)
      BY <2>7
    <3>2. lines[4 + (q + x)] = b[q + x]
      BY <1>2, <3>1
    <3>3. b[q + x] = Line("a", ms[e].attrs[x])
      BY <2>3, <2>4
    <3>4. 4 + (q + x) \in 1 .. Len(lines)
      BY <1>2, <3>1
    <3> QED
      BY <3>1, <3>2, <3>3, <3>4
  <2>9. \A x \in 1 .. l : IsAttr(4 + q + x) /\ lines[4 + q + x].parts = ms[e].attrs[x]
    <3> TAKE x \in 1 .. l
    <3>1. /\ 4 + q + x \in 1 .. Len(lines)
          /\ lines[4 + q + x] = [key |-> "a", parts |-> ms[e].attrs[x]]
      BY <2>8 DEF Line
    <3>2. lines[4 + q + x].key = "a" /\ lines[4 + q + x].parts = ms[e].attrs[x]
      BY <3>1
    <3> QED
      BY <3>1, <3>2 DEF IsAttr
  <2>10. ~IsAttr(4 + q + l + 1)
    <3>1. CASE e = m
      <4>1. q + 1 + l = Len(b) + 1
        BY <1>4, <2>3, <2>4, <3>1
      <4>2. 4 + q + l + 1 \notin 1 .. Len(lines)
        BY <1>2, <4>1, SMTT(30)
      <4> QED
        BY <4>2 DEF IsAttr
    <3>2. CASE e # m
      <4>1. e + 1 \in 1 .. m
        BY <1>1, <2>1, <3>2
      <4>2. IsMedium(4 + pos[e + 1]) /\ pos[e + 1] \in Nat
        BY <1>7, <4>1
      <4>3. 4 + q + l + 1 = 4 + pos[e + 1]
        <5>1. pos[e + 1] = q + 1 + l
          BY <2>3, <2>4
        <5> QED
          BY <4>2, <5>1
      <4> QED
        BY <4>2, <4>3 DEF IsAttr, IsMedium
    <3> QED
      BY <3>1, <3>2
  <2>11. c = l
    <3>1. ~(c < l)
      <4> SUFFICES ASSUME c < l
                   PROVE  FALSE
        OBVIOUS
      <4>1. c + 1 \in 1 .. l /\ 4 + q + (c + 1) = 4 + q + c + 1
        OBVIOUS
      <4> QED
        BY <2>6, <2>9, <4>1
    <3>2. ~(l < c)
      <4> SUFFICES ASSUME l < c
                   PROVE  FALSE
        OBVIOUS
      <4>1. l + 1 \in 1 .. c /\ 4 + q + (l + 1) = 4 + q + l + 1
        OBVIOUS
      <4> QED
        BY <2>6, <2>10, <4>1
    <3> QED
      BY <3>1, <3>2
  <2>12. media[e].attrs = ms[e].attrs
    <3>1. media[e].attrs \in Seq(Seq(Words)) /\ ms[e].attrs \in Seq([1 .. 2 -> Words])
      BY <2>1 DEF MediumType, MediumOf
    <3>2. ASSUME NEW x \in 1 .. l
          PROVE  media[e].attrs[x] = ms[e].attrs[x]
      <4>1. lines[4 + q + x].parts = ms[e].attrs[x]
        BY <2>9
      <4>2. media[e].attrs[x] = <<ms[e].attrs[x][1], ms[e].attrs[x][2]>>
        BY <2>6, <2>11, <4>1, SMTT(30)
      <4>3. PICK a \in [1 .. 2 -> Words] : a = ms[e].attrs[x]
        BY <2>4, <3>1, ElementOfSeq
      <4>4. <<a[1], a[2]>> = a
        <5>1. a \in Seq(Words) /\ Len(a) = 2
          BY WordsAreSeq
        <5> QED
          BY <5>1
      <4> QED
        BY <4>2, <4>3, <4>4
    <3>3. /\ media[e].attrs = [x \in 1 .. l |-> media[e].attrs[x]]
          /\ ms[e].attrs = [x \in 1 .. l |-> ms[e].attrs[x]]
      BY <2>4, <2>5, <2>11, <3>1, LenProperties
    <3> QED
      BY <3>2, <3>3
  <2>13. media[e].desc = ms[e].desc
    <3>1. PICK s \in [1 .. 4 -> Words] : s = ms[e].desc
      BY <2>1 DEF MediumOf
    <3>2. s \in Seq(Words) /\ Len(s) = 4
      BY WordsAreSeq
    <3>3. lines[4 + q].parts = s
      BY <1>2, <2>3, <3>1 DEF Line
    <3>4. Scanned(s, 4, <<>>) = [x \in 1 .. 4 |-> s[x]]
      BY <3>2 DEF Scanned
    <3> QED
      BY <2>6, <3>1, <3>3, <3>4
  <2>14. PICK r \in MediumType : r = media[e]
    BY <2>1
  <2>15. PICK r2 \in MediumOf : r2 = ms[e]
    BY <2>1
  <2>16. r = [desc |-> r.desc, attrs |-> r.attrs]
    BY DEF MediumType
  <2>17. r2 = [desc |-> r2.desc, attrs |-> r2.attrs]
    BY DEF MediumOf
  <2> QED
    BY <2>12, <2>13, <2>14, <2>15, <2>16, <2>17
<1>11. media = ms
  <2>1. /\ media = [e \in 1 .. n |-> media[e]]
        /\ ms = [e \in 1 .. m |-> ms[e]]
    BY <1>1, <1>6, LenProperties DEF m
  <2> QED
    BY <1>9, <1>10, <2>1
<1> QED
  BY <1>11 DEF ms

\* Nothing in the body is taken for a line of the session.
LEMMA BodyKeys ==
  ASSUME NEW ms \in Seq(MediumOf)
  PROVE  \A p \in 1 .. Len(BodyOf(ms)) : BodyOf(ms)[p].key \in {"m", "a"}
<1> DEFINE Keyed(s) == \A p \in 1 .. Len(s) : s[p].key \in {"m", "a"}
           P == {t \in Seq(MediumOf) : Keyed(BodyOf(t))}
<1>1. <<>> \in P
  <2>1. Keyed(<<>>) /\ <<>> \in Seq(MediumOf)
    BY EmptySeq
  <2> QED
    BY <2>1, BodyOfNothing
<1>2. ASSUME NEW t \in P, NEW m \in MediumOf
      PROVE  Append(t, m) \in P
  <2> DEFINE b == BodyOf(t)
             c == BlockOf(m)
  <2>1. b \in Seq(LineType) /\ BodyOf(Append(t, m)) = b \o c
    BY BodyAppend
  <2>2. /\ c \in Seq(LineType) /\ Len(m.attrs) \in Nat /\ Len(c) = 1 + Len(m.attrs)
        /\ c[1].key = "m" /\ \A x \in 1 .. Len(m.attrs) : c[1 + x].key = "a"
    <3>1. /\ c \in Seq(LineType) /\ Len(m.attrs) \in Nat /\ Len(c) = 1 + Len(m.attrs)
          /\ c[1] = Line("m", m.desc)
          /\ \A x \in 1 .. Len(m.attrs) : c[1 + x] = Line("a", m.attrs[x])
      BY BlockIsTyped
    <3>2. \A l, w : Line(l, w).key = l
      BY DEF Line
    <3> HIDE DEF c
    <3> QED
      BY <3>1, <3>2
  <2>3. Keyed(b)
    OBVIOUS
  <2> HIDE DEF b, c
  <2>4. Keyed(c)
    <3> SUFFICES ASSUME NEW p \in 1 .. Len(c)
                 PROVE  c[p].key \in {"m", "a"}
      OBVIOUS
    <3>1. CASE p = 1
      BY <2>2, <3>1
    <3>2. CASE p # 1
      <4>1. p - 1 \in 1 .. Len(m.attrs) /\ 1 + (p - 1) = p
        BY <2>2, <3>2, SMTT(30)
      <4> QED
        BY <2>2, <4>1
    <3> QED
      BY <3>1, <3>2
  <2>5. Keyed(b \o c)
    <3>1. /\ Len(b \o c) = Len(b) + Len(c)
          /\ \A i \in 1 .. Len(b) + Len(c) :
               (b \o c)[i] = IF i <= Len(b) THEN b[i] ELSE c[i - Len(b)]
      <4>1. b \in Seq(LineType) /\ c \in Seq(LineType)
        BY <2>1, <2>2
      <4> QED
        BY <4>1, ConcatProperties
    <3>2. Len(b) \in Nat /\ Len(c) \in Nat
      BY <2>1, <2>2, LenProperties
    <3> SUFFICES ASSUME NEW p \in 1 .. Len(b \o c)
                 PROVE  (b \o c)[p].key \in {"m", "a"}
      OBVIOUS
    <3>3. CASE p <= Len(b)
      <4>1. p \in 1 .. Len(b) /\ (b \o c)[p] = b[p]
        BY <3>1, <3>2, <3>3
      <4> QED
        BY <2>3, <4>1
    <3>4. CASE ~(p <= Len(b))
      <4>1. p - Len(b) \in 1 .. Len(c) /\ (b \o c)[p] = c[p - Len(b)]
        BY <3>1, <3>2, <3>4
      <4> QED
        BY <2>4, <4>1
    <3> QED
      BY <3>3, <3>4
  <2> QED
    BY <2>1, <2>5, AppendProperties
<1>3. P = Seq(MediumOf)
  <2> HIDE DEF P
  <2>1. P \in SUBSET Seq(MediumOf)
    BY DEF P
  <2> QED
    BY <1>1, <1>2, <2>1, InductionOnLength
<1> QED
  BY <1>3

\* The session has four fields, and the lines passed have filled theirs.
SessionRead ==
  /\ session = [v |-> session.v, o |-> session.o, s |-> session.s, t |-> session.t]
  /\ \A d \in Described :
       lines = Written(d) =>
         /\ j > 1 => session.v = <<d.v>>
         /\ j > 2 => session.o = d.o
         /\ j > 3 => session.s = <<d.s>>
         /\ j > 4 => session.t = d.t

LEMMA SessionBegins == SdpStart => SessionRead
BY DEF SdpStart, SessionRead

\* A line of the body is no line of the session.
LEMMA WrittenKeys ==
  ASSUME NEW d \in Described
  PROVE  LET w == Written(d)
         IN  /\ w[1].key = "v" /\ w[1].parts = <<d.v>>
             /\ w[2].key = "o" /\ w[2].parts = d.o
             /\ w[3].key = "s" /\ w[3].parts = <<d.s>>
             /\ w[4].key = "t" /\ w[4].parts = d.t
             /\ \A p \in 1 .. Len(w) : p > 4 => w[p].key \in {"m", "a"}
<1> DEFINE w == Written(d)
           b == BodyOf(d.media)
<1>1. /\ Len(b) \in Nat /\ Len(w) = 4 + Len(b)
      /\ w[1] = Line("v", <<d.v>>) /\ w[2] = Line("o", d.o)
      /\ w[3] = Line("s", <<d.s>>) /\ w[4] = Line("t", d.t)
      /\ \A p \in 1 .. Len(b) : w[4 + p] = b[p]
  BY WrittenAre
<1>2. \A p \in 1 .. Len(b) : b[p].key \in {"m", "a"}
  BY DescribedIs, BodyKeys
<1> HIDE DEF w, b
<1>3. ASSUME NEW p \in 1 .. Len(w), p > 4
      PROVE  w[p].key \in {"m", "a"}
  <2>1. p - 4 \in 1 .. Len(b) /\ 4 + (p - 4) = p
    BY <1>1, <1>3
  <2> QED
    BY <1>1, <1>2, <2>1
<1> QED
  BY <1>1, <1>3 DEF Line, w

LEMMA SessionStep ==
  ASSUME SdpTypeOK, SessionRead, [SdpNext]_sdpVars
  PROVE  SessionRead'
<1>1. CASE SdpTraps \/ EndMedium \/ SdpFinish \/ UNCHANGED sdpVars
  <2>1. UNCHANGED <<lines, j, session>>
    BY <1>1 DEF SdpTraps, EndMedium, SdpFinish, sdpVars
  <2> QED
    BY <2>1 DEF SessionRead
<1>2. CASE ReadMedium \/ ReadAttr
  <2>1. /\ UNCHANGED <<lines, session>> /\ j' \in {j, j + 1}
        /\ lines[j].key \in {"m", "a"} /\ j \in Nat \ {0}
    BY <1>2 DEF ReadMedium, ReadAttr, AtAttr, SdpTypeOK
  <2>2. ASSUME NEW d \in Described, lines = Written(d)
        PROVE  j > 4
    <3>1. j \notin {1, 2, 3, 4}
      BY <2>1, <2>2, WrittenKeys
    <3> QED
      BY <2>1, <3>1
  <2> QED
    BY <2>1, <2>2 DEF SessionRead
<1>3. CASE ReadSession
  <2> DEFINE key == lines[j].key
             parts == lines[j].parts
  <2>1. /\ UNCHANGED lines /\ j' = j + 1 /\ j \in 1 .. Len(lines) /\ key # "m"
        /\ session' = CASE key \in {"v", "s"} -> [session EXCEPT ![key] = parts]
                        [] key \in {"o", "t"} ->
                             [session EXCEPT
                                ![key] = Scanned(parts, Scans(key), session[key])]
                        [] OTHER -> session
        /\ j \in Nat
    BY <1>3, LenProperties DEF ReadSession, More, SdpTypeOK
  <2> DEFINE scan(n) == Scanned(parts, n, session[key])
  <2>2. PICK r : r = session /\ r = [v |-> r.v, o |-> r.o, s |-> r.s, t |-> r.t]
    BY DEF SessionRead
  <2>3. /\ key = "v" => session' = [v |-> parts, o |-> r.o, s |-> r.s, t |-> r.t]
        /\ key = "s" => session' = [v |-> r.v, o |-> r.o, s |-> parts, t |-> r.t]
        /\ key = "o" => session' = [v |-> r.v, o |-> scan(6), s |-> r.s, t |-> r.t]
        /\ key = "t" => session' = [v |-> r.v, o |-> r.o, s |-> r.s, t |-> scan(2)]
        /\ key \notin {"v", "s", "o", "t"} => session' = r
    <3> HIDE DEF key, parts
    <3>1. CASE key = "v"
      BY <2>1, <2>2, <3>1
    <3>2. CASE key = "s"
      BY <2>1, <2>2, <3>2
    <3>3. CASE key = "o"
      BY <2>1, <2>2, <3>3 DEF Scans
    <3>4. CASE key = "t"
      BY <2>1, <2>2, <3>4 DEF Scans
    <3>5. CASE key \notin {"v", "s", "o", "t"}
      BY <2>1, <2>2, <3>5
    <3> QED
      BY <3>1, <3>2, <3>3, <3>4, <3>5
  <2>4. ASSUME NEW n \in Nat, NEW w \in [1 .. n -> Words], parts = w
        PROVE  scan(n) = w
    <3>1. Len(w) = n
      BY WordsAreSeq
    <3>2. scan(n) = [x \in 1 .. n |-> w[x]]
      BY <2>4, <3>1 DEF Scanned
    <3> QED
      BY <3>2
  <2> HIDE DEF key, parts, scan
  <2>5. session' = [v |-> session'.v, o |-> session'.o, s |-> session'.s, t |-> session'.t]
    BY <2>2, <2>3
  <2>6. ASSUME NEW d \in Described, lines = Written(d)
        PROVE  /\ j + 1 > 1 => session'.v = <<d.v>>
               /\ j + 1 > 2 => session'.o = d.o
               /\ j + 1 > 3 => session'.s = <<d.s>>
               /\ j + 1 > 4 => session'.t = d.t
    <3>1. /\ j > 1 => r.v = <<d.v>>
          /\ j > 2 => r.o = d.o
          /\ j > 3 => r.s = <<d.s>>
          /\ j > 4 => r.t = d.t
      BY <2>2, <2>6 DEF SessionRead
    <3>2. /\ j = 1 => key = "v" /\ parts = <<d.v>>
          /\ j = 2 => key = "o" /\ parts = d.o
          /\ j = 3 => key = "s" /\ parts = <<d.s>>
          /\ j = 4 => key = "t" /\ parts = d.t
          /\ j > 4 => key \in {"m", "a"}
      BY <2>1, <2>6, WrittenKeys DEF key, parts
    <3>3. d.o \in [1 .. 6 -> Words] /\ d.t \in [1 .. 2 -> Words]
      BY DescribedIs
    <3>4. CASE j = 1
      BY <2>3, <3>2, <3>4
    <3>5. CASE j = 2
      <4>1. scan(6) = d.o
        BY <2>4, <3>2, <3>3, <3>5
      <4> QED
        BY <2>3, <3>1, <3>2, <3>5, <4>1
    <3>6. CASE j = 3
      BY <2>3, <3>1, <3>2, <3>6
    <3>7. CASE j = 4
      <4>1. scan(2) = d.t
        BY <2>4, <3>2, <3>3, <3>7
      <4> QED
        BY <2>3, <3>1, <3>2, <3>7, <4>1
    <3>8. CASE j > 4
      <4>1. session' = r
        BY <2>3, <3>2, <3>8
      <4>2. j > 1 /\ j > 2 /\ j > 3
        BY <2>1, <3>8
      <4>3. r.v = <<d.v>> /\ r.o = d.o /\ r.s = <<d.s>> /\ r.t = d.t
        BY <3>1, <3>8, <4>2
      <4> QED
        BY <4>1, <4>3
    <3> QED
      BY <2>1, <3>4, <3>5, <3>6, <3>7, <3>8
  <2> QED
    BY <2>1, <2>5, <2>6 DEF SessionRead
<1> QED
  BY <1>1, <1>2, <1>3 DEF SdpNext

LEMMA ReadBack == PassInv /\ SessionRead => DescriptionReadBack
<1> SUFFICES ASSUME PassInv, SessionRead, at = "done",
                    NEW d \in Descriptions, lines = Written(d)
             PROVE  /\ session = [v |-> <<d.v>>, o |-> d.o, s |-> <<d.s>>, t |-> d.t]
                    /\ media = d.media
  BY DEF DescriptionReadBack
<1>1. d \in Described
  BY DescriptionsAssumption, DescriptionIsTyped
<1>2. ~More /\ SdpInv
  BY DEF PassInv
<1>3. media = d.media
  BY <1>1, <1>2, MediaReadBack
<1>4. j > 4
  <2>1. Len(lines) = 4 + Len(BodyOf(d.media)) /\ Len(BodyOf(d.media)) \in Nat
    BY <1>1, WrittenAre
  <2>2. j \in Nat
    BY <1>2 DEF SdpInv, SdpTypeOK
  <2> QED
    BY <1>2, <2>1, <2>2 DEF More
<1>5. j > 1 /\ j > 2 /\ j > 3
  <2>1. j \in Nat
    BY <1>2 DEF SdpInv, SdpTypeOK
  <2> QED
    BY <1>4, <2>1
<1>6. session.v = <<d.v>> /\ session.o = d.o /\ session.s = <<d.s>> /\ session.t = d.t
  BY <1>1, <1>4, <1>5 DEF SessionRead
<1>7. session = [v |-> session.v, o |-> session.o, s |-> session.s, t |-> session.t]
  BY DEF SessionRead
<1> QED
  BY <1>3, <1>6, <1>7

\* What the server describes is made of the literals named above.
LEMMA CreatedIsDescribed == Created("IP4", "192.168.1.200") \in Described
<1> DEFINE W == Words
<1>1. \A w \in Literals : w \in W
  BY DEF Words
<1>2. /\ "0" \in W /\ "-" \in W /\ "1700000000000" \in W /\ "IN" \in W /\ "IP4" \in W
      /\ "192.168.1.200" \in W /\ "simple-rtsp" \in W /\ "video" \in W /\ "audio" \in W
      /\ "RTP/AVP" \in W /\ "96" \in W /\ "97" \in W /\ "rtpmap" \in W /\ "control" \in W
      /\ "96 H265/90000" \in W /\ "97 OPUS/48000/2" \in W
  BY <1>1 DEF Literals
<1> HIDE DEF W
<1>3. \A a, b, c, d, e, f \in W : <<a, b, c, d, e, f>> \in [1 .. 6 -> W]
  OBVIOUS
<1>4. \A a, b, c, d \in W : <<a, b, c, d>> \in [1 .. 4 -> W]
  OBVIOUS
<1>5. \A a, b \in W : <<a, b>> \in [1 .. 2 -> W]
  OBVIOUS
<1>6. \A a, b \in [1 .. 2 -> W] : <<a, b>> \in Seq([1 .. 2 -> W])
  OBVIOUS
<1> DEFINE Of(name, pt, map) ==
             [desc |-> <<name, "0", "RTP/AVP", pt>>,
              attrs |-> <<<<"rtpmap", map>>, <<"control", name>>>>]
<1>7. ASSUME NEW name \in W, NEW pt \in W, NEW map \in W
      PROVE  Of(name, pt, map) \in MediumOf
  <2>1. <<name, "0", "RTP/AVP", pt>> \in [1 .. 4 -> W]
    BY <1>2, <1>4
  <2>2. <<"rtpmap", map>> \in [1 .. 2 -> W] /\ <<"control", name>> \in [1 .. 2 -> W]
    BY <1>2, <1>5
  <2>3. <<<<"rtpmap", map>>, <<"control", name>>>> \in Seq([1 .. 2 -> W])
    BY <1>6, <2>2
  <2> QED
    BY <2>1, <2>3 DEF MediumOf, W
<1>8. Of("video", "96", "96 H265/90000") \in MediumOf
  BY <1>2, <1>7
<1>9. Of("audio", "97", "97 OPUS/48000/2") \in MediumOf
  BY <1>2, <1>7
<1> DEFINE video == Of("video", "96", "96 H265/90000")
           audio == Of("audio", "97", "97 OPUS/48000/2")
<1>10. Created("IP4", "192.168.1.200")
         = [v |-> "0",
            o |-> <<"-", "1700000000000", "1700000000000", "IN", "IP4", "192.168.1.200">>,
            s |-> "simple-rtsp", t |-> <<"0", "0">>, media |-> <<video, audio>>]
  BY DEF Created
<1> HIDE DEF Of
<1>11. <<"-", "1700000000000", "1700000000000", "IN", "IP4", "192.168.1.200">>
         \in [1 .. 6 -> W] /\ <<"0", "0">> \in [1 .. 2 -> W]
  BY <1>2, <1>3, <1>5
<1>12. <<video, audio>> \in Seq(MediumOf)
  <2>1. \A a, b \in MediumOf : <<a, b>> \in Seq(MediumOf)
    OBVIOUS
  <2> QED
    BY <1>8, <1>9, <2>1
<1> HIDE DEF video, audio
<1>13. ASSUME NEW v \in W, NEW s \in W, NEW o \in [1 .. 6 -> W],
              NEW t \in [1 .. 2 -> W], NEW ms \in Seq(MediumOf)
       PROVE  [v |-> v, o |-> o, s |-> s, t |-> t, media |-> ms] \in Described
  BY DEF Described, W
<1>14. PICK o \in [1 .. 6 -> W] :
         o = <<"-", "1700000000000", "1700000000000", "IN", "IP4", "192.168.1.200">>
  BY <1>11
<1>15. PICK t \in [1 .. 2 -> W] : t = <<"0", "0">>
  BY <1>11
<1>16. PICK ms \in Seq(MediumOf) : ms = <<video, audio>>
  BY <1>12
<1>17. Created("IP4", "192.168.1.200")
         = [v |-> "0", o |-> o, s |-> "simple-rtsp", t |-> t, media |-> ms]
  BY <1>10, <1>14, <1>15, <1>16
<1>18. [v |-> "0", o |-> o, s |-> "simple-rtsp", t |-> t, media |-> ms] \in Described
  BY <1>2, <1>13
<1> QED
  BY <1>17, <1>18

LEMMA LinesOfMore ==
  ASSUME NEW V, Words \subseteq V, NEW s \in Seq(LineType)
  PROVE  s \in Seq(LinesOf(V))
<1>1. \A p \in Seq(Words) : p \in Seq(V)
  BY SeqOfMore
<1>2. LineType \subseteq LinesOf(V)
  BY <1>1 DEF LineType, LinesOf
<1> QED
  BY <1>2, SeqOfMore

\* A message whose first line has three words, with lines of words of V.
TypedMessage(m, V) ==
  /\ Words \subseteq V
  /\ m.first \in Seq(V) /\ Len(m.first) = 3
  /\ m.header \in Seq(LinesOf(V)) /\ m.body \in Seq(LineType)

LEMMA TextIsTyped ==
  ASSUME NEW m \in Messages
  PROVE  TypedMessage(m, Words)
<1>1. /\ m.first \in Seq(STRING)
      /\ m.header \in Seq([key : STRING, parts : Seq(STRING)])
      /\ m.body \in Seq([key : STRING, parts : Seq(STRING)])
  BY MessagesAssumption
<1>2. m.header \in Seq(LineType) /\ m.body \in Seq(LineType)
  BY <1>1, TextsAreLines
<1>3. m.header \in Seq(LinesOf(Words))
  BY <1>2, LinesOfMore
<1>4. m.first \in Seq(Words)
  <2>1. STRING \subseteq Words
    BY DEF Words
  <2> QED
    BY <1>1, <2>1, SeqOfMore
<1> QED
  BY <1>2, <1>3, <1>4, FirstLinesAssumption DEF TypedMessage

LEMMA ResponseIsTyped ==
  ASSUME first[1] \in Prepared
  PROVE  \E V : TypedMessage(Response, V)
<1> DEFINE description == Written(Created("IP4", "192.168.1.200"))
           session1 == LastAttr("Session", IF first[1] = "SETUP" THEN NewSession ELSE NoWord)
<1>1. PICK f : f = first[3]
  OBVIOUS
<1>2. PICK c : c = LastAttr("CSeq", NoWord)
  OBVIOUS
<1>3. PICK s : s = session1
  OBVIOUS
<1>4. PICK w : w = OverlaidAttr("Transport") \o ServerPort
  OBVIOUS
<1>5. PICK n : n = ToString(SdpLength(description))
  OBVIOUS
<1> DEFINE common ==
             <<Line("CSeq", <<c>>),
               Line("Date", <<"Mon,", "01", "Jan", "2024", "00:00:00", "GMT">>),
               Line("Server", <<"simple-rtsp", "server">>)>>
           options ==
             <<Line("Public", <<"OPTIONS,", "DESCRIBE,", "SETUP,", "TEARDOWN,", "PLAY">>)>>
           describe ==
             <<Line("Content-Type", <<"application/sdp">>), Line("Content-Length", <<n>>)>>
           setup == <<Line("Session", <<s>>), Line("Transport", <<w>>)>>
           play == <<Line("Session", <<s>>)>>
<1>6. /\ Response.first = <<f, "200", "OK">>
      /\ Response.body = IF first[1] = "DESCRIBE" THEN description ELSE <<>>
      /\ Response.header
           = common \o (CASE first[1] = "OPTIONS" -> options
                          [] first[1] = "DESCRIBE" -> describe
                          [] first[1] = "SETUP" -> setup
                          [] first[1] = "PLAY" -> play)
  BY <1>1, <1>2, <1>3, <1>4, <1>5 DEF Response
<1> DEFINE Here ==
             {f, c, s, w, n, "200", "OK", "CSeq", "Date", "Server", "Public",
              "Content-Type", "Content-Length", "Session", "Transport", "Mon,", "01",
              "Jan", "2024", "00:00:00", "GMT", "simple-rtsp", "server", "OPTIONS,",
              "DESCRIBE,", "SETUP,", "TEARDOWN,", "PLAY", "application/sdp"}
           V == Words \cup Here
<1>7. Words \subseteq V
  OBVIOUS
<1>8. /\ f \in V /\ c \in V /\ s \in V /\ w \in V /\ n \in V
      /\ "200" \in V /\ "OK" \in V /\ "CSeq" \in V /\ "Date" \in V /\ "Server" \in V
      /\ "Public" \in V /\ "Content-Type" \in V /\ "Content-Length" \in V
      /\ "Session" \in V /\ "Transport" \in V /\ "Mon," \in V /\ "01" \in V /\ "Jan" \in V
      /\ "2024" \in V /\ "00:00:00" \in V /\ "GMT" \in V /\ "simple-rtsp" \in V
      /\ "server" \in V /\ "OPTIONS," \in V /\ "DESCRIBE," \in V /\ "SETUP," \in V
      /\ "TEARDOWN," \in V /\ "PLAY" \in V /\ "application/sdp" \in V
  OBVIOUS
<1> HIDE DEF V, Here
<1>9. \A l \in V, p \in Seq(V) : Line(l, p) \in LinesOf(V)
  BY DEF Line, LinesOf
<1>10. /\ \A x \in V : <<x>> \in Seq(V)
       /\ \A x, y \in V : <<x, y>> \in Seq(V)
       /\ \A x, y, z \in V : <<x, y, z>> \in Seq(V)
  OBVIOUS
<1>11. \A x, y, z, u, v \in V : <<x, y, z, u, v>> \in Seq(V)
  OBVIOUS
<1>12. \A x, y, z, u, v, o \in V : <<x, y, z, u, v, o>> \in Seq(V)
  OBVIOUS
<1>13. /\ \A x \in LinesOf(V) : <<x>> \in Seq(LinesOf(V))
       /\ \A x, y \in LinesOf(V) : <<x, y>> \in Seq(LinesOf(V))
       /\ \A x, y, z \in LinesOf(V) : <<x, y, z>> \in Seq(LinesOf(V))
  OBVIOUS
<1>14. common \in Seq(LinesOf(V))
  <2>1. <<"Mon,", "01", "Jan", "2024", "00:00:00", "GMT">> \in Seq(V)
    BY <1>8, <1>12
  <2>2. <<c>> \in Seq(V) /\ <<"simple-rtsp", "server">> \in Seq(V)
    BY <1>8, <1>10
  <2>3. /\ Line("CSeq", <<c>>) \in LinesOf(V)
        /\ Line("Date", <<"Mon,", "01", "Jan", "2024", "00:00:00", "GMT">>) \in LinesOf(V)
        /\ Line("Server", <<"simple-rtsp", "server">>) \in LinesOf(V)
    BY <1>8, <1>9, <2>1, <2>2
  <2> QED
    BY <1>13, <2>3
<1>15. options \in Seq(LinesOf(V))
  <2>1. <<"OPTIONS,", "DESCRIBE,", "SETUP,", "TEARDOWN,", "PLAY">> \in Seq(V)
    BY <1>8, <1>11
  <2>2. Line("Public", <<"OPTIONS,", "DESCRIBE,", "SETUP,", "TEARDOWN,", "PLAY">>)
          \in LinesOf(V)
    BY <1>8, <1>9, <2>1
  <2> QED
    BY <1>13, <2>2
<1>16. describe \in Seq(LinesOf(V))
  <2>1. /\ Line("Content-Type", <<"application/sdp">>) \in LinesOf(V)
        /\ Line("Content-Length", <<n>>) \in LinesOf(V)
    BY <1>8, <1>9, <1>10
  <2> QED
    BY <1>13, <2>1
<1>17. setup \in Seq(LinesOf(V)) /\ play \in Seq(LinesOf(V))
  <2>1. Line("Session", <<s>>) \in LinesOf(V) /\ Line("Transport", <<w>>) \in LinesOf(V)
    BY <1>8, <1>9, <1>10
  <2> QED
    BY <1>13, <2>1
<1> HIDE DEF common, options, describe, setup, play
<1>18. Response.header \in Seq(LinesOf(V))
  <2>1. PICK t \in Seq(LinesOf(V)) :
          t = CASE first[1] = "OPTIONS" -> options
                [] first[1] = "DESCRIBE" -> describe
                [] first[1] = "SETUP" -> setup
                [] first[1] = "PLAY" -> play
    <3>1. CASE first[1] = "OPTIONS"
      BY <1>15, <3>1
    <3>2. CASE first[1] = "DESCRIBE"
      BY <1>16, <3>2
    <3>3. CASE first[1] = "SETUP"
      BY <1>17, <3>3
    <3>4. CASE first[1] = "PLAY"
      BY <1>17, <3>4
    <3> QED
      BY <3>1, <3>2, <3>3, <3>4 DEF Prepared
  <2>2. common \o t \in Seq(LinesOf(V))
    BY <1>14, ConcatProperties
  <2> QED
    BY <1>6, <2>1, <2>2
<1>19. Response.first \in Seq(V) /\ Len(Response.first) = 3
  <2>1. <<f, "200", "OK">> \in Seq(V)
    BY <1>8, <1>10
  <2> QED
    BY <1>6, <2>1
<1>20. Response.body \in Seq(LineType)
  <2>1. description \in Seq(LineType)
    BY CreatedIsDescribed, WrittenAre
  <2>2. <<>> \in Seq(LineType)
    BY EmptySeq
  <2> HIDE DEF description
  <2> QED
    BY <1>6, <2>1, <2>2
<1> QED
  BY <1>7, <1>18, <1>19, <1>20 DEF TypedMessage

(***************************************************************************)
(* The invariant.  A description is read only of a response that announces *)
(* one, so that an answer finds the description's parser where it began.   *)
(***************************************************************************)
CodecInv ==
  /\ lines = message.body
  /\ \E V : TypedMessage(message, V) /\ ParserInv(V)
  /\ payload => IsResponse
  /\ (rd = "done" /\ payload) \/ SdpStart
  /\ PassInv
  /\ SessionRead

LEMMA AtTheBeginning ==
  ASSUME NEW CONSTANT V, TypedMessage(message, V), lines = message.body, Begun, SdpStart
  PROVE  CodecInv
<1>1. lines \in Seq(LineType) /\ message.body \in Seq(LinesOf(V))
  BY LinesOfMore DEF TypedMessage
<1>2. PassInv /\ SessionRead
  BY <1>1, PassBegins, SessionBegins
<1>3. ParserInv(V)
  <2>1. NoWord \in V
    BY DEF TypedMessage, Words, Literals
  <2> QED
    BY <1>1, <2>1, ParserBegins DEF TypedMessage
<1> QED
  BY <1>2, <1>3 DEF CodecInv, Begun

LEMMA CodecBegins == Init => CodecInv
<1> SUFFICES ASSUME Init PROVE CodecInv
  OBVIOUS
<1>1. message \in Messages /\ lines = message.body /\ Begun /\ SdpStart
  BY DEF Init, RtspInit, Begun
<1>2. TypedMessage(message, Words)
  BY <1>1, TextIsTyped
<1> QED
  BY <1>1, <1>2, AtTheBeginning

LEMMA BeginningAgain ==
  ASSUME NEW CONSTANT V
  PROVE  (TypedMessage(message, V) /\ lines = message.body /\ Begun /\ SdpStart
            => CodecInv)'
<1>1. TypedMessage(message, V) /\ lines = message.body /\ Begun /\ SdpStart => CodecInv
  BY AtTheBeginning
<1> QED
  BY <1>1, PTL

LEMMA PassUnchanged ==
  ASSUME PassInv, SessionRead, UNCHANGED sdpVars
  PROVE  PassInv' /\ SessionRead'
<1>1. PassInv'
  BY PassStep
<1>2. SessionRead'
  BY SessionStep DEF PassInv, SdpInv
<1> QED
  BY <1>1, <1>2

LEMMA CodecStep == CodecInv /\ [Next]_vars => CodecInv'
<1> SUFFICES ASSUME CodecInv, [Next]_vars PROVE CodecInv'
  OBVIOUS
<1>1. PICK V : TypedMessage(message, V) /\ ParserInv(V)
  BY DEF CodecInv
<1>2. CASE RtspNext /\ UNCHANGED <<sdpVars, own>>
  <2>1. message' = message /\ lines' = lines /\ UNCHANGED sdpVars
    BY <1>2 DEF RtspNext, ReadFirst, ReadKnown, SkipLine, RtspFinish, sdpVars
  <2>2. ParserInv(V)'
    BY <1>1, <1>2, ParserStep
  <2>3. PassInv' /\ SessionRead'
    BY <2>1, PassUnchanged DEF CodecInv
  <2>4. SdpStart /\ SdpStart'
    BY <1>2 DEF CodecInv, RtspNext, ReadFirst, ReadKnown, SkipLine, RtspFinish,
         SdpStart, sdpVars
  <2>5. IsResponse' = IsResponse
    BY <2>1 DEF IsResponse
  <2>6. payload' => IsResponse
    BY <1>2 DEF CodecInv, RtspNext, ReadFirst, ReadKnown, SkipLine, RtspFinish
  <2> QED
    BY <1>1, <2>1, <2>2, <2>3, <2>4, <2>5, <2>6 DEF CodecInv
<1>3. CASE Answer
  <2>1. /\ ~IsResponse /\ first[1] \in Prepared
        /\ message' = Response /\ lines' = message'.body
        /\ UNCHANGED <<at, j, session, media, num, heads>>
    BY <1>3 DEF Answer, IsRequestRead
  <2>2. Begun'
    BY <1>3 DEF Answer, Begun
  <2>3. SdpStart'
    BY <2>1 DEF CodecInv, SdpStart
  <2>4. PICK W : TypedMessage(Response, W)
    BY <2>1, ResponseIsTyped
  <2>5. TypedMessage(message, W)'
    BY <2>1, <2>4 DEF TypedMessage
  <2> QED
    BY <2>1, <2>2, <2>3, <2>5, BeginningAgain
<1>4. CASE AnswerTraps
  <2>1. UNCHANGED <<message, k, attrs, scanned, payload, sdpVars>> /\ ~IsResponse
    BY <1>4 DEF AnswerTraps, IsRequestRead
  <2>2. ParserInv(V)'
    BY <1>1, <2>1, SameLines
  <2>3. PassInv' /\ SessionRead'
    BY <2>1, PassUnchanged DEF CodecInv
  <2>4. lines' = lines /\ SdpStart' /\ ~payload
    BY <2>1 DEF CodecInv, SdpStart, sdpVars
  <2> QED
    BY <1>1, <2>1, <2>2, <2>3, <2>4 DEF CodecInv
<1>5. CASE ReadDescription
  <2>1. UNCHANGED <<message, rd, k, first, attrs, scanned, payload>> /\ SdpNext
        /\ rd = "done" /\ payload
    BY <1>5 DEF ReadDescription, rtspVars
  <2>2. ParserInv(V)'
    BY <1>1, <2>1, SameLines
  <2>3. PassInv' /\ SessionRead'
    BY <2>1, PassStep, SessionStep DEF CodecInv, PassInv, SdpInv
  <2>4. lines' = lines
    BY <2>1 DEF SdpNext, SdpTraps, ReadSession, ReadMedium, ReadAttr, EndMedium, SdpFinish
  <2>5. IsResponse' = IsResponse
    BY <2>1 DEF IsResponse
  <2> QED
    BY <1>1, <2>1, <2>2, <2>3, <2>4, <2>5 DEF CodecInv
<1>6. CASE UNCHANGED vars
  <2>1. UNCHANGED <<message, rd, k, first, attrs, scanned, payload, sdpVars>>
    BY <1>6 DEF vars, rtspVars
  <2>2. ParserInv(V)'
    BY <1>1, <2>1, SameLines
  <2>3. PassInv' /\ SessionRead'
    BY <2>1, PassUnchanged DEF CodecInv
  <2>4. lines' = lines /\ (SdpStart => SdpStart') /\ IsResponse' = IsResponse
    BY <2>1 DEF SdpStart, sdpVars, IsResponse
  <2> QED
    BY <1>1, <2>1, <2>2, <2>3, <2>4 DEF CodecInv
<1> QED
  BY <1>2, <1>3, <1>4, <1>5, <1>6 DEF Next, ReadMessage

\* A request, the answer made of it and the description in the answer are parsed with
\* both parsers' invariants, whatever the request was.
THEOREM MessagesAndDescriptions == Spec => []CodecInv
BY CodecBegins, CodecStep, PTL DEF Spec

\* The lines passed have become the attributes of the known keys, in order: also in
\* the answer to a request, whose words are put together of what was read.
THEOREM LinesBecomeAttributes == Spec => []AttributesReadBack
<1>1. CodecInv => AttributesReadBack
  BY DEF CodecInv, ParserInv
<1> QED
  BY <1>1, MessagesAndDescriptions, PTL

\* A description of any number of media and attributes is read as it was written.
THEOREM DescriptionsAreReadBack == Spec => []DescriptionReadBack
<1>1. CodecInv => DescriptionReadBack
  BY ReadBack DEF CodecInv
<1> QED
  BY <1>1, MessagesAndDescriptions, PTL

\* A description that arrived in a payload is matched line by line, and its parser
\* traps only for a line that gives it a reason.
THEOREM PayloadsAreMatched == Spec => [](MediaMatch /\ TrapsForAReason)
<1>1. CodecInv => MediaMatch /\ TrapsForAReason
  BY PassImpliesReason DEF CodecInv, PassInv, SdpInv
<1> QED
  BY <1>1, MessagesAndDescriptions, PTL

-----------------------------------------------------------------------------
(***************************************************************************)
(* The sizes.  That strlen is a number is all that is needed of it: what   *)
(* is written of each line and what is counted for it differ only in where *)
(* the separators are counted.                                             *)
(***************************************************************************)
WordsHaveLengths == \A w : WordLen(w) \in Nat

\* The summands of SdpLength.
LineLengths(ls) == [l \in DOMAIN ls |-> 2 + Joined(ls[l].parts) + CRLF_LEN]

LEMMA TotalIs == \A s : Total(s) = SumOf(s)
BY DEF Total, SumOf

\* A sum has as many summands as the sequence it is made over.
LEMMA Mapped ==
  ASSUME NEW S, NEW s \in Seq(S), NEW f, DOMAIN f = DOMAIN s,
         \A i \in DOMAIN s : f[i] \in Nat, f = [i \in DOMAIN s |-> f[i]]
  PROVE  f \in Seq(Nat) /\ Len(f) = Len(s)
<1>1. Len(s) \in Nat /\ DOMAIN s = 1 .. Len(s)
  BY LenProperties
<1>2. f \in [1 .. Len(s) -> Nat]
  BY <1>1
<1>3. f \in Seq(Nat)
  BY <1>1, <1>2, SeqDef
<1>4. Len(f) \in Nat /\ 1 .. Len(f) = 1 .. Len(s)
  BY <1>2, <1>3, LenProperties
<1> QED
  BY <1>1, <1>3, <1>4

LEMMA LengthsAreNat ==
  ASSUME WordsHaveLengths, NEW S, NEW parts \in Seq(S)
  PROVE  Lengths(parts) \in Nat /\ Joined(parts) \in Nat /\ Len(parts) \in Nat
<1> DEFINE f == [w \in DOMAIN parts |-> WordLen(parts[w])]
<1>1. f \in Seq(Nat)
  <2>1. \A w \in DOMAIN parts : f[w] \in Nat
    BY DEF WordsHaveLengths
  <2>2. DOMAIN f = DOMAIN parts /\ f = [w \in DOMAIN parts |-> f[w]]
    OBVIOUS
  <2> HIDE DEF f
  <2> QED
    BY <2>1, <2>2, Mapped
<1>2. Lengths(parts) = SumOf(f)
  BY TotalIs DEF Lengths
<1> HIDE DEF f
<1>3. Lengths(parts) \in Nat
  BY <1>1, <1>2, SumIsNat
<1>4. Len(parts) \in Nat /\ (parts # <<>> => Len(parts) # 0)
  BY LenProperties, EmptySeq
<1> QED
  BY <1>3, <1>4 DEF Joined

LEMMA LineLengthsAreNat ==
  ASSUME WordsHaveLengths, NEW ls \in Seq(LineType)
  PROVE  /\ LineLengths(ls) \in Seq(Nat) /\ Len(LineLengths(ls)) = Len(ls)
         /\ SdpLength(ls) = SumOf(LineLengths(ls)) /\ SdpLength(ls) \in Nat
<1> DEFINE f == LineLengths(ls)
<1>1. ASSUME NEW l \in DOMAIN ls
      PROVE  f[l] \in Nat
  <2>1. ls[l] \in LineType
    BY ElementOfSeq, LenProperties
  <2>2. Joined(ls[l].parts) \in Nat
    BY <2>1, LengthsAreNat DEF LineType
  <2> QED
    BY <2>2 DEF LineLengths, CRLF_LEN
<1>2. DOMAIN f = DOMAIN ls /\ f = [l \in DOMAIN ls |-> f[l]]
  BY DEF LineLengths
<1>3. SdpLength(ls) = SumOf(f)
  BY TotalIs DEF SdpLength, LineLengths
<1> HIDE DEF f
<1>4. f \in Seq(Nat) /\ Len(f) = Len(ls)
  BY <1>1, <1>2, Mapped
<1>5. SumOf(f) \in Nat
  BY <1>4, SumIsNat
<1> QED
  BY <1>3, <1>4, <1>5 DEF f

LEMMA LengthOfConcat ==
  ASSUME WordsHaveLengths, NEW s \in Seq(LineType), NEW t \in Seq(LineType)
  PROVE  SdpLength(s \o t) = SdpLength(s) + SdpLength(t)
<1>1. /\ s \o t \in Seq(LineType) /\ Len(s \o t) = Len(s) + Len(t)
      /\ \A i \in 1 .. Len(s) + Len(t) :
           (s \o t)[i] = IF i <= Len(s) THEN s[i] ELSE t[i - Len(s)]
      /\ Len(s) \in Nat /\ Len(t) \in Nat
      /\ DOMAIN s = 1 .. Len(s) /\ DOMAIN t = 1 .. Len(t)
  BY ConcatProperties, LenProperties
<1> DEFINE f == LineLengths(s)
           g == LineLengths(t)
           h == LineLengths(s \o t)
<1>2. /\ f \in Seq(Nat) /\ g \in Seq(Nat) /\ h \in Seq(Nat)
      /\ Len(f) = Len(s) /\ Len(g) = Len(t) /\ Len(h) = Len(s \o t)
      /\ SdpLength(s) = SumOf(f) /\ SdpLength(t) = SumOf(g)
      /\ SdpLength(s \o t) = SumOf(h)
  BY <1>1, LineLengthsAreNat
<1>3. /\ \A i \in 1 .. Len(s) : f[i] = 2 + Joined(s[i].parts) + CRLF_LEN
      /\ \A i \in 1 .. Len(t) : g[i] = 2 + Joined(t[i].parts) + CRLF_LEN
      /\ \A i \in 1 .. Len(s) + Len(t) : h[i] = 2 + Joined((s \o t)[i].parts) + CRLF_LEN
  <2>1. DOMAIN (s \o t) = 1 .. Len(s) + Len(t)
    BY <1>1, LenProperties
  <2> QED
    BY <1>1, <2>1 DEF LineLengths
<1> HIDE DEF f, g, h
<1>4. /\ f \o g \in Seq(Nat) /\ Len(f \o g) = Len(f) + Len(g)
      /\ \A i \in 1 .. Len(f) + Len(g) :
           (f \o g)[i] = IF i <= Len(f) THEN f[i] ELSE g[i - Len(f)]
  BY <1>2, ConcatProperties
<1>5. ASSUME NEW i \in 1 .. Len(s) + Len(t)
      PROVE  h[i] = (f \o g)[i]
  <2>1. CASE i <= Len(s)
    <3>1. i \in 1 .. Len(s) /\ (s \o t)[i] = s[i] /\ (f \o g)[i] = f[i]
      BY <1>1, <1>2, <1>4, <2>1
    <3> QED
      BY <1>3, <3>1
  <2>2. CASE ~(i <= Len(s))
    <3>1. /\ i - Len(s) \in 1 .. Len(t) /\ (s \o t)[i] = t[i - Len(s)]
          /\ (f \o g)[i] = g[i - Len(s)]
      BY <1>1, <1>2, <1>4, <2>2
    <3> QED
      BY <1>3, <3>1
  <2> QED
    BY <2>1, <2>2
<1>6. h = f \o g
  <2>1. Len(h) = Len(s) + Len(t) /\ Len(f \o g) = Len(s) + Len(t)
    BY <1>1, <1>2, <1>4
  <2> QED
    BY <1>2, <1>4, <1>5, <2>1, SeqEqual
<1>7. SumOf(f \o g) = SumOf(f) + SumOf(g)
  BY <1>2, SumConcat
<1> QED
  BY <1>2, <1>6, <1>7

LEMMA SumOfOne ==
  ASSUME NEW x \in Nat
  PROVE  SumOf(<<x>>) = x
<1>1. <<>> \in Seq(Nat) /\ Append(<<>>, x) = <<x>>
  OBVIOUS
<1>2. SumOf(Append(<<>>, x)) = SumOf(<<>>) + x
  BY <1>1, SumAppend
<1> QED
  BY <1>1, <1>2, SumOfNothing

LEMMA LengthOfOne ==
  ASSUME WordsHaveLengths, NEW l \in LineType
  PROVE  SdpLength(<<l>>) = 2 + Joined(l.parts) + 2 /\ Joined(l.parts) \in Nat
<1>1. PICK x \in Nat : x = 2 + Joined(l.parts) + 2
  <2>1. Joined(l.parts) \in Nat
    BY LengthsAreNat DEF LineType
  <2> QED
    BY <2>1
<1>2. <<l>> \in Seq(LineType) /\ SdpLength(<<l>>) = SumOf(LineLengths(<<l>>))
  <2>1. <<l>> \in Seq(LineType)
    OBVIOUS
  <2> QED
    BY <2>1, LineLengthsAreNat
<1>3. LineLengths(<<l>>) = <<x>>
  BY <1>1 DEF LineLengths, CRLF_LEN
<1>4. SumOf(<<x>>) = x
  BY SumOfOne
<1>5. Joined(l.parts) \in Nat
  BY LengthsAreNat DEF LineType
<1> QED
  BY <1>1, <1>2, <1>3, <1>4, <1>5

\* Words are joined with a character between each two.
LEMMA JoinedWords ==
  ASSUME WordsHaveLengths, NEW n \in Nat \ {0}, NEW w \in [1 .. n -> Words]
  PROVE  Lengths(w) \in Nat /\ Joined(w) = Lengths(w) + n - 1
<1>1. w \in Seq(Words) /\ Len(w) = n
  BY WordsAreSeq
<1>2. w # <<>>
  BY <1>1, EmptySeq
<1>3. Lengths(w) \in Nat
  BY <1>1, LengthsAreNat
<1> QED
  BY <1>1, <1>2, <1>3 DEF Joined

LEMMA JoinedWord ==
  ASSUME WordsHaveLengths, NEW w \in Words
  PROVE  Joined(<<w>>) = WordLen(w) /\ WordLen(w) \in Nat
<1>1. PICK x \in Nat : x = WordLen(w)
  BY DEF WordsHaveLengths
<1>2. Lengths(<<w>>) = SumOf([i \in DOMAIN <<w>> |-> WordLen(<<w>>[i])])
  BY TotalIs DEF Lengths
<1>3. [i \in DOMAIN <<w>> |-> WordLen(<<w>>[i])] = <<x>>
  BY <1>1
<1>4. Lengths(<<w>>) = x
  BY <1>2, <1>3, SumOfOne
<1>5. Len(<<w>>) = 1 /\ <<w>> # <<>>
  OBVIOUS
<1> QED
  BY <1>1, <1>4, <1>5 DEF Joined

LEMMA LineHasParts == \A l, w : Line(l, w).parts = w
BY DEF Line

LEMMA LengthOfPreamble ==
  ASSUME WordsHaveLengths, NEW d \in Described
  PROVE  /\ SdpLength(Preamble(d))
              = (4 + WordLen(d.v)) + (9 + Lengths(d.o)) + (4 + WordLen(d.s))
                  + (5 + Lengths(d.t))
         /\ WordLen(d.v) \in Nat /\ Lengths(d.o) \in Nat
         /\ WordLen(d.s) \in Nat /\ Lengths(d.t) \in Nat
<1>1. /\ d.v \in Words /\ d.o \in [1 .. 6 -> Words]
      /\ d.s \in Words /\ d.t \in [1 .. 2 -> Words]
  BY DescribedIs
<1>2. PICK a \in LineType : a = Line("v", <<d.v>>)
  <2>1. <<d.v>> \in Seq(Words)
    BY <1>1
  <2> QED
    BY <2>1, KeysAreWords, LineIsTyped
<1>3. PICK b \in LineType : b = Line("o", d.o)
  BY <1>1, WordsAreSeq, KeysAreWords, LineIsTyped
<1>4. PICK c \in LineType : c = Line("s", <<d.s>>)
  <2>1. <<d.s>> \in Seq(Words)
    BY <1>1
  <2> QED
    BY <2>1, KeysAreWords, LineIsTyped
<1>5. PICK e \in LineType : e = Line("t", d.t)
  BY <1>1, WordsAreSeq, KeysAreWords, LineIsTyped
<1>6. Preamble(d) = <<a, b, c, e>>
  BY <1>2, <1>3, <1>4, <1>5 DEF Preamble
<1>7. <<a, b, c, e>> = (<<a>> \o <<b>>) \o (<<c>> \o <<e>>)
  OBVIOUS
<1>8. /\ <<a>> \in Seq(LineType) /\ <<b>> \in Seq(LineType)
      /\ <<c>> \in Seq(LineType) /\ <<e>> \in Seq(LineType)
      /\ <<a>> \o <<b>> \in Seq(LineType) /\ <<c>> \o <<e>> \in Seq(LineType)
  OBVIOUS
<1>9. /\ SdpLength((<<a>> \o <<b>>) \o (<<c>> \o <<e>>))
           = SdpLength(<<a>> \o <<b>>) + SdpLength(<<c>> \o <<e>>)
      /\ SdpLength(<<a>> \o <<b>>) = SdpLength(<<a>>) + SdpLength(<<b>>)
      /\ SdpLength(<<c>> \o <<e>>) = SdpLength(<<c>>) + SdpLength(<<e>>)
  BY <1>8, LengthOfConcat
<1>10. /\ SdpLength(<<a>>) = 2 + Joined(<<d.v>>) + 2
       /\ SdpLength(<<b>>) = 2 + Joined(d.o) + 2
       /\ SdpLength(<<c>>) = 2 + Joined(<<d.s>>) + 2
       /\ SdpLength(<<e>>) = 2 + Joined(d.t) + 2
  BY <1>2, <1>3, <1>4, <1>5, LengthOfOne, LineHasParts
<1>11. PICK v \in Nat : v = WordLen(d.v) /\ Joined(<<d.v>>) = v
  BY <1>1, JoinedWord
<1>12. PICK s \in Nat : s = WordLen(d.s) /\ Joined(<<d.s>>) = s
  BY <1>1, JoinedWord
<1>13. PICK o \in Nat : o = Lengths(d.o) /\ Joined(d.o) = o + 6 - 1
  <2>1. 6 \in Nat \ {0} /\ d.o \in [1 .. 6 -> Words]
    BY <1>1
  <2>2. Lengths(d.o) \in Nat
    BY <2>1, JoinedWords
  <2>3. Joined(d.o) = Lengths(d.o) + 6 - 1
    BY <2>1, JoinedWords
  <2> QED
    BY <2>2, <2>3
<1>14. PICK t \in Nat : t = Lengths(d.t) /\ Joined(d.t) = t + 2 - 1
  <2>1. 2 \in Nat \ {0} /\ d.t \in [1 .. 2 -> Words]
    BY <1>1
  <2>2. Lengths(d.t) \in Nat
    BY <2>1, JoinedWords
  <2>3. Joined(d.t) = Lengths(d.t) + 2 - 1
    BY <2>1, JoinedWords
  <2> QED
    BY <2>2, <2>3
<1>15. /\ SdpLength(<<a>>) = 4 + v /\ SdpLength(<<b>>) = 9 + o
       /\ SdpLength(<<c>>) = 4 + s /\ SdpLength(<<e>>) = 5 + t
  BY <1>10, <1>11, <1>12, <1>13, <1>14
<1>16. SdpLength(Preamble(d)) = (4 + v) + (9 + o) + (4 + s) + (5 + t)
  <2>1. SdpLength(Preamble(d)) = ((4 + v) + (9 + o)) + ((4 + s) + (5 + t))
    BY <1>6, <1>7, <1>9, <1>15
  <2> QED
    BY <2>1
<1> QED
  BY <1>11, <1>12, <1>13, <1>14, <1>16

\* What sdp_calc_msg_size counts for an attribute and for a medium.
AttrSize(a) == 2 + Lengths(a) + COLON_LEN + CRLF_LEN

MediumSize(m) ==
  2 + Lengths(m.desc) + CRLF_LEN + SPACE_LEN * 3
    + Total([x \in DOMAIN m.attrs |-> AttrSize(m.attrs[x])])

LEMMA LengthOfBlock ==
  ASSUME WordsHaveLengths, NEW m \in MediumOf
  PROVE  SdpLength(BlockOf(m)) = MediumSize(m) /\ MediumSize(m) \in Nat
<1> DEFINE l == Line("m", m.desc)
           t == [x \in DOMAIN m.attrs |-> Line("a", m.attrs[x])]
           f == [x \in DOMAIN m.attrs |-> AttrSize(m.attrs[x])]
<1>1. m.desc \in [1 .. 4 -> Words] /\ m.attrs \in Seq([1 .. 2 -> Words])
  BY DEF MediumOf
<1>2. l \in LineType /\ l.parts = m.desc
  <2>1. m.desc \in Seq(Words)
    BY <1>1, WordsAreSeq
  <2> QED
    BY <2>1, KeysAreWords, LineIsTyped
<1>3. /\ Len(m.attrs) \in Nat /\ DOMAIN m.attrs = 1 .. Len(m.attrs)
  BY <1>1, LenProperties
<1>4. ASSUME NEW x \in 1 .. Len(m.attrs)
      PROVE  /\ Line("a", m.attrs[x]) \in LineType
             /\ 2 + Joined(m.attrs[x]) + CRLF_LEN = AttrSize(m.attrs[x])
             /\ AttrSize(m.attrs[x]) \in Nat
  <2>1. PICK a \in [1 .. 2 -> Words] : a = m.attrs[x]
    BY <1>1, ElementOfSeq
  <2>2. a \in Seq(Words)
    BY WordsAreSeq
  <2>3. Lengths(a) \in Nat /\ Joined(a) = Lengths(a) + 2 - 1
    <3>1. 2 \in Nat \ {0}
      OBVIOUS
    <3> QED
      BY <3>1, JoinedWords
  <2>4. 2 + Joined(a) + CRLF_LEN = AttrSize(a) /\ AttrSize(a) \in Nat
    BY <2>3 DEF AttrSize, CRLF_LEN, COLON_LEN
  <2> QED
    BY <2>1, <2>2, <2>4, KeysAreWords, LineIsTyped
<1>5. t \in Seq(LineType)
  <2>1. t \in [1 .. Len(m.attrs) -> LineType]
    BY <1>3, <1>4
  <2> QED
    BY <1>3, <2>1, SeqDef
<1>6. f \in Seq(Nat)
  <2>1. f \in [1 .. Len(m.attrs) -> Nat]
    BY <1>3, <1>4
  <2> QED
    BY <1>3, <2>1, SeqDef
<1>7. LineLengths(t) = f
  <2>1. \A x \in 1 .. Len(m.attrs) : t[x].parts = m.attrs[x]
    BY <1>3, LineHasParts
  <2>2. DOMAIN t = 1 .. Len(m.attrs)
    BY <1>3
  <2>3. LineLengths(t) = [x \in 1 .. Len(m.attrs) |-> 2 + Joined(t[x].parts) + CRLF_LEN]
    BY <2>2 DEF LineLengths
  <2>4. \A x \in 1 .. Len(m.attrs) : 2 + Joined(t[x].parts) + CRLF_LEN = AttrSize(m.attrs[x])
    BY <1>4, <2>1
  <2> HIDE DEF t
  <2> QED
    BY <1>3, <2>3, <2>4
<1>8. SdpLength(t) = SumOf(f) /\ SumOf(f) \in Nat
  BY <1>5, <1>6, <1>7, LineLengthsAreNat, SumIsNat
<1>9. MediumSize(m) = 2 + Lengths(m.desc) + 2 + 3 + SumOf(f)
  BY TotalIs DEF MediumSize, CRLF_LEN, SPACE_LEN
<1>10. BlockOf(m) = <<l>> \o t
  BY DEF BlockOf
<1> HIDE DEF l, t, f
<1>11. SdpLength(<<l>>) = 2 + Joined(m.desc) + 2
  BY <1>2, LengthOfOne
<1>12. PICK n \in Nat : n = Lengths(m.desc) /\ Joined(m.desc) = n + 4 - 1
  <2>1. 4 \in Nat \ {0} /\ m.desc \in [1 .. 4 -> Words]
    BY <1>1
  <2>2. Lengths(m.desc) \in Nat
    BY <2>1, JoinedWords
  <2>3. Joined(m.desc) = Lengths(m.desc) + 4 - 1
    BY <2>1, JoinedWords
  <2> QED
    BY <2>2, <2>3
<1>13. SdpLength(<<l>> \o t) = SdpLength(<<l>>) + SdpLength(t)
  <2>1. <<l>> \in Seq(LineType)
    BY <1>2
  <2> QED
    BY <1>5, <2>1, LengthOfConcat
<1>14. PICK z \in Nat : z = SumOf(f)
  BY <1>8
<1>15. SdpLength(<<l>> \o t) = (2 + (n + 4 - 1) + 2) + z
  BY <1>8, <1>11, <1>12, <1>13, <1>14
<1>16. MediumSize(m) = 2 + n + 2 + 3 + z
  BY <1>9, <1>12, <1>14
<1> QED
  BY <1>10, <1>15, <1>16

\* The summands of sdp_calc_msg_size's loop over the media.
MediaSizes(ms) == [i \in DOMAIN ms |-> MediumSize(ms[i])]

LEMMA LengthOfBody ==
  ASSUME WordsHaveLengths, NEW media1 \in Seq(MediumOf)
  PROVE  /\ SdpLength(BodyOf(media1)) = SumOf(MediaSizes(media1))
         /\ SumOf(MediaSizes(media1)) \in Nat
<1>1. ASSUME NEW ms \in Seq(MediumOf)
      PROVE  /\ MediaSizes(ms) \in Seq(Nat) /\ Len(MediaSizes(ms)) = Len(ms)
             /\ \A i \in 1 .. Len(ms) : MediaSizes(ms)[i] = MediumSize(ms[i])
  <2>1. DOMAIN ms = 1 .. Len(ms)
    BY LenProperties
  <2>2. \A i \in DOMAIN ms : MediaSizes(ms)[i] = MediumSize(ms[i])
    BY DEF MediaSizes
  <2>3. \A i \in DOMAIN ms : MediaSizes(ms)[i] \in Nat
    <3>1. \A i \in 1 .. Len(ms) : ms[i] \in MediumOf
      BY ElementOfSeq
    <3>2. \A i \in 1 .. Len(ms) : MediumSize(ms[i]) \in Nat
      BY <3>1, LengthOfBlock
    <3> QED
      BY <2>1, <2>2, <3>2
  <2>4. /\ DOMAIN MediaSizes(ms) = DOMAIN ms
        /\ MediaSizes(ms) = [i \in DOMAIN ms |-> MediaSizes(ms)[i]]
    BY DEF MediaSizes
  <2>5. MediaSizes(ms) \in Seq(Nat) /\ Len(MediaSizes(ms)) = Len(ms)
    BY <2>3, <2>4, Mapped
  <2> QED
    BY <2>1, <2>2, <2>5
<1> DEFINE P == {ms \in Seq(MediumOf) : SdpLength(BodyOf(ms)) = SumOf(MediaSizes(ms))}
<1>2. <<>> \in P
  <2>1. <<>> \in Seq(MediumOf) /\ Len(<<>>) = 0 /\ <<>> \in Seq(LineType)
    BY EmptySeq
  <2>2. MediaSizes(<<>>) = <<>>
    <3>1. MediaSizes(<<>>) \in Seq(Nat) /\ Len(MediaSizes(<<>>)) = 0
      BY <1>1, <2>1
    <3> QED
      BY <3>1, EmptySeq
  <2>3. LineLengths(<<>>) = <<>>
    <3>1. LineLengths(<<>>) \in Seq(Nat) /\ Len(LineLengths(<<>>)) = 0
      BY <2>1, LineLengthsAreNat
    <3> QED
      BY <3>1, EmptySeq
  <2>4. SdpLength(<<>>) = SumOf(<<>>)
    BY <2>1, <2>3, LineLengthsAreNat
  <2> QED
    BY <2>1, <2>2, <2>4, BodyOfNothing
<1>3. ASSUME NEW ms \in P, NEW m \in MediumOf
      PROVE  Append(ms, m) \in P
  <2> DEFINE ns == Append(ms, m)
             n == Len(ms)
  <2>1. /\ ns \in Seq(MediumOf) /\ Len(ns) = n + 1 /\ ns[n + 1] = m /\ n \in Nat
        /\ \A i \in 1 .. n : ns[i] = ms[i]
    BY AppendProperties, LenProperties
  <2> HIDE DEF ns
  <2>2. /\ MediaSizes(ms) \in Seq(Nat) /\ Len(MediaSizes(ms)) = n
        /\ \A i \in 1 .. n : MediaSizes(ms)[i] = MediumSize(ms[i])
    BY <1>1
  <2>3. /\ MediaSizes(ns) \in Seq(Nat) /\ Len(MediaSizes(ns)) = n + 1
        /\ \A i \in 1 .. n + 1 : MediaSizes(ns)[i] = MediumSize(ns[i])
    BY <1>1, <2>1
  <2>4. PICK z \in Nat : z = MediumSize(m) /\ SdpLength(BlockOf(m)) = z
    BY LengthOfBlock
  <2>5. /\ Append(MediaSizes(ms), z) \in Seq(Nat)
        /\ Len(Append(MediaSizes(ms), z)) = n + 1
        /\ Append(MediaSizes(ms), z)[n + 1] = z
        /\ \A i \in 1 .. n : Append(MediaSizes(ms), z)[i] = MediaSizes(ms)[i]
    BY <2>2, AppendProperties
  <2>6. MediaSizes(ns) = Append(MediaSizes(ms), z)
    <3>1. \A i \in 1 .. n + 1 : i \in 1 .. n \/ i = n + 1
      BY <2>1
    <3>2. \A i \in 1 .. n + 1 : MediaSizes(ns)[i] = Append(MediaSizes(ms), z)[i]
      BY <2>1, <2>2, <2>3, <2>4, <2>5, <3>1
    <3> HIDE DEF n
    <3> QED
      BY <2>3, <2>5, <3>2, SeqEqual
  <2>7. SumOf(Append(MediaSizes(ms), z)) = SumOf(MediaSizes(ms)) + z
    BY <2>2, SumAppend
  <2>8. /\ BodyOf(ns) = BodyOf(ms) \o BlockOf(m)
        /\ BodyOf(ms) \in Seq(LineType) /\ BlockOf(m) \in Seq(LineType)
    BY BodyAppend, BlockIsTyped DEF ns
  <2>9. SdpLength(BodyOf(ms) \o BlockOf(m)) = SdpLength(BodyOf(ms)) + SdpLength(BlockOf(m))
    BY <2>8, LengthOfConcat
  <2>10. SdpLength(BodyOf(ms)) = SumOf(MediaSizes(ms))
    OBVIOUS
  <2>11. SdpLength(BodyOf(ns)) = SumOf(MediaSizes(ns))
    BY <2>4, <2>6, <2>7, <2>8, <2>9, <2>10
  <2> QED
    BY <2>1, <2>11 DEF ns
<1>4. P = Seq(MediumOf)
  <2> HIDE DEF P
  <2>1. P \in SUBSET Seq(MediumOf)
    BY DEF P
  <2> QED
    BY <1>2, <1>3, <2>1, InductionOnLength
<1>5. SumOf(MediaSizes(media1)) \in Nat
  BY <1>1, SumIsNat
<1> QED
  BY <1>4, <1>5

LEMMA DescriptionSize ==
  ASSUME WordsHaveLengths, NEW d \in Described
  PROVE  SdpSize(d) = SdpLength(Written(d)) + 1
<1> DEFINE ms == d.media
<1>1. ms \in Seq(MediumOf)
  BY DescribedIs
<1>2. PICK z \in Nat : z = SumOf(MediaSizes(ms)) /\ SdpLength(BodyOf(ms)) = z
  BY <1>1, LengthOfBody
<1>3. Preamble(d) \in Seq(LineType) /\ BodyOf(ms) \in Seq(LineType)
  BY PreambleIs, WrittenAre
<1>4. SdpLength(Written(d)) = SdpLength(Preamble(d)) + z
  BY <1>2, <1>3, WrittenIs, LengthOfConcat
<1>5. PICK v \in Nat, o \in Nat, s \in Nat, t \in Nat :
        /\ v = WordLen(d.v) /\ o = Lengths(d.o) /\ s = WordLen(d.s) /\ t = Lengths(d.t)
        /\ SdpLength(Preamble(d)) = (4 + v) + (9 + o) + (4 + s) + (5 + t)
  BY LengthOfPreamble
<1>6. Total([i \in DOMAIN d.media |->
               2 + Lengths(d.media[i].desc) + CRLF_LEN + SPACE_LEN * 3
                 + Total([x \in DOMAIN d.media[i].attrs |->
                            2 + Lengths(d.media[i].attrs[x]) + COLON_LEN + CRLF_LEN])])
        = z
  BY <1>2, TotalIs DEF MediaSizes, MediumSize, AttrSize
<1>7. SdpSize(d) = 1 + (2 + v + 2) + (2 + o + 2 + 1 * 5) + (2 + s + 2) + (2 + t + 2 + 1) + z
  BY <1>5, <1>6 DEF SdpSize, CRLF_LEN, SPACE_LEN
<1> QED
  BY <1>4, <1>5, <1>7

LEMMA MessageSize ==
  ASSUME WordsHaveLengths, NEW m, NEW V, TypedMessage(m, V)
  PROVE  RtspSize(m) = RtspLength(m) + 1
<1> DEFINE counted(l) == WordLen(l.key) + Joined(l.parts) + COLON_LEN + SPACE_LEN + CRLF_LEN
           written(l) == WordLen(l.key) + 2 + Joined(l.parts) + CRLF_LEN
           f == [l \in DOMAIN m.header |-> counted(m.header[l])]
           g == [l \in DOMAIN m.header |-> written(m.header[l])]
<1>1. /\ m.first \in Seq(V) /\ Len(m.first) = 3
      /\ m.header \in Seq(LinesOf(V)) /\ m.body \in Seq(LineType)
  BY DEF TypedMessage
<1>2. DOMAIN m.header = 1 .. Len(m.header)
  BY <1>1, LenProperties
<1>3. ASSUME NEW l \in DOMAIN m.header
      PROVE  counted(m.header[l]) = written(m.header[l]) /\ counted(m.header[l]) \in Nat
  <2>1. m.header[l] \in LinesOf(V)
    BY <1>1, <1>2, ElementOfSeq
  <2>2. PICK p \in Nat : p = Joined(m.header[l].parts)
    BY <2>1, LengthsAreNat DEF LinesOf
  <2>3. PICK w \in Nat : w = WordLen(m.header[l].key)
    BY DEF WordsHaveLengths
  <2> QED
    BY <2>2, <2>3 DEF COLON_LEN, SPACE_LEN, CRLF_LEN
<1>4. f = g /\ \A l \in DOMAIN m.header : f[l] \in Nat
  BY <1>3
<1>5. DOMAIN f = DOMAIN m.header /\ f = [l \in DOMAIN m.header |-> f[l]]
  OBVIOUS
<1>6. RtspSize(m)
        = 1 + Lengths(m.first) + CRLF_LEN + SPACE_LEN * 2 + Total(f) + CRLF_LEN
            + SdpLength(m.body)
  BY DEF RtspSize
<1>7. RtspLength(m)
        = Joined(m.first) + CRLF_LEN + Total(g) + CRLF_LEN + SdpLength(m.body)
  BY DEF RtspLength
<1> HIDE DEF f, g
<1>8. f \in Seq(Nat)
  BY <1>1, <1>4, <1>5, Mapped
<1>9. PICK z \in Nat : z = Total(f) /\ z = Total(g)
  BY <1>4, <1>8, TotalIs, SumIsNat
<1>10. PICK n \in Nat : n = Lengths(m.first) /\ Joined(m.first) = n + 2
  <2>1. Lengths(m.first) \in Nat
    BY <1>1, LengthsAreNat
  <2>2. m.first # <<>>
    <3>1. Len(<<>>) = 0
      OBVIOUS
    <3>2. m.first = <<>> => Len(m.first) = Len(<<>>)
      OBVIOUS
    <3>3. Len(m.first) # 0
      BY <1>1
    <3> QED
      BY <3>1, <3>2, <3>3
  <2>3. Joined(m.first) = Lengths(m.first) + 2
    BY <1>1, <2>1, <2>2 DEF Joined
  <2> QED
    BY <2>1, <2>3
<1>11. PICK b \in Nat : b = SdpLength(m.body)
  BY <1>1, LineLengthsAreNat
<1>12. RtspSize(m) = 1 + n + 2 + 1 * 2 + z + 2 + b
  BY <1>6, <1>9, <1>10, <1>11 DEF CRLF_LEN, SPACE_LEN
<1>13. RtspLength(m) = (n + 2) + 2 + z + 2 + b
  BY <1>7, <1>9, <1>10, <1>11 DEF CRLF_LEN
<1> QED
  BY <1>12, <1>13

\* What is allocated for a message or a description of any length is what is written
\* and a terminating zero.
THEOREM SizesAreCounted ==
  ASSUME WordsHaveLengths
  PROVE  Spec => []SizesAreExact
<1>1. CodecInv => SizesAreExact
  <2> SUFFICES ASSUME CodecInv PROVE SizesAreExact
    OBVIOUS
  <2>1. PICK V : TypedMessage(message, V)
    BY DEF CodecInv
  <2>2. RtspSize(message) = RtspLength(message) + 1
    BY <2>1, MessageSize
  <2>3. \A d \in Descriptions : SdpSize(d) = SdpLength(Written(d)) + 1
    BY DescriptionsAssumption, DescriptionIsTyped, DescriptionSize
  <2> QED
    BY <2>2, <2>3 DEF SizesAreExact
<1> QED
  BY <1>1, MessagesAndDescriptions, PTL
=============================================================================
