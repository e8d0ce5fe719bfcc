------------------------- MODULE VideoPipelineProofs -------------------------
(***************************************************************************)
(* What holds of the packetizer and of the packing thread for every        *)
(* payload size and units of every size.                                   *)
(***************************************************************************)
EXTENDS VideoPipeline, TLAPS, SequenceTheorems

UnitType == [size : Nat, marker : BOOLEAN]
PacketType ==
  [unit : Nat, fu : BOOLEAN, s : BOOLEAN, e : BOOLEAN,
   first : Nat, read : Nat, carried : Nat, size : Nat, marker : BOOLEAN,
   header : {HeaderLeft}]

PackTypeOK ==
  /\ pc \in {"idle", "called", "loop", "ended"}
  /\ units \in Seq(UnitType)
  /\ offset \in Nat /\ left \in Nat /\ hdr \in BOOLEAN /\ seq \in Int
  /\ queue \in Seq(PacketType)
  /\ \A i \in 1 .. Len(queue) : queue[i].unit \in 1 .. Len(units)

\* The unit in hand: what was cut off and what is left make it up, and a unit
\* that is cut was too long for one packet.
InHand ==
  /\ pc \in {"called", "loop"} => units # <<>> /\ offset + left = Unit.size
  /\ pc = "called" => offset = 0
  /\ pc = "loop" => left >= 1 /\ offset >= 2 /\ Unit.size >= MaxPayload

\* Where the last packet ends: at the end of the unit before the one in hand,
\* or where the next fragment begins.
LastEnds ==
  LET q == queue[Len(queue)]
  IN  /\ pc = "idle" /\ units # <<>> =>
           queue # <<>> /\ q.unit = Len(units) /\ Finishes(q)
      /\ pc = "called" \/ (pc = "loop" /\ offset = 2) =>
           IF queue = <<>> THEN Len(units) = 1
                           ELSE q.unit = Len(units) - 1 /\ Finishes(q)
      /\ pc = "loop" /\ offset > 2 =>
           /\ queue # <<>> /\ q.unit = Len(units)
           /\ q.fu /\ q.first + q.read = offset

Adjacent ==
  /\ queue # <<>> => queue[1].unit = 1 /\ Begins(queue[1])
  /\ \A i \in 1 .. Len(queue) - 1 : Continues(queue[i], queue[i + 1])

PackInv ==
  PackTypeOK /\ InHand /\ LastEnds /\ Adjacent /\ FragmentsFit /\ EndIsMarked

-----------------------------------------------------------------------------
\* What Append does, in the form the steps below need.
LEMMA Appended ==
  ASSUME NEW T, NEW q \in Seq(T), NEW x \in T
  PROVE  /\ Append(q, x) \in Seq(T)
         /\ Len(Append(q, x)) = Len(q) + 1
         /\ Append(q, x) # <<>>
         /\ \A i \in 1 .. Len(q) : Append(q, x)[i] = q[i]
         /\ Append(q, x)[Len(q) + 1] = x
<1>1. Append(q, x) \in Seq(T) /\ Len(Append(q, x)) = Len(q) + 1
  BY AppendProperties
<1>2. \A i \in 1 .. Len(q) : Append(q, x)[i] = q[i]
  BY AppendProperties
<1>3. Append(q, x)[Len(q) + 1] = x
  BY AppendProperties
<1>4. Append(q, x) # <<>>
  BY AppendProperties
<1> QED
  BY <1>1, <1>2, <1>3, <1>4

\* The beginning.
LEMMA PackInitially == PackInit => PackInv
<1> SUFFICES ASSUME PackInit PROVE PackInv
  OBVIOUS
<1>1. queue = <<>> /\ units = <<>> /\ Len(queue) = 0 /\ pc = "idle"
  BY EmptySeq DEF PackInit
<1>2. <<>> \in Seq(UnitType) /\ <<>> \in Seq(PacketType)
  BY EmptySeq
<1>3. units \in Seq(UnitType) /\ queue \in Seq(PacketType)
  BY <1>1, <1>2
<1>7. offset \in Nat /\ left \in Nat /\ seq \in Int
  BY DEF PackInit
<1>4. hdr \in BOOLEAN /\ pc \in {"idle", "called", "loop", "ended"}
  BY Zenon DEF PackInit
<1>5. \A i \in 1 .. Len(queue) : queue[i].unit \in 1 .. Len(units)
  BY <1>1
<1>6. PackTypeOK
  BY <1>3, <1>7, <1>4, <1>5 DEF PackTypeOK
<1> QED
  BY <1>1, <1>6 DEF PackInv, InHand, LastEnds, Adjacent, FragmentsFit, EndIsMarked

\* A call adds a unit and leaves the packets alone.
LEMMA CallKeeps ==
  ASSUME PacketizerAssumption, PackInv, Call
  PROVE  PackInv'
<1> USE DEF PackInv
<1>1. PICK u \in UnitType : units' = Append(units, u) /\ left' = u.size
  BY DEF Call, UnitType, PacketizerAssumption
<1>2. /\ pc = "idle" /\ pc' = "called" /\ offset' = 0 /\ queue' = queue
      /\ hdr' = hdr /\ seq' = seq
  BY DEF Call
<1>3. /\ units' \in Seq(UnitType) /\ Len(units') = Len(units) + 1
      /\ \A i \in 1 .. Len(units) : units'[i] = units[i]
      /\ units'[Len(units) + 1] = u /\ units' # <<>>
  BY <1>1, Appended DEF PackTypeOK
<1>4. Len(units) \in Nat /\ Len(queue) \in Nat
  BY LenProperties DEF PackTypeOK
<1>5. PackTypeOK'
  BY <1>1, <1>2, <1>3, <1>4 DEF PackTypeOK, UnitType
<1>6. InHand'
  BY <1>1, <1>2, <1>3, <1>4 DEF InHand, Unit, UnitType
<1>7. \A i \in 1 .. Len(queue) :
        /\ units'[queue[i].unit] = units[queue[i].unit]
        /\ Finishes(queue[i])' = Finishes(queue[i])
        /\ Begins(queue[i])' = Begins(queue[i])
  BY <1>2, <1>3 DEF PackTypeOK, Finishes, Begins
<1>8. LastEnds'
  <2>1. CASE queue = <<>>
    <3>1. units = <<>>
      BY <1>2, <2>1 DEF LastEnds
    <3> QED
      BY <1>2, <1>3, <2>1, <3>1, EmptySeq DEF LastEnds
  <2>2. CASE queue # <<>>
    <3>1. Len(queue) \in 1 .. Len(queue)
      BY <1>4, <2>2, EmptySeq DEF PackTypeOK
    <3>2. queue[Len(queue)].unit \in 1 .. Len(units)
      BY <3>1 DEF PackTypeOK
    <3>3. units # <<>>
      BY <3>2, EmptySeq
    <3>4. queue[Len(queue)].unit = Len(units) /\ Finishes(queue[Len(queue)])
      BY <1>2, <3>3 DEF LastEnds
    <3> QED
      BY <1>2, <1>3, <1>4, <1>7, <2>2, <3>1, <3>4 DEF LastEnds
  <2> QED
    BY <2>1, <2>2
<1>9. Adjacent'
  <2>1. (queue # <<>> => queue[1].unit = 1 /\ Begins(queue[1]))'
    BY <1>2 DEF Adjacent, Begins
  <2>2. ASSUME NEW i \in 1 .. Len(queue) - 1
        PROVE  Continues(queue[i], queue[i + 1])'
    <3>1. i \in 1 .. Len(queue) /\ i + 1 \in 1 .. Len(queue)
      BY <1>4
    <3> QED
      BY <1>2, <1>7, <3>1 DEF Adjacent, Continues
  <2> QED
    BY <1>2, <2>1, <2>2 DEF Adjacent
<1>10. FragmentsFit'
  BY <1>2, <1>7 DEF FragmentsFit
<1>11. EndIsMarked'
  BY <1>2, <1>7 DEF EndIsMarked
<1> QED
  BY <1>5, <1>6, <1>8, <1>9, <1>10, <1>11

-----------------------------------------------------------------------------
\* The packet that Post appends.
Posted(fu, e, read, carried, size, marker) ==
  [unit |-> Len(units), fu |-> fu, s |-> fu /\ hdr, e |-> e,
   first |-> offset, read |-> read, carried |-> carried,
   size |-> size, marker |-> marker, header |-> HeaderLeft]

\* What the packet must be for that: it begins where the last one ended, it fits,
\* and it is marked as an end exactly if it is one.
MayPost(fu, e, read, size, marker) ==
  /\ units # <<>>
  /\ IF fu THEN offset >= 2 ELSE offset = 0
  /\ IF queue = <<>>
       THEN Len(units) = 1 /\ ~(fu /\ offset > 2)
       ELSE LET q == queue[Len(queue)]
            IN  IF fu /\ offset > 2
                  THEN q.unit = Len(units) /\ q.fu /\ q.first + q.read = offset
                  ELSE q.unit = Len(units) - 1 /\ Finishes(q)
  /\ offset + read <= Unit.size /\ size <= MaxPayload
  /\ fu => /\ read \in 1 .. MaxPayload - HeaderSize
           /\ ~(offset = 2 /\ offset + read = Unit.size)
  /\ e <=> fu /\ offset + read = Unit.size
  /\ marker <=> offset + read = Unit.size /\ Unit.marker

\* What the invariant says of the queue.
QueueInv ==
  /\ queue \in Seq(PacketType) /\ queue # <<>>
  /\ \A i \in 1 .. Len(queue) : queue[i].unit \in 1 .. Len(units)
  /\ seq \in Int
  /\ Adjacent /\ FragmentsFit /\ EndIsMarked

\* A post of such a packet keeps it.
LEMMA PostKeeps ==
  ASSUME PacketizerAssumption, PackInv,
         NEW fu \in BOOLEAN, NEW e \in BOOLEAN,
         NEW read \in Nat, NEW carried \in Nat, NEW size \in Nat,
         NEW marker \in BOOLEAN,
         MayPost(fu, e, read, size, marker),
         Post(fu, e, read, carried, size, marker), units' = units
  PROVE  /\ QueueInv'
         /\ queue'[Len(queue')] = Posted(fu, e, read, carried, size, marker)
<1> USE DEF PackInv, MayPost
<1>1. Len(units) \in Nat \ {0} /\ Len(queue) \in Nat
  BY LenProperties, EmptySeq DEF PackTypeOK
<1>2. PICK p \in PacketType : p = Posted(fu, e, read, carried, size, marker)
  <2>1. Posted(fu, e, read, carried, size, marker) \in PacketType
    BY <1>1 DEF Posted, PackTypeOK, PacketType
  <2> QED
    BY <2>1
<1>3. /\ p.unit = Len(units) /\ p.fu = fu /\ p.e = e
      /\ p.first = offset /\ p.read = read /\ p.size = size /\ p.marker = marker
  BY <1>2 DEF Posted
<1>4. queue' = Append(queue, p) /\ seq' = (seq + 1) % SeqSpace
  BY <1>2 DEF Post, Posted
<1>5. /\ queue' \in Seq(PacketType) /\ Len(queue') = Len(queue) + 1
      /\ \A i \in 1 .. Len(queue) : queue'[i] = queue[i]
      /\ queue'[Len(queue) + 1] = p /\ queue' # <<>>
  BY <1>2, <1>4, Appended DEF PackTypeOK
<1>6. \A i \in 1 .. Len(queue) : queue[i].unit \in 1 .. Len(units) /\ queue[i] \in PacketType
  BY ElementOfSeq DEF PackTypeOK
<1>7. /\ Finishes(p)' <=> offset + read = Unit.size
      /\ Begins(p)' <=> offset = IF fu THEN 2 ELSE 0
  BY <1>3, <1>4 DEF Finishes, Begins, Unit, NalHeader
<1>8. \A i \in 1 .. Len(queue) :
        /\ Finishes(queue[i])' = Finishes(queue[i])
        /\ Begins(queue[i])' = Begins(queue[i])
  BY <1>5 DEF Finishes, Begins
<1>9. \A i \in 1 .. Len(queue') : i \in 1 .. Len(queue) \/ i = Len(queue) + 1
  BY <1>1, <1>5
<1>10. seq' \in Int
  BY <1>4 DEF PackTypeOK, PacketizerAssumption
<1>11. \A i \in 1 .. Len(queue') : queue'[i].unit \in 1 .. Len(units')
  BY <1>1, <1>3, <1>5, <1>6, <1>9
<1>12. FragmentsFit'
  <2> SUFFICES ASSUME NEW i \in 1 .. Len(queue')
               PROVE  /\ (queue[i].first + queue[i].read <= units[queue[i].unit].size)'
                      /\ (queue[i].size <= MaxPayload)'
                      /\ (queue[i].fu => /\ queue[i].read \in 1 .. MaxPayload - HeaderSize
                                         /\ ~(Begins(queue[i]) /\ Finishes(queue[i])))'
    BY DEF FragmentsFit
  <2>1. CASE i \in 1 .. Len(queue)
    BY <2>1, <1>5, <1>8 DEF FragmentsFit
  <2>2. CASE i = Len(queue) + 1
    <3>1. queue'[i] = p
      BY <2>2, <1>5
    <3> QED
      BY <3>1, <1>3, <1>7 DEF Unit
  <2> QED
    BY <2>1, <2>2, <1>9
<1>13. EndIsMarked'
  <2> SUFFICES ASSUME NEW i \in 1 .. Len(queue')
               PROVE  /\ (queue[i].e <=> queue[i].fu /\ Finishes(queue[i]))'
                      /\ (queue[i].marker <=>
                            Finishes(queue[i]) /\ units[queue[i].unit].marker)'
    BY DEF EndIsMarked
  <2>1. CASE i \in 1 .. Len(queue)
    BY <2>1, <1>5, <1>8 DEF EndIsMarked
  <2>2. CASE i = Len(queue) + 1
    <3>1. queue'[i] = p
      BY <2>2, <1>5
    <3> QED
      BY <3>1, <1>3, <1>7 DEF Unit
  <2> QED
    BY <2>1, <2>2, <1>9
<1>14. Adjacent'
  <2>1. queue'[1].unit = 1 /\ Begins(queue[1])'
    <3>1. CASE queue = <<>>
      <4>1. Len(queue) = 0 /\ queue'[1] = p
        BY <3>1, <1>5, EmptySeq
      <4>2. Begins(queue[1])' <=> Begins(p)'
        BY <4>1 DEF Begins
      <4>3. Begins(p)'
        BY <3>1, <1>7 DEF PackTypeOK
      <4> QED
        BY <3>1, <4>1, <4>2, <4>3, <1>3
    <3>2. CASE queue # <<>>
      <4>1. 1 \in 1 .. Len(queue)
        BY <3>2, <1>1, EmptySeq DEF PackTypeOK
      <4> QED
        BY <3>2, <4>1, <1>5, <1>8 DEF Adjacent
    <3> QED
      BY <3>1, <3>2
  <2>2. ASSUME NEW i \in 1 .. Len(queue') - 1
        PROVE  Continues(queue[i], queue[i + 1])'
    <3>1. CASE i \in 1 .. Len(queue) - 1
      <4>1. i \in 1 .. Len(queue) /\ i + 1 \in 1 .. Len(queue)
        BY <3>1, <1>1
      <4>2. queue'[i] = queue[i] /\ queue'[i + 1] = queue[i + 1]
        BY <4>1, <1>5
      <4> QED
        BY <3>1, <4>1, <4>2, <1>8 DEF Adjacent, Continues
    <3>2. CASE i = Len(queue)
      <4>1. i \in 1 .. Len(queue) /\ queue # <<>>
        BY <3>2, <1>1, <1>5, EmptySeq
      <4>2. queue'[i] = queue[Len(queue)] /\ queue'[i + 1] = p
        BY <3>2, <4>1, <1>5
      <4>4. Continues(queue[i], queue[i + 1])'
        <5>1. /\ Finishes(queue[i])' = Finishes(queue[Len(queue)])
              /\ Begins(queue[i + 1])' = Begins(p)'
          BY <3>2, <4>1, <4>2, <1>8 DEF Begins
        <5>2. CASE fu /\ offset > 2
          BY <5>2, <4>1, <4>2, <1>3 DEF Continues
        <5>3. CASE ~(fu /\ offset > 2)
          <6>1. Begins(p)'
            BY <5>3, <1>7 DEF PackTypeOK
          <6>2. p.unit = queue'[i].unit + 1 /\ p.unit # queue'[i].unit
            BY <5>3, <4>1, <4>2, <1>1, <1>3, SMTT(30)
          <6>3. Finishes(queue[Len(queue)])
            BY <5>3, <4>1
          <6> QED
            BY <4>2, <5>1, <6>1, <6>2, <6>3 DEF Continues
        <5> QED
          BY <5>2, <5>3
      <4> QED
        BY <4>2, <4>4, <1>3
    <3> QED
      BY <3>1, <3>2, <1>1, <1>5
  <2> QED
    BY <2>1, <2>2 DEF Adjacent
<1>15. queue'[Len(queue')] = p
  BY <1>5
<1> QED
  BY <1>2, <1>5, <1>10, <1>11, <1>12, <1>13, <1>14, <1>15 DEF QueueInv

-----------------------------------------------------------------------------
\* A unit that fits: one packet with all of it.
LEMMA PackWholeKeeps ==
  ASSUME PacketizerAssumption, PackInv, PackWhole
  PROVE  PackInv'
<1> USE DEF PackInv
<1>1. /\ pc = "called" /\ Post(FALSE, FALSE, left, left, left, Unit.marker) /\ pc' = "idle"
      /\ units' = units /\ offset' = offset /\ left' = left /\ hdr' = hdr
  BY DEF PackWhole
<1>2. /\ offset = 0 /\ left = Unit.size /\ left \in Nat /\ units # <<>>
      /\ Len(units) \in Nat \ {0}
  BY <1>1, LenProperties, EmptySeq DEF InHand, PackTypeOK
<1>3. Unit \in UnitType
  BY <1>2, ElementOfSeq DEF Unit, PackTypeOK
<1>4. Unit.marker \in BOOLEAN /\ Unit.size \in Nat
  BY <1>3 DEF UnitType
<1>5. MayPost(FALSE, FALSE, left, left, Unit.marker)
  <2>1. left <= MaxPayload
    BY <1>2 DEF PackWhole, PacketizerAssumption
  <2> QED
    BY <1>1, <1>2, <1>4, <2>1 DEF MayPost, LastEnds
<1>6. /\ QueueInv'
      /\ queue'[Len(queue')] = Posted(FALSE, FALSE, left, left, left, Unit.marker)
  <2> DEFINE m == Unit.marker
  <2>1. /\ m \in BOOLEAN /\ left \in Nat /\ units' = units
        /\ MayPost(FALSE, FALSE, left, left, m)
        /\ Post(FALSE, FALSE, left, left, left, m)
    BY <1>1, <1>2, <1>4, <1>5
  <2> HIDE DEF m, PackInv
  <2>2. QueueInv' /\ queue'[Len(queue')] = Posted(FALSE, FALSE, left, left, left, m)
    BY <2>1, PostKeeps
  <2> QED
    BY <2>2 DEF m
<1>7. PackTypeOK'
  BY <1>1, <1>6 DEF QueueInv, PackTypeOK
<1>8. InHand'
  BY <1>1 DEF InHand
<1>9. LastEnds'
  <2>1. /\ queue'[Len(queue')].unit = Len(units')
        /\ queue'[Len(queue')].first + queue'[Len(queue')].read = Unit.size
    BY <1>1, <1>2, <1>4, <1>6 DEF Posted
  <2> QED
    BY <1>1, <1>6, <2>1 DEF LastEnds, QueueInv, Finishes, Unit
<1> QED
  BY <1>6, <1>7, <1>8, <1>9 DEF QueueInv

\* The unit's own header is stripped.
LEMMA BeginFragmentsKeeps ==
  ASSUME PacketizerAssumption, PackInv, BeginFragments
  PROVE  PackInv'
<1> USE DEF PackInv
<1>1. /\ pc = "called" /\ left >= MaxPayload /\ pc' = "loop" /\ hdr' = TRUE
      /\ offset' = 2 /\ left' = left - 2
      /\ units' = units /\ seq' = seq /\ queue' = queue
  BY DEF BeginFragments, NalHeader
<1>2. /\ offset = 0 /\ left \in Nat /\ left = Unit.size /\ units # <<>>
      /\ MaxPayload \in Nat /\ MaxPayload > 3
  BY <1>1 DEF InHand, PackTypeOK, PacketizerAssumption
<1>3. PackTypeOK'
  BY <1>1, <1>2 DEF PackTypeOK
<1>4. InHand'
  BY <1>1, <1>2 DEF InHand, Unit
<1>5. LastEnds'
  BY <1>1 DEF LastEnds, Finishes
<1> QED
  BY <1>1, <1>3, <1>4, <1>5
     DEF Adjacent, Begins, Continues, Finishes, FragmentsFit, EndIsMarked

\* A fragment in the loop ends before the unit does.
LEMMA FragmentKeeps ==
  ASSUME PacketizerAssumption, PackInv, Fragment
  PROVE  PackInv'
<1> USE DEF PackInv
<1> DEFINE chunk == MaxPayload - HeaderSize
<1>1. /\ pc = "loop" /\ left + 3 > MaxPayload
      /\ Post(TRUE, FALSE, chunk, 0, MaxPayload, FALSE)
      /\ offset' = offset + chunk /\ left' = left - chunk
      /\ pc' = "loop" /\ units' = units /\ hdr' = hdr
  BY DEF Fragment, NeedsMore, HeaderSize
<1>2. MaxPayload \in Nat /\ chunk \in Nat /\ chunk >= 1 /\ chunk = MaxPayload - 3
  BY DEF PacketizerAssumption, HeaderSize
<1> HIDE DEF chunk
<1>3. /\ units # <<>> /\ offset + left = Unit.size /\ offset >= 2 /\ left >= 1
      /\ Unit.size >= MaxPayload /\ offset \in Nat /\ left \in Nat
  BY <1>1 DEF InHand, PackTypeOK
<1>4. left' \in Nat /\ left' >= 1 /\ offset' \in Nat /\ offset' > 2
  BY <1>1, <1>2, <1>3
<1>5. MayPost(TRUE, FALSE, chunk, MaxPayload, FALSE)
  <2>1. chunk \in 1 .. MaxPayload - HeaderSize
    BY <1>2 DEF HeaderSize
  <2>2. offset + chunk < Unit.size
    BY <1>1, <1>2, <1>3
  <2>3. IF queue = <<>>
          THEN Len(units) = 1 /\ ~(offset > 2)
          ELSE LET q == queue[Len(queue)]
               IN  IF offset > 2
                     THEN q.unit = Len(units) /\ q.fu /\ q.first + q.read = offset
                     ELSE q.unit = Len(units) - 1 /\ Finishes(q)
    BY <1>1, <1>3 DEF LastEnds
  <2> QED
    BY <1>2, <1>3, <2>1, <2>2, <2>3 DEF MayPost
<1>6. /\ QueueInv'
      /\ queue'[Len(queue')] = Posted(TRUE, FALSE, chunk, 0, MaxPayload, FALSE)
  BY <1>1, <1>2, <1>5, PostKeeps
<1>7. PackTypeOK'
  BY <1>1, <1>4, <1>6 DEF QueueInv, PackTypeOK
<1>8. InHand'
  <2>1. offset' + left' = offset + left
    BY <1>1, <1>2, <1>3
  <2>2. Unit' = Unit /\ units' # <<>>
    BY <1>1, <1>3 DEF Unit
  <2>3. offset' >= 2
    BY <1>4
  <2> QED
    BY <1>1, <1>3, <1>4, <2>1, <2>2, <2>3 DEF InHand
<1>9. LastEnds'
  <2>1. /\ queue'[Len(queue')].unit = Len(units') /\ queue'[Len(queue')].fu
        /\ queue'[Len(queue')].first + queue'[Len(queue')].read = offset'
    BY <1>1, <1>6 DEF Posted
  <2>2. queue' # <<>>
    BY <1>6 DEF QueueInv
  <2>3. pc' = "loop" /\ offset' # 2
    BY <1>1, <1>4
  <2> QED
    BY <2>1, <2>2, <2>3 DEF LastEnds
<1> QED
  BY <1>6, <1>7, <1>8, <1>9 DEF QueueInv

\* The last fragment takes what is left, which the loop made fit.
LEMMA LastFragmentKeeps ==
  ASSUME PacketizerAssumption, PackInv, LastFragment
  PROVE  PackInv'
<1> USE DEF PackInv
<1>1. /\ pc = "loop" /\ ~(left + 3 > MaxPayload)
      /\ Post(TRUE, TRUE, left, 0, left, Unit.marker) /\ pc' = "idle"
      /\ units' = units /\ offset' = offset /\ left' = left /\ hdr' = hdr
  BY DEF LastFragment, NeedsMore, HeaderSize
<1>2. /\ units # <<>> /\ offset + left = Unit.size /\ offset >= 2 /\ left >= 1
      /\ Unit.size >= MaxPayload /\ offset \in Nat /\ left \in Nat
      /\ MaxPayload \in Nat /\ MaxPayload > 3 /\ Len(units) \in Nat \ {0}
  BY <1>1, LenProperties, EmptySeq DEF InHand, PackTypeOK, PacketizerAssumption
<1>3. Unit \in UnitType
  BY <1>2, ElementOfSeq DEF Unit, PackTypeOK
<1>4. Unit.marker \in BOOLEAN /\ Unit.size \in Nat
  BY <1>3 DEF UnitType
<1>5. MayPost(TRUE, TRUE, left, left, Unit.marker)
  <2>1. offset > 2
    BY <1>1, <1>2
  <2>2. left \in 1 .. MaxPayload - HeaderSize
    BY <1>1, <1>2 DEF HeaderSize
  <2>3. left <= MaxPayload
    BY <1>1, <1>2
  <2>4. /\ queue # <<>> /\ queue[Len(queue)].unit = Len(units)
        /\ queue[Len(queue)].fu
        /\ queue[Len(queue)].first + queue[Len(queue)].read = offset
    BY <1>1, <2>1 DEF LastEnds
  <2> QED
    BY <1>2, <1>4, <2>1, <2>2, <2>3, <2>4 DEF MayPost
<1>6. /\ QueueInv'
      /\ queue'[Len(queue')] = Posted(TRUE, TRUE, left, 0, left, Unit.marker)
  <2> DEFINE m == Unit.marker
  <2>1. /\ m \in BOOLEAN /\ left \in Nat /\ units' = units
        /\ MayPost(TRUE, TRUE, left, left, m)
        /\ Post(TRUE, TRUE, left, 0, left, m)
    BY <1>1, <1>2, <1>4, <1>5
  <2> HIDE DEF m, PackInv
  <2>2. QueueInv' /\ queue'[Len(queue')] = Posted(TRUE, TRUE, left, 0, left, m)
    BY <2>1, PostKeeps
  <2> QED
    BY <2>2 DEF m
<1>7. PackTypeOK'
  BY <1>1, <1>6 DEF QueueInv, PackTypeOK
<1>8. InHand'
  BY <1>1 DEF InHand
<1>9. LastEnds'
  <2>1. /\ queue'[Len(queue')].unit = Len(units')
        /\ queue'[Len(queue')].first + queue'[Len(queue')].read = Unit.size
    BY <1>1, <1>2, <1>6 DEF Posted
  <2> QED
    BY <1>1, <1>6, <2>1 DEF LastEnds, QueueInv, Finishes, Unit
<1> QED
  BY <1>6, <1>7, <1>8, <1>9 DEF QueueInv

\* When the process ends, the packets posted so far stay as they are.
LEMMA EndKeeps ==
  ASSUME PackInv, Traps \/ EndsElsewhere
  PROVE  PackInv'
<1>1. /\ pc' = "ended"
      /\ UNCHANGED <<units, offset, left, hdr, seq, queue>>
  BY DEF Traps, EndsElsewhere
<1> QED
  BY <1>1 DEF PackInv, PackTypeOK, InHand, LastEnds, Adjacent, Begins, Continues,
              Finishes, FragmentsFit, EndIsMarked

\* The packetizer's invariant, whatever units it is called with.
THEOREM Packetizing == PackSpec => []PackInv
<1>1. PackInit => PackInv
  BY PackInitially
<1>2. PackInv /\ [PackNext]_packVars => PackInv'
  <2> SUFFICES ASSUME PackInv, [PackNext]_packVars PROVE PackInv'
    OBVIOUS
  <2>1. CASE Call
    BY <2>1, CallKeeps, PacketizerAssumption
  <2>2. CASE PackWhole
    BY <2>2, PackWholeKeeps, PacketizerAssumption
  <2>3. CASE BeginFragments
    BY <2>3, BeginFragmentsKeeps, PacketizerAssumption
  <2>4. CASE Fragment
    BY <2>4, FragmentKeeps, PacketizerAssumption
  <2>5. CASE LastFragment
    BY <2>5, LastFragmentKeeps, PacketizerAssumption
  <2>6. CASE Traps \/ EndsElsewhere
    BY <2>6, EndKeeps
  <2>7. CASE UNCHANGED packVars
    BY <2>7 DEF packVars, PackInv, PackTypeOK, InHand, LastEnds, Adjacent, Begins,
                Continues, Finishes, FragmentsFit, EndIsMarked, Unit
  <2> QED
    BY <2>1, <2>2, <2>3, <2>4, <2>5, <2>6, <2>7 DEF PackNext, Pack
<1> QED
  BY <1>1, <1>2, PTL DEF PackSpec

-----------------------------------------------------------------------------
\* The packing thread is one of the packetizer's users.
LEMMA StepPacks ==
  ASSUME [Next]_vars
  PROVE  [PackNext]_packVars
<1>1. CASE Boot
  BY <1>1 DEF Boot, PackNext
<1>2. CASE PostUnit \/ Wait \/ WakeUp
  BY <1>2 DEF PostUnit, Wait, WakeUp
<1>3. CASE Dequeue
  BY <1>3 DEF Dequeue, PackNext
<1>4. CASE Packing
  BY <1>4 DEF Packing, PackNext
<1>5. CASE DequeueTraps \/ PackTraps \/ ServerEnds
  BY <1>5 DEF DequeueTraps, PackTraps, ServerEnds, PackNext
<1>6. CASE UNCHANGED vars
  BY <1>6 DEF vars
<1> QED
  BY <1>1, <1>2, <1>3, <1>4, <1>5, <1>6 DEF Next, PackThread

\* So what holds of the packetizer however it is called holds of it here.
LEMMA ThreadPacks == Spec => []PackInv
<1>1. Init => PackInit
  BY DEF Init
<1>2. [Next]_vars => [PackNext]_packVars
  BY StepPacks
<1>3. Spec => PackSpec
  BY <1>1, <1>2, PTL DEF Spec, PackSpec
<1> QED
  BY <1>3, Packetizing, PTL

\* Every byte of a unit behind its own header is read for exactly one packet, in
\* order, and every unit to its end before the next is begun.
THEOREM Coverage == Spec => []UnitsAreReadOnce
<1>1. PackInv => UnitsAreReadOnce
  BY DEF PackInv, Adjacent, LastEnds, UnitsAreReadOnce
<1> QED
  BY <1>1, ThreadPacks, PTL

\* No copy reads beyond its unit or more than a fragment is to have, and no fragment
\* is both ends of a unit.
THEOREM Fitting == Spec => []FragmentsFit
<1>1. PackInv => FragmentsFit
  BY DEF PackInv
<1> QED
  BY <1>1, ThreadPacks, PTL

\* The E bit is set in the fragment that finishes a unit and in no other, and the
\* marker of a unit is handed to rtp_marshaller with what finishes it only.
THEOREM EndMarking == Spec => []EndIsMarked
<1>1. PackInv => EndIsMarked
  BY DEF PackInv
<1> QED
  BY <1>1, ThreadPacks, PTL

=============================================================================
