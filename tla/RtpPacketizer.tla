--------------------------- MODULE RtpPacketizer ----------------------------
(***************************************************************************)
(* rtp_nalu2rtp (rtp.c): a NAL unit becomes one RTP packet or, when it is  *)
(* too long, a packet per fragment, each posted to the RTP queue.  A step  *)
(* of the model is a way through the function up to a post.                *)
(*                                                                         *)
(* Bytes are not modelled, but where they come from and what becomes of    *)
(* them is: a packet says which stretch of which unit was given to memcpy  *)
(* for it (first, read), how many of these bytes get into it (carried),    *)
(* what rtp_marshaller was told (size, marker), the flags of the fragment  *)
(* header, and the fields that are left of its RTP header (header).        *)
(*                                                                         *)
(* Three faults meet here.  No storage is ever assigned to the buffers of  *)
(* the packets and fragments that rtp_nalu2rtp allocates.  The bytes of a  *)
(* unit are copied not behind a fragment's header but to the address that  *)
(* the byte there happens to be, one of the first 256.  And the RTP header *)
(* is written into one byte.  Each write through such a pointer may end    *)
(* the process (Traps) or go where it disturbs nothing; what the model     *)
(* says is what the code does in the second case.                          *)
(***************************************************************************)
EXTENDS Integers, Sequences

CONSTANTS
  MaxPayload,   \* MAX_PAYLOAD_SIZE
  SeqSpace,     \* how many sequence numbers there are, 2^16 in the code
  UnitSizes,    \* the sizes of units that are packed
  MaxUnits      \* bound: how many units are packed

ASSUME PacketizerAssumption ==
  /\ MaxPayload \in Nat /\ MaxPayload > 3
  /\ SeqSpace \in Nat \ {0}
  /\ UnitSizes \subseteq Nat
  /\ MaxUnits \in Nat

VARIABLES
  pc,       \* "idle", "called", "loop" (fragments are cut) or "ended"
  units,    \* history: the units handed over so far, the last is in hand
  offset,   \* how far nalu->buffer has moved into the unit
  left,     \* nalu->size, what is left of the unit
  hdr,      \* the S bit in hdr[2], the template of the fragment headers
  seq,      \* _seq
  queue     \* the packets posted (nobody takes them: _video_send is empty)

packVars == <<pc, units, offset, left, hdr, seq, queue>>

NalHeader == 2    \* what is stripped from a unit that is cut
HeaderSize == 3   \* header_size, the payload header and the fragment header

Unit == units[Len(units)]

PackInit ==
  /\ pc = "idle"
  /\ units = <<>>
  /\ offset = 0 /\ left = 0 /\ hdr = FALSE
  /\ seq = 0
  /\ queue = <<>>

\* A call with a unit of some size, the last of its frame or not.
Call ==
  /\ pc = "idle"
  /\ Len(units) < MaxUnits
  /\ \E size \in UnitSizes, marker \in BOOLEAN :
       /\ units' = Append(units, [size |-> size, marker |-> marker])
       /\ left' = size
  /\ pc' = "called" /\ offset' = 0
  /\ UNCHANGED <<hdr, seq, queue>>

\* The fields of the RTP header in the order in which they are written.
HeaderFields == <<"version", "marker", "sequence", "timestamp", "ssrc">>

\* _w8 advances its own parameter and not the caller's pointer: every byte of every
\* field goes to the first byte of the packet, where the last one stays.
HeaderLeft == {HeaderFields[Len(HeaderFields)]}

\* rtp_marshaller and rtp_queue_post: the packet is counted, and gets the place at
\* the end of the queue.
Post(fu, e, read, carried, size, marker) ==
  /\ queue' = Append(queue,
       [unit |-> Len(units), fu |-> fu, s |-> fu /\ hdr, e |-> e,
        first |-> offset, read |-> read, carried |-> carried,
        size |-> size, marker |-> marker, header |-> HeaderLeft])
  /\ seq' = (seq + 1) % SeqSpace

\* A unit that fits is marshalled as it is.
PackWhole ==
  /\ pc = "called" /\ left < MaxPayload
  /\ Post(FALSE, FALSE, left, left, left, Unit.marker)
  /\ pc' = "idle"
  /\ UNCHANGED <<units, offset, left, hdr>>

BeginFragments ==
  /\ pc = "called" /\ left >= MaxPayload
  /\ hdr' = TRUE
  /\ offset' = NalHeader /\ left' = left - NalHeader
  /\ pc' = "loop"
  /\ UNCHANGED <<units, seq, queue>>

\* Mutant: the bytes of the header are not counted.
NeedsMoreLong == left > MaxPayload

\* The condition of the loop.
NeedsMore == left + HeaderSize > MaxPayload

\* Mutant: the unit moves on by the size of a fragment.
FragmentSkips ==
  /\ pc = "loop" /\ NeedsMore
  /\ Post(TRUE, FALSE, MaxPayload - HeaderSize, 0, MaxPayload, FALSE)
  /\ offset' = offset + MaxPayload /\ left' = left - MaxPayload
  /\ UNCHANGED <<pc, units, hdr>>

\* An iteration.  The destination of the copy is nal->buffer[header_size], a byte
\* taken for an address, so that nothing of the unit gets into the fragment.  The
\* S bit is cleared in the fragment that has been posted, which changes neither its
\* packet nor hdr.
Fragment ==
  /\ pc = "loop" /\ NeedsMore
  /\ Post(TRUE, FALSE, MaxPayload - HeaderSize, 0, MaxPayload, FALSE)
  /\ offset' = offset + (MaxPayload - HeaderSize)
  /\ left' = left - (MaxPayload - HeaderSize)
  /\ UNCHANGED <<pc, units, hdr>>

\* Mutant: the marker of the unit is not passed on.
LastFragmentUnmarked ==
  /\ pc = "loop" /\ ~NeedsMore
  /\ Post(TRUE, TRUE, left, 0, left, FALSE)
  /\ pc' = "idle"
  /\ UNCHANGED <<units, offset, left, hdr>>

\* Mutant: neither the loop nor what follows it takes a single byte left over.
LastFragmentNotOfOne ==
  /\ pc = "loop" /\ ~NeedsMore /\ left > 1
  /\ Post(TRUE, TRUE, left, 0, left, Unit.marker)
  /\ pc' = "idle"
  /\ UNCHANGED <<units, offset, left, hdr>>

\* What is left is the last fragment, copied to such an address too; its size leaves
\* the header out.
LastFragment ==
  /\ pc = "loop" /\ ~NeedsMore
  /\ Post(TRUE, TRUE, left, 0, left, Unit.marker)
  /\ pc' = "idle"
  /\ UNCHANGED <<units, offset, left, hdr>>

\* A write through a buffer pointer nobody assigned, or to one of those addresses.
Traps ==
  /\ pc \in {"called", "loop"}
  /\ pc' = "ended"
  /\ UNCHANGED <<units, offset, left, hdr, seq, queue>>

Pack == PackWhole \/ BeginFragments \/ Fragment \/ LastFragment

\* The process may be ended by its other threads.
EndsElsewhere ==
  /\ pc # "ended"
  /\ pc' = "ended"
  /\ UNCHANGED <<units, offset, left, hdr, seq, queue>>

PackNext == Call \/ Pack \/ Traps \/ EndsElsewhere

PackSpec == PackInit /\ [][PackNext]_packVars

-----------------------------------------------------------------------------
Begins(p) == p.first = IF p.fu THEN NalHeader ELSE 0
Finishes(p) == p.first + p.read = units[p.unit].size

\* q may come directly after p: with the next bytes of the same unit, or with
\* the beginning of the next unit when p has brought p's unit to its end.
Continues(p, q) ==
  IF q.unit = p.unit
    THEN p.fu /\ q.fu /\ q.first = p.first + p.read
    ELSE q.unit = p.unit + 1 /\ Finishes(p) /\ Begins(q)

\* Every byte of a unit behind its own header is given to the copying for exactly
\* one packet, and the packets are posted in that order: the unit is read to its
\* end, nothing of it twice, however its size meets the size of a packet.  Where
\* memcpy puts the bytes is another matter (FragmentsRebuildTheUnit).
UnitsAreReadOnce ==
  /\ queue # <<>> => queue[1].unit = 1 /\ Begins(queue[1])
  /\ \A i \in 1 .. Len(queue) - 1 : Continues(queue[i], queue[i + 1])
  /\ pc = "idle" /\ units # <<>> =>
       queue # <<>> /\ LET q == queue[Len(queue)]
                       IN  q.unit = Len(units) /\ Finishes(q)

\* What is read for a packet lies inside the unit.  A fragment's bytes with its
\* header are no more than the MaxPayload it is meant to have, it is not empty, and
\* none is start and end at once by its position.
FragmentsFit ==
  \A i \in 1 .. Len(queue) :
    LET q == queue[i]
    IN  /\ q.first + q.read <= units[q.unit].size
        /\ q.size <= MaxPayload
        /\ q.fu => /\ q.read \in 1 .. MaxPayload - HeaderSize
                   /\ ~(Begins(q) /\ Finishes(q))

\* The E bit is set in the last fragment of a unit and in no other, and
\* rtp_marshaller is told the marker of a unit for the packet that finishes it and
\* for no other.  What it makes of the marker is seen in FragmentsRebuildTheUnit.
EndIsMarked ==
  \A i \in 1 .. Len(queue) :
    LET q == queue[i]
    IN  /\ q.e <=> q.fu /\ Finishes(q)
        /\ q.marker <=> Finishes(q) /\ units[q.unit].marker

\* "transmit the buffer as fragmentation units (FU)" (rtp.c:72): a unit that was cut
\* can be put together again.  The S bit is to "mark as start fragment" (:100) the
\* first fragment and no other; a packet takes as many bytes as its fragment was to
\* have; what is read of the unit for it gets into it; and all the fields are there
\* that are written to "build rtp header" (:33).
FragmentsRebuildTheUnit ==
  pc = "idle" =>
    \A i \in 1 .. Len(queue) :
      LET q == queue[i]
      IN  q.fu => /\ q.s <=> Begins(q)
                  /\ q.size = HeaderSize + q.read
                  /\ q.carried = q.read
                  /\ q.header = {HeaderFields[k] : k \in DOMAIN HeaderFields}
=============================================================================
