---------------------------- MODULE RtspTransport ----------------------------
(***************************************************************************)
(* One direction of a connection at the level of send and recv: how        *)
(* rtsp_send_msg cuts a message into segments and how rtsp_recv_msg finds  *)
(* out from the text received so far that a message is there               *)
(* (rtsp-common.c).                                                        *)
(*                                                                         *)
(* A message is known by its shape: its number of plain lines and the      *)
(* length of its payload.  Its text is a sequence of tokens: a plain line, *)
(* the Content-Type and the Content-Length line, the empty line that ends  *)
(* the header, a byte of the payload.  A message has the two lines just    *)
(* when it has a payload, and Content-Length is the payload's length; both *)
(* is so because _initialize_rtsp_rsp sets them together.                  *)
(*                                                                         *)
(* Lockstep says that a message is given to the stream only when the one   *)
(* before has been taken, as in a connection where requests and answers    *)
(* alternate.  Answers that went astray break it (see RtspSystem).         *)
(***************************************************************************)
EXTENDS Integers, SequencesExt

CONSTANTS
  Shapes,        \* the shapes of messages
  Mss,           \* the largest segment rtsp_send_msg sends
  Chunk,         \* the most that rtsp_recv_msg asks recv for
  Lockstep,      \* no message before the last one was taken
  MaxMessages    \* bound: messages given to the stream

ASSUME ShapesAssumption == Shapes \subseteq [lines : Nat, body : Nat]
ASSUME SizesAssumption == Mss \in Nat \ {0} /\ Chunk \in Nat \ {0}
ASSUME LockstepAssumption == Lockstep \in BOOLEAN

VARIABLES
  given,     \* history: the shapes of the messages handed to rtsp_send_msg
  sending,   \* the sender is in rtsp_send_msg, with the last of them
  st,        \* its variable of that name: how much of the message is sent
  up,        \* the sender has not closed its end
  wire,      \* tokens on their way, oldest first
  receiver,  \* "idle", "recv" (in rtsp_recv_msg), "gone" (it returned NULL and
             \* the connection is given up, or its process ended), "trap"
  buf,       \* msg[0 .. offset - 1] in rtsp_recv_msg
  taken      \* history: the texts it returned

senderVars   == <<given, sending, st, up>>
receiverVars == <<receiver, buf, taken>>
vars == <<senderVars, wire, receiverVars>>

-----------------------------------------------------------------------------
(* The text of a message.                                                  *)

HeaderLen(m) == m.lines + 1 + (IF m.body > 0 THEN 2 ELSE 0)

Size(m) == HeaderLen(m) + m.body

Text(m) == [i \in 1 .. Size(m) |-> [of |-> m, at |-> i]]

Token == UNION {{Text(m)[i] : i \in 1 .. Size(m)} : m \in Shapes}

IsEnd(t)    == t.at = HeaderLen(t.of)
IsType(t)   == t.of.body > 0 /\ t.at = t.of.lines + 1
IsLength(t) == t.of.body > 0 /\ t.at = t.of.lines + 2

Ends(b)    == {i \in DOMAIN b : IsEnd(b[i])}
Types(b)   == {i \in DOMAIN b : IsType(b[i])}
Lengths(b) == {i \in DOMAIN b : IsLength(b[i])}

\* What strstr returns: the first place.
First(places) == CHOOSE i \in places : \A j \in places : i <= j

-----------------------------------------------------------------------------
(* The conditions rtsp_recv_msg tests on what it has received so far.      *)

\* The length in the first Content-Length line.
Announced(b) == b[First(Lengths(b))].of.body

\* What follows the first empty line is as long as announced.
PayloadThere(b) == Len(b) - First(Ends(b)) >= Announced(b)

\* A Content-Length line is searched for and not there: _transcat_line reads
\* through a null pointer.
NullLine(b) == Ends(b) # {} /\ Types(b) # {} /\ Lengths(b) = {}

\* Mutants: the header's end is enough; the empty line counts as payload.
CompleteAtEnd(b) == Ends(b) # {} /\ ~NullLine(b)
CompleteEarly(b) ==
  /\ Ends(b) # {}
  /\ Types(b) # {} => Lengths(b) # {} /\ Len(b) + 1 - First(Ends(b)) >= Announced(b)

\* Mutant: more than the announced payload is waited for.
CompleteLate(b) ==
  /\ Ends(b) # {}
  /\ Types(b) # {} => Lengths(b) # {} /\ Len(b) - First(Ends(b)) > Announced(b)

Complete(b) ==
  /\ Ends(b) # {}
  /\ Types(b) # {} => Lengths(b) # {} /\ PayloadThere(b)

-----------------------------------------------------------------------------
Init ==
  /\ given = <<>> /\ sending = FALSE /\ st = 0 /\ up = TRUE
  /\ wire = <<>>
  /\ receiver = "idle" /\ buf = <<>> /\ taken = <<>>

(* The sender.                                                             *)

Current == given[Len(given)]

\* rtsp_send_msg is called.
Begin(m) ==
  /\ up /\ ~sending
  /\ Len(given) < MaxMessages
  /\ Lockstep => Len(taken) = Len(given)
  /\ given' = Append(given, m)
  /\ sending' = TRUE
  /\ st' = 0
  /\ UNCHANGED <<up, wire, receiverVars>>

\* sd: the length of the next segment.
SegmentLen == IF Size(Current) - st > Mss THEN Mss ELSE Size(Current) - st

\* Mutants: every segment is taken from the start of the message; one segment
\* is taken for the whole message.
SendSegmentFromStart ==
  /\ up /\ sending /\ st < Size(Current)
  /\ wire' = wire \o SubSeq(Text(Current), 1, SegmentLen)
  /\ st' = st + SegmentLen
  /\ UNCHANGED <<given, sending, up, receiverVars>>
SendSegmentOnce ==
  /\ up /\ sending /\ st < Size(Current)
  /\ wire' = wire \o SubSeq(Text(Current), st + 1, st + SegmentLen)
  /\ st' = Size(Current)
  /\ UNCHANGED <<given, sending, up, receiverVars>>

\* One iteration of the loop.  The sockets block, so a send that does not fail
\* sends all it was asked to.
SendSegment ==
  /\ up /\ sending /\ st < Size(Current)
  /\ wire' = wire \o SubSeq(Text(Current), st + 1, st + SegmentLen)
  /\ st' = st + SegmentLen
  /\ UNCHANGED <<given, sending, up, receiverVars>>

\* rtsp_send_msg returns.
SendDone ==
  /\ up /\ sending /\ st >= Size(Current)
  /\ sending' = FALSE
  /\ UNCHANGED <<given, st, up, wire, receiverVars>>

\* send fails: the other end is gone.  No caller looks at what is returned.
SendFails ==
  /\ up /\ sending /\ st < Size(Current)
  /\ receiver \in {"gone", "trap"}
  /\ sending' = FALSE
  /\ UNCHANGED <<given, st, up, wire, receiverVars>>

\* The sender's end is closed, or its process ends, possibly in a message.
SenderEnds ==
  /\ up
  /\ up' = FALSE
  /\ UNCHANGED <<given, sending, st, wire, receiverVars>>

-----------------------------------------------------------------------------
(* The receiver.                                                           *)

\* rtsp_recv_msg is called: the buffer is new and all zero.
CallRecv ==
  /\ receiver = "idle"
  /\ receiver' = "recv"
  /\ UNCHANGED <<senderVars, wire, buf, taken>>

\* recv returns some of what is on its way.
Arrived(k) == buf \o SubSeq(wire, 1, k)

Recv(k) ==
  /\ receiver = "recv"
  /\ k <= Len(wire) /\ k <= Chunk
  /\ wire' = SubSeq(wire, k + 1, Len(wire))
  /\ UNCHANGED senderVars

\* Not all is there: the loop goes round.
ReceivePart(k) ==
  /\ Recv(k)
  /\ ~Complete(Arrived(k)) /\ ~NullLine(Arrived(k))
  /\ buf' = Arrived(k)
  /\ UNCHANGED <<receiver, taken>>

\* Mutant: what is returned is only what recv returned last.
ReceiveRestOnly(k) ==
  /\ Recv(k)
  /\ Complete(Arrived(k))
  /\ taken' = Append(taken, SubSeq(wire, 1, k))
  /\ buf' = <<>>
  /\ receiver' = "idle"

ReceiveRest(k) ==
  /\ Recv(k)
  /\ Complete(Arrived(k))
  /\ taken' = Append(taken, Arrived(k))
  /\ buf' = <<>>
  /\ receiver' = "idle"

ReceiveTraps(k) ==
  /\ Recv(k)
  /\ NullLine(Arrived(k))
  /\ buf' = Arrived(k)
  /\ receiver' = "trap"
  /\ UNCHANGED taken

\* recv returns 0 or an error: NULL, and what was received is forgotten.  An
\* error may overtake what is still on its way.
RecvFails ==
  /\ receiver = "recv" /\ ~up
  /\ receiver' = "gone"
  /\ UNCHANGED <<senderVars, wire, buf, taken>>

\* The receiver's process ends.
ReceiverEnds ==
  /\ receiver \in {"idle", "recv"}
  /\ receiver' = "gone"
  /\ UNCHANGED <<senderVars, wire, buf, taken>>

-----------------------------------------------------------------------------
SendLoop == SendSegment \/ SendDone \/ SendFails

ReceiveLoop ==
  \/ CallRecv \/ RecvFails
  \/ \E k \in 1 .. Len(wire) : ReceivePart(k) \/ ReceiveRest(k) \/ ReceiveTraps(k)

Next ==
  \/ \E m \in Shapes : Begin(m)
  \/ SendLoop \/ SenderEnds
  \/ ReceiveLoop \/ ReceiverEnds

\* Both loops run in threads that do nothing else until they return, and both
\* programs call rtsp_recv_msg again as soon as they have dealt with a message
\* or sent the next.
Fairness == WF_vars(SendLoop) /\ WF_vars(ReceiveLoop)

Spec == Init /\ [][Next]_vars /\ Fairness

-----------------------------------------------------------------------------
(* Messages one at a time.                                                 *)

TypeOK ==
  /\ given \in Seq(Shapes)
  /\ sending \in BOOLEAN
  /\ st \in Nat
  /\ up \in BOOLEAN
  /\ wire \in Seq(Token)
  /\ receiver \in {"idle", "recv", "gone", "trap"}
  /\ buf \in Seq(Token)
  /\ taken \in Seq(Seq(Token))

Outstanding == Len(given) = Len(taken) + 1

\* The message outstanding is in three places: what the receiver has, what is
\* on its way and what the sender has not sent yet.
Parts ==
  /\ st <= Size(Current)
  /\ Len(buf) + Len(wire) = st
  /\ buf = SubSeq(Text(Current), 1, Len(buf))
  /\ wire = SubSeq(Text(Current), Len(buf) + 1, st)
  /\ Len(buf) < Size(Current)

\* The sender is through with a message only when all of it is sent.
SentWhole == ~sending /\ receiver # "gone" => st = Size(Current)

\* What was taken are the messages given, whole and in order.
TakenWhole == \A i \in DOMAIN taken : i <= Len(given) /\ taken[i] = Text(given[i])

\* The inductive invariant of a lockstep stream: a message is in exactly one of
\* the three places or taken, and rtsp_recv_msg returns neither before nor
\* after its last byte is there, however send and recv cut the text.
StreamInv ==
  /\ TypeOK
  /\ TakenWhole
  /\ receiver # "trap"
  /\ receiver = "idle" => buf = <<>>
  /\ \/ /\ Len(given) = Len(taken)
        /\ wire = <<>> /\ buf = <<>>
        /\ sending => given # <<>> /\ st = Size(Current)
     \/ Outstanding /\ Parts /\ SentWhole

\* rtsp_send_msg and rtsp_recv_msg together are a stream of whole messages.
Stream == INSTANCE MessageStream WITH
  Messages <- {Text(m) : m \in Shapes},
  given <- [i \in DOMAIN given |-> Text(given[i])]

ImplementsMessageStream == Stream!Spec

\* A message handed to rtsp_send_msg is returned by rtsp_recv_msg unless one of
\* the two ends: the loop never waits for bytes that nobody will send.
AllTaken ==
  \A k \in 1 .. MaxMessages :
    Len(given) >= k ~> (Len(taken) >= k \/ ~up \/ receiver = "gone")

-----------------------------------------------------------------------------
(* Messages that follow one another without an answer in between.          *)

BeginsAMessage(b) == b # <<>> /\ b[1].at = 1

\* A receive that begins where a message begins returns the whole of that
\* message at least, with or without a payload, whatever has arrived of the
\* messages behind it.
FirstIsWhole ==
  \A i \in DOMAIN taken :
    BeginsAMessage(taken[i]) =>
      LET m == taken[i][1].of
      IN  Len(taken[i]) >= Size(m) /\ SubSeq(taken[i], 1, Size(m)) = Text(m)

\* Such a receive is not left waiting when everything that was sent is there:
\* the length it waits for is never more than what some message announced.
NeverStuckAtAMessage ==
  BeginsAMessage(buf) /\ receiver = "recv" /\ up => sending \/ wire # <<>>

\* No byte is lost, doubled or out of order between the sender's loop and the
\* texts rtsp_recv_msg has returned, also when a receive takes the beginning of
\* the next message along (rtsp-common.c:201-208, 233-268).
NothingLostOrReordered ==
  LET all  == FlattenSeq([i \in DOMAIN given |-> Text(given[i])])
      sent == IF given = <<>> THEN 0 ELSE Len(all) - Size(Current) + st
  IN  receiver \in {"idle", "recv"} =>
        FlattenSeq(taken) \o buf \o wire = SubSeq(all, 1, sent)

\* Each token stands among the tokens of its message, as far as these are there.
InPlace(f) ==
  \A p, q \in DOMAIN f :
    q - p + f[p].at \in 1 .. Size(f[p].of) =>
      f[q] = [of |-> f[p].of, at |-> q - p + f[p].at]

\* The last s places are for the first s tokens of m, and no other message
\* reaches beyond the end.
EndsWith(f, m, s) ==
  \A p \in DOMAIN f :
    p > Len(f) - s \/ p - f[p].at + Size(f[p].of) > Len(f) =>
      f[p] = [of |-> m, at |-> p - (Len(f) - s)]

\* The inductive invariant of any stream: what is received and what is on its
\* way are messages next to one another, the first possibly without its
\* beginning, the last as far as the sender's loop has come with it; and
\* rtsp_recv_msg has not gone round with a text that passes its test.
PipelinedInv ==
  /\ TypeOK
  /\ FirstIsWhole
  /\ sending => given # <<>>
  /\ receiver \in {"idle", "recv"} =>
       /\ receiver = "idle" => buf = <<>>
       /\ ~Complete(buf) /\ ~NullLine(buf)
       /\ IF given = <<>> THEN buf = <<>> /\ wire = <<>>
          ELSE /\ st <= Size(Current)
               /\ ~sending => st = Size(Current)
               /\ InPlace(buf \o wire)
               /\ EndsWith(buf \o wire, Current, st)
=============================================================================
