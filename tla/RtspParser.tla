----------------------------- MODULE RtspParser -----------------------------
(***************************************************************************)
(* rtsp_demarshaller_msg (rtsp-common.c): what the receiver of a message   *)
(* makes of its text.  A step is a line.                                   *)
(*                                                                         *)
(* A text is its first line, its header lines and its body, each line a    *)
(* key and the words behind it.  Lines end at CR LF and empty lines are    *)
(* skipped, so the loop over the attributes runs on through the body.      *)
(***************************************************************************)
EXTENDS SdpParser

CONSTANT Messages   \* the texts: see MessagesAssumption

ASSUME MessagesAssumption ==
  Messages \subseteq
    [first : Seq(STRING), header : Seq([key : STRING, parts : Seq(STRING)]),
     body : Seq([key : STRING, parts : Seq(STRING)])]

VARIABLES
  message,   \* the text
  rd,        \* "first", "attrs", "done" or "trap"
  k,         \* the line that strtok returns next, counted after the first
  first,     \* version, code and status, or method, uri and version
  attrs,     \* rtsp_msg->attrs
  scanned,   \* the word buffers of the attributes, one per key
  payload    \* whether rtsp_msg->payload is the body (or NULL)

rtspVars == <<message, rd, k, first, attrs, scanned, payload>>

\* The attributes the parser knows; each has a buffer of its own.
Known ==
  {"CSeq", "User-Agent", "Public", "Server", "Date", "Content-Type",
   "Content-Length", "Transport", "Session"}

Rest == message.header \o message.body

IsResponse == Scanned(message.first, 1, <<>>) = <<"RTSP/1.0">>

\* strstr(msg, "Content-Type: application/sdp")
AnnouncesSdp ==
  \E l \in 1 .. Len(Rest) :
    Rest[l].key = "Content-Type" /\ Scanned(Rest[l].parts, 1, <<>>) = <<"application/sdp">>

RtspInit ==
  /\ message \in Messages
  /\ rd = "first" /\ k = 1
  /\ first = <<>> /\ attrs = <<>>
  /\ scanned = [key \in Known |-> <<NoWord>>]
  /\ payload = FALSE

\* The type, the payload and the first line.
ReadFirst ==
  /\ rd = "first"
  /\ IF Overflows(message.first, 3)
       THEN rd' = "trap" /\ UNCHANGED <<first, payload>>
       ELSE /\ rd' = "attrs"
            /\ first' = Scanned(message.first, 3, <<>>)
            /\ payload' = (IsResponse /\ AnnouncesSdp)
  /\ UNCHANGED <<message, k, attrs, scanned>>

MoreLines == k <= Len(Rest)

\* The value of a known attribute is its first word.  When there is none the
\* buffer keeps the value of an earlier line with the same key.
ReadKnown ==
  /\ rd = "attrs" /\ MoreLines /\ Rest[k].key \in Known
  /\ LET key == Rest[k].key
         val == Scanned(Rest[k].parts, 1, scanned[key])
     IN  IF Overflows(Rest[k].parts, 1)
           THEN rd' = "trap" /\ UNCHANGED <<k, attrs, scanned>>
           ELSE /\ attrs' = Append(attrs, [key |-> key, val |-> val[1]])
                /\ scanned' = [scanned EXCEPT ![key] = val]
                /\ k' = k + 1
                /\ UNCHANGED rd
  /\ UNCHANGED <<message, first, payload>>

\* Mutant: an unknown line ends the loop.
SkipLineStops ==
  /\ rd = "attrs" /\ MoreLines /\ Rest[k].key \notin Known
  /\ k' = Len(Rest) + 1
  /\ UNCHANGED <<message, rd, first, attrs, scanned, payload>>

SkipLine ==
  /\ rd = "attrs" /\ MoreLines /\ Rest[k].key \notin Known
  /\ k' = k + 1
  /\ UNCHANGED <<message, rd, first, attrs, scanned, payload>>

RtspFinish ==
  /\ rd = "attrs" /\ ~MoreLines
  /\ rd' = "done"
  /\ UNCHANGED <<message, k, first, attrs, scanned, payload>>

RtspNext == ReadFirst \/ ReadKnown \/ SkipLine \/ RtspFinish

-----------------------------------------------------------------------------
\* A value read is the first word of its line or, for an empty line, that of
\* the nearest line before it with the same key and a word.
ValueOf(l) ==
  LET key == Rest[l].key
      with == {i \in 1 .. l : Rest[i].key = key /\ Rest[i].parts # <<>>}
  IN  IF with = {} THEN NoWord
      ELSE LET i == CHOOSE i \in with : \A o \in with : o <= i
           IN  Rest[i].parts[1]

\* What is read so far is the known attributes of the lines passed, in order,
\* wherever unknown lines, empty values and the lines of the body come between.
AttributesReadBack ==
  LET known == {l \in 1 .. k - 1 : Rest[l].key \in Known}
      RankIn(l) == Cardinality({i \in known : i <= l})
  IN  /\ Len(attrs) = Cardinality(known)
      /\ \A l \in known :
           attrs[RankIn(l)] = [key |-> Rest[l].key, val |-> ValueOf(l)]
=============================================================================
