------------------------------ MODULE RtspCodec ------------------------------
(***************************************************************************)
(* Writing and reading of messages: a request is read, answered from what  *)
(* was read, and the answer is read in turn, with the description in its   *)
(* payload; and the size that each message and description is given before *)
(* it is written.                                                          *)
(*                                                                         *)
(* Words are strings here, for two reasons: their lengths are what the     *)
(* sizes and the 64-byte buffers of the parsers are about, and the server  *)
(* builds a word (the transport) out of one it has read.                   *)
(***************************************************************************)
EXTENDS RtspParser, SequencesExt

CONSTANT Descriptions   \* the descriptions that are written, see Created

\* sdp_t: fields are words, an attribute is its key and value.
Description ==
  [v : STRING, o : [1 .. 6 -> STRING], s : STRING, t : [1 .. 2 -> STRING],
   media : Seq([desc : [1 .. 4 -> STRING], attrs : Seq([1 .. 2 -> STRING])])]

ASSUME DescriptionsAssumption == Descriptions \subseteq Description

\* rtsp_calc_msg_size and the marshaller know a first line of three words only.
ASSUME FirstLinesAssumption == \A m \in Messages : Len(m.first) = 3

VARIABLE own   \* whether the request came from the repository's own client

vars == <<rtspVars, sdpVars, own>>

-----------------------------------------------------------------------------
\* The description that sdp_create makes for the server's two streams.
Created(addrType, addr) ==
  [v |-> "0",
   o |-> <<"-", "1700000000000", "1700000000000", "IN", addrType, addr>>,
   s |-> "simple-rtsp", t |-> <<"0", "0">>,
   media |-> <<[desc |-> <<"video", "0", "RTP/AVP", "96">>,
                attrs |-> <<<<"rtpmap", "96 H265/90000">>, <<"control", "video">>>>],
               [desc |-> <<"audio", "0", "RTP/AVP", "97">>,
                attrs |-> <<<<"rtpmap", "97 OPUS/48000/2">>, <<"control", "audio">>>>]>>]

Line(key, parts) == [key |-> key, parts |-> parts]

\* sdp_marshaller_msg
Written(d) ==
  LET MediumLines(m) ==
        <<Line("m", m.desc)>> \o [x \in DOMAIN m.attrs |-> Line("a", m.attrs[x])]
  IN  <<Line("v", <<d.v>>), Line("o", d.o), Line("s", <<d.s>>), Line("t", d.t)>>
        \o FlattenSeq([i \in DOMAIN d.media |-> MediumLines(d.media[i])])

-----------------------------------------------------------------------------
Total(numbers) == FoldLeft(LAMBDA sum, n : sum + n, 0, numbers)
Lengths(parts) == Total([w \in DOMAIN parts |-> WordLen(parts[w])])

\* strlen of parts with one character between each two.
Joined(parts) == Lengths(parts) + (IF parts = <<>> THEN 0 ELSE Len(parts) - 1)

CRLF_LEN == 2
SPACE_LEN == 1
COLON_LEN == 1

\* How much sdp_marshaller_msg and rtsp_marshaller_msg write, line by line.
SdpLength(ls) == Total([l \in DOMAIN ls |-> 2 + Joined(ls[l].parts) + CRLF_LEN])

RtspLength(m) ==
  Joined(m.first) + CRLF_LEN
    + Total([l \in DOMAIN m.header |->
               WordLen(m.header[l].key) + 2 + Joined(m.header[l].parts) + CRLF_LEN])
    + CRLF_LEN + SdpLength(m.body)

\* Mutant: the colon of an attribute is not counted.
SdpSizeNoColon(d) ==
  1 + (2 + WordLen(d.v) + CRLF_LEN)
    + (2 + Lengths(d.o) + CRLF_LEN + SPACE_LEN * 5)
    + (2 + WordLen(d.s) + CRLF_LEN)
    + (2 + Lengths(d.t) + CRLF_LEN + SPACE_LEN)
    + Total([i \in DOMAIN d.media |->
               2 + Lengths(d.media[i].desc) + CRLF_LEN + SPACE_LEN * 3
                 + Total([x \in DOMAIN d.media[i].attrs |->
                            2 + Lengths(d.media[i].attrs[x]) + CRLF_LEN])])

\* sdp_calc_msg_size, the terminating zero included.
SdpSize(d) ==
  1 + (2 + WordLen(d.v) + CRLF_LEN)
    + (2 + Lengths(d.o) + CRLF_LEN + SPACE_LEN * 5)
    + (2 + WordLen(d.s) + CRLF_LEN)
    + (2 + Lengths(d.t) + CRLF_LEN + SPACE_LEN)
    + Total([i \in DOMAIN d.media |->
               2 + Lengths(d.media[i].desc) + CRLF_LEN + SPACE_LEN * 3
                 + Total([x \in DOMAIN d.media[i].attrs |->
                            2 + Lengths(d.media[i].attrs[x]) + COLON_LEN + CRLF_LEN])])

\* rtsp_calc_msg_size, the terminating zero included.
RtspSize(m) ==
  1 + Lengths(m.first) + CRLF_LEN + SPACE_LEN * 2
    + Total([l \in DOMAIN m.header |->
               WordLen(m.header[l].key) + Joined(m.header[l].parts)
                 + COLON_LEN + SPACE_LEN + CRLF_LEN])
    + CRLF_LEN + SdpLength(m.body)

-----------------------------------------------------------------------------
Uri(track) ==
  "rtsp://192.168.1.200:8554/live" \o (IF track = "" THEN "" ELSE "/" \o track)

\* _initialize_rtsp_req
Request(method, track, cseq, sess) ==
  [first |-> <<method, Uri(track), "RTSP/1.0">>,
   header |->
     <<Line("CSeq", <<cseq>>), Line("User-Agent", <<"simple-rtsp", "client">>)>>
       \o (CASE method = "DESCRIBE" -> <<Line("Accept", <<"application/sdp">>)>>
             [] method = "SETUP" ->
                  <<Line("Transport", <<"RTP/AVP;unicast;client_port=50000-50001">>)>>
                    \o (IF sess = "" THEN <<>> ELSE <<Line("Session", <<sess>>)>>)
             [] method = "PLAY" -> <<Line("Session", <<sess>>)>>
             [] OTHER -> <<>>),
   body |-> <<>>]

NewSession == "1700000000000"

\* The script of run_rtspclient.
OwnRequests ==
  {Request("OPTIONS", "", "1", ""), Request("DESCRIBE", "", "2", ""),
   Request("SETUP", "video", "3", ""), Request("SETUP", "audio", "4", NewSession),
   Request("PLAY", "", "5", NewSession)}

\* The value of the last attribute with a key, or a default.
LastAttr(key, default) ==
  FoldLeft(LAMBDA v, at1 : IF at1.key = key THEN at1.val ELSE v, default, attrs)

\* memcpy of each such value over the one before, which it clears only as far
\* as it reaches.
OverlaidAttr(key) ==
  FoldLeft(LAMBDA v, at1 :
             IF at1.key = key
               THEN at1.val \o SubSeq(v, Len(at1.val) + 1, Len(v)) ELSE v,
           NoWord, attrs)

\* Mutant: the parameter's name is a letter longer.
ServerPortLonger ==
  CASE first[2] = Uri("video") -> ";server_ports=20000-20001"
    [] first[2] = Uri("audio") -> ";server_ports=20002-20003"
    [] OTHER -> NoWord

ServerPort ==
  CASE first[2] = Uri("video") -> ";server_port=20000-20001"
    [] first[2] = Uri("audio") -> ";server_port=20002-20003"
    [] OTHER -> NoWord

Prepared == {"OPTIONS", "DESCRIBE", "SETUP", "PLAY"}

\* _initialize_rtsp_rsp for the request that was read.
Response ==
  LET description == Written(Created("IP4", "192.168.1.200"))
      session1 == LastAttr("Session", IF first[1] = "SETUP" THEN NewSession ELSE NoWord)
  IN  [first |-> <<first[3], "200", "OK">>,
       header |->
         <<Line("CSeq", <<LastAttr("CSeq", NoWord)>>),
           Line("Date", <<"Mon,", "01", "Jan", "2024", "00:00:00", "GMT">>),
           Line("Server", <<"simple-rtsp", "server">>)>>
           \o (CASE first[1] = "OPTIONS" ->
                      <<Line("Public", <<"OPTIONS,", "DESCRIBE,", "SETUP,",
                                         "TEARDOWN,", "PLAY">>)>>
                 [] first[1] = "DESCRIBE" ->
                      <<Line("Content-Type", <<"application/sdp">>),
                        Line("Content-Length", <<ToString(SdpLength(description))>>)>>
                 [] first[1] = "SETUP" ->
                      <<Line("Session", <<session1>>),
                        Line("Transport", <<OverlaidAttr("Transport") \o ServerPort>>)>>
                 [] first[1] = "PLAY" -> <<Line("Session", <<session1>>)>>),
       body |-> IF first[1] = "DESCRIBE" THEN description ELSE <<>>]

-----------------------------------------------------------------------------
Init ==
  /\ RtspInit /\ SdpStart
  /\ lines = message.body
  /\ own = (message \in OwnRequests)

ReadMessage == RtspNext /\ UNCHANGED <<sdpVars, own>>

IsRequestRead == rd = "done" /\ ~IsResponse

\* The response is written, sent and taken for a message to read.
Answer ==
  /\ IsRequestRead
  /\ first[1] \in Prepared
  /\ \E i \in DOMAIN attrs : attrs[i].key = "CSeq"
  /\ message' = Response /\ lines' = Response.body
  /\ rd' = "first" /\ k' = 1
  /\ first' = <<>> /\ attrs' = <<>> /\ payload' = FALSE
  /\ scanned' = [key \in Known |-> <<NoWord>>]
  /\ UNCHANGED <<at, j, session, media, num, heads, own>>

\* A request without CSeq, whose value is then duplicated from NULL, or with a
\* method that no payload is assigned for: undefined, and where the model stops.
AnswerTraps ==
  /\ IsRequestRead
  /\ ~(first[1] \in Prepared /\ \E i \in DOMAIN attrs : attrs[i].key = "CSeq")
  /\ rd' = "trap"
  /\ UNCHANGED <<message, k, first, attrs, scanned, payload, sdpVars, own>>

\* The client reads the description once it has the message.
ReadDescription ==
  /\ rd = "done" /\ payload
  /\ SdpNext
  /\ UNCHANGED <<rtspVars, own>>

Next == ReadMessage \/ Answer \/ AnswerTraps \/ ReadDescription

Spec == Init /\ [][Next]_vars

-----------------------------------------------------------------------------
\* What is allocated for a message or a description is what is written into it
\* and a terminating zero: cdk_strcat has no reason to cut anything off, and
\* Content-Length, taken from the text, is the length that was counted.
SizesAreExact ==
  /\ RtspSize(message) = RtspLength(message) + 1
  /\ \A d \in Descriptions : SdpSize(d) = SdpLength(Written(d)) + 1

\* The attributes the two programs act upon.
Needed == {"CSeq", "Session", "Transport", "Content-Type", "Content-Length"}

\* The requests of the client and the responses to them get through both
\* parsers: no word meets a buffer too small for it, each attribute the other
\* side acts upon is read back whole, and a description is found exactly in the
\* message that has one.
OwnMessagesSurvive ==
  own =>
    /\ rd # "trap" /\ at # "trap"
    /\ rd = "done" =>
         /\ payload = (message.body # <<>>)
         /\ \A l \in DOMAIN message.header :
              message.header[l].key \in Needed =>
                \E i \in DOMAIN attrs :
                  /\ attrs[i].key = message.header[l].key
                  /\ message.header[l].parts = <<attrs[i].val>>

\* A description that fits the array, of single words and with a value in every
\* attribute, is read back as it was written.
DescriptionReadBack ==
  at = "done" =>
    \A d \in Descriptions :
      lines = Written(d) =>
        /\ session = [v |-> <<d.v>>, o |-> d.o, s |-> <<d.s>>, t |-> d.t]
        /\ media = d.media
=============================================================================
