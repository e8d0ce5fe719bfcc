----------------------------- MODULE MCRtspCodec -----------------------------
(***************************************************************************)
(* RtspCodec for model checking: the script of the repository's client,    *)
(* requests of other clients with every short header over a few lines, and *)
(* responses of other servers with every short payload over a few lines.   *)
(***************************************************************************)
EXTENDS RtspCodec

CONSTANTS MaxHeader, MaxBody   \* bounds: lines of a foreign header and payload

MCWordLen(w) == Len(w)

LongWord ==
  "0123456789012345678901234567890123456789012345678901234567890123"

HeaderLines ==
  {Line("CSeq", <<"7">>), Line("Session", <<>>), Line("Session", <<"one", "two">>),
   Line("Transport", <<"RTP/AVP;unicast">>), Line("Transport", <<"RTP/AVP">>),
   Line("Require", <<"x">>), Line("Date", <<LongWord>>)}

BodyLines ==
  {Line("v", <<"0">>), Line("o", <<"a", "b">>),
   Line("o", <<"a", "b", "c", "d", "e", "f", "g">>), Line("m", <<"video", "0">>),
   Line("a", <<"k", "v", "w">>), Line("a", <<"recvonly">>), Line("b", <<"AS:1">>)}

\* Descriptions with no medium, and with media that have no or some attributes.
Medium(attributes) ==
  [desc |-> <<"video", "0", "RTP/AVP", "96">>, attrs |-> attributes]
Bare(ms) ==
  [v |-> "0", o |-> <<"-", "1", "1", "IN", "IP6", "::1">>, s |-> "x",
   t |-> <<"0", "0">>, media |-> ms]

MCDescriptions ==
  {Created("IP4", "192.168.1.200"), Bare(<<>>), Bare(<<Medium(<<>>)>>),
   Bare(<<Medium(<<>>), Medium(<<<<"k", "v">>>>)>>),
   Bare(<<Medium(<<<<"k", "v">>, <<"l", "w">>>>), Medium(<<>>)>>)}

AnyOf(S, n) == UNION {[1 .. i -> S] : i \in 0 .. n}

ForeignRequests ==
  {[first |-> <<m, Uri("video"), "RTSP/1.0">>, header |-> h, body |-> <<>>] :
     m \in {"SETUP", "TEARDOWN"}, h \in AnyOf(HeaderLines, MaxHeader)}
  \cup {[first |-> <<"OPTIONS", LongWord, "RTSP/1.0">>, header |-> <<>>, body |-> <<>>]}

ForeignResponses ==
  {[first |-> <<"RTSP/1.0", "200", "OK">>,
    header |-> <<Line("Content-Type", <<"application/sdp">>)>>, body |-> b] :
     b \in AnyOf(BodyLines, MaxBody) \cup {Written(d) : d \in MCDescriptions}}

MCMessages == OwnRequests \cup ForeignRequests \cup ForeignResponses

MCTexts == {m.body : m \in MCMessages}
=============================================================================
