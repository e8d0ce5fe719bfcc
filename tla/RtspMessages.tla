---------------------------- MODULE RtspMessages ----------------------------
(***************************************************************************)
(* The RTSP messages that simple-rtsp's client and server exchange, kept   *)
(* to the attributes that the two programs act upon.                       *)
(*                                                                         *)
(* A request is what _initialize_rtsp_req (rtsp-client.c) fills in, a      *)
(* response what _initialize_rtsp_rsp (rtsp-server.c) fills in.  Fields    *)
(* nobody reads (Date, Server, User-Agent, Accept, the status string) are  *)
(* left out, as is the status code: this server only ever answers 200.     *)
(* "from" and "of" are not on the wire: they name the client whose request *)
(* a message carries or answers, so that properties can speak about it.    *)
(***************************************************************************)
EXTENDS Naturals, Sequences, FiniteSets

CONSTANTS
  Clients,   \* the client processes; each dials the server at most once
  Sessions,  \* the session identifiers the server's clock can yield
  None       \* "attribute absent", "empty string", "no socket"

\* The media that sdp_create puts in every session description, in order.
\* Each media's "control" attribute is its track name, which is also its type.
Media == <<"video", "audio">>

Tracks == {Media[i] : i \in DOMAIN Media}

\* The RTP and RTCP ports run_rtspserver listens on, as SETUP announces them.
ServerPort == [video |-> <<20000, 20001>>, audio |-> <<20002, 20003>>]

Ports == {ServerPort[t] : t \in Tracks}

\* What the server's OPTIONS response announces in its Public attribute.
Public == {"OPTIONS", "DESCRIBE", "SETUP", "TEARDOWN", "PLAY"}

\* The methods for which _initialize_rtsp_rsp assigns rsp->payload.  For any
\* other method the field keeps whatever the stack held.
PayloadAssigned == {"OPTIONS", "DESCRIBE", "SETUP", "PLAY"}

Request ==
  [ from    : Clients,
    cseq    : Nat,
    method  : Public,
    track   : Tracks \cup {None},
    session : Sessions \cup {None} ]

Response ==
  [ of      : Clients,
    cseq    : Nat,
    sdp     : BOOLEAN,                   \* carries a session description
    session : Sessions \cup {None},
    port    : Ports \cup {None} ]        \* server_port of the Transport attribute

\* "Absent" is told apart from everything that can be there.
ASSUME NoneAssumption ==
  /\ None \notin Clients /\ None \notin Sessions /\ None \notin Ports
  /\ None \notin Request /\ None \notin Response

-----------------------------------------------------------------------------
(* The responses _initialize_rtsp_rsp may build for request q.             *)

\* Mutants: the Session of the request is appended to the new one, or ignored.
SetupSessionsAppended(q) ==
  IF q.session = None THEN Sessions ELSE {<<s, q.session>> : s \in Sessions}
SetupSessionsFresh(q) == Sessions

\* SETUP without a Session attribute gets the clock in seconds as its session:
\* any identifier, possibly one already handed out in the same second.
SetupSessions(q) == IF q.session = None THEN Sessions ELSE {q.session}

\* Mutant: PLAY's buffer is not cleared before the Session is copied into it.
ResponseSessionsMixed(q) ==
  CASE q.method = "SETUP" -> SetupSessions(q)
    [] q.method = "PLAY"  -> {<<s, q.session>> : s \in Sessions}
    [] OTHER              -> {None}

ResponseSessions(q) ==
  CASE q.method = "SETUP" -> SetupSessions(q)
    [] q.method = "PLAY"  -> {q.session}
    [] OTHER              -> {None}

\* Mutant: SETUP tests the URI for the video track only.
ResponsesToVideo(q) ==
  { [ of      |-> q.from,
      cseq    |-> q.cseq,
      sdp     |-> q.method = "DESCRIBE",
      session |-> s,
      port    |-> IF q.method = "SETUP" /\ q.track = "video"
                    THEN ServerPort[q.track] ELSE None ]
    : s \in ResponseSessions(q) }

ResponsesTo(q) ==
  { [ of      |-> q.from,
      cseq    |-> q.cseq,
      sdp     |-> q.method = "DESCRIBE",
      session |-> s,
      port    |-> IF q.method = "SETUP" /\ q.track \in Tracks
                    THEN ServerPort[q.track] ELSE None ]
    : s \in ResponseSessions(q) }

-----------------------------------------------------------------------------
(* One rtsp_recv_msg returns all that has arrived, up to a whole message at *)
(* least, and rtsp_demarshaller_msg takes it for one message: the first    *)
(* line is the first message's, the attributes are those of all of them.   *)

\* The last of some attribute values that is not absent.  Every reader of an
\* attribute list goes through it to the end, so a later value wins.
Latest(vals) ==
  LET given == {i \in DOMAIN vals : vals[i] # None}
      newest == {i \in given : \A j \in given : j <= i}
  IN  IF newest = {} THEN None ELSE vals[CHOOSE i \in newest : TRUE]

MergedRequest(qs) ==
  [qs[1] EXCEPT !.cseq = qs[Len(qs)].cseq,
                !.session = Latest([i \in DOMAIN qs |-> qs[i].session])]

MergedResponse(rs) ==
  [rs[Len(rs)] EXCEPT
     !.sdp = \E i \in DOMAIN rs : rs[i].sdp,
     !.session = Latest([i \in DOMAIN rs |-> rs[i].session]),
     !.port = Latest([i \in DOMAIN rs |-> rs[i].port])]

\* How many media lines the payload has: that of every description that arrived.
MediaIn(rs) == Len(Media) * Cardinality({i \in DOMAIN rs : rs[i].sdp})
=============================================================================
