----------------------------- MODULE RtspClient -----------------------------
(***************************************************************************)
(* The RTSP client program (rtsp-client.c): each process runs              *)
(* run_rtspclient once, a script of requests over one connection, waiting  *)
(* for a response after each and taking from it what the next requests     *)
(* need: OPTIONS, DESCRIBE, a SETUP for each medium of the description,    *)
(* PLAY.  It never compares a response's CSeq with its request's.          *)
(*                                                                         *)
(* The receiving threads that _start_av_stream creates return at once, so  *)
(* the joins at the end do not wait; the UDP sockets are only dialled.     *)
(***************************************************************************)
EXTENDS RtspNetwork

CONSTANT
  Overlap   \* BOOLEAN: may a client be started while another one is served?

ASSUME OverlapAssumption == Overlap \in BOOLEAN

VARIABLES
  st,       \* st[c]: where client process c is
  cseq,     \* cseq[c]: the static counter of _initialize_rtsp_req
  session,  \* session[c]: ctx.session, None while it is the empty string
  port,     \* port[c][i]: ctx.media[i].port, None while it is empty; its length
            \* is ctx.media_num
  rsp       \* rsp[c]: the response c received last

clientVars == <<st, cseq, session, port, rsp>>

\* "trap": the process died on a NULL message or payload.  "killed": somebody
\* ended it from outside.
ClientStates == {"idle", "ready", "wait", "done", "trap", "killed"}

MaxMedia == 16

\* The number of run_rtspclient's last request, PLAY, and the method of its n-th.
LastOf(c) == Len(port[c]) + 3

Method(c, n) ==
  CASE n = 1 -> "OPTIONS"
    [] n = 2 -> "DESCRIBE"
    [] n \in 3 .. Len(port[c]) + 2 -> "SETUP"
    [] OTHER -> "PLAY"

\* The medium that request n sets up, and its track.  A description that arrived
\* twice lists Media twice.
Medium(n) == n - 2
Track(i) == Media[1 + ((i - 1) % Len(Media))]

ClientTypeOK ==
  /\ st \in [Clients -> ClientStates]
  /\ cseq \in [Clients -> Nat]
  /\ session \in [Clients -> Sessions \cup {None}]
  /\ port \in [Clients -> Seq(Ports \cup {None})]
  /\ rsp \in [Clients -> Response \cup {None}]

ClientInit ==
  /\ st = [c \in Clients |-> "idle"]
  /\ cseq = [c \in Clients |-> 0]
  /\ session = [c \in Clients |-> None]
  /\ port = [c \in Clients |-> <<>>]
  /\ rsp = [c \in Clients |-> None]

-----------------------------------------------------------------------------

\* cdk_tcp_dial.  "listening" says whether a server is there to take the
\* connection, "free" whether the operator may start c now.
Dial(c, listening, free) ==
  /\ st[c] = "idle" /\ free
  /\ st' = [st EXCEPT ![c] = "ready"]
  /\ backlog' = IF listening THEN Append(backlog, c) ELSE backlog
  /\ UNCHANGED <<sock, c2s, s2c, left, cseq, session, port, rsp>>

\* The request _initialize_rtsp_req builds as number n of the script.  PLAY
\* always has a Session attribute, SETUP only once the client has a session.
RequestOf(c, n) ==
  [ from    |-> c,
    cseq    |-> n,
    method  |-> Method(c, n),
    track   |-> IF Method(c, n) = "SETUP" THEN Track(Medium(n)) ELSE None,
    session |-> IF Method(c, n) \in {"SETUP", "PLAY"} THEN session[c] ELSE None ]

\* _send_rtsp_req up to rtsp_recv_msg.  A request sent to a server that is no
\* longer there is lost; rtsp_send_msg's result is not looked at.
Send(c) ==
  /\ st[c] = "ready"
  /\ cseq' = [cseq EXCEPT ![c] = @ + 1]
  /\ c2s' = IF ServerEnd(c)
              THEN [c2s EXCEPT ![c] = Append(@, RequestOf(c, cseq[c] + 1))]
              ELSE c2s
  /\ st' = [st EXCEPT ![c] = "wait"]
  /\ UNCHANGED <<backlog, sock, s2c, left, session, port, rsp>>

\* What follows the answer to request cseq[c], which lists so many media: the
\* DESCRIBE branch hands the payload to sdp_demarshaller_msg, which dies on NULL
\* and overruns sdp->media beyond MaxMedia.  PLAY's answer ends the script.
Outcome(c, media) ==
  IF Method(c, cseq[c]) = "DESCRIBE" /\ media \notin 1 .. MaxMedia THEN "trap"
  ELSE IF cseq[c] = LastOf(c) THEN "done"
  ELSE "ready"

\* rtsp_recv_msg and rtsp_demarshaller_msg return the first k responses that
\* arrived, whatever they answer, as one; run_rtspclient goes on, every response
\* having code 200.  _find_session and _find_port run only after a SETUP and
\* leave what they do not find as it was.
Receive(c) ==
  /\ st[c] = "wait"
  /\ \E k \in 1 .. Len(s2c[c]) :
       LET arrived == SubSeq(s2c[c], 1, k)
           r       == MergedResponse(arrived)
           media   == MediaIn(arrived)
           method  == Method(c, cseq[c])
       IN /\ s2c' = [s2c EXCEPT ![c] = SubSeq(@, k + 1, Len(@))]
          /\ rsp' = [rsp EXCEPT ![c] = r]
          /\ session' = IF method = "SETUP" /\ r.session # None
                          THEN [session EXCEPT ![c] = r.session] ELSE session
          /\ port' = IF method = "DESCRIBE"
                       THEN [port EXCEPT ![c] = [i \in 1 .. media |-> None]]
                     ELSE IF method = "SETUP" /\ r.port # None
                       THEN [port EXCEPT ![c][Medium(cseq[c])] = r.port]
                     ELSE port
          /\ st' = [st EXCEPT ![c] = Outcome(c, media)]
          /\ left' = IF Outcome(c, media) = "ready" THEN left ELSE left \cup {c}
  /\ UNCHANGED <<backlog, sock, c2s, cseq>>

\* The server's end of the connection is gone: rtsp_recv_msg returns NULL, which
\* _send_rtsp_req hands to rtsp_demarshaller_msg.  Responses still under way may
\* be lost with the connection.
Eof(c) ==
  /\ st[c] = "wait" /\ ~ServerEnd(c)
  /\ st' = [st EXCEPT ![c] = "trap"]
  /\ left' = left \cup {c}
  /\ UNCHANGED <<backlog, sock, c2s, s2c, cseq, session, port, rsp>>

\* The process is ended from outside, at any point.
Kill(c) ==
  /\ st[c] \in {"ready", "wait"}
  /\ st' = [st EXCEPT ![c] = "killed"]
  /\ left' = left \cup {c}
  /\ UNCHANGED <<backlog, sock, c2s, s2c, cseq, session, port, rsp>>

ClientStep(c) == Send(c) \/ Receive(c) \/ Eof(c)

\* A client program that was started keeps running.  Nobody has to start one,
\* and nobody has to end one.
ClientFairness == \A c \in Clients : WF_clientVars(ClientStep(c))
=============================================================================
