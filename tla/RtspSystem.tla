----------------------------- MODULE RtspSystem -----------------------------
(***************************************************************************)
(* simple-rtsp as a whole: one server process and any number of client     *)
(* processes.  Two ways of using it are told apart by the constant         *)
(* Overlap: with TRUE clients come whenever they like, with FALSE the next *)
(* client starts only when the server has let go of the one before.        *)
(***************************************************************************)
EXTENDS RtspOpenServer, RtspClient

vars == <<netVars, serverVars, clientVars>>

TypeOK == NetTypeOK /\ ServerTypeOK /\ ClientTypeOK

Init == NetInit /\ ServerInit /\ ClientInit

\* No other client is connected, and no handler thread is left of one that was.
Quiet(c) ==
  \A d \in Clients \ {c} : st[d] = "idle" \/ thr[d] = "done" \/ loop = "down"

ClientActs(c) ==
  \/ Dial(c, loop # "down", Overlap \/ Quiet(c))
  \/ ClientStep(c)
  \/ Kill(c)

Next ==
  \/ ServerNext /\ UNCHANGED clientVars
  \/ \E c \in Clients : ClientActs(c) /\ UNCHANGED serverVars

Spec == Init /\ [][Next]_vars /\ ServerFairness /\ ClientFairness

-----------------------------------------------------------------------------
(* Clients that come whenever they like.                                   *)

\* What a doc comment promises of thread creation, p being "thread's parameter":
\* a handler reads from the connection it was created for.
HandlerGetsItsParameter ==
  \A h \in Clients : thr[h] = "recv" => Conn(own[h]) \in {h, None}

\* A client that was not started is unknown to the server, and one that was is
\* within its script.
ClientsAreKnown ==
  \A c \in Clients :
    /\ st[c] = "idle"  => cseq[c] = 0 /\ Unknown(c)
    /\ st[c] = "ready" => cseq[c] < LastOf(c)
    /\ st[c] = "wait"  => 0 < cseq[c] /\ cseq[c] <= LastOf(c)

\* The inductive invariant: the clients', and the server's with any clients.
IInv == TypeOK /\ ClientsAreKnown /\ ServerInv

-----------------------------------------------------------------------------
(* Clients one after the other.                                            *)

\* The number of the request whose answer c took last.
Answered(c) == IF rsp[c] = None THEN 0 ELSE rsp[c].cseq

\* A client's connection is what it takes it for: one request at a time, each
\* answered once, by the answer to that very request.
Exchange == INSTANCE RequestReply WITH
  asked <- cseq,
  reply <- [c \in Clients |->
              [i \in DOMAIN s2c[c] |-> <<s2c[c][i].of, s2c[c][i].cseq>>]],
  last  <- [c \in Clients |-> Answered(c)]

ImplementsRequestReply == Exchange!Spec

\* A client that asks for PLAY has a session and the right server ports for each
\* of its media, and the request carries that session.
PlayIsSetUp ==
  \A c \in Clients :
    cseq[c] = LastOf(c) =>
      /\ session[c] # None /\ port[c] # <<>>
      /\ \A i \in DOMAIN port[c] : port[c][i] = ServerPort[Track(i)]
      /\ \A i \in DOMAIN c2s[c] : c2s[c][i].session = session[c]

\* The second SETUP and everything else leaves a client its session.
SessionStable ==
  [][\A c \in Clients : session[c] # None => session'[c] = session[c]]_vars

\* While the server runs it closes no connection whose client is still there.
ClosesOnlyTheLeft ==
  [][\A s \in Handles :
       sock[s] # None /\ sock'[s] = None /\ loop' # "down" => sock[s] \in left]_vars

-----------------------------------------------------------------------------
(* The inductive invariant behind the safety properties of such clients.   *)

NoSockets == \A s \in Handles : sock[s] = None

\* The server has, or is yet to take, the connection of client c.
Present(c) == loop # "down" /\ st[c] # "idle" /\ thr[c] # "done"

\* c's connection is the only one the server has, under handle s.
OnlyUnder(s, c) ==
  s \in Handles /\ sock[s] = c /\ \A t \in Handles \ {s} : sock[t] = None

\* The way of a connection through the server.  No two meet on it, so the slot
\* still holds what the handler has copied.
OnItsWay(c) ==
  \/ /\ backlog = <<c>> /\ NoSockets
     /\ loop \in {"startup", "accept"} /\ thr[c] = "none"
  \/ /\ backlog = <<>> /\ OnlyUnder(conn, c) /\ (loop = "spawn" => ctx = conn)
     /\ loop \in {"init", "spawn"} /\ thr[c] = "none"
  \/ /\ backlog = <<>> /\ OnlyUnder(ctx, c)
     /\ loop = "accept" /\ thr[c] = "start"
  \/ /\ backlog = <<>> /\ OnlyUnder(ctx, c) /\ own[c] = ctx
     /\ loop = "accept" /\ thr[c] \in Serving

OneAtATime ==
  \/ \E c \in Clients : OnItsWay(c) /\ \A d \in Clients : Present(d) <=> d = c
  \/ /\ backlog = <<>> /\ NoSockets /\ loop \in {"startup", "accept"}
     /\ \A c \in Clients : ~Present(c)
  \/ /\ backlog = <<>> /\ NoSockets /\ loop = "down"
     /\ \A c \in Clients : thr[c] \in {"none", "done", "trap"}

LeavingInOrder ==
  /\ left = {c \in Clients : st[c] \in {"done", "trap", "killed"}}
  /\ \A c \in Clients : loop # "down" /\ thr[c] \in {"close", "done"} => c \in left

\* c's handler has its request in hand.
InHandler(c) == thr[c] \in {"reply", "send"}

\* The request c asked last is in one place: in its stream, with its handler, or
\* on the way back as its answer.  Else c does not wait, or the server is gone.
Outstanding(c) ==
  LET q == RequestOf(c, cseq[c])
  IN  \/ /\ c2s[c] = <<>> /\ s2c[c] = <<>> /\ ~InHandler(c)
         /\ st[c] = "wait" => loop = "down"
      \/ /\ c \in left \/ st[c] = "wait"
         /\ \/ c2s[c] = <<q>> /\ s2c[c] = <<>> /\ ~InHandler(c)
            \/ c2s[c] = <<>> /\ s2c[c] = <<>> /\ thr[c] = "reply" /\ req[c] = q
            \/ /\ c2s[c] = <<>> /\ s2c[c] = <<>> /\ thr[c] = "send"
               /\ out[c].conn = own[c] /\ out[c].rsp \in ResponsesTo(q)
            \/ /\ c2s[c] = <<>> /\ \E r \in ResponsesTo(q) : s2c[c] = <<r>>
               /\ ~InHandler(c)

OneOutstanding == \A c \in Clients : Outstanding(c)

\* What c knows after n answers: none of it is out of step with its requests.
ScriptInOrder ==
  \A c \in Clients :
    LET n == Answered(c)
    IN  /\ st[c] \in {"idle", "ready"} => cseq[c] = n
        /\ st[c] = "wait" => cseq[c] = n + 1
        /\ cseq[c] \in {n, n + 1}
        /\ n < 2 => port[c] = <<>>
        /\ n >= 2 =>
             port[c] = [i \in 1 .. Len(Media) |->
                          IF i + 2 <= n THEN ServerPort[Track(i)] ELSE None]
        /\ n >= 3 => session[c] # None

SerialInv == OneAtATime /\ LeavingInOrder /\ OneOutstanding /\ ScriptInOrder

-----------------------------------------------------------------------------
(* Liveness of clients that come one after the other.                      *)

\* No client waits for ever: an answer comes, or the connection ends.
NoHang == \A c \in Clients : st[c] = "wait" ~> st[c] # "wait"

\* The server lets go of every connection whose client has left: no socket and
\* no thread stays behind.
LeftAreLetGo ==
  \A c \in Clients :
    c \in left ~> ~ServerEnd(c) /\ thr[c] \in {"none", "done"}
=============================================================================
