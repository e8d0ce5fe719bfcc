--------------------------- MODULE RtspOpenServer ---------------------------
(***************************************************************************)
(* The server with clients of any kind: what it keeps to whatever programs *)
(* dial it.  The modules that close it with particular clients, RtspSystem *)
(* and RtspPlayers, take their steps among those of AnyClient.             *)
(*                                                                         *)
(* A client stands for one connection; a program that dials twice is two.  *)
(***************************************************************************)
EXTENDS RtspServer

openVars == <<netVars, serverVars>>

\* Connection c has left no trace with the server.
Unknown(c) == rank[c] = 0 /\ ~InBacklog(c)

\* The connection is established, and waits to be accepted.
AnyDial(c) ==
  /\ Unknown(c)
  /\ backlog' = Append(backlog, c)
  /\ UNCHANGED <<c2s, s2c, left>>

\* Any request, whether or not earlier ones were answered.
AnySend(c) ==
  /\ \E q \in Request : q.from = c /\ c2s' = [c2s EXCEPT ![c] = Append(@, q)]
  /\ UNCHANGED <<backlog, s2c, left>>

\* Any number of the responses that are there; it may also be the end of c.
AnyReceive(c) ==
  /\ \E k \in 0 .. Len(s2c[c]) :
       s2c' = [s2c EXCEPT ![c] = SubSeq(@, k + 1, Len(@))]
  /\ left' \in {left, left \cup {c}}
  /\ UNCHANGED <<backlog, c2s>>

AnyClient(c) ==
  /\ AnyDial(c) \/ AnySend(c) \/ AnyReceive(c)
  /\ UNCHANGED <<sock, serverVars>>

OpenInit == NetInit /\ ServerInit

OpenNext == ServerNext \/ \E c \in Clients : AnyClient(c)

OpenSpec == OpenInit /\ [][OpenNext]_openVars

-----------------------------------------------------------------------------
(* How far apart a handler, its connection and its answers can get.        *)

\* The shared slot never stands for a connection that two later ones have
\* superseded: it holds the newest connection, the one before it while the
\* newest is being written into the slot, or no open connection at all.
SlotIsRecent ==
  Conn(ctx) # None =>
    \/ rank[Conn(ctx)] = accepts
    \/ loop = "init" /\ rank[Conn(ctx)] = accepts - 1

\* Some handler has copied s from the slot and not closed it yet.
Served(s) == \E h \in Clients : thr[h] \in Serving /\ own[h] = s

\* Nobody forgets a connection but a handler that came to the slot too late.  An
\* open connection is in the accept loop's hands, in a handler's, waiting for the
\* one created for it, or that handler found a later connection's handle in the
\* slot.  In particular no handler is done and leaves what it copied open.
OrphansWereSuperseded ==
  \A s \in Handles :
    sock[s] # None =>
      \/ loop = "init" /\ conn = s
      \/ loop = "spawn" /\ ctx = s
      \/ Served(s)
      \/ thr[sock[s]] = "start"
      \/ /\ thr[sock[s]] \in Serving \cup {"done"}
         /\ own[sock[s]] # s /\ rank[sock[s]] < accepts

\* A handler may end up serving another connection than the one it was created
\* for, but never one accepted before it was created.
HandlerNeverOlder ==
  \A h \in Clients :
    thr[h] \in Serving /\ Conn(own[h]) # None
      => 1 <= rank[h] /\ rank[h] <= rank[Conn(own[h])]

\* A response reaches its own client, one accepted later, or the one accepted
\* directly before it: never a client that was there well before the asker,
\* whatever happens to slot and handle between the reading of the slot and the send.
AnswersFlowForward ==
  \A c \in Clients : \A i \in DOMAIN s2c[c] :
    1 <= rank[s2c[c][i].of] /\ rank[s2c[c][i].of] <= rank[c] + 1

-----------------------------------------------------------------------------
(* The inductive invariant behind these properties.                        *)

\* A stream holds requests of its own client only.
RequestsNameTheirSender ==
  \A c \in Clients : \A i \in DOMAIN c2s[c] : c2s[c][i].from = c

\* Connections are accepted once each, and only accepted ones have a handle.
AcceptedOnce ==
  /\ \A i, j \in DOMAIN backlog : backlog[i] = backlog[j] => i = j
  /\ \A i \in DOMAIN backlog : rank[backlog[i]] = 0
  /\ \A c \in Clients : rank[c] <= accepts
  /\ \A s \in Handles : sock[s] # None => 1 <= rank[sock[s]]

\* While the slot is written, conn stands for the newest connection (if it is
\* still open), and it has no handler before one is created for it.
LoopInOrder ==
  /\ loop \in {"init", "spawn"} => 1 <= accepts
  /\ loop = "init" /\ Conn(conn) # None => rank[Conn(conn)] = accepts
  /\ \A h \in Clients :
       thr[h] # "none" =>
         1 <= rank[h] /\ (loop \in {"init", "spawn"} => rank[h] < accepts)

\* A request under way in a handler comes from an accepted connection.
RequestsAreAccepted ==
  \A h \in Clients :
    thr[h] = "reply" => req[h] \in Request /\ 1 <= rank[req[h].from]

\* A response about to be sent goes forward too, to whatever connection its handle
\* stands for by now.
RepliesFlowForward ==
  \A h \in Clients :
    thr[h] = "send" =>
      /\ out[h] \in Outgoing /\ 1 <= rank[out[h].rsp.of]
      /\ Conn(out[h].conn) # None =>
           rank[out[h].rsp.of] <= rank[Conn(out[h].conn)] + 1

ServerInv ==
  /\ NetTypeOK /\ ServerTypeOK
  /\ RequestsNameTheirSender /\ AcceptedOnce /\ LoopInOrder
  /\ RequestsAreAccepted /\ RepliesFlowForward
  /\ SlotIsRecent /\ HandlerNeverOlder /\ AnswersFlowForward

\* A connection is accepted at a time of its own.
RanksAreDistinct ==
  \A c, d \in Clients : rank[c] = rank[d] /\ rank[c] > 0 => c = d

\* The handle of the connection accepted last is in conn while it is new and in
\* the shared slot after that; and from the slot some handler copies it.
NewestIsHeld ==
  \A s \in Handles :
    sock[s] # None /\ rank[sock[s]] = accepts =>
      \/ loop = "init" /\ conn = s
      \/ loop = "spawn" /\ ctx = s
      \/ loop = "accept" /\ ctx = s /\ (thr[sock[s]] = "start" \/ Served(s))

HeldInv == RanksAreDistinct /\ NewestIsHeld
=============================================================================
