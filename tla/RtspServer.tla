----------------------------- MODULE RtspServer -----------------------------
(***************************************************************************)
(* The control plane of the RTSP server: run_rtspserver's accept loop, the *)
(* thread _handle_rtsp that it creates for each connection, and the        *)
(* response that thread sends (rtsp-server.c).                             *)
(*                                                                         *)
(* The accept loop keeps the rtsp_ctx_t it hands to a new thread in a      *)
(* block-local variable: one stack slot, written again at every accept,    *)
(* whose address all handler threads share.  A handler copies the slot     *)
(* when it starts and reads its requests from the copy (own), but it sends *)
(* every response to the handle it then reads from the shared slot (ctx).  *)
(* Nothing orders the loop's writes of the slot and the handlers' reads,   *)
(* nor keeps a handle that was read from being closed, and given to a new  *)
(* connection, before it is sent to.                                       *)
(*                                                                         *)
(* A handler thread is named by the client whose accept created it.  The   *)
(* model starts when the listening sockets are open.                       *)
(***************************************************************************)
EXTENDS RtspNetwork

VARIABLES
  loop,     \* "startup", "accept", "init" (the slot is being written), "spawn",
            \* "down"
  conn,     \* the accept loop's local variable of that name
  ctx,      \* the conn field of the accept loop's stack slot
  thr,      \* thr[h]: where handler thread h is
  own,      \* own[h]: the conn field of handler h's private copy of the slot
  req,      \* req[h]: the request handler h has parsed and not yet answered
  out,      \* out[h]: what h has called rtsp_send_msg with, handle and response
  accepts,  \* history: how many connections were accepted
  rank      \* history: rank[c] is the position of c's accept, 0 before it

slotVars   == <<loop, conn, ctx>>
threadVars == <<thr, own, req, out>>
history    == <<accepts, rank>>
serverVars == <<slotVars, threadVars, history>>

ThreadStates == {"none", "start", "recv", "reply", "send", "close", "done", "trap"}

\* The states in which a handler has copied the slot and not closed its copy.
Serving == {"recv", "reply", "send", "close"}

\* The handle may be one nobody has; a handler that starts finds one there.
Outgoing == [conn : Handles \cup {None}, rsp : Response]

ServerTypeOK ==
  /\ loop \in {"startup", "accept", "init", "spawn", "down"}
  /\ conn \in Handles \cup {None}
  /\ ctx \in Handles \cup {None}
  /\ thr \in [Clients -> ThreadStates]
  /\ own \in [Clients -> Handles \cup {None}]
  /\ req \in [Clients -> Request \cup {None}]
  /\ out \in [Clients -> Outgoing \cup {None}]
  /\ accepts \in Nat
  /\ rank \in [Clients -> Nat]

ServerInit ==
  /\ loop = "startup"
  /\ conn = None
  /\ ctx = None
  /\ thr = [h \in Clients |-> "none"]
  /\ own = [h \in Clients |-> None]
  /\ req = [h \in Clients |-> None]
  /\ out = [h \in Clients |-> None]
  /\ accepts = 0
  /\ rank = [c \in Clients |-> 0]

-----------------------------------------------------------------------------
(* The accept loop.                                                        *)

\* Between the listening sockets and the loop, run_rtspserver initialises the
\* queue of RTP packets through a pointer that it has just set to zero.  Where
\* page zero can be written this passes, elsewhere it is StartUpTraps.
StartUp ==
  /\ loop = "startup"
  /\ loop' = "accept"
  /\ UNCHANGED <<netVars, conn, ctx, threadVars, history>>

\* cdk_tcp_accept returns the oldest pending connection under a handle value
\* that is free, possibly one an earlier connection had.
Accept(s) ==
  /\ loop = "accept" /\ backlog # <<>> /\ sock[s] = None
  /\ backlog' = Tail(backlog)
  /\ sock' = [sock EXCEPT ![s] = Head(backlog)]
  /\ conn' = s
  /\ accepts' = accepts + 1
  /\ rank' = [rank EXCEPT ![Head(backlog)] = accepts + 1]
  /\ loop' = "init"
  /\ UNCHANGED <<ctx, c2s, s2c, left, threadVars>>

\* Mutants: the slot is initialised once, like a static variable; it is left alone
\* while the connection in it is open.
FillSlotOnce ==
  /\ loop = "init"
  /\ ctx' = IF ctx = None THEN conn ELSE ctx
  /\ loop' = "spawn"
  /\ UNCHANGED <<netVars, conn, threadVars, history>>

FillSlotIfFree ==
  /\ loop = "init"
  /\ ctx' = IF ctx # None /\ sock[ctx] # None THEN ctx ELSE conn
  /\ loop' = "spawn"
  /\ UNCHANGED <<netVars, conn, threadVars, history>>

\* The initialiser of ctx.  It stores all six fields and clears nothing first,
\* so until it stores conn the slot still holds the previous connection.
FillSlot ==
  /\ loop = "init"
  /\ ctx' = conn
  /\ loop' = "spawn"
  /\ UNCHANGED <<netVars, conn, threadVars, history>>

\* cdk_thrd_create succeeds; the thread is detached.
Spawn(c) ==
  /\ loop = "spawn" /\ rank[c] = accepts
  /\ thr' = [thr EXCEPT ![c] = "start"]
  /\ loop' = "accept"
  /\ UNCHANGED <<netVars, conn, ctx, own, req, out, history>>

\* The end of the server process: the operating system closes every socket and
\* ends every thread.  "last" is the thread state to leave behind as evidence.
ProcessExit(last) ==
  /\ loop' = "down"
  /\ backlog' = <<>>
  /\ sock' = [s \in Handles |-> None]
  /\ thr' = last
  /\ UNCHANGED <<conn, ctx, own, req, out, c2s, s2c, left, history>>

Ended == [h \in Clients |-> IF thr[h] = "none" THEN "none" ELSE "done"]

StartUpTraps ==
  /\ loop = "startup"
  /\ ProcessExit(Ended)

\* cdk_tcp_accept ends the process on an error, which some systems report for a
\* connection whose peer has left before it was accepted.
AcceptAborts ==
  /\ loop = "accept" /\ backlog # <<>> /\ Head(backlog) \in left
  /\ ProcessExit(Ended)

\* cdk_thrd_create fails: the loop breaks, run_rtspserver closes its sockets
\* and returns, and main returns after it.
SpawnFails ==
  /\ loop = "spawn"
  /\ ProcessExit(Ended)

\* The packing thread started at line 267 passes through the empty NALU queue
\* into undefined behaviour (module VideoPipeline), so the process
\* may die at any moment.
PackThreadTraps ==
  /\ loop \notin {"startup", "down"}
  /\ ProcessExit(Ended)

-----------------------------------------------------------------------------
(* The handler threads.                                                    *)

\* The connection behind a handle value: None when the handle is closed.
Conn(s) == IF s = None THEN None ELSE sock[s]

\* ctx = *pctx
Start(h) ==
  /\ thr[h] = "start"
  /\ thr' = [thr EXCEPT ![h] = "recv"]
  /\ own' = [own EXCEPT ![h] = ctx]
  /\ UNCHANGED <<netVars, slotVars, req, out, history>>

\* rtsp_recv_msg and rtsp_demarshaller_msg on whatever connection the handler's
\* own handle stands for at this moment: the first k requests in its stream.
Recv(h) ==
  /\ thr[h] = "recv" /\ Conn(own[h]) # None
  /\ LET c == Conn(own[h]) IN \E k \in 1 .. Len(c2s[c]) :
       /\ req' = [req EXCEPT ![h] = MergedRequest(SubSeq(c2s[c], 1, k))]
       /\ c2s' = [c2s EXCEPT ![c] = SubSeq(@, k + 1, Len(@))]
  /\ thr' = [thr EXCEPT ![h] = "reply"]
  /\ UNCHANGED <<backlog, sock, s2c, left, slotVars, own, out, history>>

\* Mutants: the thread returns without closing its connection; an interrupted
\* receive is taken for a failed one.
RecvFailsLeaks(h) ==
  /\ thr[h] = "recv"
  /\ Conn(own[h]) \in left \cup {None}
  /\ thr' = [thr EXCEPT ![h] = "done"]
  /\ UNCHANGED <<netVars, slotVars, own, req, out, history>>
RecvFailsEarly(h) ==
  /\ thr[h] = "recv"
  /\ thr' = [thr EXCEPT ![h] = "close"]
  /\ UNCHANGED <<netVars, slotVars, own, req, out, history>>

\* rtsp_recv_msg returns NULL: the handle is closed, or its peer is gone.
RecvFails(h) ==
  /\ thr[h] = "recv"
  /\ Conn(own[h]) \in left \cup {None}
  /\ thr' = [thr EXCEPT ![h] = "close"]
  /\ UNCHANGED <<netVars, slotVars, own, req, out, history>>

\* cdk_net_close(ctx.conn) and return -1.  The handle may have been closed
\* before by another handler, and may even stand for another connection by now.
\* Closing it fails the receives blocked on it (some set of those in "recv").
CloseConn(h) ==
  /\ thr[h] = "close"
  /\ sock' = [s \in Handles |-> IF s = own[h] THEN None ELSE sock[s]]
  /\ \E blocked \in SUBSET {g \in Clients : thr[g] = "recv" /\ own[g] = own[h]} :
       thr' = [g \in Clients |-> IF g = h THEN "done"
                                 ELSE IF g \in blocked THEN "close" ELSE thr[g]]
  /\ UNCHANGED <<backlog, c2s, s2c, left, slotVars, own, req, out, history>>

\* _send_rtsp_rsp up to the call of rtsp_send_msg: the response is built, and the
\* handle is read from the shared slot and passed by value.
Reply(h) ==
  /\ thr[h] = "reply"
  /\ \E r \in ResponsesTo(req[h]) : out' = [out EXCEPT ![h] = [conn |-> ctx, rsp |-> r]]
  /\ thr' = [thr EXCEPT ![h] = "send"]
  /\ req' = [req EXCEPT ![h] = None]
  /\ UNCHANGED <<netVars, slotVars, own, history>>

\* Mutants: a response goes to every open connection; it is sent twice; it is
\* dropped when a session description makes it larger than a segment.
DeliveredToAll(s, r) ==
  [c \in Clients |-> IF \E t \in Handles : sock[t] = c /\ c \notin left
                       THEN Append(s2c[c], r) ELSE s2c[c]]
DeliveredTwice(s, r) ==
  IF Conn(s) \in {None} \cup left
    THEN s2c
    ELSE [s2c EXCEPT ![Conn(s)] = Append(Append(@, r), r)]
DeliveredIfSmall(s, r) ==
  IF Conn(s) \in {None} \cup left \/ r.sdp
    THEN s2c
    ELSE [s2c EXCEPT ![Conn(s)] = Append(@, r)]

\* A response sent to handle s goes to the connection s stands for at the send.
\* rtsp_send_msg's failure is not looked at, so what is sent to a closed handle
\* or to a peer that is gone is lost without a trace.
Delivered(s, r) ==
  IF Conn(s) \in {None} \cup left
    THEN s2c
    ELSE [s2c EXCEPT ![Conn(s)] = Append(@, r)]

\* The send in rtsp_send_msg, and the handler goes back to receive.
SendReply(h) ==
  /\ thr[h] = "send"
  /\ s2c' = Delivered(out[h].conn, out[h].rsp)
  /\ thr' = [thr EXCEPT ![h] = "recv"]
  /\ out' = [out EXCEPT ![h] = None]
  /\ UNCHANGED <<backlog, sock, c2s, left, slotVars, own, req, history>>

\* Two uses of uninitialised memory on the way to a response, each of which may
\* pass unnoticed (Reply) or trap: a payload no branch assigned, and the address
\* cdk_net_obtain_addr leaves unwritten when the slot's handle is closed.
ReadsUnwritten(q) ==
  \/ q.method \notin PayloadAssigned
  \/ q.method = "DESCRIBE" /\ Conn(ctx) = None

ReplyTraps(h) ==
  /\ thr[h] = "reply" /\ ReadsUnwritten(req[h])
  /\ ProcessExit([Ended EXCEPT ![h] = "trap"])

-----------------------------------------------------------------------------
AcceptLoop == \/ StartUp \/ StartUpTraps
              \/ AcceptAborts \/ \E s \in Handles : Accept(s)
              \/ FillSlot
              \/ \E c \in Clients : Spawn(c)
              \/ SpawnFails

Handler(h) == \/ Start(h)
              \/ Recv(h) \/ RecvFails(h) \/ CloseConn(h)
              \/ Reply(h) \/ SendReply(h) \/ ReplyTraps(h)

ServerNext == AcceptLoop \/ PackThreadTraps \/ \E h \in Clients : Handler(h)

\* The accept loop and every handler thread keep being scheduled.  A handler's
\* own step is one program step, so one condition covers all its kinds.  No
\* fairness makes a thread creation fail or the packing thread trap.
ServerFairness ==
  /\ WF_serverVars(AcceptLoop)
  /\ \A h \in Clients : WF_serverVars(Handler(h))
=============================================================================
