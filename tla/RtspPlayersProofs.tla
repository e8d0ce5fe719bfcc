-------------------------- MODULE RtspPlayersProofs --------------------------
(***************************************************************************)
(* Proofs about RtspPlayers, for every set of players, handles, sessions   *)
(* and methods and every bound: players are clients like any other, so     *)
(* that what RtspOpenServerProofs shows of the server holds with them, and *)
(* what the player accepted last waits for stays on its way.               *)
(***************************************************************************)
EXTENDS RtspPlayers, RtspOpenServerProofs

(***************************************************************************)
(* What the server announces makes requests.                               *)
(***************************************************************************)
LEMMA PlayersRequestsAreTyped ==
  ASSUME NEW c \in Clients, sent[c] \in Nat, NEW q \in RequestsOf(c)
  PROVE  q \in Request /\ q.from = c
<1>1. PICK m \in Methods, s \in Sessions :
        q = [ from |-> c, cseq |-> sent[c] + 1, method |-> m,
              track |-> IF m = "SETUP" THEN Media[1] ELSE None,
              session |-> IF m = "PLAY" THEN s ELSE None ]
  BY DEF RequestsOf
<1>2. (IF m = "SETUP" THEN Media[1] ELSE None) \in Tracks \cup {None}
  BY DEF Tracks, Media
<1>3. (IF m = "PLAY" THEN s ELSE None) \in Sessions \cup {None} /\ sent[c] + 1 \in Nat
  OBVIOUS
<1> QED
  BY <1>1, <1>2, <1>3, PlayersAssumption DEF Request

(***************************************************************************)
(* Each action of a player is one of any client, and keeps what is said of *)
(* the players.                                                            *)
(***************************************************************************)
PlayerInv ==
  /\ player \in [Clients -> {"idle", "ready", "wait", "gone"}]
  /\ sent \in [Clients -> Nat]
  /\ early \subseteq Clients
  /\ PlayersAreKnown

LEMMA PlayerStep ==
  ASSUME PlayersInv, NEW c \in Clients, PlayerActs(c), UNCHANGED serverVars
  PROVE  AnyClient(c)
<1>1. /\ s2c \in [Clients -> Seq(Response)] /\ s2c[c] \in Seq(Response)
      /\ sent[c] \in Nat
  BY DEF PlayersInv, PlayersTypeOK, NetTypeOK
<1>2. CASE Connect(c)
  BY <1>2 DEF Connect, PlayersInv, PlayersAreKnown, AnyClient, AnyDial
<1>3. CASE Ask(c)
  <2>1. PICK q \in RequestsOf(c) : c2s' = [c2s EXCEPT ![c] = Append(@, q)]
    BY <1>3 DEF Ask
  <2>2. q \in Request /\ q.from = c
    BY <1>1, PlayersRequestsAreTyped
  <2> QED
    BY <1>3, <2>1, <2>2 DEF Ask, AnyClient, AnySend
<1>4. CASE Take(c)
  <2>1. /\ s2c[c] # <<>> /\ s2c' = [s2c EXCEPT ![c] = Tail(@)]
        /\ UNCHANGED <<backlog, sock, c2s, left>>
    BY <1>4 DEF Take
  <2>2. 1 \in 0 .. Len(s2c[c]) /\ SubSeq(s2c[c], 1 + 1, Len(s2c[c])) = Tail(s2c[c])
    BY <1>1, <2>1
  <2>3. s2c' = [s2c EXCEPT ![c] = SubSeq(@, 1 + 1, Len(@))]
    BY <2>1, <2>2
  <2> QED
    BY <2>1, <2>2, <2>3 DEF AnyClient, AnyReceive
<1>5. CASE Leave(c)
  <2>1. left' = left \cup {c} /\ UNCHANGED <<backlog, sock, c2s, s2c>>
    BY <1>5 DEF Leave
  <2>2. 0 \in 0 .. Len(s2c[c]) /\ SubSeq(s2c[c], 0 + 1, Len(s2c[c])) = s2c[c]
    BY <1>1
  <2>3. s2c' = [s2c EXCEPT ![c] = SubSeq(@, 0 + 1, Len(@))]
    BY <1>1, <2>1, <2>2
  <2> QED
    BY <2>1, <2>2, <2>3 DEF AnyClient, AnyReceive
<1> QED
  BY <1>2, <1>3, <1>4, <1>5 DEF PlayerActs

LEMMA PlayerStepInv ==
  ASSUME PlayersInv, NEW c \in Clients, PlayerActs(c), UNCHANGED <<serverVars, early>>
  PROVE  PlayerInv'
<1>1. /\ player \in [Clients -> {"idle", "ready", "wait", "gone"}]
      /\ sent \in [Clients -> Nat] /\ early' \subseteq Clients
  BY DEF PlayersInv, PlayersTypeOK
<1>2. /\ player' \in [Clients -> {"idle", "ready", "wait", "gone"}]
      /\ player'[c] # "idle"
      /\ \A d \in Clients \ {c} : player'[d] = player[d]
  BY <1>1 DEF PlayerActs, Connect, Ask, Take, Leave
<1>3. sent' \in [Clients -> Nat]
  <2>1. CASE Ask(c)
    <3>1. sent' = [sent EXCEPT ![c] = sent[c] + 1]
      BY <2>1 DEF Ask
    <3>2. sent[c] + 1 \in Nat
      BY <1>1
    <3> QED
      BY <1>1, <3>1, <3>2
  <2>2. CASE ~Ask(c)
    BY <1>1, <2>2 DEF PlayerActs, Connect, Take, Leave
  <2> QED
    BY <2>1, <2>2
<1>4. PlayersAreKnown'
  <2> SUFFICES ASSUME NEW d \in Clients
               PROVE  /\ player'[d] = "idle" => Unknown(d)'
                      /\ d \in left' => player'[d] = "gone"
    BY DEF PlayersAreKnown
  <2>1. ASSUME player'[d] = "idle" PROVE Unknown(d)'
    <3>1. d # c /\ Unknown(d)
      BY <1>2, <2>1 DEF PlayersInv, PlayersAreKnown
    <3> QED
      BY <3>1, PlayerStep, UnknownStays DEF PlayersInv
  <2>2. ASSUME d \in left' PROVE player'[d] = "gone"
    <3>1. CASE Leave(c)
      BY <1>1, <2>2, <3>1 DEF Leave, PlayersInv, PlayersAreKnown
    <3>2. CASE ~Leave(c)
      <4>1. left' = left /\ player[c] # "gone"
        BY <3>2 DEF PlayerActs, Connect, Ask, Take
      <4> QED
        BY <1>2, <2>2, <4>1 DEF PlayersInv, PlayersAreKnown
    <3> QED
      BY <3>1, <3>2
  <2> QED
    BY <2>1, <2>2
<1> QED
  BY <1>1, <1>2, <1>3, <1>4 DEF PlayerInv

(***************************************************************************)
(* The server's steps leave the players alone.                             *)
(***************************************************************************)
LEMMA ServerLeavesNobody ==
  ASSUME ServerNext
  PROVE  left' = left
<1>1. CASE AcceptLoop
  BY <1>1
  DEF AcceptLoop, StartUp, StartUpTraps, AcceptAborts, Accept, FillSlot, Spawn,
      SpawnFails, ProcessExit, netVars
<1>2. CASE PackThreadTraps
  BY <1>2 DEF PackThreadTraps, ProcessExit
<1>3. ASSUME NEW h \in Clients, Handler(h)
      PROVE  left' = left
  BY <1>3
  DEF Handler, Start, Recv, RecvFails, CloseConn, Reply, SendReply, ReplyTraps,
      ProcessExit, netVars
<1> QED
  BY <1>1, <1>2, <1>3 DEF ServerNext

LEMMA PlayersUnchanged ==
  ASSUME PlayersInv, ServerNext \/ UNCHANGED openVars, UNCHANGED playerVars,
         early' \subseteq Clients
  PROVE  PlayerInv'
<1>1. /\ player' \in [Clients -> {"idle", "ready", "wait", "gone"}]
      /\ sent' \in [Clients -> Nat] /\ player' = player
  BY DEF PlayersInv, PlayersTypeOK, playerVars
<1>2. \A c \in Clients : player[c] = "idle" => Unknown(c)'
  BY UnknownStays DEF PlayersInv, PlayersAreKnown
<1>3. left' = left
  BY ServerLeavesNobody DEF openVars, netVars
<1> QED
  BY <1>1, <1>2, <1>3 DEF PlayerInv, PlayersInv, PlayersAreKnown

(***************************************************************************)
(* Every step is one of the server with any clients.                       *)
(***************************************************************************)
LEMMA NextIsOpen == PlayersInv /\ [Next]_vars => [OpenNext]_openVars /\ PlayerInv'
<1> SUFFICES ASSUME PlayersInv, [Next]_vars PROVE [OpenNext]_openVars /\ PlayerInv'
  OBVIOUS
<1>1. CASE ServerNext /\ early' = early \cup TakenEarly /\ UNCHANGED playerVars
  <2>1. early' \subseteq Clients
    BY <1>1 DEF TakenEarly, PlayersInv, PlayersTypeOK
  <2> QED
    BY <1>1, <2>1, PlayersUnchanged DEF OpenNext
<1>2. ASSUME NEW c \in Clients, PlayerActs(c), UNCHANGED <<serverVars, early>>
      PROVE  [OpenNext]_openVars /\ PlayerInv'
  BY <1>2, PlayerStep, PlayerStepInv DEF OpenNext
<1>3. CASE UNCHANGED vars
  <2>1. early' \subseteq Clients
    BY <1>3 DEF vars, PlayersInv, PlayersTypeOK
  <2> QED
    BY <1>3, <2>1, PlayersUnchanged DEF vars, openVars
<1> QED
  BY <1>1, <1>2, <1>3 DEF Next

LEMMA InitPlayersInv == Init => PlayersInv
<1> SUFFICES ASSUME Init PROVE PlayersInv
  OBVIOUS
<1>1. ServerInv
  BY InitInv DEF Init, OpenInit
<1>2. /\ player \in [Clients -> {"idle", "ready", "wait", "gone"}]
      /\ sent \in [Clients -> Nat] /\ early \subseteq Clients
  BY DEF Init
<1>3. PlayersAreKnown
  <2>1. DOMAIN backlog = {} /\ left = {} /\ \A c \in Clients : rank[c] = 0
    BY DEF Init, NetInit, ServerInit
  <2> QED
    BY <2>1 DEF PlayersAreKnown, Unknown, InBacklog
<1> QED
  BY <1>1, <1>2, <1>3 DEF PlayersInv, PlayersTypeOK, ServerInv

(***************************************************************************)
(* The inductive invariant holds in every reachable state.                 *)
(***************************************************************************)
THEOREM PlayersInvariance == Spec => []PlayersInv
<1>1. PlayersInv /\ [Next]_vars => PlayersInv'
  <2> SUFFICES ASSUME PlayersInv, [Next]_vars PROVE PlayersInv'
    OBVIOUS
  <2>1. [OpenNext]_openVars /\ PlayerInv'
    BY NextIsOpen
  <2>2. ServerInv'
    BY <2>1, OpenNextInv DEF PlayersInv
  <2> QED
    BY <2>1, <2>2 DEF PlayersInv, PlayersTypeOK, PlayerInv, ServerInv
<1> QED
  BY <1>1, InitPlayersInv, PTL DEF Spec

(***************************************************************************)
(* Players that send any announced method at any time are clients like any *)
(* other.                                                                  *)
(***************************************************************************)
THEOREM PlayersAreOpen == Spec => OpenSpec
<1>1. Init => OpenInit
  BY DEF Init, OpenInit
<1>2. PlayersInv /\ [Next]_vars => [OpenNext]_openVars
  BY NextIsOpen
<1> QED
  BY <1>1, <1>2, PlayersInvariance, PTL DEF Spec, OpenSpec

(***************************************************************************)
(* Whatever the earlier players do and however they leave, the connection  *)
(* accepted last is held by the accept loop, the slot or a handler         *)
(* (rtsp-server.c).                                                        *)
(***************************************************************************)
THEOREM NewestPlayerHeld == Spec => []HeldInv
  BY PlayersAreOpen, ServerHoldsTheNewest, PTL

(***************************************************************************)
(* A player's connection that nobody serves any more was lost by its own   *)
(* handler, which found a later connection's handle in the slot.           *)
(***************************************************************************)
THEOREM ForgottenPlayersWereSuperseded == Spec => []OrphansWereSuperseded
  BY PlayersAreOpen, ServerForgetsTheSuperseded, PTL

(***************************************************************************)
(* What the player accepted last waits for.  It is inductive with two      *)
(* facts: before the accept nobody takes a request from the player, and    *)
(* after it, while the slot still holds the previous connection, a handler *)
(* that has the player's request makes the player an early one.            *)
(***************************************************************************)
InService(c) ==
  \/ c2s[c] # <<>>
  \/ s2c[c] # <<>>
  \/ \E h \in Clients : thr[h] = "reply" /\ req[h].from = c
  \/ \E h \in Clients : thr[h] = "send" /\ Conn(out[h].conn) = c

UntouchedInBacklog ==
  \A c \in Clients : player[c] = "wait" /\ InBacklog(c) => c2s[c] # <<>>

HeldBeforeTheSlot ==
  \A h, c \in Clients :
    loop = "init" /\ rank[c] = accepts /\ thr[h] = "reply" /\ req[h].from = c
      => c \in early

ServiceInv == UntouchedInBacklog /\ HeldBeforeTheSlot /\ NewestIsInService

\* What a step that moves no request and no response does to them.
LEMMA ServiceUnlessMoved ==
  ASSUME ServiceInv, UNCHANGED <<backlog, sock, c2s, s2c, req, out, history, player>>,
         loop' = "init" => loop = "init",
         \A h \in Clients :
           thr'[h] = thr[h] \/ {thr[h], thr'[h]} \cap {"reply", "send"} = {},
         early \subseteq early'
  PROVE  ServiceInv'
<1> USE DEF ServiceInv, history
<1>1. UntouchedInBacklog'
  BY DEF UntouchedInBacklog, InBacklog
<1>2. HeldBeforeTheSlot'
  BY DEF HeldBeforeTheSlot
<1>3. NewestIsInService'
  <2> SUFFICES ASSUME NEW c \in Clients, player[c] = "wait", Newest(c)', ServerEnd(c)'
               PROVE  InService(c)'
    BY DEF NewestIsInService, InService
  <2>1. Newest(c) /\ ServerEnd(c)
    BY DEF Newest, ServerEnd, InBacklog
  <2>2. InService(c)
    BY <2>1 DEF NewestIsInService, InService
  <2> QED
    BY <2>2 DEF InService, Conn
<1> QED
  BY <1>1, <1>2, <1>3

LEMMA AcceptService ==
  ASSUME PlayersInv, ServiceInv, NEW s \in Handles, Accept(s),
         UNCHANGED player, early \subseteq early'
  PROVE  ServiceInv'
<1> DEFINE new == Head(backlog)
<1> USE DEF ServiceInv, Accept, threadVars
<1>1. /\ backlog \in Seq(Clients) /\ backlog # <<>> /\ accepts \in Nat
      /\ rank \in [Clients -> Nat] /\ new \in Clients
  BY DEF PlayersInv, PlayersTypeOK, NetTypeOK, ServerTypeOK
<1>2. /\ InBacklog(new) /\ rank[new] = 0
      /\ \A c \in Clients : InBacklog(c)' => InBacklog(c)
  <2>1. 1 \in DOMAIN backlog /\ backlog[1] = new
    BY <1>1
  <2>2. \A i \in DOMAIN Tail(backlog) :
          i + 1 \in DOMAIN backlog /\ Tail(backlog)[i] = backlog[i + 1]
    BY <1>1
  <2> QED
    BY <2>1, <2>2 DEF InBacklog, PlayersInv, ServerInv, AcceptedOnce
<1> HIDE DEF new
<1>3. rank' = [rank EXCEPT ![new] = accepts + 1] /\ accepts' = accepts + 1
  BY DEF new
<1>4. \A c \in Clients : rank'[c] = accepts' => c = new
  BY <1>1, <1>3 DEF PlayersInv, ServerInv, AcceptedOnce
<1>5. UntouchedInBacklog'
  BY <1>2 DEF UntouchedInBacklog
<1>6. HeldBeforeTheSlot'
  <2>1. \A h \in Clients : thr[h] = "reply" => req[h].from # new
    BY <1>2 DEF PlayersInv, ServerInv, RequestsAreAccepted
  <2> QED
    BY <1>4, <2>1 DEF HeldBeforeTheSlot
<1>7. NewestIsInService'
  <2> SUFFICES ASSUME NEW c \in Clients, player[c] = "wait", Newest(c)'
               PROVE  c2s[c] # <<>>
    BY DEF NewestIsInService
  <2> QED
    BY <1>2, <1>4 DEF Newest, UntouchedInBacklog
<1> QED
  BY <1>5, <1>6, <1>7

LEMMA RecvService ==
  ASSUME PlayersInv, ServiceInv, NEW h \in Clients, Recv(h),
         UNCHANGED player, early' = early \cup TakenEarly
  PROVE  ServiceInv'
<1> DEFINE d == Conn(own[h])
<1> USE DEF ServiceInv, slotVars, history
<1>1. /\ d # None /\ thr[h] = "recv" /\ thr' = [thr EXCEPT ![h] = "reply"]
      /\ UNCHANGED <<backlog, sock, s2c, left, loop, conn, ctx, own, out, accepts, rank>>
  BY DEF Recv
<1>2. /\ thr \in [Clients -> ThreadStates] /\ c2s \in [Clients -> Seq(Request)]
      /\ req \in [Clients -> Request \cup {None}] /\ own[h] \in Handles \cup {None}
      /\ sock \in [Handles -> Clients \cup {None}] /\ accepts \in Nat
      /\ rank \in [Clients -> Nat]
  BY DEF PlayersInv, PlayersTypeOK, NetTypeOK, ServerTypeOK
<1>3. own[h] \in Handles /\ d = sock[own[h]] /\ d \in Clients
  BY <1>1, <1>2 DEF Conn
<1> HIDE DEF d
<1>4. PICK k \in 1 .. Len(c2s[d]) :
        /\ req' = [req EXCEPT ![h] = MergedRequest(SubSeq(c2s[d], 1, k))]
        /\ c2s' = [c2s EXCEPT ![d] = SubSeq(c2s[d], k + 1, Len(c2s[d]))]
  BY DEF Recv, d
<1>5. /\ req'[h] = MergedRequest(SubSeq(c2s[d], 1, k)) /\ thr'[h] = "reply"
      /\ c2s'[d] # c2s[d]
      /\ \A g \in Clients \ {h} : req'[g] = req[g] /\ thr'[g] = thr[g]
      /\ \A c \in Clients \ {d} : c2s'[c] = c2s[c]
  <2>1. c2s[d] \in Seq(Request)
    BY <1>2, <1>3
  <2>2. /\ Len(SubSeq(c2s[d], k + 1, Len(c2s[d]))) = Len(c2s[d]) - k
        /\ Len(c2s[d]) \in Nat
    BY <2>1, TakingFromAStream
  <2>3. SubSeq(c2s[d], k + 1, Len(c2s[d])) # c2s[d]
    BY <2>2
  <2> QED
    BY <1>1, <1>2, <1>3, <1>4, <2>3
<1>6. req'[h].from = d
  <2>1. c2s[d] \in Seq(Request)
    BY <1>2, <1>3
  <2>2. /\ SubSeq(c2s[d], 1, k) \in Seq(Request) /\ SubSeq(c2s[d], 1, k) # <<>>
        /\ SubSeq(c2s[d], 1, k)[1] = c2s[d][1] /\ 1 \in DOMAIN c2s[d]
    BY <2>1, TakingFromAStream
  <2>3. c2s[d][1].from = d
    BY <1>3, <2>2 DEF PlayersInv, ServerInv, RequestsNameTheirSender
  <2> QED
    BY <1>5, <2>2, <2>3, MergedRequestIsTyped
<1>7. UntouchedInBacklog'
  <2>1. ~InBacklog(d)
    BY <1>1, <1>2, <1>3 DEF InBacklog, PlayersInv, ServerInv, AcceptedOnce
  <2> QED
    BY <1>1, <1>5, <2>1 DEF UntouchedInBacklog, InBacklog
<1>8. HeldBeforeTheSlot'
  <2>1. loop = "init" /\ rank[d] = accepts => d \in early'
    BY <1>3, <1>5 DEF TakenEarly
  <2> SUFFICES ASSUME NEW g \in Clients, NEW c \in Clients, loop = "init",
                      rank[c] = accepts, thr'[g] = "reply", req'[g].from = c
               PROVE  c \in early'
    BY <1>1 DEF HeldBeforeTheSlot
  <2>2. CASE g = h
    BY <1>6, <2>1, <2>2
  <2>3. CASE g # h
    BY <1>5, <2>3 DEF HeldBeforeTheSlot
  <2> QED
    BY <2>2, <2>3
<1>9. NewestIsInService'
  <2> SUFFICES ASSUME NEW c \in Clients, player[c] = "wait", Newest(c)', ServerEnd(c)'
               PROVE  InService(c)'
    BY DEF NewestIsInService, InService
  <2>1. Newest(c) /\ ServerEnd(c)
    BY <1>1 DEF Newest, ServerEnd, InBacklog
  <2>2. InService(c)
    BY <2>1 DEF NewestIsInService, InService
  <2>3. CASE c = d
    BY <1>5, <1>6, <2>3 DEF InService
  <2>4. CASE c # d
    BY <1>1, <1>5, <2>2, <2>4 DEF InService, Conn
  <2> QED
    BY <2>3, <2>4
<1> QED
  BY <1>7, <1>8, <1>9

\* The newest connection has one handle, so that closing another leaves it alone.
LEMMA CloseConnService ==
  ASSUME PlayersInv, HeldInv, ServiceInv, NEW h \in Clients, CloseConn(h),
         UNCHANGED player, early \subseteq early'
  PROVE  ServiceInv'
<1> USE DEF ServiceInv, CloseConn, slotVars, history
<1>1. \A g \in Clients :
        thr'[g] = thr[g] \/ {thr[g], thr'[g]} \cap {"reply", "send"} = {}
  OBVIOUS
<1>2. UntouchedInBacklog'
  BY DEF UntouchedInBacklog, InBacklog
<1>3. HeldBeforeTheSlot'
  BY <1>1 DEF HeldBeforeTheSlot
<1>4. NewestIsInService'
  <2> SUFFICES ASSUME NEW c \in Clients, player[c] = "wait", Newest(c)', ServerEnd(c)'
               PROVE  InService(c)'
    BY DEF NewestIsInService, InService
  <2>1. Newest(c)
    BY DEF Newest
  <2>2. CASE InBacklog(c)
    BY <2>2 DEF UntouchedInBacklog, InService
  <2>3. ASSUME NEW s \in Handles, sock'[s] = c
        PROVE  InService(c)'
    <3>1. sock[s] = c /\ s # own[h]
      BY <2>3, NoneAssumption
    <3>2. InService(c)
      BY <2>1, <3>1 DEF NewestIsInService, InService, ServerEnd
    <3>3. \A t \in Handles : sock[t] = c => t = s
      BY <2>1, <3>1, NoneAssumption DEF HeldInv, NewestIsHeld, Newest
    <3>4. \A g \in Clients :
            thr[g] = "send" /\ Conn(out[g].conn) = c => Conn(out[g].conn)' = c
      <4> SUFFICES ASSUME NEW g \in Clients, thr[g] = "send", Conn(out[g].conn) = c
                   PROVE  Conn(out[g].conn)' = c
        OBVIOUS
      <4>1. out[g].conn \in Handles \cup {None} /\ c # None
        BY NoneAssumption
        DEF PlayersInv, ServerInv, RepliesFlowForward, Outgoing
      <4>2. out[g].conn \in Handles /\ sock[out[g].conn] = c /\ out[g].conn # None
        BY <4>1 DEF Conn
      <4>3. out[g].conn = s
        BY <3>3, <4>2
      <4> QED
        BY <2>3, <4>2, <4>3 DEF Conn
    <3> QED
      BY <1>1, <3>2, <3>4 DEF InService
  <2> QED
    BY <2>2, <2>3 DEF ServerEnd, InBacklog
<1> QED
  BY <1>2, <1>3, <1>4

\* Once the slot is written it stands for the newest connection, so that who has
\* its request reads the right handle there.
LEMMA ReplyService ==
  ASSUME PlayersInv, HeldInv, ServiceInv, NEW h \in Clients, Reply(h),
         UNCHANGED player, early \subseteq early'
  PROVE  ServiceInv'
<1> USE DEF ServiceInv, netVars, slotVars, history
<1>1. /\ thr[h] = "reply" /\ thr' = [thr EXCEPT ![h] = "send"]
      /\ req' = [req EXCEPT ![h] = None]
      /\ UNCHANGED <<backlog, sock, c2s, s2c, left, loop, conn, ctx, own, accepts, rank>>
  BY DEF Reply
<1>2. PICK r : out' = [out EXCEPT ![h] = [conn |-> ctx, rsp |-> r]]
  BY DEF Reply
<1>3. /\ thr \in [Clients -> ThreadStates] /\ out \in [Clients -> Outgoing \cup {None}]
      /\ req \in [Clients -> Request \cup {None}] /\ rank \in [Clients -> Nat]
  BY DEF PlayersInv, PlayersTypeOK, ServerTypeOK
<1>4. /\ thr'[h] = "send" /\ out'[h].conn = ctx
      /\ \A g \in Clients \ {h} : thr'[g] = thr[g] /\ out'[g] = out[g] /\ req'[g] = req[g]
  BY <1>1, <1>2, <1>3
<1>5. UntouchedInBacklog'
  BY <1>1 DEF UntouchedInBacklog, InBacklog
<1>6. HeldBeforeTheSlot'
  BY <1>1, <1>4 DEF HeldBeforeTheSlot
<1>7. NewestIsInService'
  <2> SUFFICES ASSUME NEW c \in Clients, player[c] = "wait", Newest(c)', ServerEnd(c)'
               PROVE  InService(c)'
    BY DEF NewestIsInService, InService
  <2>1. Newest(c) /\ ServerEnd(c)
    BY <1>1 DEF Newest, ServerEnd, InBacklog
  <2>2. InService(c)
    BY <2>1 DEF NewestIsInService, InService
  <2>3. CASE req[h].from = c
    <3>1. rank[c] = accepts /\ c \notin early /\ 1 <= rank[c]
      BY <1>1, <2>1, <2>3 DEF Newest, PlayersInv, ServerInv, RequestsAreAccepted
    <3>2. ~InBacklog(c)
      BY <1>3, <3>1 DEF InBacklog, PlayersInv, ServerInv, AcceptedOnce
    <3>3. PICK s \in Handles : sock[s] = c
      BY <2>1, <3>2 DEF ServerEnd
    <3>4. loop # "init"
      BY <1>1, <2>3, <3>1 DEF HeldBeforeTheSlot
    <3>5. ctx = s
      BY <3>1, <3>3, <3>4, NoneAssumption DEF HeldInv, NewestIsHeld
    <3>6. Conn(out[h].conn)' = c
      <4>1. ctx # None /\ sock'[ctx] = c
        BY <1>1, <3>3, <3>5, HandlesAssumption
      <4> QED
        BY <1>4, <4>1 DEF Conn
    <3> QED
      BY <1>4, <3>6 DEF InService
  <2>4. CASE req[h].from # c
    BY <1>1, <1>4, <2>2, <2>4 DEF InService, Conn
  <2> QED
    BY <2>3, <2>4
<1> QED
  BY <1>5, <1>6, <1>7

LEMMA SendReplyService ==
  ASSUME PlayersInv, ServiceInv, NEW h \in Clients, SendReply(h),
         UNCHANGED player, early \subseteq early'
  PROVE  ServiceInv'
<1> DEFINE d == Conn(out[h].conn)
           r == out[h].rsp
<1> USE DEF ServiceInv, slotVars, history
<1>1. /\ thr[h] = "send" /\ thr' = [thr EXCEPT ![h] = "recv"]
      /\ s2c' = IF d \in {None} \cup left THEN s2c ELSE [s2c EXCEPT ![d] = Append(@, r)]
      /\ out' = [out EXCEPT ![h] = None]
      /\ UNCHANGED <<backlog, sock, c2s, left, loop, conn, ctx, own, req, accepts, rank>>
  BY DEF SendReply, Delivered
<1>2. /\ thr \in [Clients -> ThreadStates] /\ out \in [Clients -> Outgoing \cup {None}]
      /\ s2c \in [Clients -> Seq(Response)] /\ r \in Response
  BY <1>1 DEF PlayersInv, PlayersTypeOK, NetTypeOK, ServerTypeOK, ServerInv,
              RepliesFlowForward, Outgoing
<1> HIDE DEF d, r
<1>3. /\ thr'[h] = "recv"
      /\ \A g \in Clients \ {h} : thr'[g] = thr[g] /\ out'[g] = out[g]
  BY <1>1, <1>2
<1>4. \A c \in Clients :
        /\ s2c[c] # <<>> => s2c'[c] # <<>>
        /\ c = d /\ c \notin left /\ c # None => s2c'[c] # <<>>
  <2> SUFFICES ASSUME NEW c \in Clients
               PROVE  /\ s2c[c] # <<>> => s2c'[c] # <<>>
                      /\ c = d /\ c \notin left /\ c # None => s2c'[c] # <<>>
    OBVIOUS
  <2>1. Append(s2c[c], r) # <<>>
    <3>1. s2c[c] \in Seq(Response)
      BY <1>2
    <3> QED
      BY <1>2, <3>1
  <2> QED
    BY <1>1, <1>2, <2>1
<1>5. UntouchedInBacklog'
  BY <1>1 DEF UntouchedInBacklog, InBacklog
<1>6. HeldBeforeTheSlot'
  BY <1>1, <1>3 DEF HeldBeforeTheSlot
<1>7. NewestIsInService'
  <2> SUFFICES ASSUME NEW c \in Clients, player[c] = "wait", Newest(c)', ServerEnd(c)'
               PROVE  InService(c)'
    BY DEF NewestIsInService, InService
  <2>1. Newest(c) /\ ServerEnd(c)
    BY <1>1 DEF Newest, ServerEnd, InBacklog
  <2>2. InService(c)
    BY <2>1 DEF NewestIsInService, InService
  <2>3. c \notin left /\ c # None
    BY NoneAssumption DEF PlayersInv, PlayersAreKnown
  <2>4. CASE c = d
    BY <1>4, <2>3, <2>4 DEF InService
  <2>5. CASE c # d
    <3>1. \A g \in Clients : thr[g] = "send" /\ Conn(out[g].conn) = c => g # h
      BY <2>5 DEF d
    <3> QED
      BY <1>1, <1>3, <1>4, <2>2, <3>1 DEF InService, Conn
  <2> QED
    BY <2>4, <2>5
<1> QED
  BY <1>5, <1>6, <1>7

\* With the process every connection ends.
LEMMA ProcessExitService ==
  ASSUME ServiceInv, NEW last, ProcessExit(last)
  PROVE  ServiceInv'
<1>1. \A c \in Clients : ~ServerEnd(c)' /\ ~InBacklog(c)'
  BY NoneAssumption DEF ProcessExit, ServerEnd, InBacklog
<1> QED
  BY <1>1
  DEF ServiceInv, UntouchedInBacklog, HeldBeforeTheSlot, NewestIsInService, ProcessExit

LEMMA ServerService ==
  ASSUME PlayersInv, HeldInv, ServiceInv, ServerNext, UNCHANGED playerVars,
         early' = early \cup TakenEarly
  PROVE  ServiceInv'
<1> USE DEF playerVars
<1>1. CASE AcceptLoop
  <2>1. CASE StartUp
    BY <2>1, ServiceUnlessMoved DEF StartUp, netVars, threadVars
  <2>2. CASE FillSlot
    BY <2>2, ServiceUnlessMoved DEF FillSlot, netVars, threadVars
  <2>3. ASSUME NEW c \in Clients, Spawn(c)
        PROVE  ServiceInv'
    <3>1. /\ thr \in [Clients -> ThreadStates] /\ accepts \in Nat
          /\ loop = "spawn" /\ rank[c] = accepts /\ thr' = [thr EXCEPT ![c] = "start"]
      BY <2>3 DEF Spawn, PlayersInv, PlayersTypeOK, ServerTypeOK
    <3>2. thr[c] = "none"
      BY <3>1 DEF PlayersInv, ServerInv, LoopInOrder
    <3>3. \A g \in Clients : thr'[g] = thr[g] \/ (thr[g] = "none" /\ thr'[g] = "start")
      BY <3>1, <3>2
    <3> QED
      BY <2>3, <3>3, ServiceUnlessMoved DEF Spawn, netVars
  <2>4. CASE StartUpTraps \/ AcceptAborts \/ SpawnFails
    BY <2>4, ProcessExitService DEF StartUpTraps, AcceptAborts, SpawnFails
  <2> QED
    BY <1>1, <2>1, <2>2, <2>3, <2>4, AcceptService DEF AcceptLoop
<1>2. CASE PackThreadTraps
  BY <1>2, ProcessExitService DEF PackThreadTraps
<1>3. ASSUME NEW h \in Clients, Handler(h)
      PROVE  ServiceInv'
  <2>1. thr \in [Clients -> ThreadStates]
    BY DEF PlayersInv, PlayersTypeOK, ServerTypeOK
  <2>2. CASE Start(h)
    BY <2>1, <2>2, ServiceUnlessMoved DEF Start, netVars, slotVars
  <2>3. CASE RecvFails(h)
    BY <2>1, <2>3, ServiceUnlessMoved DEF RecvFails, netVars, slotVars
  <2>4. CASE ReplyTraps(h)
    BY <2>4, ProcessExitService DEF ReplyTraps
  <2> QED
    BY <1>3, <2>2, <2>3, <2>4, RecvService, CloseConnService, ReplyService,
       SendReplyService
    DEF Handler
<1> QED
  BY <1>1, <1>2, <1>3 DEF ServerNext

\* What a player does for itself takes nothing from another.
LEMMA PlayerService ==
  ASSUME PlayersInv, ServiceInv, NEW d \in Clients, PlayerActs(d),
         UNCHANGED <<serverVars, early>>
  PROVE  ServiceInv'
<1> USE DEF ServiceInv, serverVars, slotVars, threadVars, history
<1>1. /\ player \in [Clients -> {"idle", "ready", "wait", "gone"}]
      /\ c2s \in [Clients -> Seq(Request)] /\ s2c \in [Clients -> Seq(Response)]
      /\ backlog \in Seq(Clients)
  BY DEF PlayersInv, PlayersTypeOK, NetTypeOK
<1>2. sock' = sock
  BY DEF PlayerActs, Connect, Ask, Take, Leave
<1>3. \A c \in Clients \ {d} :
        /\ player'[c] = player[c] /\ c2s'[c] = c2s[c] /\ s2c'[c] = s2c[c]
        /\ InBacklog(c)' => InBacklog(c)
  <2>1. CASE Connect(d)
    <3>1. \A i \in DOMAIN Append(backlog, d) :
            \/ i \in DOMAIN backlog /\ Append(backlog, d)[i] = backlog[i]
            \/ Append(backlog, d)[i] = d
      BY <1>1
    <3> QED
      BY <1>1, <2>1, <3>1 DEF Connect, InBacklog
  <2>2. CASE Ask(d)
    BY <1>1, <2>2 DEF Ask, InBacklog
  <2>3. CASE Take(d)
    BY <1>1, <2>3 DEF Take, InBacklog
  <2>4. CASE Leave(d)
    BY <1>1, <2>4 DEF Leave, InBacklog
  <2> QED
    BY <2>1, <2>2, <2>3, <2>4 DEF PlayerActs
<1>4. player'[d] = "wait" => c2s'[d] # <<>>
  <2> SUFFICES ASSUME player'[d] = "wait" PROVE c2s'[d] # <<>>
    OBVIOUS
  <2>1. Ask(d)
    BY <1>1 DEF PlayerActs, Connect, Take, Leave
  <2>2. PICK q \in RequestsOf(d) : c2s'[d] = Append(c2s[d], q)
    BY <1>1, <2>1 DEF Ask
  <2>3. c2s[d] \in Seq(Request) /\ q \in Request
    BY <1>1, PlayersRequestsAreTyped DEF PlayersInv, PlayersTypeOK
  <2>4. Append(c2s[d], q) # <<>>
    BY <2>3
  <2> QED
    BY <2>2, <2>4
<1>5. UntouchedInBacklog'
  BY <1>3, <1>4 DEF UntouchedInBacklog
<1>6. HeldBeforeTheSlot'
  BY DEF HeldBeforeTheSlot
<1>7. NewestIsInService'
  <2> SUFFICES ASSUME NEW c \in Clients, player'[c] = "wait", Newest(c)', ServerEnd(c)'
               PROVE  InService(c)'
    BY DEF NewestIsInService, InService
  <2>1. CASE c = d
    BY <1>4, <2>1 DEF InService
  <2>2. CASE c # d
    <3>1. player[c] = "wait" /\ Newest(c) /\ ServerEnd(c)
      BY <1>2, <1>3, <2>2 DEF Newest, ServerEnd
    <3>2. InService(c)
      BY <3>1 DEF NewestIsInService, InService
    <3> QED
      BY <1>2, <1>3, <2>2, <3>2 DEF InService, Conn
  <2> QED
    BY <2>1, <2>2
<1> QED
  BY <1>5, <1>6, <1>7

(***************************************************************************)
(* However many players come and however handles are closed twice and used *)
(* again, what the player accepted last waits for is under way to it, as   *)
(* long as no earlier handler took its request before the slot was written *)
(* (lines 156, 180 and 285 of rtsp-server.c).                              *)
(***************************************************************************)
THEOREM NewestPlayerIsServed == Spec => []NewestIsInService
<1>1. Init => ServiceInv
  <2> SUFFICES ASSUME Init PROVE ServiceInv
    OBVIOUS
  <2> QED
    BY DEF Init, ServerInit, ServiceInv, UntouchedInBacklog, HeldBeforeTheSlot,
           NewestIsInService
<1>2. PlayersInv /\ HeldInv /\ ServiceInv /\ [Next]_vars => ServiceInv'
  <2> SUFFICES ASSUME PlayersInv, HeldInv, ServiceInv, [Next]_vars PROVE ServiceInv'
    OBVIOUS
  <2>1. CASE UNCHANGED vars
    <3>1. UNCHANGED <<backlog, sock, c2s, s2c, loop, thr, req, out, history, player, early>>
      BY <2>1 DEF vars, netVars, serverVars, slotVars, threadVars, playerVars
    <3> QED
      BY <3>1, ServiceUnlessMoved
  <2> QED
    BY <2>1, ServerService, PlayerService DEF Next
<1>3. ServiceInv => NewestIsInService
  BY DEF ServiceInv
<1> QED
  BY <1>1, <1>2, <1>3, PlayersInvariance, NewestPlayerHeld, PTL DEF Spec
=============================================================================
