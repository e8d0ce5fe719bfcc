-------------------------- MODULE RtspSystemProofs --------------------------
(***************************************************************************)
(* Proofs about RtspSystem, for every set of clients, handles and sessions *)
(* and both values of Overlap.                                             *)
(*                                                                         *)
(* Every step of the system is one of the server with any clients, so that *)
(* what RtspOpenServerProofs shows of the server holds here (IInv).        *)
(*                                                                         *)
(* For clients that come one after the other SerialInv is inductive too,   *)
(* and under it the connection is what a client takes it for               *)
(* (RequestReply).  It says where the one connection is (OneAtATime),      *)
(* where its one request is (OneOutstanding) and what its client knows     *)
(* (ScriptInOrder), and rests on IInv and HeldInv.                         *)
(***************************************************************************)
EXTENDS RtspSystem, RtspOpenServerProofs

LEMMA MergedResponseIsTyped ==
  ASSUME NEW rs \in Seq(Response), rs # <<>>
  PROVE  MergedResponse(rs) \in Response
<1> DEFINE sessions == [i \in DOMAIN rs |-> rs[i].session]
           ports == [i \in DOMAIN rs |-> rs[i].port]
           sdp == \E i \in DOMAIN rs : rs[i].sdp
<1>1. Len(rs) \in Nat \ {0} /\ DOMAIN rs = 1 .. Len(rs)
  OBVIOUS
<1>2. \A i \in 1 .. Len(rs) : rs[i] \in Response
  BY <1>1
<1>3. \A r \in Response : r.session \in Sessions \cup {None} /\ r.port \in Ports \cup {None}
  BY DEF Response
<1>4. /\ sessions \in [1 .. Len(rs) -> Sessions \cup {None}]
      /\ ports \in [1 .. Len(rs) -> Ports \cup {None}]
  BY <1>1, <1>2, <1>3
<1>5. Latest(sessions) \in Sessions \cup {None}
  BY <1>1, <1>4, LatestIsThere
<1>6. Latest(ports) \in Ports \cup {None}
  BY <1>1, <1>4, LatestIsThere
<1>7. rs[Len(rs)] \in Response /\ sdp \in BOOLEAN
  BY <1>1, <1>2
<1>8. MergedResponse(rs) =
        [rs[Len(rs)] EXCEPT !.sdp = sdp, !.session = Latest(sessions),
                            !.port = Latest(ports)]
  BY DEF MergedResponse
<1> HIDE DEF sessions, ports, sdp
<1> QED
  BY <1>5, <1>6, <1>7, <1>8 DEF Response

(***************************************************************************)
(* The number of media in what arrived is a number, and a track belongs to *)
(* every medium.                                                           *)
(***************************************************************************)
LEMMA MediaAreCounted ==
  ASSUME NEW rs \in Seq(Response)
  PROVE  MediaIn(rs) \in Nat
<1> DEFINE D == {i \in DOMAIN rs : rs[i].sdp}
<1>1. IsFiniteSet(1 .. Len(rs)) /\ D \subseteq 1 .. Len(rs)
  BY FS_Interval
<1>2. Cardinality(D) \in Nat
  BY <1>1, FS_Subset, FS_CardinalityType
<1>3. Len(Media) = 2
  BY DEF Media
<1> QED
  BY <1>2, <1>3 DEF MediaIn

LEMMA TracksAreTyped ==
  ASSUME NEW i \in Nat \ {0}
  PROVE  Track(i) \in Tracks
<1>1. Len(Media) = 2 /\ DOMAIN Media = {1, 2}
  BY DEF Media
<1>2. (i - 1) % 2 \in {0, 1}
  OBVIOUS
<1> QED
  BY <1>1, <1>2 DEF Track, Tracks

(***************************************************************************)
(* The requests of the script are requests.                                *)
(***************************************************************************)
LEMMA RequestsAreTyped ==
  ASSUME TypeOK, NEW c \in Clients, NEW n \in Nat \ {0}
  PROVE  RequestOf(c, n) \in Request
<1>1. port[c] \in Seq(Ports \cup {None}) /\ session[c] \in Sessions \cup {None}
  BY DEF TypeOK, ClientTypeOK
<1>2. Method(c, n) \in Public
  BY DEF Method, Public
<1>3. Method(c, n) = "SETUP" => Medium(n) \in Nat \ {0}
  BY <1>1 DEF Method, Medium
<1>4. (IF Method(c, n) = "SETUP" THEN Track(Medium(n)) ELSE None) \in Tracks \cup {None}
  BY <1>3, TracksAreTyped
<1> QED
  BY <1>1, <1>2, <1>4 DEF RequestOf, Request

(***************************************************************************)
(* Initially                                                               *)
(***************************************************************************)
LEMMA InitIInv == Init => IInv
<1> SUFFICES ASSUME Init PROVE IInv
  OBVIOUS
<1>1. OpenInit
  BY DEF Init, OpenInit
<1>2. ServerInv
  BY <1>1, InitInv
<1>3. ClientTypeOK
  BY DEF Init, ClientInit, ClientTypeOK, ClientStates
<1>4. ClientsAreKnown
  <2>1. DOMAIN backlog = {}
    BY DEF Init, NetInit
  <2> QED
    BY <2>1 DEF Init, ServerInit, ClientInit, ClientsAreKnown, Unknown, InBacklog
<1> QED
  BY <1>2, <1>3, <1>4 DEF IInv, TypeOK, ServerInv

(***************************************************************************)
(* What a client does to the connections is what any client may do, and    *)
(* its own state stays within its script.                                  *)
(***************************************************************************)
ClientInv == ClientTypeOK /\ ClientsAreKnown

LEMMA DialStep ==
  ASSUME IInv, NEW c \in Clients, NEW listening \in BOOLEAN, NEW free \in BOOLEAN,
         Dial(c, listening, free), UNCHANGED serverVars
  PROVE  AnyClient(c) \/ UNCHANGED openVars
<1>1. Unknown(c) /\ UNCHANGED <<sock, c2s, s2c, left>>
  BY DEF IInv, ClientsAreKnown, Dial
<1>2. CASE listening
  BY <1>1, <1>2 DEF Dial, AnyClient, AnyDial
<1>3. CASE ~listening
  BY <1>1, <1>3 DEF Dial, openVars, netVars
<1> QED
  BY <1>2, <1>3

LEMMA SendStep ==
  ASSUME IInv, NEW c \in Clients, Send(c), UNCHANGED serverVars
  PROVE  AnyClient(c) \/ UNCHANGED openVars
<1> DEFINE q == RequestOf(c, cseq[c] + 1)
<1>1. cseq[c] + 1 \in Nat \ {0}
  BY DEF IInv, TypeOK, ClientTypeOK
<1>2. q \in Request /\ q.from = c
  BY <1>1, RequestsAreTyped DEF RequestOf, IInv
<1>3. UNCHANGED <<backlog, sock, s2c, left>>
  BY DEF Send
<1>4. CASE c2s' = c2s
  BY <1>3, <1>4 DEF openVars, netVars
<1>5. CASE c2s' = [c2s EXCEPT ![c] = Append(@, q)]
  BY <1>2, <1>3, <1>5 DEF AnyClient, AnySend
<1> QED
  BY <1>4, <1>5 DEF Send

LEMMA ReceiveStep ==
  ASSUME IInv, NEW c \in Clients, Receive(c), UNCHANGED serverVars
  PROVE  AnyClient(c)
<1>1. /\ UNCHANGED <<backlog, sock, c2s>>
      /\ left' \in {left, left \cup {c}}
      /\ \E k \in 1 .. Len(s2c[c]) : s2c' = [s2c EXCEPT ![c] = SubSeq(@, k + 1, Len(@))]
  BY DEF Receive
<1>2. Len(s2c[c]) \in Nat
  BY DEF IInv, TypeOK, NetTypeOK
<1>3. 1 .. Len(s2c[c]) \subseteq 0 .. Len(s2c[c])
  BY <1>2
<1> QED
  BY <1>1, <1>3 DEF AnyClient, AnyReceive

LEMMA EndStep ==
  ASSUME IInv, NEW c \in Clients, Eof(c) \/ Kill(c), UNCHANGED serverVars
  PROVE  AnyClient(c)
<1>1. /\ UNCHANGED <<backlog, sock, c2s, s2c>>
      /\ left' = left \cup {c}
  BY DEF Eof, Kill
<1>2. s2c[c] \in Seq(Response) /\ s2c \in [Clients -> Seq(Response)]
  BY DEF IInv, TypeOK, NetTypeOK
<1>3. 0 \in 0 .. Len(s2c[c]) /\ SubSeq(s2c[c], 0 + 1, Len(s2c[c])) = s2c[c]
  BY <1>2
<1>4. s2c' = [s2c EXCEPT ![c] = SubSeq(@, 0 + 1, Len(@))]
  BY <1>1, <1>2, <1>3
<1> QED
  BY <1>1, <1>3, <1>4 DEF AnyClient, AnyReceive

LEMMA DialClientInv ==
  ASSUME IInv, NEW c \in Clients, NEW listening \in BOOLEAN, NEW free \in BOOLEAN,
         Dial(c, listening, free), UNCHANGED serverVars
  PROVE  ClientInv'
<1> USE DEF IInv, Dial, ClientInv
<1>1. /\ st \in [Clients -> ClientStates] /\ cseq[c] = 0 /\ st' = [st EXCEPT ![c] = "ready"]
      /\ UNCHANGED <<cseq, session, port, rsp>>
  BY DEF TypeOK, ClientTypeOK, ClientsAreKnown
<1>2. ClientTypeOK'
  BY <1>1 DEF TypeOK, ClientTypeOK, ClientStates
<1>3. ClientsAreKnown'
  <2>1. \A d \in Clients \ {c} : st'[d] = st[d] /\ (st[d] = "idle" => Unknown(d)')
    <3>1. \A d \in Clients \ {c} : st[d] = "idle" => Unknown(d)
      BY DEF ClientsAreKnown
    <3>2. AnyClient(c) \/ UNCHANGED openVars
      BY DialStep
    <3> QED
      BY <1>1, <3>1, <3>2, UnknownStays
  <2>2. st'[c] = "ready" /\ cseq'[c] < LastOf(c)'
    <3>1. Len(port[c]) \in Nat
      BY DEF TypeOK, ClientTypeOK
    <3> QED
      BY <1>1, <3>1 DEF LastOf
  <2> QED
    BY <1>1, <2>1, <2>2 DEF ClientsAreKnown, LastOf
<1> QED
  BY <1>2, <1>3

LEMMA SendClientInv ==
  ASSUME IInv, NEW c \in Clients, Send(c), UNCHANGED serverVars
  PROVE  ClientInv'
<1> USE DEF IInv, Send, ClientInv
<1>1. /\ st \in [Clients -> ClientStates] /\ cseq \in [Clients -> Nat] /\ LastOf(c) \in Nat
      /\ st' = [st EXCEPT ![c] = "wait"] /\ cseq' = [cseq EXCEPT ![c] = @ + 1]
      /\ UNCHANGED <<backlog, session, port, rsp>>
  BY DEF TypeOK, ClientTypeOK, LastOf
<1>2. cseq[c] < LastOf(c)
  BY DEF ClientsAreKnown
<1>3. ClientTypeOK'
  BY <1>1 DEF TypeOK, ClientTypeOK, ClientStates
<1>4. ClientsAreKnown'
  <2>1. \A d \in Clients : Unknown(d)' = Unknown(d)
    BY <1>1 DEF Unknown, InBacklog, serverVars, history
  <2> QED
    BY <1>1, <1>2, <2>1 DEF ClientsAreKnown, LastOf
<1> QED
  BY <1>3, <1>4

LEMMA ReceiveClientInv ==
  ASSUME IInv, NEW c \in Clients, Receive(c), UNCHANGED serverVars
  PROVE  ClientInv'
<1> DEFINE method == Method(c, cseq[c])
           Arrived(k) == SubSeq(s2c[c], 1, k)
           Rest(k) == SubSeq(s2c[c], k + 1, Len(s2c[c]))
           r(k) == MergedResponse(Arrived(k))
           media(k) == MediaIn(Arrived(k))
<1> USE DEF IInv
<1>1. UNCHANGED <<backlog, sock, c2s, cseq>> /\ st[c] = "wait"
  BY DEF Receive
<1>2. /\ st \in [Clients -> ClientStates] /\ s2c \in [Clients -> Seq(Response)]
      /\ cseq \in [Clients -> Nat] /\ session \in [Clients -> Sessions \cup {None}]
      /\ port \in [Clients -> Seq(Ports \cup {None})]
      /\ rsp \in [Clients -> Response \cup {None}] /\ left \subseteq Clients
  BY DEF TypeOK, NetTypeOK, ClientTypeOK
<1>3. PICK k \in 1 .. Len(s2c[c]) :
        /\ s2c' = [s2c EXCEPT ![c] = Rest(k)]
        /\ rsp' = [rsp EXCEPT ![c] = r(k)]
        /\ session' = IF method = "SETUP" /\ r(k).session # None
                        THEN [session EXCEPT ![c] = r(k).session] ELSE session
        /\ port' = IF method = "DESCRIBE"
                     THEN [port EXCEPT ![c] = [i \in 1 .. media(k) |-> None]]
                   ELSE IF method = "SETUP" /\ r(k).port # None
                     THEN [port EXCEPT ![c][Medium(cseq[c])] = r(k).port]
                   ELSE port
        /\ st' = [st EXCEPT ![c] = Outcome(c, media(k))]
        /\ left' = IF Outcome(c, media(k)) = "ready" THEN left ELSE left \cup {c}
  BY DEF Receive
<1>4. r(k) \in Response /\ media(k) \in Nat
  <2>1. s2c[c] \in Seq(Response)
    BY <1>2
  <2>2. Arrived(k) \in Seq(Response) /\ Arrived(k) # <<>>
    BY <2>1, TakingFromAStream
  <2> HIDE DEF Arrived
  <2> QED
    BY <2>2, MergedResponseIsTyped, MediaAreCounted
<1>5. /\ Rest(k) \in Seq(Response)
      /\ \A i \in DOMAIN Rest(k) : k + i \in DOMAIN s2c[c] /\ Rest(k)[i] = s2c[c][k + i]
  BY <1>2, TakingFromAStream
<1> HIDE DEF r, media, Rest, Arrived
<1>6. r(k).session \in Sessions \cup {None} /\ r(k).port \in Ports \cup {None}
  BY <1>4 DEF Response
<1>7. cseq[c] \in Nat /\ 0 < cseq[c] /\ cseq[c] <= LastOf(c) /\ Len(port[c]) \in Nat
  BY <1>1, <1>2 DEF ClientsAreKnown
<1>8. Outcome(c, media(k)) \in {"trap", "done", "ready"}
  BY DEF Outcome
<1>9. port' \in [Clients -> Seq(Ports \cup {None})]
  <2>1. [i \in 1 .. media(k) |-> None] \in Seq(Ports \cup {None})
    BY <1>4
  <2>2. method = "SETUP" => Medium(cseq[c]) \in 1 .. Len(port[c])
    BY <1>7 DEF Method, Medium
  <2>3. CASE method = "DESCRIBE"
    BY <1>2, <1>3, <2>1, <2>3
  <2>4. CASE method = "SETUP" /\ r(k).port # None
    <3>1. [port[c] EXCEPT ![Medium(cseq[c])] = r(k).port] \in Seq(Ports \cup {None})
      BY <1>2, <1>6, <2>2, <2>4
    <3> QED
      BY <1>2, <1>3, <2>4, <3>1
  <2> QED
    BY <1>2, <1>3, <2>3, <2>4
<1>10. Outcome(c, media(k)) = "ready" => cseq[c] < LastOf(c)'
  <2> SUFFICES ASSUME Outcome(c, media(k)) = "ready"
               PROVE  cseq[c] < Len(port'[c]) + 3
    BY DEF LastOf
  <2>1. CASE method = "DESCRIBE"
    <3>1. cseq[c] = 2
      BY <1>7, <2>1 DEF Method
    <3>2. Len(port'[c]) \in Nat
      BY <1>9
    <3> QED
      BY <3>1, <3>2
  <2>2. CASE method # "DESCRIBE"
    <3>1. cseq[c] # Len(port[c]) + 3
      BY <2>2 DEF Outcome, LastOf
    <3>2. Len(port'[c]) = Len(port[c])
      BY <1>2, <1>3, <2>2
    <3> QED
      BY <1>7, <3>1, <3>2 DEF LastOf
  <2> QED
    BY <2>1, <2>2
<1>11. ClientTypeOK'
  <2>1. st' \in [Clients -> ClientStates] /\ rsp' \in [Clients -> Response \cup {None}]
    BY <1>2, <1>3, <1>4, <1>8 DEF ClientStates
  <2>2. session' \in [Clients -> Sessions \cup {None}]
    BY <1>2, <1>3, <1>6
  <2> QED
    BY <1>1, <1>2, <1>9, <2>1, <2>2 DEF ClientTypeOK
<1>12. ClientsAreKnown'
  <2>1. \A d \in Clients \ {c} : st'[d] = st[d] /\ port'[d] = port[d]
    BY <1>2, <1>3
  <2>2. st'[c] = Outcome(c, media(k))
    BY <1>2, <1>3
  <2>3. \A d \in Clients : Unknown(d)' = Unknown(d)
    BY <1>1 DEF Unknown, InBacklog, serverVars, history
  <2> QED
    BY <1>1, <1>8, <1>10, <2>1, <2>2, <2>3 DEF ClientsAreKnown, LastOf
<1> QED
  BY <1>11, <1>12 DEF ClientInv

LEMMA EndClientInv ==
  ASSUME IInv, NEW c \in Clients, Eof(c) \/ Kill(c), UNCHANGED serverVars
  PROVE  ClientInv'
<1> USE DEF IInv, Eof, Kill, ClientInv
<1>1. UNCHANGED <<backlog, cseq, session, port, rsp>>
  OBVIOUS
<1>2. /\ st' \in [Clients -> ClientStates]
      /\ \A d \in Clients : st'[d] = st[d] \/ st'[d] \in {"trap", "killed"}
  BY DEF TypeOK, ClientTypeOK, ClientStates
<1>3. ClientTypeOK'
  BY <1>1, <1>2 DEF TypeOK, ClientTypeOK
<1>4. \A d \in Clients : Unknown(d)' = Unknown(d)
  BY <1>1 DEF Unknown, InBacklog, serverVars, history
<1>5. ClientsAreKnown'
  BY <1>1, <1>2, <1>4 DEF ClientsAreKnown, LastOf
<1> QED
  BY <1>3, <1>5

(***************************************************************************)
(* A step that leaves the clients alone, the server's or none.             *)
(***************************************************************************)
LEMMA ClientsUnchanged ==
  ASSUME IInv, ServerNext \/ UNCHANGED openVars, UNCHANGED clientVars
  PROVE  ClientInv'
<1> USE DEF IInv, clientVars
<1>1. ClientTypeOK'
  BY DEF TypeOK, ClientTypeOK
<1>2. \A c \in Clients : st[c] = "idle" => Unknown(c)'
  BY UnknownStays DEF ClientsAreKnown
<1>3. ClientsAreKnown'
  BY <1>2 DEF ClientsAreKnown, LastOf
<1> QED
  BY <1>1, <1>3 DEF ClientInv

(***************************************************************************)
(* Every step is one of the server with any clients.                       *)
(***************************************************************************)
LEMMA ClientActsInv ==
  ASSUME IInv, NEW c \in Clients, ClientActs(c), UNCHANGED serverVars
  PROVE  (AnyClient(c) \/ UNCHANGED openVars) /\ ClientInv'
<1>1. CASE Dial(c, loop # "down", Overlap \/ Quiet(c))
  BY <1>1, DialStep, DialClientInv, OverlapAssumption DEF Quiet
<1>2. CASE Send(c)
  BY <1>2, SendStep, SendClientInv
<1>3. CASE Receive(c)
  BY <1>3, ReceiveStep, ReceiveClientInv
<1>4. CASE Eof(c) \/ Kill(c)
  BY <1>4, EndStep, EndClientInv
<1> QED
  BY <1>1, <1>2, <1>3, <1>4 DEF ClientActs, ClientStep

LEMMA NextIsOpen == IInv /\ [Next]_vars => [OpenNext]_openVars /\ ClientInv'
<1> SUFFICES ASSUME IInv, [Next]_vars PROVE [OpenNext]_openVars /\ ClientInv'
  OBVIOUS
<1>1. CASE ServerNext /\ UNCHANGED clientVars
  BY <1>1, ClientsUnchanged DEF OpenNext
<1>2. ASSUME NEW c \in Clients, ClientActs(c), UNCHANGED serverVars
      PROVE  [OpenNext]_openVars /\ ClientInv'
  BY <1>2, ClientActsInv DEF OpenNext
<1>3. CASE UNCHANGED vars
  BY <1>3, ClientsUnchanged DEF vars, openVars
<1> QED
  BY <1>1, <1>2, <1>3 DEF Next

LEMMA NextIInv == IInv /\ [Next]_vars => IInv'
<1> SUFFICES ASSUME IInv, [Next]_vars PROVE IInv'
  OBVIOUS
<1>1. [OpenNext]_openVars /\ ClientInv'
  BY NextIsOpen
<1>2. ServerInv'
  BY <1>1, OpenNextInv DEF IInv
<1> QED
  BY <1>1, <1>2 DEF IInv, TypeOK, ClientInv, ServerInv

(***************************************************************************)
(* The inductive invariant holds in every reachable state.                 *)
(***************************************************************************)
THEOREM Invariance == Spec => []IInv
<1>1. Init => IInv
  BY InitIInv
<1>2. IInv /\ [Next]_vars => IInv'
  BY NextIInv
<1> QED
  BY <1>1, <1>2, PTL DEF Spec

(***************************************************************************)
(* The repository's client is a client like any other: with these clients  *)
(* the server does nothing that it does not do with arbitrary ones.        *)
(***************************************************************************)
THEOREM SystemIsOpen == Spec => OpenSpec
<1>1. Init => OpenInit
  BY DEF Init, OpenInit
<1>2. IInv /\ [Next]_vars => [OpenNext]_openVars
  BY NextIsOpen
<1> QED
  BY <1>1, <1>2, Invariance, PTL DEF Spec, OpenSpec

(***************************************************************************)
(* The state variables of all parts keep their types.                      *)
(***************************************************************************)
THEOREM TypeCorrectness == Spec => []TypeOK
<1>1. IInv => TypeOK
  BY DEF IInv, ServerInv
<1> QED
  BY <1>1, Invariance, PTL

(***************************************************************************)
(* The slot that all handlers read (line 156 of rtsp-server.c) before they *)
(* send stands for the newest connection, or for the one before it while   *)
(* the accept loop writes it, or for no open connection.                   *)
(***************************************************************************)
THEOREM SlotFreshness == Spec => []SlotIsRecent
<1>1. IInv => SlotIsRecent
  BY DEF IInv, ServerInv
<1> QED
  BY <1>1, Invariance, PTL

(***************************************************************************)
(* Whatever connection a handler thread reads from, however handles are    *)
(* closed and used again, it was not accepted before the handler's own.    *)
(***************************************************************************)
THEOREM HandlersNeverServeOlder == Spec => []HandlerNeverOlder
<1>1. IInv => HandlerNeverOlder
  BY DEF IInv, ServerInv
<1> QED
  BY <1>1, Invariance, PTL

(***************************************************************************)
(* A misrouted response goes to a later client, or to the one accepted     *)
(* directly before the asker.                                              *)
(***************************************************************************)
THEOREM AnswersForward == Spec => []AnswersFlowForward
<1>1. IInv => AnswersFlowForward
  BY DEF IInv, ServerInv
<1> QED
  BY <1>1, Invariance, PTL

(***************************************************************************)
(* However accepts, handlers and their closing interleave, the connection  *)
(* accepted last is in the accept loop's hands, in the slot for a handler  *)
(* that is about to copy it, or in a handler's (rtsp-server.c).            *)
(***************************************************************************)
THEOREM NewestHeld == Spec => []HeldInv
  BY SystemIsOpen, ServerHoldsTheNewest, PTL

(***************************************************************************)
(* The server forgets no connection but one whose handler found a later    *)
(* connection's handle in the slot.                                        *)
(***************************************************************************)
THEOREM ForgottenWereSuperseded == Spec => []OrphansWereSuperseded
  BY SystemIsOpen, ServerForgetsTheSuperseded, PTL

-----------------------------------------------------------------------------
(* Clients one after the other.                                            *)

(***************************************************************************)
(* A stream with one message in it, and that message taken alone.          *)
(***************************************************************************)
LEMMA TakingTheOne ==
  ASSUME NEW S, NEW x \in S, NEW k \in 1 .. Len(<<x>>)
  PROVE  /\ SubSeq(<<x>>, 1, k) = <<x>>
         /\ SubSeq(<<x>>, k + 1, Len(<<x>>)) = <<>>
<1>1. <<x>> \in Seq(S) /\ Len(<<x>>) = 1 /\ k = 1
  OBVIOUS
<1>2. /\ SubSeq(<<x>>, 1, 1) \in Seq(S) /\ Len(SubSeq(<<x>>, 1, 1)) = 1
      /\ SubSeq(<<x>>, 1, 1)[1] = x
  BY <1>1, SubSeqProperties
<1>3. /\ SubSeq(<<x>>, 2, 1) \in Seq(S) /\ Len(SubSeq(<<x>>, 2, 1)) = 0
  BY <1>1, SubSeqProperties
<1>4. SubSeq(<<x>>, 2, 1) = <<>>
  BY <1>3, EmptySeq
<1>5. SubSeq(<<x>>, 1, 1) = <<x>>
  <2>1. Len(SubSeq(<<x>>, 1, 1)) = Len(<<x>>)
    BY <1>1, <1>2
  <2>2. \A i \in 1 .. Len(SubSeq(<<x>>, 1, 1)) : SubSeq(<<x>>, 1, 1)[i] = <<x>>[i]
    BY <1>2
  <2> QED
    BY <1>1, <1>2, <2>1, <2>2, SeqEqual
<1> QED
  BY <1>1, <1>4, <1>5

LEMMA LatestOfOne ==
  ASSUME NEW vals, DOMAIN vals = {1}
  PROVE  Latest(vals) = vals[1]
<1> DEFINE given == {i \in DOMAIN vals : vals[i] # None}
           newest == {i \in given : \A j \in given : j <= i}
<1>1. CASE vals[1] = None
  <2>1. newest = {}
    BY <1>1
  <2> QED
    BY <1>1, <2>1 DEF Latest
<1>2. CASE vals[1] # None
  <2>1. newest = {1}
    BY <1>2
  <2>2. (CHOOSE i \in newest : TRUE) = 1
    BY <2>1
  <2> QED
    BY <2>1, <2>2 DEF Latest
<1> QED
  BY <1>1, <1>2

LEMMA MergingTheOneRequest ==
  ASSUME NEW q \in Request
  PROVE  MergedRequest(<<q>>) = q
<1> DEFINE sessions == [i \in DOMAIN <<q>> |-> <<q>>[i].session]
<1>1. DOMAIN <<q>> = {1} /\ Len(<<q>>) = 1 /\ <<q>>[1] = q
  OBVIOUS
<1>2. DOMAIN sessions = {1} /\ sessions[1] = q.session
  BY <1>1
<1>3. Latest(sessions) = q.session
  BY <1>2, LatestOfOne
<1>4. MergedRequest(<<q>>) = [q EXCEPT !.cseq = q.cseq, !.session = q.session]
  BY <1>1, <1>3 DEF MergedRequest
<1> QED
  BY <1>4 DEF Request

LEMMA MergingTheOneResponse ==
  ASSUME NEW r \in Response
  PROVE  /\ MergedResponse(<<r>>) = r
         /\ MediaIn(<<r>>) = IF r.sdp THEN 2 ELSE 0
<1> DEFINE sessions == [i \in DOMAIN <<r>> |-> <<r>>[i].session]
           ports == [i \in DOMAIN <<r>> |-> <<r>>[i].port]
           sdp == \E i \in DOMAIN <<r>> : <<r>>[i].sdp
<1>1. DOMAIN <<r>> = {1} /\ Len(<<r>>) = 1 /\ <<r>>[1] = r
  OBVIOUS
<1>2. /\ DOMAIN sessions = {1} /\ sessions[1] = r.session
      /\ DOMAIN ports = {1} /\ ports[1] = r.port
  BY <1>1
<1>3. Latest(sessions) = r.session /\ Latest(ports) = r.port
  BY <1>2, LatestOfOne
<1>4. r.sdp \in BOOLEAN
  BY DEF Response
<1>5. sdp = r.sdp
  BY <1>1, <1>4
<1>6. MergedResponse(<<r>>) =
        [r EXCEPT !.sdp = r.sdp, !.session = r.session, !.port = r.port]
  BY <1>1, <1>3, <1>5 DEF MergedResponse
<1>7. MergedResponse(<<r>>) = r
  BY <1>6 DEF Response
<1>8. Len(Media) = 2
  BY DEF Media
<1>9. {i \in DOMAIN <<r>> : <<r>>[i].sdp} = IF r.sdp THEN {1} ELSE {}
  BY <1>1
<1>10. Cardinality({1}) = 1 /\ Cardinality({}) = 0
  BY FS_Singleton, FS_EmptySet
<1>11. MediaIn(<<r>>) = IF r.sdp THEN 2 ELSE 0
  <2>1. MediaIn(<<r>>) = 2 * Cardinality(IF r.sdp THEN {1} ELSE {})
    BY <1>8, <1>9 DEF MediaIn
  <2>2. CASE r.sdp
    BY <1>10, <2>1, <2>2
  <2>3. CASE ~r.sdp
    BY <1>10, <2>1, <2>3
  <2> QED
    BY <2>2, <2>3
<1> QED
  BY <1>7, <1>11

(***************************************************************************)
(* A handler thread belongs to the one client that is present, and works   *)
(* on that client's connection.                                            *)
(***************************************************************************)
LEMMA NoneBeforeAccept ==
  ASSUME IInv, NEW c \in Clients, st[c] = "idle"
  PROVE  thr[c] = "none"
<1>1. rank[c] = 0 /\ rank \in [Clients -> Nat]
  BY DEF IInv, ClientsAreKnown, Unknown, TypeOK, ServerTypeOK
<1> QED
  BY <1>1 DEF IInv, ServerInv, LoopInOrder

LEMMA HandlerIsPresent ==
  ASSUME IInv, OneAtATime, NEW h \in Clients,
         thr[h] \in {"start"} \cup Serving
  PROVE  /\ OnItsWay(h) /\ loop = "accept" /\ backlog = <<>> /\ OnlyUnder(ctx, h)
         /\ \A d \in Clients : Present(d) <=> d = h
         /\ \A d \in Clients \ {h} : thr[d] \in {"none", "done"}
<1>1. st[h] # "idle"
  BY NoneBeforeAccept DEF Serving
<1>2. loop # "down"
  <2>1. \A c \in Clients : OnItsWay(c) => loop # "down"
    BY DEF OnItsWay
  <2> QED
    BY <2>1 DEF OneAtATime, Serving
<1>3. Present(h)
  BY <1>1, <1>2 DEF Present, Serving
<1>4. OnItsWay(h) /\ \A d \in Clients : Present(d) <=> d = h
  BY <1>2, <1>3 DEF OneAtATime
<1>5. loop = "accept" /\ backlog = <<>> /\ OnlyUnder(ctx, h)
  BY <1>4 DEF OnItsWay, Serving
<1>6. \A d \in Clients \ {h} : thr[d] \in {"none", "done"}
  BY <1>2, <1>4, NoneBeforeAccept DEF Present
<1> QED
  BY <1>4, <1>5, <1>6

LEMMA HandlerHasItsOwn ==
  ASSUME IInv, OneAtATime, NEW h \in Clients, thr[h] \in Serving
  PROVE  own[h] = ctx /\ ctx \in Handles /\ Conn(own[h]) = h /\ Conn(ctx) = h
<1>1. OnItsWay(h) /\ OnlyUnder(ctx, h)
  BY HandlerIsPresent
<1>2. own[h] = ctx
  BY <1>1 DEF OnItsWay, OnlyUnder, NoSockets, Serving
<1>3. ctx \in Handles /\ sock[ctx] = h
  BY <1>1 DEF OnlyUnder
<1> QED
  BY <1>2, <1>3, HandlesAssumption DEF Conn

(***************************************************************************)
(* What a step of the server leaves alone is a matter of the clients.      *)
(***************************************************************************)
LEMMA ScriptUnchanged ==
  ASSUME ScriptInOrder, UNCHANGED clientVars
  PROVE  ScriptInOrder'
BY DEF ScriptInOrder, Answered, clientVars

LEMMA OutstandingStays ==
  ASSUME NEW c \in Clients, Outstanding(c), c \in left => c \in left',
         RequestOf(c, cseq[c])' = RequestOf(c, cseq[c]),
         st'[c] = st[c], c2s'[c] = c2s[c], s2c'[c] = s2c[c],
         loop = "down" => loop' = "down",
         thr'[c] = thr[c] \/ {thr[c], thr'[c]} \cap {"reply", "send"} = {},
         thr[c] = "reply" => req'[c] = req[c],
         thr[c] = "send" => out'[c] = out[c] /\ own'[c] = own[c]
  PROVE  Outstanding(c)'
BY DEF Outstanding, InHandler

LEMMA RequestsKeepTheirForm ==
  ASSUME UNCHANGED clientVars
  PROVE  \A c \in Clients : RequestOf(c, cseq[c])' = RequestOf(c, cseq[c])
BY DEF RequestOf, Method, clientVars

LEMMA OutstandingUnchanged ==
  ASSUME OneOutstanding, UNCHANGED <<clientVars, c2s, s2c, left, req, out>>,
         loop = "down" => loop' = "down",
         \A c \in Clients :
           /\ thr'[c] = thr[c] \/ {thr[c], thr'[c]} \cap {"reply", "send"} = {}
           /\ thr[c] = "send" => own'[c] = own[c]
  PROVE  OneOutstanding'
<1> SUFFICES ASSUME NEW c \in Clients PROVE Outstanding(c)'
  BY DEF OneOutstanding
<1>1. Outstanding(c) /\ st' = st
  BY DEF OneOutstanding, clientVars
<1> QED
  BY <1>1, RequestsKeepTheirForm, OutstandingStays

(***************************************************************************)
(* With the process every request in a handler is gone.                    *)
(***************************************************************************)
LEMMA ProcessExitSerial ==
  ASSUME SerialInv, NEW last \in [Clients -> {"none", "done", "trap"}],
         ProcessExit(last), UNCHANGED clientVars
  PROVE  SerialInv'
<1> USE DEF SerialInv, ProcessExit
<1>1. OneAtATime'
  BY DEF OneAtATime, NoSockets
<1>2. LeavingInOrder'
  BY DEF LeavingInOrder, clientVars
<1>3. OneOutstanding'
  <2> SUFFICES ASSUME NEW c \in Clients PROVE Outstanding(c)'
    BY DEF OneOutstanding
  <2>1. Outstanding(c) /\ ~InHandler(c)'
    BY DEF OneOutstanding, InHandler
  <2> QED
    BY <2>1, RequestsKeepTheirForm DEF Outstanding, InHandler, clientVars
<1>4. ScriptInOrder'
  BY ScriptUnchanged
<1> QED
  BY <1>1, <1>2, <1>3, <1>4

(***************************************************************************)
(* The accept loop takes the one connection through conn and the slot to   *)
(* its handler.                                                            *)
(***************************************************************************)
LEMMA StartUpSerial ==
  ASSUME SerialInv, StartUp, UNCHANGED clientVars
  PROVE  SerialInv'
<1> USE DEF SerialInv, StartUp, netVars, threadVars, history
<1>1. OneAtATime'
  BY DEF OneAtATime, NoSockets, OnItsWay, OnlyUnder, Present, clientVars
<1>2. LeavingInOrder'
  BY DEF LeavingInOrder, clientVars
<1> QED
  BY <1>1, <1>2, OutstandingUnchanged, ScriptUnchanged

LEMMA AcceptSerial ==
  ASSUME IInv, SerialInv, NEW s \in Handles, Accept(s), UNCHANGED clientVars
  PROVE  SerialInv'
<1> USE DEF SerialInv, Accept, threadVars
<1>1. OneAtATime'
  <2>1. PICK c \in Clients : OnItsWay(c) /\ \A d \in Clients : Present(d) <=> d = c
    BY DEF OneAtATime
  <2>2. backlog = <<c>> /\ NoSockets /\ thr[c] = "none"
    BY <2>1 DEF OnItsWay
  <2>3. backlog' = <<>> /\ OnlyUnder(conn, c)'
    BY <2>2 DEF NoSockets, OnlyUnder, IInv, TypeOK, NetTypeOK
  <2>4. OnItsWay(c)'
    BY <2>2, <2>3 DEF OnItsWay
  <2>5. \A d \in Clients : Present(d)' <=> d = c
    BY <2>1 DEF Present, clientVars
  <2> QED
    BY <2>4, <2>5 DEF OneAtATime
<1>2. LeavingInOrder'
  BY DEF LeavingInOrder, clientVars
<1> QED
  BY <1>1, <1>2, OutstandingUnchanged, ScriptUnchanged

LEMMA FillSlotSerial ==
  ASSUME SerialInv, FillSlot, UNCHANGED clientVars
  PROVE  SerialInv'
<1> USE DEF SerialInv, FillSlot, netVars, threadVars, history
<1>1. OneAtATime'
  BY DEF OneAtATime, NoSockets, OnItsWay, OnlyUnder, Present, clientVars
<1>2. LeavingInOrder'
  BY DEF LeavingInOrder, clientVars
<1> QED
  BY <1>1, <1>2, OutstandingUnchanged, ScriptUnchanged

LEMMA SpawnSerial ==
  ASSUME IInv, HeldInv, SerialInv, NEW d \in Clients, Spawn(d), UNCHANGED clientVars
  PROVE  SerialInv'
<1> USE DEF SerialInv, Spawn, netVars, history
<1>1. thr \in [Clients -> ThreadStates] /\ rank \in [Clients -> Nat] /\ accepts \in Nat
  BY DEF IInv, TypeOK, ServerTypeOK
<1>2. OnItsWay(d) /\ OnlyUnder(ctx, d) /\ backlog = <<>> /\ thr[d] = "none"
      /\ \A e \in Clients : Present(e) <=> e = d
  <2>1. PICK c \in Clients : OnItsWay(c) /\ \A e \in Clients : Present(e) <=> e = c
    BY DEF OneAtATime
  <2>2. backlog = <<>> /\ OnlyUnder(ctx, c) /\ thr[c] = "none"
    BY <2>1 DEF OnItsWay
  <2>3. Conn(ctx) = c /\ c # None
    BY <2>2, HandlesAssumption, NoneAssumption DEF OnlyUnder, Conn
  <2>4. rank[c] = accepts /\ 1 <= accepts
    BY <2>3 DEF IInv, ServerInv, SlotIsRecent, LoopInOrder
  <2>5. rank[c] > 0
    BY <1>1, <2>4
  <2>6. c = d
    BY <2>4, <2>5 DEF HeldInv, RanksAreDistinct
  <2> QED
    BY <2>1, <2>2, <2>6
<1>3. OneAtATime'
  <2>1. OnItsWay(d)'
    BY <1>1, <1>2 DEF OnItsWay, OnlyUnder
  <2>2. \A e \in Clients : Present(e)' <=> e = d
    BY <1>1, <1>2 DEF Present, clientVars
  <2> QED
    BY <2>1, <2>2 DEF OneAtATime
<1>4. LeavingInOrder'
  BY <1>1 DEF LeavingInOrder, clientVars
<1>5. OneOutstanding'
  BY <1>1, <1>2, OutstandingUnchanged
<1> QED
  BY <1>3, <1>4, <1>5, ScriptUnchanged

(***************************************************************************)
(* The handler thread.                                                     *)
(***************************************************************************)
LEMMA StartSerial ==
  ASSUME IInv, SerialInv, NEW h \in Clients, Start(h), UNCHANGED clientVars
  PROVE  SerialInv'
<1> USE DEF SerialInv, Start, netVars, slotVars, history
<1>1. thr \in [Clients -> ThreadStates] /\ own \in [Clients -> Handles \cup {None}]
  BY DEF IInv, TypeOK, ServerTypeOK
<1>2. /\ loop = "accept" /\ backlog = <<>> /\ OnlyUnder(ctx, h)
      /\ \A d \in Clients : Present(d) <=> d = h
  BY HandlerIsPresent
<1>3. OneAtATime'
  <2>1. OnItsWay(h)'
    BY <1>1, <1>2 DEF OnItsWay, OnlyUnder, Serving
  <2>2. \A d \in Clients : Present(d)' <=> d = h
    BY <1>1, <1>2 DEF Present, clientVars
  <2> QED
    BY <2>1, <2>2 DEF OneAtATime
<1>4. LeavingInOrder'
  BY <1>1 DEF LeavingInOrder, clientVars
<1>5. OneOutstanding'
  BY <1>1, OutstandingUnchanged
<1> QED
  BY <1>3, <1>4, <1>5, ScriptUnchanged

(***************************************************************************)
(* A handler that goes on serving stays with its connection.               *)
(***************************************************************************)
LEMMA HandlerStays ==
  ASSUME IInv, OneAtATime, NEW h \in Clients, NEW to \in Serving,
         thr[h] \in Serving, thr' = [thr EXCEPT ![h] = to],
         UNCHANGED <<slotVars, own, backlog, sock, st>>
  PROVE  OneAtATime'
<1> USE DEF slotVars
<1>1. thr \in [Clients -> ThreadStates]
  BY DEF IInv, TypeOK, ServerTypeOK
<1>2. /\ loop = "accept" /\ backlog = <<>> /\ OnlyUnder(ctx, h)
      /\ \A d \in Clients : Present(d) <=> d = h
  BY HandlerIsPresent
<1>3. own[h] = ctx
  BY HandlerHasItsOwn
<1>4. OnItsWay(h)'
  BY <1>1, <1>2, <1>3 DEF OnItsWay, OnlyUnder
<1>5. \A d \in Clients : Present(d)' <=> d = h
  BY <1>1, <1>2 DEF Present, Serving
<1> QED
  BY <1>4, <1>5 DEF OneAtATime

LEMMA RecvFailsSerial ==
  ASSUME IInv, SerialInv, NEW h \in Clients, RecvFails(h), UNCHANGED clientVars
  PROVE  SerialInv'
<1> USE DEF SerialInv, RecvFails, netVars, slotVars, history
<1>1. thr \in [Clients -> ThreadStates]
  BY DEF IInv, TypeOK, ServerTypeOK
<1>2. OneAtATime'
  BY HandlerStays DEF Serving, clientVars
<1>3. h \in left
  BY HandlerHasItsOwn, NoneAssumption DEF Serving
<1>4. LeavingInOrder'
  BY <1>1, <1>3 DEF LeavingInOrder, clientVars
<1>5. OneOutstanding'
  BY <1>1, OutstandingUnchanged
<1> QED
  BY <1>2, <1>4, <1>5, ScriptUnchanged

LEMMA CloseConnSerial ==
  ASSUME IInv, SerialInv, NEW h \in Clients, CloseConn(h), UNCHANGED clientVars
  PROVE  SerialInv'
<1> USE DEF SerialInv, CloseConn, slotVars, history
<1>1. thr \in [Clients -> ThreadStates]
  BY DEF IInv, TypeOK, ServerTypeOK
<1>2. /\ loop = "accept" /\ backlog = <<>> /\ OnlyUnder(ctx, h)
      /\ \A d \in Clients : Present(d) <=> d = h
      /\ \A d \in Clients \ {h} : thr[d] \in {"none", "done"}
  BY HandlerIsPresent DEF Serving
<1>3. own[h] = ctx
  BY HandlerHasItsOwn DEF Serving
<1>4. thr' = [thr EXCEPT ![h] = "done"]
  <2>1. PICK blocked \in SUBSET {g \in Clients : thr[g] = "recv" /\ own[g] = own[h]} :
          thr' = [g \in Clients |-> IF g = h THEN "done"
                                    ELSE IF g \in blocked THEN "close" ELSE thr[g]]
    OBVIOUS
  <2>2. blocked = {}
    BY <1>2
  <2> QED
    BY <1>1, <2>1, <2>2
<1>5. OneAtATime'
  <2>1. NoSockets'
    BY <1>2, <1>3 DEF NoSockets, OnlyUnder
  <2>2. \A d \in Clients : ~Present(d)'
    BY <1>1, <1>2, <1>4 DEF Present, clientVars
  <2> QED
    BY <1>2, <2>1, <2>2 DEF OneAtATime
<1>6. LeavingInOrder'
  BY <1>1, <1>2, <1>4 DEF LeavingInOrder, clientVars
<1>7. OneOutstanding'
  BY <1>1, <1>4, OutstandingUnchanged
<1> QED
  BY <1>5, <1>6, <1>7, ScriptUnchanged

LEMMA RecvSerial ==
  ASSUME IInv, SerialInv, NEW h \in Clients, Recv(h), UNCHANGED clientVars
  PROVE  SerialInv'
<1> DEFINE q == RequestOf(h, cseq[h])
<1> USE DEF SerialInv
<1>1. /\ thr[h] = "recv" /\ thr' = [thr EXCEPT ![h] = "reply"]
      /\ UNCHANGED <<backlog, sock, s2c, left, slotVars, own, out, history>>
  BY DEF Recv
<1>2. /\ thr \in [Clients -> ThreadStates] /\ c2s \in [Clients -> Seq(Request)]
      /\ req \in [Clients -> Request \cup {None}]
  BY DEF IInv, TypeOK, NetTypeOK, ServerTypeOK
<1>3. Conn(own[h]) = h
  BY <1>1, HandlerHasItsOwn DEF Serving
<1>4. PICK k \in 1 .. Len(c2s[h]) :
        /\ req' = [req EXCEPT ![h] = MergedRequest(SubSeq(c2s[h], 1, k))]
        /\ c2s' = [c2s EXCEPT ![h] = SubSeq(c2s[h], k + 1, Len(c2s[h]))]
  BY <1>3 DEF Recv
<1>5. c2s[h] = <<q>> /\ s2c[h] = <<>> /\ (h \in left \/ st[h] = "wait")
  <2>1. c2s[h] # <<>>
    BY <1>4
  <2> QED
    BY <1>1, <2>1 DEF OneOutstanding, Outstanding, InHandler
<1> HIDE DEF q
<1>6. q \in Request
  <2>1. c2s[h] \in Seq(Request)
    BY <1>2
  <2>2. Len(c2s[h]) = 1 /\ c2s[h][1] = q
    BY <1>5
  <2> QED
    BY <2>1, <2>2, ElementOfSeq
<1>7. req'[h] = q /\ c2s'[h] = <<>>
  BY <1>2, <1>4, <1>5, <1>6, TakingTheOne, MergingTheOneRequest
<1>8. \A c \in Clients \ {h} :
        c2s'[c] = c2s[c] /\ req'[c] = req[c] /\ thr'[c] = thr[c]
  BY <1>1, <1>2, <1>4
<1>9. OneOutstanding'
  <2> SUFFICES ASSUME NEW c \in Clients PROVE Outstanding(c)'
    BY DEF OneOutstanding
  <2>1. CASE c = h
    <3>1. RequestOf(h, cseq[h])' = q /\ thr'[h] = "reply"
      BY <1>1, <1>2, RequestsKeepTheirForm DEF q
    <3> QED
      BY <1>1, <1>5, <1>7, <2>1, <3>1 DEF Outstanding, InHandler, clientVars
  <2>2. CASE c # h
    <3>1. Outstanding(c) /\ UNCHANGED <<st, left, out, own, loop>>
      BY <1>1 DEF OneOutstanding, clientVars, slotVars
    <3> QED
      BY <1>1, <1>8, <2>2, <3>1, RequestsKeepTheirForm, OutstandingStays
  <2> QED
    BY <2>1, <2>2
<1>10. OneAtATime'
  BY <1>1, HandlerStays DEF Serving, clientVars
<1>11. LeavingInOrder'
  BY <1>1, <1>2 DEF LeavingInOrder, clientVars, slotVars
<1> QED
  BY <1>9, <1>10, <1>11, ScriptUnchanged

LEMMA ReplySerial ==
  ASSUME IInv, SerialInv, NEW h \in Clients, Reply(h), UNCHANGED clientVars
  PROVE  SerialInv'
<1> DEFINE q == RequestOf(h, cseq[h])
<1> USE DEF SerialInv
<1>1. /\ thr[h] = "reply" /\ thr' = [thr EXCEPT ![h] = "send"]
      /\ req' = [req EXCEPT ![h] = None]
      /\ UNCHANGED <<backlog, sock, c2s, s2c, left, slotVars, own, history>>
  BY DEF Reply, netVars
<1>2. /\ thr \in [Clients -> ThreadStates] /\ req \in [Clients -> Request \cup {None}]
      /\ out \in [Clients -> Outgoing \cup {None}]
  BY DEF IInv, TypeOK, ServerTypeOK
<1>3. own[h] = ctx
  BY <1>1, HandlerHasItsOwn DEF Serving
<1>4. req[h] = q /\ c2s[h] = <<>> /\ s2c[h] = <<>> /\ (h \in left \/ st[h] = "wait")
  BY <1>1 DEF OneOutstanding, Outstanding, InHandler
<1> HIDE DEF q
<1>5. PICK r \in ResponsesTo(q) : out' = [out EXCEPT ![h] = [conn |-> ctx, rsp |-> r]]
  BY <1>4 DEF Reply
<1>6. /\ thr'[h] = "send" /\ out'[h].conn = own'[h] /\ out'[h].rsp \in ResponsesTo(q)
      /\ \A c \in Clients \ {h} :
           out'[c] = out[c] /\ req'[c] = req[c] /\ thr'[c] = thr[c]
  BY <1>1, <1>2, <1>3, <1>5
<1>7. OneOutstanding'
  <2> SUFFICES ASSUME NEW c \in Clients PROVE Outstanding(c)'
    BY DEF OneOutstanding
  <2>1. CASE c = h
    <3>1. RequestOf(h, cseq[h])' = q
      BY RequestsKeepTheirForm DEF q
    <3> QED
      BY <1>1, <1>4, <1>6, <2>1, <3>1 DEF Outstanding, InHandler, clientVars
  <2>2. CASE c # h
    <3>1. Outstanding(c) /\ UNCHANGED <<st, left, own, loop>>
      BY <1>1 DEF OneOutstanding, clientVars, slotVars
    <3> QED
      BY <1>1, <1>6, <2>2, <3>1, RequestsKeepTheirForm, OutstandingStays
  <2> QED
    BY <2>1, <2>2
<1>8. OneAtATime'
  BY <1>1, HandlerStays DEF Serving, clientVars
<1>9. LeavingInOrder'
  BY <1>1, <1>2 DEF LeavingInOrder, clientVars, slotVars
<1> QED
  BY <1>7, <1>8, <1>9, ScriptUnchanged

(***************************************************************************)
(* What the send does: the answer arrives, unless its client has left.     *)
(***************************************************************************)
LEMMA TheAnswerIsSent ==
  ASSUME IInv, SerialInv, NEW h \in Clients, SendReply(h)
  PROVE  /\ c2s[h] = <<>> /\ s2c[h] = <<>>
         /\ \/ h \in left /\ s2c' = s2c
            \/ /\ h \notin left /\ st[h] = "wait"
               /\ \E r \in ResponsesTo(RequestOf(h, cseq[h])) :
                    s2c' = [s2c EXCEPT ![h] = <<r>>]
<1> DEFINE q == RequestOf(h, cseq[h])
           r == out[h].rsp
<1> USE DEF SerialInv
<1>1. thr[h] = "send" /\ s2c' = Delivered(out[h].conn, r)
  BY DEF SendReply
<1>2. /\ c2s[h] = <<>> /\ s2c[h] = <<>> /\ (h \in left \/ st[h] = "wait")
      /\ out[h].conn = own[h] /\ r \in ResponsesTo(q)
  BY <1>1 DEF OneOutstanding, Outstanding, InHandler
<1> HIDE DEF q, r
<1>3. Conn(out[h].conn) = h /\ h # None
  BY <1>1, <1>2, HandlerHasItsOwn, NoneAssumption DEF Serving
<1>4. CASE h \in left
  BY <1>1, <1>2, <1>3, <1>4 DEF Delivered
<1>5. CASE h \notin left
  <2>1. s2c' = [s2c EXCEPT ![h] = Append(s2c[h], r)]
    BY <1>1, <1>3, <1>5 DEF Delivered
  <2>2. Append(s2c[h], r) = <<r>>
    BY <1>2
  <2> QED
    BY <1>2, <1>5, <2>1, <2>2 DEF q
<1> QED
  BY <1>4, <1>5

LEMMA SendReplySerial ==
  ASSUME IInv, SerialInv, NEW h \in Clients, SendReply(h), UNCHANGED clientVars
  PROVE  SerialInv'
<1> DEFINE q == RequestOf(h, cseq[h])
<1> USE DEF SerialInv
<1>1. /\ thr[h] = "send" /\ thr' = [thr EXCEPT ![h] = "recv"]
      /\ out' = [out EXCEPT ![h] = None]
      /\ UNCHANGED <<backlog, sock, c2s, left, slotVars, own, req, history>>
  BY DEF SendReply
<1>2. /\ thr \in [Clients -> ThreadStates] /\ s2c \in [Clients -> Seq(Response)]
      /\ out \in [Clients -> Outgoing \cup {None}]
  BY DEF IInv, TypeOK, NetTypeOK, ServerTypeOK
<1>3. c2s[h] = <<>> /\ s2c[h] = <<>>
  BY TheAnswerIsSent
<1>4. \/ s2c' = s2c /\ h \in left /\ st[h] # "wait"
      \/ /\ st[h] = "wait"
         /\ \E r \in ResponsesTo(q) : s2c' = [s2c EXCEPT ![h] = <<r>>]
  BY TheAnswerIsSent DEF LeavingInOrder
<1> HIDE DEF q
<1>5. /\ \A c \in Clients \ {h} :
           s2c'[c] = s2c[c] /\ out'[c] = out[c] /\ thr'[c] = thr[c]
      /\ thr'[h] = "recv"
  BY <1>1, <1>2, <1>4
<1>6. \/ s2c'[h] = <<>> /\ st[h] # "wait"
      \/ st[h] = "wait" /\ \E r \in ResponsesTo(q) : s2c'[h] = <<r>>
  BY <1>2, <1>3, <1>4
<1>7. OneOutstanding'
  <2> SUFFICES ASSUME NEW c \in Clients PROVE Outstanding(c)'
    BY DEF OneOutstanding
  <2>1. CASE c = h
    <3>1. RequestOf(h, cseq[h])' = q
      BY RequestsKeepTheirForm DEF q
    <3> QED
      BY <1>1, <1>3, <1>5, <1>6, <2>1, <3>1 DEF Outstanding, InHandler, clientVars
  <2>2. CASE c # h
    <3>1. Outstanding(c) /\ UNCHANGED <<st, left, own, req, loop>>
      BY <1>1 DEF OneOutstanding, clientVars, slotVars
    <3> QED
      BY <1>1, <1>5, <2>2, <3>1, RequestsKeepTheirForm, OutstandingStays
  <2> QED
    BY <2>1, <2>2
<1>8. OneAtATime'
  BY <1>1, HandlerStays DEF Serving, clientVars
<1>9. LeavingInOrder'
  BY <1>1, <1>2 DEF LeavingInOrder, clientVars, slotVars
<1> QED
  BY <1>7, <1>8, <1>9, ScriptUnchanged

LEMMA ServerSerial ==
  ASSUME IInv, HeldInv, SerialInv, ServerNext, UNCHANGED clientVars
  PROVE  SerialInv'
<1>1. thr \in [Clients -> ThreadStates]
  BY DEF IInv, TypeOK, ServerTypeOK
<1>2. Ended \in [Clients -> {"none", "done", "trap"}]
  BY DEF Ended
<1>3. CASE AcceptLoop
  BY <1>2, <1>3, StartUpSerial, AcceptSerial, FillSlotSerial, SpawnSerial,
     ProcessExitSerial
  DEF AcceptLoop, StartUpTraps, AcceptAborts, SpawnFails
<1>4. CASE PackThreadTraps
  BY <1>2, <1>4, ProcessExitSerial DEF PackThreadTraps
<1>5. ASSUME NEW h \in Clients, Handler(h)
      PROVE  SerialInv'
  <2>1. CASE ReplyTraps(h)
    <3>1. [Ended EXCEPT ![h] = "trap"] \in [Clients -> {"none", "done", "trap"}]
      BY <1>2
    <3> QED
      BY <2>1, <3>1, ProcessExitSerial DEF ReplyTraps
  <2> QED
    BY <1>5, <2>1, StartSerial, RecvSerial, RecvFailsSerial, CloseConnSerial,
       ReplySerial, SendReplySerial
    DEF Handler
<1> QED
  BY <1>3, <1>4, <1>5 DEF ServerNext

(***************************************************************************)
(* The clients.  None of their steps moves the connection on its way.      *)
(***************************************************************************)
LEMMA WayUnchanged ==
  ASSUME OneAtATime, UNCHANGED <<serverVars, backlog, sock>>,
         \A c \in Clients : st'[c] = "idle" <=> st[c] = "idle"
  PROVE  OneAtATime'
<1> USE DEF serverVars, slotVars, threadVars
<1>1. \A c \in Clients : Present(c)' <=> Present(c)
  BY DEF Present
<1>2. \A c \in Clients : OnItsWay(c)' <=> OnItsWay(c)
  BY DEF OnItsWay, OnlyUnder, NoSockets
<1> QED
  BY <1>1, <1>2 DEF OneAtATime, NoSockets

(***************************************************************************)
(* Nothing is under way to or from a client that waits for nothing.        *)
(***************************************************************************)
LEMMA NothingOutstanding ==
  ASSUME LeavingInOrder, OneOutstanding, NEW c \in Clients, st[c] \in {"idle", "ready"}
  PROVE  c2s[c] = <<>> /\ s2c[c] = <<>> /\ ~InHandler(c)
BY DEF LeavingInOrder, OneOutstanding, Outstanding

(***************************************************************************)
(* The next client only starts when the server has let go of the others.   *)
(***************************************************************************)
LEMMA DialSerial ==
  ASSUME IInv, SerialInv, NEW c \in Clients, Dial(c, loop # "down", Quiet(c)),
         UNCHANGED serverVars
  PROVE  SerialInv'
<1> USE DEF SerialInv, Dial, serverVars, slotVars, threadVars
<1>1. /\ st \in [Clients -> ClientStates] /\ st[c] = "idle" /\ st' = [st EXCEPT ![c] = "ready"]
      /\ thr[c] = "none"
  BY NoneBeforeAccept DEF IInv, TypeOK, ClientTypeOK
<1>2. OneAtATime'
  <2>1. CASE loop = "down"
    BY <2>1 DEF OneAtATime, OnItsWay, NoSockets
  <2>2. CASE loop # "down"
    <3>1. \A d \in Clients : ~Present(d)
      BY <1>1, <2>2 DEF Present, Quiet
    <3>2. backlog = <<>> /\ NoSockets /\ loop \in {"startup", "accept"}
      BY <2>2, <3>1 DEF OneAtATime
    <3>3. backlog' = <<c>>
      BY <2>2, <3>2
    <3>4. OnItsWay(c)'
      BY <1>1, <3>2, <3>3 DEF OnItsWay, NoSockets
    <3>5. \A d \in Clients : Present(d)' <=> d = c
      BY <1>1, <2>2, <3>1 DEF Present
    <3> QED
      BY <3>4, <3>5 DEF OneAtATime
  <2> QED
    BY <2>1, <2>2
<1>3. LeavingInOrder'
  BY <1>1 DEF LeavingInOrder
<1>4. OneOutstanding'
  <2>1. \A d \in Clients : RequestOf(d, cseq[d])' = RequestOf(d, cseq[d])
    BY DEF RequestOf, Method
  <2>2. \A d \in Clients \ {c} : st'[d] = st[d]
    BY <1>1
  <2>3. c2s[c] = <<>> /\ s2c[c] = <<>> /\ ~InHandler(c)
    BY <1>1, NothingOutstanding
  <2> SUFFICES ASSUME NEW d \in Clients PROVE Outstanding(d)'
    BY DEF OneOutstanding
  <2>4. CASE d = c
    BY <1>1, <2>3, <2>4 DEF Outstanding, InHandler
  <2>5. CASE d # c
    <3>1. Outstanding(d) /\ UNCHANGED <<c2s, s2c, left, loop, thr, req, out, own>>
      BY DEF OneOutstanding
    <3> QED
      BY <2>1, <2>2, <2>5, <3>1, OutstandingStays
  <2> QED
    BY <2>4, <2>5
<1>5. ScriptInOrder'
  BY <1>1 DEF ScriptInOrder, Answered
<1> QED
  BY <1>2, <1>3, <1>4, <1>5

(***************************************************************************)
(* A client that may send has a connection to a server that runs.          *)
(***************************************************************************)
LEMMA ReadyIsConnected ==
  ASSUME SerialInv, NEW c \in Clients, st[c] = "ready", loop # "down"
  PROVE  ServerEnd(c)
<1>1. c \notin left
  BY DEF SerialInv, LeavingInOrder
<1>2. Present(c)
  BY <1>1 DEF SerialInv, LeavingInOrder, Present
<1>3. OnItsWay(c)
  BY <1>2 DEF SerialInv, OneAtATime
<1>4. CASE backlog = <<c>>
  <2>1. 1 \in DOMAIN backlog /\ backlog[1] = c
    BY <1>4
  <2> QED
    BY <2>1 DEF ServerEnd, InBacklog
<1>5. CASE backlog # <<c>>
  BY <1>3, <1>5 DEF OnItsWay, OnlyUnder, ServerEnd
<1> QED
  BY <1>4, <1>5

LEMMA SendSerial ==
  ASSUME IInv, SerialInv, NEW c \in Clients, Send(c), UNCHANGED serverVars
  PROVE  SerialInv'
<1> DEFINE q == RequestOf(c, cseq[c] + 1)
<1> USE DEF SerialInv
<1>1. /\ st \in [Clients -> ClientStates] /\ cseq \in [Clients -> Nat]
      /\ c2s \in [Clients -> Seq(Request)]
  BY DEF IInv, TypeOK, NetTypeOK, ClientTypeOK
<1>2. /\ st[c] = "ready" /\ st' = [st EXCEPT ![c] = "wait"]
      /\ cseq' = [cseq EXCEPT ![c] = @ + 1]
      /\ c2s' = IF ServerEnd(c) THEN [c2s EXCEPT ![c] = Append(@, q)] ELSE c2s
      /\ UNCHANGED <<backlog, sock, s2c, left, session, port, rsp>>
  BY DEF Send
<1>3. c2s[c] = <<>> /\ s2c[c] = <<>> /\ ~InHandler(c)
  BY <1>2, NothingOutstanding
<1>4. RequestOf(c, cseq[c])' = q
  BY <1>1, <1>2 DEF RequestOf, Method
<1>5. \A d \in Clients \ {c} : RequestOf(d, cseq[d])' = RequestOf(d, cseq[d])
  BY <1>1, <1>2 DEF RequestOf, Method
<1>6. c2s'[c] = <<q>> \/ (c2s'[c] = <<>> /\ loop = "down")
  <2>1. Append(c2s[c], q) = <<q>>
    BY <1>3
  <2> HIDE DEF q
  <2>2. CASE ServerEnd(c)
    <3>1. c2s'[c] = Append(c2s[c], q)
      BY <1>1, <1>2, <2>2
    <3> QED
      BY <2>1, <3>1
  <2>3. CASE ~ServerEnd(c)
    <3>1. c2s' = c2s /\ loop = "down"
      BY <1>2, <2>3, ReadyIsConnected
    <3> QED
      BY <1>3, <3>1
  <2> QED
    BY <2>2, <2>3
<1> HIDE DEF q
<1>7. \A d \in Clients \ {c} : c2s'[d] = c2s[d] /\ st'[d] = st[d] /\ cseq'[d] = cseq[d]
  BY <1>1, <1>2
<1>8. OneAtATime'
  BY <1>1, <1>2, WayUnchanged
<1>9. LeavingInOrder'
  BY <1>1, <1>2 DEF LeavingInOrder, serverVars, slotVars, threadVars
<1>10. OneOutstanding'
  <2>1. UNCHANGED <<s2c, left, loop, thr, req, out, own>>
    BY <1>2 DEF serverVars, slotVars, threadVars
  <2> SUFFICES ASSUME NEW d \in Clients PROVE Outstanding(d)'
    BY DEF OneOutstanding
  <2>2. CASE d = c
    <3>1. st'[c] = "wait"
      BY <1>1, <1>2
    <3> QED
      BY <1>3, <1>4, <1>6, <2>1, <2>2, <3>1 DEF Outstanding, InHandler
  <2>3. CASE d # c
    <3>1. Outstanding(d)
      BY DEF OneOutstanding
    <3> QED
      BY <1>5, <1>7, <2>1, <2>3, <3>1, OutstandingStays
  <2> QED
    BY <2>2, <2>3
<1>11. ScriptInOrder'
  <2>1. \A d \in Clients : Answered(d)' = Answered(d)
    BY <1>2 DEF Answered
  <2>2. cseq[c] = Answered(c) /\ cseq'[c] = Answered(c) + 1 /\ st'[c] = "wait"
    BY <1>1, <1>2 DEF ScriptInOrder
  <2> QED
    BY <1>2, <1>7, <2>1, <2>2 DEF ScriptInOrder
<1> QED
  BY <1>8, <1>9, <1>10, <1>11

(***************************************************************************)
(* What the one answer says, by the method that was asked.                 *)
(***************************************************************************)
LEMMA AnswerSays ==
  ASSUME IInv, NEW c \in Clients, NEW n \in Nat, NEW r \in ResponsesTo(RequestOf(c, n))
  PROVE  /\ r.sdp <=> Method(c, n) = "DESCRIBE"
         /\ Method(c, n) = "SETUP" =>
              /\ r.port = ServerPort[Track(Medium(n))] /\ r.port # None
              /\ r.session # None
              /\ session[c] # None => r.session = session[c]
<1> DEFINE q == RequestOf(c, n)
<1>1. /\ q.method = Method(c, n)
      /\ Method(c, n) = "SETUP" => q.track = Track(Medium(n)) /\ q.session = session[c]
  BY DEF RequestOf
<1> HIDE DEF q
<1>2. PICK s \in ResponseSessions(q) :
        r = [ of      |-> q.from,
              cseq    |-> q.cseq,
              sdp     |-> q.method = "DESCRIBE",
              session |-> s,
              port    |-> IF q.method = "SETUP" /\ q.track \in Tracks
                            THEN ServerPort[q.track] ELSE None ]
  BY DEF ResponsesTo, q
<1>3. r.sdp <=> Method(c, n) = "DESCRIBE"
  BY <1>1, <1>2
<1>4. ASSUME Method(c, n) = "SETUP"
      PROVE  /\ r.port = ServerPort[Track(Medium(n))] /\ r.port # None
             /\ r.session # None
             /\ session[c] # None => r.session = session[c]
  <2>1. Medium(n) \in Nat \ {0}
    BY <1>4 DEF Medium, Method, IInv, TypeOK, ClientTypeOK
  <2>2. Track(Medium(n)) \in Tracks
    BY <2>1, TracksAreTyped
  <2>3. r.port = ServerPort[Track(Medium(n))]
    BY <1>1, <1>2, <1>4, <2>2
  <2>4. r.port \in Ports
    BY <2>2, <2>3 DEF Ports
  <2>5. r.session \in SetupSessions(q)
    BY <1>1, <1>2, <1>4 DEF ResponseSessions
  <2> QED
    BY <1>1, <1>4, <2>3, <2>4, <2>5, NoneAssumption DEF SetupSessions
<1> QED
  BY <1>3, <1>4

(***************************************************************************)
(* What a receive finds is the answer to the request asked last, alone.    *)
(***************************************************************************)
LEMMA ReceivesTheAnswer ==
  ASSUME IInv, SerialInv, NEW c \in Clients, Receive(c)
  PROVE  \E r \in ResponsesTo(RequestOf(c, cseq[c])) :
           /\ r \in Response /\ r.of = c /\ r.cseq = cseq[c]
           /\ s2c[c] = <<r>> /\ c2s[c] = <<>> /\ ~InHandler(c)
           /\ s2c' = [s2c EXCEPT ![c] = <<>>]
           /\ rsp' = [rsp EXCEPT ![c] = r]
           /\ session' = IF Method(c, cseq[c]) = "SETUP"
                           THEN [session EXCEPT ![c] = r.session] ELSE session
           /\ port' = IF Method(c, cseq[c]) = "DESCRIBE"
                        THEN [port EXCEPT ![c] = [i \in 1 .. 2 |-> None]]
                      ELSE IF Method(c, cseq[c]) = "SETUP"
                        THEN [port EXCEPT ![c][Medium(cseq[c])] = r.port]
                      ELSE port
           /\ \E end \in {"ready", "done"} :
                /\ st' = [st EXCEPT ![c] = end]
                /\ left' = IF end = "ready" THEN left ELSE left \cup {c}
<1> DEFINE q == RequestOf(c, cseq[c])
           method == Method(c, cseq[c])
           arrived(k) == SubSeq(s2c[c], 1, k)
<1> USE DEF SerialInv
<1>1. PICK k \in 1 .. Len(s2c[c]) :
        LET r     == MergedResponse(arrived(k))
            media == MediaIn(arrived(k))
        IN  /\ s2c' = [s2c EXCEPT ![c] = SubSeq(s2c[c], k + 1, Len(s2c[c]))]
            /\ rsp' = [rsp EXCEPT ![c] = r]
            /\ session' = IF method = "SETUP" /\ r.session # None
                            THEN [session EXCEPT ![c] = r.session] ELSE session
            /\ port' = IF method = "DESCRIBE"
                         THEN [port EXCEPT ![c] = [i \in 1 .. media |-> None]]
                       ELSE IF method = "SETUP" /\ r.port # None
                         THEN [port EXCEPT ![c][Medium(cseq[c])] = r.port]
                       ELSE port
            /\ st' = [st EXCEPT ![c] = Outcome(c, media)]
            /\ left' = IF Outcome(c, media) = "ready" THEN left ELSE left \cup {c}
  BY DEF Receive
<1>2. PICK r \in ResponsesTo(q) : s2c[c] = <<r>> /\ c2s[c] = <<>> /\ ~InHandler(c)
  <2>1. s2c[c] # <<>>
    BY <1>1
  <2> QED
    BY <2>1 DEF OneOutstanding, Outstanding
<1>3. q \in Request /\ q.from = c /\ q.cseq = cseq[c]
  <2>1. cseq[c] \in Nat \ {0}
    BY DEF Receive, IInv, TypeOK, ClientTypeOK, ClientsAreKnown
  <2>2. q \in Request
    BY <2>1, RequestsAreTyped DEF IInv
  <2> QED
    BY <2>2 DEF RequestOf
<1>4. r \in Response /\ r.of = c /\ r.cseq = cseq[c]
  BY <1>2, <1>3, ResponsesAreTyped
<1>5. /\ MergedResponse(arrived(k)) = r /\ MediaIn(arrived(k)) = IF r.sdp THEN 2 ELSE 0
      /\ SubSeq(s2c[c], k + 1, Len(s2c[c])) = <<>>
  <2>1. k \in 1 .. Len(<<r>>)
    BY <1>2
  <2> QED
    BY <1>2, <1>4, <2>1, TakingTheOne, MergingTheOneResponse
<1>6. /\ r.sdp <=> method = "DESCRIBE"
      /\ method = "SETUP" => r.port # None /\ r.session # None
  <2>1. cseq[c] \in Nat
    BY DEF IInv, TypeOK, ClientTypeOK
  <2> QED
    BY <1>2, <2>1, AnswerSays
<1> DEFINE media == IF r.sdp THEN 2 ELSE 0
<1>7. Outcome(c, media) \in {"ready", "done"}
  BY <1>6 DEF Outcome, MaxMedia
<1>8. MediaIn(arrived(k)) = media /\ (method = "DESCRIBE" => media = 2)
  BY <1>5, <1>6
<1> HIDE DEF q, method, arrived, media
<1>9. /\ s2c' = [s2c EXCEPT ![c] = <<>>]
      /\ rsp' = [rsp EXCEPT ![c] = r]
      /\ session' = IF method = "SETUP"
                      THEN [session EXCEPT ![c] = r.session] ELSE session
      /\ port' = IF method = "DESCRIBE"
                   THEN [port EXCEPT ![c] = [i \in 1 .. 2 |-> None]]
                 ELSE IF method = "SETUP"
                   THEN [port EXCEPT ![c][Medium(cseq[c])] = r.port]
                 ELSE port
      /\ st' = [st EXCEPT ![c] = Outcome(c, media)]
      /\ left' = IF Outcome(c, media) = "ready" THEN left ELSE left \cup {c}
  <2>1. session' = IF method = "SETUP" THEN [session EXCEPT ![c] = r.session]
                   ELSE session
    BY <1>1, <1>5, <1>6
  <2>2. CASE method = "DESCRIBE"
    BY <1>1, <1>5, <1>8, <2>1, <2>2
  <2>3. CASE method = "SETUP"
    BY <1>1, <1>5, <1>6, <1>8, <2>1, <2>3
  <2>4. CASE method \notin {"DESCRIBE", "SETUP"}
    BY <1>1, <1>5, <1>8, <2>1, <2>4
  <2> QED
    BY <2>2, <2>3, <2>4
<1> QED
  BY <1>2, <1>4, <1>7, <1>9 DEF q, method

LEMMA ReceiveSerial ==
  ASSUME IInv, SerialInv, NEW c \in Clients, Receive(c), UNCHANGED serverVars
  PROVE  SerialInv'
<1> DEFINE n == Answered(c)
           method == Method(c, cseq[c])
<1> USE DEF SerialInv
<1>1. /\ st \in [Clients -> ClientStates] /\ s2c \in [Clients -> Seq(Response)]
      /\ rsp \in [Clients -> Response \cup {None}]
      /\ session \in [Clients -> Sessions \cup {None}]
      /\ port \in [Clients -> Seq(Ports \cup {None})] /\ cseq \in [Clients -> Nat]
  BY DEF IInv, TypeOK, NetTypeOK, ClientTypeOK
<1>2. UNCHANGED <<backlog, sock, c2s, cseq>> /\ st[c] = "wait"
  BY DEF Receive
<1>3. PICK r \in ResponsesTo(RequestOf(c, cseq[c])) :
        /\ r \in Response /\ r.of = c /\ r.cseq = cseq[c]
        /\ s2c[c] = <<r>> /\ c2s[c] = <<>> /\ ~InHandler(c)
        /\ s2c' = [s2c EXCEPT ![c] = <<>>]
        /\ rsp' = [rsp EXCEPT ![c] = r]
        /\ session' = IF method = "SETUP"
                        THEN [session EXCEPT ![c] = r.session] ELSE session
        /\ port' = IF method = "DESCRIBE"
                     THEN [port EXCEPT ![c] = [i \in 1 .. 2 |-> None]]
                   ELSE IF method = "SETUP"
                     THEN [port EXCEPT ![c][Medium(cseq[c])] = r.port]
                   ELSE port
        /\ \E end \in {"ready", "done"} :
             /\ st' = [st EXCEPT ![c] = end]
             /\ left' = IF end = "ready" THEN left ELSE left \cup {c}
  BY ReceivesTheAnswer
<1>4. PICK end \in {"ready", "done"} :
        /\ st' = [st EXCEPT ![c] = end]
        /\ left' = IF end = "ready" THEN left ELSE left \cup {c}
  BY <1>3
<1>5. \A d \in Clients \ {c} :
        /\ s2c'[d] = s2c[d] /\ rsp'[d] = rsp[d] /\ session'[d] = session[d]
        /\ port'[d] = port[d] /\ st'[d] = st[d]
  BY <1>1, <1>3, <1>4
<1>6. OneAtATime'
  BY <1>1, <1>2, <1>4, WayUnchanged
<1>7. LeavingInOrder'
  BY <1>1, <1>2, <1>4 DEF LeavingInOrder, serverVars, slotVars, threadVars
<1>8. OneOutstanding'
  <2>1. UNCHANGED <<c2s, loop, thr, req, out, own>>
    BY <1>2 DEF serverVars, slotVars, threadVars
  <2> SUFFICES ASSUME NEW d \in Clients PROVE Outstanding(d)'
    BY DEF OneOutstanding
  <2>2. CASE d = c
    <3>1. s2c'[c] = <<>> /\ st'[c] # "wait"
      BY <1>1, <1>3, <1>4
    <3> QED
      BY <1>3, <2>1, <2>2, <3>1 DEF Outstanding, InHandler
  <2>3. CASE d # c
    <3>1. RequestOf(d, cseq[d])' = RequestOf(d, cseq[d])
      BY <1>2, <1>5, <2>3 DEF RequestOf, Method
    <3>2. d \in left => d \in left'
      BY <1>4
    <3>3. Outstanding(d)
      BY DEF OneOutstanding
    <3> QED
      BY <1>5, <2>1, <2>3, <3>1, <3>2, <3>3, OutstandingStays
  <2> QED
    BY <2>2, <2>3
<1>9. ScriptInOrder'
  <2>1. cseq[c] = n + 1 /\ n \in Nat
    <3>1. n \in Nat
      BY <1>1 DEF Answered, Response
    <3> QED
      BY <1>2, <3>1 DEF ScriptInOrder
  <2>2. Answered(c)' = cseq[c]
    BY <1>1, <1>3, NoneAssumption DEF Answered
  <2>3. \A d \in Clients \ {c} : Answered(d)' = Answered(d)
    BY <1>5 DEF Answered
  <2>4. /\ n < 2 => port[c] = <<>>
        /\ n >= 2 => port[c] = [i \in 1 .. 2 |->
                                  IF i + 2 <= n THEN ServerPort[Track(i)] ELSE None]
        /\ n >= 3 => session[c] # None
    BY DEF ScriptInOrder, Media
  <2> HIDE DEF n
  <2>5. /\ n = 0 => method = "OPTIONS"
        /\ n = 1 => method = "DESCRIBE"
        /\ n \in {2, 3} => method = "SETUP"
        /\ n >= 4 => method = "PLAY"
    <3>1. n >= 2 => Len(port[c]) = 2
      BY <2>1, <2>4
    <3>2. n = 0 => method = "OPTIONS"
      BY <2>1 DEF Method
    <3>3. n = 1 => method = "DESCRIBE"
      BY <2>1 DEF Method
    <3>4. ASSUME n \in {2, 3} PROVE method = "SETUP"
      <4>1. cseq[c] \in {3, 4} /\ Len(port[c]) = 2
        BY <2>1, <3>1, <3>4
      <4> QED
        BY <4>1 DEF Method
    <3>5. ASSUME n >= 4 PROVE method = "PLAY"
      <4>1. cseq[c] \in Nat /\ cseq[c] > 4 /\ Len(port[c]) = 2
        BY <2>1, <3>1, <3>5
      <4> QED
        BY <4>1 DEF Method
    <3> QED
      BY <3>2, <3>3, <3>4, <3>5
  <2>6. method = "SETUP" => r.port = ServerPort[Track(n - 1)] /\ r.session # None
    BY <1>1, <1>3, <2>1, AnswerSays DEF Medium
  <2> HIDE DEF method
  <2>7. n + 1 < 2 => port'[c] = <<>>
    BY <1>3, <2>1, <2>4, <2>5
  <2>8. n + 1 >= 3 => session'[c] # None
    BY <1>1, <1>3, <2>1, <2>4, <2>5, <2>6
  <2>9. n + 1 >= 2 =>
          port'[c] = [i \in 1 .. 2 |->
                        IF i + 2 <= n + 1 THEN ServerPort[Track(i)] ELSE None]
    <3>1. CASE n = 1
      BY <1>1, <1>3, <2>5, <3>1
    <3>2. CASE n \in {2, 3}
      <4>1. port'[c] = [port[c] EXCEPT ![n - 1] = ServerPort[Track(n - 1)]]
        <5>1. Medium(cseq[c]) = n - 1
          BY <2>1 DEF Medium
        <5>2. port' = [port EXCEPT ![c][n - 1] = r.port]
          BY <1>3, <2>5, <3>2, <5>1
        <5>3. r.port = ServerPort[Track(n - 1)]
          BY <2>5, <2>6, <3>2
        <5> QED
          BY <1>1, <5>2, <5>3
      <4>2. port[c] = [i \in 1 .. 2 |->
                         IF i + 2 <= n THEN ServerPort[Track(i)] ELSE None]
        BY <2>4, <3>2
      <4>3. CASE n = 2
        BY <4>1, <4>2, <4>3
      <4>4. CASE n = 3
        BY <4>1, <4>2, <4>4
      <4> QED
        BY <3>2, <4>3, <4>4
    <3>3. CASE n >= 4
      BY <1>1, <1>3, <2>1, <2>4, <2>5, <3>3
    <3> QED
      BY <2>1, <3>1, <3>2, <3>3
  <2>10. Len(Media) = 2
    BY DEF Media
  <2> SUFFICES ASSUME NEW d \in Clients
               PROVE  /\ st'[d] \in {"idle", "ready"} => cseq[d] = Answered(d)'
                      /\ st'[d] = "wait" => cseq[d] = Answered(d)' + 1
                      /\ cseq[d] \in {Answered(d)', Answered(d)' + 1}
                      /\ Answered(d)' < 2 => port'[d] = <<>>
                      /\ Answered(d)' >= 2 =>
                           port'[d] = [i \in 1 .. 2 |->
                                         IF i + 2 <= Answered(d)'
                                           THEN ServerPort[Track(i)] ELSE None]
                      /\ Answered(d)' >= 3 => session'[d] # None
    BY <1>2, <2>10 DEF ScriptInOrder
  <2>11. CASE d = c
    BY <1>1, <1>4, <2>1, <2>2, <2>7, <2>8, <2>9, <2>11
  <2>12. CASE d # c
    BY <1>5, <2>3, <2>10, <2>12 DEF ScriptInOrder
  <2> QED
    BY <2>11, <2>12
<1> QED
  BY <1>6, <1>7, <1>8, <1>9

LEMMA EndSerial ==
  ASSUME IInv, SerialInv, NEW c \in Clients, Eof(c) \/ Kill(c), UNCHANGED serverVars
  PROVE  SerialInv'
<1> USE DEF SerialInv
<1>1. /\ UNCHANGED <<backlog, sock, c2s, s2c, cseq, session, port, rsp>>
      /\ st[c] \in {"ready", "wait"} /\ left' = left \cup {c}
      /\ \E end \in {"trap", "killed"} : st' = [st EXCEPT ![c] = end]
  BY DEF Eof, Kill
<1>2. st \in [Clients -> ClientStates]
  BY DEF IInv, TypeOK, ClientTypeOK
<1>3. OneAtATime'
  BY <1>1, <1>2, WayUnchanged
<1>4. LeavingInOrder'
  BY <1>1, <1>2 DEF LeavingInOrder, serverVars, slotVars, threadVars
<1>5. OneOutstanding'
  <2>1. \A d \in Clients : RequestOf(d, cseq[d])' = RequestOf(d, cseq[d])
    BY <1>1 DEF RequestOf, Method
  <2>2. \A d \in Clients :
          /\ d \in left \/ st[d] = "wait" => d \in left' \/ st'[d] = "wait"
          /\ st'[d] = "wait" => st[d] = "wait"
    BY <1>1, <1>2
  <2>3. UNCHANGED <<c2s, s2c, loop, thr, req, out, own>>
    BY <1>1 DEF serverVars, slotVars, threadVars
  <2> SUFFICES ASSUME NEW d \in Clients PROVE Outstanding(d)'
    BY DEF OneOutstanding
  <2>4. Outstanding(d)
    BY DEF OneOutstanding
  <2> QED
    BY <2>1, <2>2, <2>3, <2>4 DEF Outstanding, InHandler
<1>6. ScriptInOrder'
  <2>1. \A d \in Clients : Answered(d)' = Answered(d)
    BY <1>1 DEF Answered
  <2>2. \A d \in Clients : st'[d] \in {"trap", "killed"} \/ st'[d] = st[d]
    BY <1>1, <1>2
  <2> QED
    BY <1>1, <2>1, <2>2 DEF ScriptInOrder
<1> QED
  BY <1>3, <1>4, <1>5, <1>6

(***************************************************************************)
(* Every step keeps the invariant.                                         *)
(***************************************************************************)
LEMMA InitSerial == Init => SerialInv
<1> SUFFICES ASSUME Init PROVE SerialInv
  OBVIOUS
<1> USE DEF Init, NetInit, ServerInit, ClientInit
<1>1. OneAtATime
  BY DEF OneAtATime, NoSockets, Present
<1>2. LeavingInOrder /\ OneOutstanding
  BY DEF LeavingInOrder, OneOutstanding, Outstanding, InHandler
<1>3. ScriptInOrder
  BY DEF ScriptInOrder, Answered
<1> QED
  BY <1>1, <1>2, <1>3 DEF SerialInv

LEMMA NextSerial ==
  ASSUME ~Overlap, IInv, HeldInv, SerialInv, [Next]_vars
  PROVE  SerialInv'
<1>1. CASE ServerNext /\ UNCHANGED clientVars
  BY <1>1, ServerSerial
<1>2. ASSUME NEW c \in Clients, ClientActs(c), UNCHANGED serverVars
      PROVE  SerialInv'
  <2>1. CASE Dial(c, loop # "down", Overlap \/ Quiet(c))
    <3>1. Dial(c, loop # "down", Quiet(c))
      BY <2>1 DEF Dial
    <3> QED
      BY <1>2, <3>1, DialSerial
  <2>2. CASE ClientStep(c)
    BY <1>2, <2>2, SendSerial, ReceiveSerial, EndSerial DEF ClientStep
  <2>3. CASE Kill(c)
    BY <1>2, <2>3, EndSerial
  <2> QED
    BY <1>2, <2>1, <2>2, <2>3 DEF ClientActs
<1>3. CASE UNCHANGED vars
  <2> USE <1>3 DEF vars, netVars, serverVars, threadVars, slotVars, SerialInv
  <2>1. OneAtATime'
    BY WayUnchanged DEF clientVars
  <2>2. LeavingInOrder'
    BY DEF LeavingInOrder, clientVars
  <2> QED
    BY <2>1, <2>2, OutstandingUnchanged, ScriptUnchanged
<1> QED
  BY <1>1, <1>2, <1>3 DEF Next

(***************************************************************************)
(* When each client waits for the one before, the server has at most one   *)
(* connection, its client at most one request outstanding, and what the    *)
(* client knows fits the number of its answers.                            *)
(***************************************************************************)
THEOREM OneAfterTheOther ==
  ASSUME ~Overlap
  PROVE  Spec => []SerialInv
<1>1. Init => SerialInv
  BY InitSerial
<1>2. IInv /\ HeldInv /\ SerialInv /\ [Next]_vars => SerialInv'
  BY NextSerial
<1> QED
  BY <1>1, <1>2, Invariance, NewestHeld, PTL DEF Spec

\* While the server runs, a client that waits does so for something: its request
\* or the answer is under way.
NothingIsDropped ==
  \A c \in Clients :
    st[c] = "wait" /\ loop # "down" =>
      c2s[c] # <<>> \/ InHandler(c) \/ s2c[c] # <<>>

(***************************************************************************)
(* Between the two programs nothing is dropped: the handler answers every  *)
(* request through a slot that still holds its own connection, which stays *)
(* open while the client waits.                                            *)
(***************************************************************************)
THEOREM WaitsForSomething ==
  ASSUME ~Overlap
  PROVE  Spec => []NothingIsDropped
<1>1. SerialInv => NothingIsDropped
  <2> SUFFICES ASSUME SerialInv, NEW c \in Clients, st[c] = "wait", loop # "down"
               PROVE  c2s[c] # <<>> \/ InHandler(c) \/ s2c[c] # <<>>
    BY DEF NothingIsDropped
  <2>1. Outstanding(c)
    BY DEF SerialInv, OneOutstanding
  <2>2. ASSUME NEW x PROVE <<x>> # <<>>
    OBVIOUS
  <2> QED
    BY <2>1, <2>2, Zenon DEF Outstanding, InHandler
<1> QED
  BY <1>1, OneAfterTheOther, PTL

(***************************************************************************)
(* run_rtspclient sends PLAY with the session the server gave it, after    *)
(* every medium of the description has got the ports of its own track.     *)
(***************************************************************************)
THEOREM PlaysWhatIsSetUp ==
  ASSUME ~Overlap
  PROVE  Spec => []PlayIsSetUp
<1>1. IInv /\ SerialInv => PlayIsSetUp
  <2> SUFFICES ASSUME IInv, SerialInv, NEW c \in Clients, cseq[c] = LastOf(c)
               PROVE  /\ session[c] # None /\ port[c] # <<>>
                      /\ \A i \in DOMAIN port[c] : port[c][i] = ServerPort[Track(i)]
                      /\ \A i \in DOMAIN c2s[c] : c2s[c][i].session = session[c]
    BY DEF PlayIsSetUp
  <2> DEFINE n == Answered(c)
  <2>1. n \in Nat /\ Len(port[c]) \in Nat /\ cseq[c] = Len(port[c]) + 3
    BY DEF IInv, TypeOK, ClientTypeOK, Answered, Response, LastOf
  <2>2. /\ cseq[c] \in {n, n + 1}
        /\ n >= 2 => port[c] = [i \in 1 .. 2 |->
                                  IF i + 2 <= n THEN ServerPort[Track(i)] ELSE None]
        /\ n >= 3 => session[c] # None
    BY DEF SerialInv, ScriptInOrder, Media
  <2> HIDE DEF n
  <2>3. n >= 2
    BY <2>1, <2>2
  <2>4. Len(port[c]) = 2 /\ DOMAIN port[c] = 1 .. 2
    BY <2>2, <2>3
  <2>5. n >= 4 /\ cseq[c] = 5
    BY <2>1, <2>2, <2>4
  <2>6. \A i \in DOMAIN port[c] : port[c][i] = ServerPort[Track(i)]
    BY <2>1, <2>2, <2>4, <2>5
  <2>7. RequestOf(c, cseq[c]).session = session[c]
    BY <2>4, <2>5 DEF RequestOf, Method
  <2>8. c2s[c] = <<>> \/ c2s[c] = <<RequestOf(c, cseq[c])>>
    BY DEF SerialInv, OneOutstanding, Outstanding
  <2>9. \A i \in DOMAIN c2s[c] : c2s[c][i].session = session[c]
    BY <2>7, <2>8
  <2> QED
    BY <2>1, <2>2, <2>4, <2>5, <2>6, <2>9
<1> QED
  BY <1>1, Invariance, OneAfterTheOther, PTL

(***************************************************************************)
(* The session a client got with its first SETUP is the one it keeps: the  *)
(* server answers later SETUPs and PLAY with the Session of the request.   *)
(***************************************************************************)
THEOREM SessionIsKept ==
  ASSUME ~Overlap
  PROVE  Spec => SessionStable
<1> DEFINE A == \A c \in Clients : session[c] # None => session'[c] = session[c]
<1>1. IInv /\ SerialInv /\ [Next]_vars => [A]_vars
  <2> SUFFICES ASSUME IInv, SerialInv, Next, NEW c \in Clients, session[c] # None
               PROVE  session'[c] = session[c]
    OBVIOUS
  <2>1. CASE ServerNext /\ UNCHANGED clientVars
    BY <2>1 DEF clientVars
  <2>2. ASSUME NEW d \in Clients, ClientActs(d)
        PROVE  session'[c] = session[c]
    <3>1. CASE Receive(d)
      <4>1. PICK r \in ResponsesTo(RequestOf(d, cseq[d])) :
              session' = IF Method(d, cseq[d]) = "SETUP"
                           THEN [session EXCEPT ![d] = r.session] ELSE session
        BY <3>1, ReceivesTheAnswer
      <4>2. /\ session \in [Clients -> Sessions \cup {None}] /\ cseq[d] \in Nat
        BY DEF IInv, TypeOK, ClientTypeOK
      <4>3. Method(d, cseq[d]) = "SETUP" /\ session[d] # None => r.session = session[d]
        BY <4>2, AnswerSays
      <4> QED
        BY <4>1, <4>2, <4>3
    <3>2. CASE ~Receive(d)
      BY <2>2, <3>2 DEF ClientActs, ClientStep, Dial, Send, Eof, Kill
    <3> QED
      BY <3>1, <3>2
  <2> QED
    BY <2>1, <2>2 DEF Next
<1> QED
  BY <1>1, Invariance, OneAfterTheOther, PTL DEF Spec, SessionStable

(***************************************************************************)
(* A handler only gives up a connection whose client is gone: its receive  *)
(* fails for no other reason, and nobody else closes its handle.           *)
(***************************************************************************)
THEOREM OnlyTheLeftAreClosed ==
  ASSUME ~Overlap
  PROVE  Spec => ClosesOnlyTheLeft
<1> DEFINE A == \A s \in Handles :
                  sock[s] # None /\ sock'[s] = None /\ loop' # "down" => sock[s] \in left
<1>1. IInv /\ SerialInv /\ [Next]_vars => [A]_vars
  <2> SUFFICES ASSUME IInv, SerialInv, Next, NEW s \in Handles,
                      sock[s] # None, sock'[s] = None, loop' # "down"
               PROVE  sock[s] \in left
    OBVIOUS
  <2>1. sock \in [Handles -> Clients \cup {None}]
    BY DEF IInv, TypeOK, NetTypeOK
  <2>2. PICK h \in Clients : CloseConn(h)
    <3>1. CASE ServerNext
      <4>1. \A t \in Handles : ~Accept(t)
        <5> SUFFICES ASSUME NEW t \in Handles, Accept(t) PROVE FALSE
          OBVIOUS
        <5>1. Head(backlog) \in Clients /\ sock' = [sock EXCEPT ![t] = Head(backlog)]
          BY DEF Accept, IInv, TypeOK, NetTypeOK
        <5> QED
          BY <2>1, <5>1, NoneAssumption
      <4> QED
        BY <3>1, <4>1
        DEF ServerNext, AcceptLoop, StartUp, StartUpTraps, AcceptAborts, FillSlot, Spawn,
            SpawnFails, PackThreadTraps, ProcessExit, Handler, Start, Recv, RecvFails,
            Reply, SendReply, ReplyTraps, netVars
    <3>2. ASSUME NEW c \in Clients, ClientActs(c)
          PROVE  FALSE
      BY <3>2 DEF ClientActs, ClientStep, Dial, Send, Receive, Eof, Kill
    <3> QED
      BY <3>1, <3>2 DEF Next
  <2>3. own[h] = s /\ thr[h] = "close"
    BY <2>1, <2>2 DEF CloseConn
  <2>4. Conn(s) = h
    BY <2>3, HandlerHasItsOwn DEF SerialInv, Serving
  <2>5. h \in left
    BY <2>3, HandlerIsPresent DEF SerialInv, LeavingInOrder, Serving
  <2> QED
    BY <2>4, <2>5, HandlesAssumption DEF Conn
<1> QED
  BY <1>1, Invariance, OneAfterTheOther, PTL DEF Spec, ClosesOnlyTheLeft

(***************************************************************************)
(* The connection as RequestReply sees it changes with three steps only.   *)
(***************************************************************************)
LEMMA SendAsks ==
  ASSUME IInv, SerialInv, NEW c \in Clients, Send(c)
  PROVE  Exchange!Ask(c)
<1>1. /\ st[c] = "ready" /\ cseq' = [cseq EXCEPT ![c] = @ + 1] /\ UNCHANGED <<s2c, rsp>>
      /\ cseq \in [Clients -> Nat]
  BY DEF Send, IInv, TypeOK, ClientTypeOK
<1>2. s2c[c] = <<>>
  BY <1>1, NothingOutstanding DEF SerialInv
<1>3. Answered(c) = cseq[c]
  BY <1>1 DEF SerialInv, ScriptInOrder
<1>4. \A d \in Clients : Answered(d)' = Answered(d)
  BY <1>1 DEF Answered
<1> QED
  BY <1>1, <1>2, <1>3, <1>4 DEF Exchange!Ask

LEMMA SendReplyAnswers ==
  ASSUME IInv, SerialInv, NEW h \in Clients, SendReply(h), UNCHANGED clientVars
  PROVE  Exchange!Answer(h) \/ UNCHANGED <<s2c, cseq, rsp>>
<1> DEFINE q == RequestOf(h, cseq[h])
           pairs(c) == [i \in DOMAIN s2c[c] |-> <<s2c[c][i].of, s2c[c][i].cseq>>]
<1>1. s2c \in [Clients -> Seq(Response)] /\ s2c[h] = <<>> /\ UNCHANGED <<cseq, rsp>>
  BY TheAnswerIsSent DEF clientVars, IInv, TypeOK, NetTypeOK
<1>2. CASE s2c' = s2c
  BY <1>1, <1>2
<1>3. ASSUME h \notin left, st[h] = "wait",
             \E r \in ResponsesTo(q) : s2c' = [s2c EXCEPT ![h] = <<r>>]
      PROVE  Exchange!Answer(h)
  <2>1. q \in Request /\ q.from = h /\ q.cseq = cseq[h]
    <3>1. cseq[h] \in Nat \ {0}
      BY <1>3 DEF IInv, TypeOK, ClientTypeOK, ClientsAreKnown
    <3>2. q \in Request
      BY <3>1, RequestsAreTyped DEF IInv
    <3> QED
      BY <3>2 DEF RequestOf
  <2> HIDE DEF q
  <2>2. PICK r \in ResponsesTo(q) : s2c' = [s2c EXCEPT ![h] = <<r>>]
    BY <1>3
  <2>3. r \in Response /\ r.of = h /\ r.cseq = cseq[h]
    BY <2>1, <2>2, ResponsesAreTyped
  <2>4. cseq[h] = Answered(h) + 1 /\ Answered(h) \in Nat
    <3>1. Answered(h) \in Nat
      BY DEF Answered, IInv, TypeOK, ClientTypeOK, Response
    <3> QED
      BY <1>3, <3>1 DEF SerialInv, ScriptInOrder
  <2>5. pairs(h) = <<>>
    BY <1>1
  <2>6. [c \in Clients |-> pairs(c)]' =
          [[c \in Clients |-> pairs(c)] EXCEPT ![h] = << <<h, cseq[h]>> >>]
    <3>1. pairs(h)' = << <<h, cseq[h]>> >>
      <4>1. s2c'[h] = <<r>>
        BY <1>1, <2>2
      <4> QED
        BY <2>3, <4>1
    <3>2. \A c \in Clients \ {h} : s2c'[c] = s2c[c]
      BY <1>1, <2>2
    <3>3. \A c \in Clients \ {h} : pairs(c)' = pairs(c)
      BY <3>2
    <3> HIDE DEF pairs
    <3> QED
      BY <3>1, <3>3
  <2>7. [c \in Clients |-> Answered(c)]' = [c \in Clients |-> Answered(c)]
    BY <1>1 DEF Answered
  <2>8. Answered(h) < cseq[h]
    BY <2>4
  <2> QED
    BY <1>1, <2>5, <2>6, <2>7, <2>8 DEF Exchange!Answer
<1> HIDE DEF pairs
<1> QED
  BY <1>1, <1>2, <1>3, TheAnswerIsSent

LEMMA ReceiveTakes ==
  ASSUME IInv, SerialInv, NEW c \in Clients, Receive(c)
  PROVE  Exchange!Take(c)
<1> DEFINE pairs(d) == [i \in DOMAIN s2c[d] |-> <<s2c[d][i].of, s2c[d][i].cseq>>]
<1>1. PICK r \in Response :
        /\ r.of = c /\ r.cseq = cseq[c] /\ s2c[c] = <<r>>
        /\ s2c' = [s2c EXCEPT ![c] = <<>>] /\ rsp' = [rsp EXCEPT ![c] = r]
  BY ReceivesTheAnswer
<1>2. /\ s2c \in [Clients -> Seq(Response)] /\ rsp \in [Clients -> Response \cup {None}]
      /\ cseq' = cseq
  BY DEF Receive, IInv, TypeOK, NetTypeOK, ClientTypeOK
<1>3. pairs(c) = << <<c, cseq[c]>> >>
  BY <1>1
<1>4. [d \in Clients |-> pairs(d)]' = [[d \in Clients |-> pairs(d)] EXCEPT ![c] = <<>>]
  <2>1. pairs(c)' = <<>>
    <3>1. s2c'[c] = <<>>
      BY <1>1, <1>2
    <3> QED
      BY <3>1
  <2>2. \A d \in Clients \ {c} : s2c'[d] = s2c[d]
    BY <1>1, <1>2
  <2>3. \A d \in Clients \ {c} : pairs(d)' = pairs(d)
    BY <2>2
  <2> HIDE DEF pairs
  <2> QED
    BY <2>1, <2>3
<1>5. [d \in Clients |-> Answered(d)]' =
        [[d \in Clients |-> Answered(d)] EXCEPT ![c] = cseq[c]]
  <2>1. Answered(c)' = cseq[c]
    BY <1>1, <1>2, NoneAssumption DEF Answered
  <2>2. \A d \in Clients \ {c} : Answered(d)' = Answered(d)
    BY <1>1, <1>2 DEF Answered
  <2> QED
    BY <2>1, <2>2
<1>6. pairs(c) # <<>> /\ Head(pairs(c))[2] = cseq[c]
  BY <1>3
<1> QED
  BY <1>2, <1>4, <1>5, <1>6 DEF Exchange!Take

(***************************************************************************)
(* To a client that has the server for itself, the whole of accept loop,   *)
(* slot, handler thread and streams is a connection on which each request  *)
(* gets its one answer before the next is asked (run_rtspclient relies on  *)
(* it, for it compares no CSeq).                                           *)
(***************************************************************************)
THEOREM ServesLikeRequestReply ==
  ASSUME ~Overlap
  PROVE  Spec => ImplementsRequestReply
<1>1. Init => Exchange!Init
  <2> SUFFICES ASSUME Init PROVE Exchange!Init
    OBVIOUS
  <2>1. \A c \in Clients : s2c[c] = <<>> /\ Answered(c) = 0
    BY DEF Init, NetInit, ClientInit, Answered
  <2>2. cseq = [c \in Clients |-> 0]
    BY DEF Init, ClientInit
  <2> QED
    BY <2>1, <2>2 DEF Exchange!Init
<1>2. IInv /\ SerialInv /\ [Next]_vars => [Exchange!Next]_(Exchange!abstractVars)
  <2> SUFFICES ASSUME IInv, SerialInv, [Next]_vars
               PROVE  Exchange!Next \/ UNCHANGED Exchange!abstractVars
    OBVIOUS
  <2>1. ASSUME UNCHANGED <<s2c, cseq, rsp>>
        PROVE  UNCHANGED Exchange!abstractVars
    BY <2>1 DEF Exchange!abstractVars, Answered
  <2>2. CASE ServerNext /\ UNCHANGED clientVars
    <3>1. CASE \E h \in Clients : SendReply(h)
      BY <2>1, <2>2, <3>1, SendReplyAnswers DEF Exchange!Next
    <3>2. CASE ~\E h \in Clients : SendReply(h)
      <4>1. UNCHANGED s2c
        BY <2>2, <3>2
        DEF ServerNext, AcceptLoop, StartUp, StartUpTraps, AcceptAborts, Accept, FillSlot,
            Spawn, SpawnFails, PackThreadTraps, ProcessExit, Handler, Start, Recv,
            RecvFails, CloseConn, Reply, ReplyTraps, netVars
      <4> QED
        BY <2>1, <2>2, <4>1 DEF clientVars
    <3> QED
      BY <3>1, <3>2
  <2>3. ASSUME NEW c \in Clients, ClientActs(c)
        PROVE  Exchange!Next \/ UNCHANGED Exchange!abstractVars
    <3>1. CASE Send(c)
      BY <3>1, SendAsks DEF Exchange!Next
    <3>2. CASE Receive(c)
      BY <3>2, ReceiveTakes DEF Exchange!Next
    <3>3. CASE ~Send(c) /\ ~Receive(c)
      <4>1. UNCHANGED <<s2c, cseq, rsp>>
        BY <2>3, <3>3 DEF ClientActs, ClientStep, Dial, Eof, Kill
      <4> QED
        BY <2>1, <4>1
    <3> QED
      BY <3>1, <3>2, <3>3
  <2>4. CASE UNCHANGED vars
    BY <2>1, <2>4 DEF vars, netVars, clientVars
  <2> QED
    BY <2>2, <2>3, <2>4 DEF Next
<1> QED
  BY <1>1, <1>2, Invariance, OneAfterTheOther, PTL
  DEF Spec, ImplementsRequestReply, Exchange!Spec
=============================================================================
