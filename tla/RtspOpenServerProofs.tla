------------------------- MODULE RtspOpenServerProofs -------------------------
(***************************************************************************)
(* Proofs about RtspOpenServer: what the server keeps to with any clients, *)
(* for every set of clients, handles and sessions.                         *)
(*                                                                         *)
(* ServerInv is shown to be inductive one conjunct at a time, and each     *)
(* lemma has one step per action.  The properties follow from it.          *)
(***************************************************************************)
EXTENDS RtspOpenServer, TLAPS, SequenceTheorems, FiniteSetTheorems

(***************************************************************************)
(* Whatever the server builds for a request is a response to it.           *)
(***************************************************************************)
LEMMA ResponsesAreTyped ==
  ASSUME NEW q \in Request, NEW r \in ResponsesTo(q)
  PROVE  r \in Response /\ r.of = q.from /\ r.cseq = q.cseq
<1>1. PICK s \in ResponseSessions(q) :
        r = [ of      |-> q.from,
              cseq    |-> q.cseq,
              sdp     |-> q.method = "DESCRIBE",
              session |-> s,
              port    |-> IF q.method = "SETUP" /\ q.track \in Tracks
                            THEN ServerPort[q.track] ELSE None ]
  BY DEF ResponsesTo
<1>2. s \in Sessions \cup {None}
  BY DEF ResponseSessions, SetupSessions, Request
<1>3. (IF q.method = "SETUP" /\ q.track \in Tracks
         THEN ServerPort[q.track] ELSE None) \in Ports \cup {None}
  BY DEF Ports
<1>4. q.from \in Clients /\ q.cseq \in Nat
  BY DEF Request
<1> QED
  BY <1>1, <1>2, <1>3, <1>4 DEF Response

(***************************************************************************)
(* A value taken from a list of attributes is one of them or absent.       *)
(***************************************************************************)
LEMMA LatestIsThere ==
  ASSUME NEW S, NEW k \in Nat, NEW vals \in [1 .. k -> S \cup {None}]
  PROVE  Latest(vals) \in S \cup {None}
<1> DEFINE given == {i \in DOMAIN vals : vals[i] # None}
           newest == {i \in given : \A j \in given : j <= i}
<1>1. CASE newest = {}
  BY <1>1 DEF Latest
<1>2. CASE newest # {}
  <2>1. (CHOOSE i \in newest : TRUE) \in 1 .. k
    BY <1>2
  <2> QED
    BY <1>2, <2>1 DEF Latest
<1> QED
  BY <1>1, <1>2

(***************************************************************************)
(* Several messages taken for one make a message of the same kind, from    *)
(* the same client if all of them are.                                     *)
(***************************************************************************)
LEMMA MergedRequestIsTyped ==
  ASSUME NEW qs \in Seq(Request), qs # <<>>
  PROVE  MergedRequest(qs) \in Request /\ MergedRequest(qs).from = qs[1].from
<1> DEFINE sessions == [i \in DOMAIN qs |-> qs[i].session]
<1>1. Len(qs) \in Nat \ {0} /\ DOMAIN qs = 1 .. Len(qs)
  OBVIOUS
<1>2. \A i \in 1 .. Len(qs) : qs[i] \in Request
  BY <1>1
<1>3. \A q \in Request : q.session \in Sessions \cup {None} /\ q.cseq \in Nat
  BY DEF Request
<1>4. sessions \in [1 .. Len(qs) -> Sessions \cup {None}]
  BY <1>1, <1>2, <1>3
<1>5. Latest(sessions) \in Sessions \cup {None}
  BY <1>1, <1>4, LatestIsThere
<1>6. qs[1] \in Request /\ qs[Len(qs)].cseq \in Nat
  BY <1>1, <1>2, <1>3
<1>7. MergedRequest(qs) =
        [qs[1] EXCEPT !.cseq = qs[Len(qs)].cseq, !.session = Latest(sessions)]
  BY DEF MergedRequest
<1> HIDE DEF sessions
<1> QED
  BY <1>5, <1>6, <1>7 DEF Request

(***************************************************************************)
(* The messages of a stream that one receive takes, and those it leaves.   *)
(***************************************************************************)
LEMMA WhatIsLeft ==
  ASSUME NEW S, NEW q \in Seq(S), NEW k \in 0 .. Len(q)
  PROVE  /\ SubSeq(q, k + 1, Len(q)) \in Seq(S)
         /\ Len(SubSeq(q, k + 1, Len(q))) = Len(q) - k
         /\ \A i \in DOMAIN SubSeq(q, k + 1, Len(q)) :
              k + i \in DOMAIN q /\ SubSeq(q, k + 1, Len(q))[i] = q[k + i]
<1> DEFINE m == k + 1
           n == Len(q)
           rest == SubSeq(q, m, n)
<1>1. n \in Nat /\ k \in Nat /\ k <= n /\ DOMAIN q = 1 .. n
  OBVIOUS
<1>2. m \in Int /\ n \in Int /\ m <= n + 1 /\ n - m + 1 = n - k
  BY <1>1
<1>3. /\ rest \in Seq(S) /\ Len(rest) = n - m + 1
      /\ \A i \in 1 .. n - m + 1 : rest[i] = q[m + i - 1]
  <2>1. \A i \in m .. n : q[i] \in S
    BY <1>1
  <2> HIDE DEF m, n
  <2>2. rest \in Seq(S) /\ Len(rest) = IF m <= n THEN n - m + 1 ELSE 0
    BY <1>2, <2>1, SubSeqProperties
  <2> QED
    BY <1>2, <2>1, <2>2, SubSeqProperties
<1>4. DOMAIN rest = 1 .. n - k
  <2> HIDE DEF rest
  <2> QED
    BY <1>1, <1>2, <1>3
<1> HIDE DEF rest
<1>5. \A i \in 1 .. n - k : k + i \in 1 .. n /\ rest[i] = q[k + i]
  BY <1>1, <1>3
<1> QED
  BY <1>1, <1>2, <1>3, <1>4, <1>5 DEF rest

LEMMA TakingFromAStream ==
  ASSUME NEW S, NEW q \in Seq(S), NEW k \in 1 .. Len(q)
  PROVE  /\ SubSeq(q, 1, k) \in Seq(S) /\ SubSeq(q, 1, k) # <<>>
         /\ SubSeq(q, 1, k)[1] = q[1]
         /\ SubSeq(q, k + 1, Len(q)) \in Seq(S)
         /\ Len(SubSeq(q, k + 1, Len(q))) = Len(q) - k
         /\ \A i \in DOMAIN SubSeq(q, k + 1, Len(q)) :
              k + i \in DOMAIN q /\ SubSeq(q, k + 1, Len(q))[i] = q[k + i]
<1>1. Len(q) \in Nat /\ k \in Nat /\ 1 <= k /\ k <= Len(q) /\ k \in 0 .. Len(q)
  OBVIOUS
<1>2. /\ SubSeq(q, 1, k) \in Seq(S) /\ Len(SubSeq(q, 1, k)) = k
      /\ SubSeq(q, 1, k)[1] = q[1]
  BY <1>1, SubSeqProperties
<1>3. SubSeq(q, 1, k) # <<>>
  BY <1>1, <1>2
<1> QED
  BY <1>1, <1>2, <1>3, WhatIsLeft

(***************************************************************************)
(* The messages under way are requests and responses.                      *)
(***************************************************************************)
LEMMA MessagesAreTyped ==
  ASSUME NetTypeOK, NEW c \in Clients
  PROVE  /\ \A i \in DOMAIN s2c[c] : s2c[c][i] \in Response /\ s2c[c][i].of \in Clients
         /\ \A i \in DOMAIN c2s[c] : c2s[c][i] \in Request /\ c2s[c][i].from \in Clients
<1>1. s2c[c] \in Seq(Response) /\ c2s[c] \in Seq(Request)
  BY DEF NetTypeOK
<1>2. /\ \A i \in DOMAIN s2c[c] : s2c[c][i] \in Response
      /\ \A i \in DOMAIN c2s[c] : c2s[c][i] \in Request
  BY <1>1
<1>3. (\A r \in Response : r.of \in Clients) /\ (\A q \in Request : q.from \in Clients)
  BY DEF Response, Request
<1> QED
  BY <1>2, <1>3

(***************************************************************************)
(* Initially                                                               *)
(***************************************************************************)
LEMMA InitInv == OpenInit => ServerInv
<1> SUFFICES ASSUME OpenInit PROVE ServerInv
  OBVIOUS
<1> USE DEF OpenInit, NetInit, ServerInit
<1>1. NetTypeOK
  BY DEF NetTypeOK
<1>2. ServerTypeOK
  BY DEF ServerTypeOK, ThreadStates
<1>3. RequestsNameTheirSender
  <2>1. \A c \in Clients : DOMAIN c2s[c] = {}
    OBVIOUS
  <2> QED
    BY <2>1 DEF RequestsNameTheirSender
<1>4. AcceptedOnce /\ LoopInOrder /\ RequestsAreAccepted /\ RepliesFlowForward
  BY DEF AcceptedOnce, LoopInOrder, RequestsAreAccepted, RepliesFlowForward, Conn
<1>5. SlotIsRecent /\ HandlerNeverOlder /\ AnswersFlowForward
  BY DEF SlotIsRecent, HandlerNeverOlder, AnswersFlowForward, Conn
<1> QED
  BY <1>1, <1>2, <1>3, <1>4, <1>5 DEF ServerInv

(***************************************************************************)
(* The end of the process, which three actions share, keeps every part of  *)
(* the invariant: all sockets are closed and no handler is left.           *)
(***************************************************************************)
LEMMA ProcessExitInv ==
  ASSUME ServerInv, NEW last \in [Clients -> {"none", "done", "trap"}],
         \A h \in Clients : last[h] # "none" => thr[h] # "none",
         ProcessExit(last)
  PROVE  ServerInv'
<1> USE DEF ServerInv, ProcessExit, history
<1>1. NetTypeOK' /\ ServerTypeOK'
  BY DEF NetTypeOK, ServerTypeOK, ThreadStates
<1>2. RequestsNameTheirSender'
  BY DEF RequestsNameTheirSender
<1>3. AcceptedOnce'
  BY DEF AcceptedOnce
<1>4. LoopInOrder'
  BY DEF LoopInOrder
<1>5. RequestsAreAccepted' /\ RepliesFlowForward'
  BY DEF RequestsAreAccepted, RepliesFlowForward, ServerTypeOK
<1>6. SlotIsRecent' /\ HandlerNeverOlder'
  BY DEF SlotIsRecent, HandlerNeverOlder, Conn, ServerTypeOK
<1>7. AnswersFlowForward'
  BY DEF AnswersFlowForward
<1> QED
  BY <1>1, <1>2, <1>3, <1>4, <1>5, <1>6, <1>7

(***************************************************************************)
(* The accept loop.                                                        *)
(***************************************************************************)
LEMMA StartUpInv ==
  ASSUME ServerInv, StartUp
  PROVE  ServerInv'
<1> USE DEF ServerInv, StartUp, netVars, threadVars, history
<1>1. NetTypeOK' /\ ServerTypeOK'
  BY DEF NetTypeOK, ServerTypeOK
<1>2. RequestsNameTheirSender' /\ AcceptedOnce' /\ RequestsAreAccepted'
  BY DEF RequestsNameTheirSender, AcceptedOnce, RequestsAreAccepted
<1>3. LoopInOrder' /\ SlotIsRecent'
  BY DEF LoopInOrder, SlotIsRecent, Conn
<1>4. HandlerNeverOlder' /\ AnswersFlowForward' /\ RepliesFlowForward'
  BY DEF HandlerNeverOlder, AnswersFlowForward, RepliesFlowForward, Conn, Serving
<1> QED
  BY <1>1, <1>2, <1>3, <1>4

LEMMA AcceptInv ==
  ASSUME ServerInv, NEW s \in Handles, Accept(s)
  PROVE  ServerInv'
<1> DEFINE new == Head(backlog)
<1> USE DEF ServerInv, Accept, threadVars
<1>1. /\ backlog \in Seq(Clients) /\ backlog # <<>> /\ accepts \in Nat
      /\ rank \in [Clients -> Nat] /\ sock \in [Handles -> Clients \cup {None}]
  BY DEF NetTypeOK, ServerTypeOK
<1>2. /\ new \in Clients /\ backlog' \in Seq(Clients)
      /\ DOMAIN backlog' = 1 .. Len(backlog) - 1
      /\ \A i \in DOMAIN backlog' : i + 1 \in DOMAIN backlog /\ backlog'[i] = backlog[i + 1]
  BY <1>1
<1>3. rank[new] = 0 /\ thr[new] = "none"
  <2>1. 1 \in DOMAIN backlog /\ backlog[1] = new
    BY <1>1
  <2> QED
    BY <1>2, <2>1 DEF AcceptedOnce, LoopInOrder
<1>4. /\ rank'[new] = accepts + 1
      /\ \A c \in Clients \ {new} : rank'[c] = rank[c]
      /\ sock'[s] = new
      /\ \A t \in Handles \ {s} : sock'[t] = sock[t]
  BY <1>1, <1>2
<1>5. NetTypeOK' /\ ServerTypeOK'
  <2>1. NetTypeOK'
    BY <1>1, <1>2 DEF NetTypeOK
  <2>2. ServerTypeOK'
    BY <1>1, <1>2 DEF ServerTypeOK
  <2> QED
    BY <2>1, <2>2
<1>6. RequestsNameTheirSender'
  BY DEF RequestsNameTheirSender
<1>7. AcceptedOnce'
  <2>1. \A i \in DOMAIN backlog' : backlog'[i] # new
    BY <1>1, <1>2 DEF AcceptedOnce
  <2>2. \A i, j \in DOMAIN backlog' : backlog'[i] = backlog'[j] => i = j
    BY <1>1, <1>2 DEF AcceptedOnce
  <2>3. \A i \in DOMAIN backlog' : rank'[backlog'[i]] = 0
    BY <1>1, <1>2, <1>4, <2>1 DEF AcceptedOnce
  <2>4. \A c \in Clients : rank'[c] <= accepts'
    BY <1>1, <1>2, <1>4 DEF AcceptedOnce
  <2>5. \A t \in Handles : sock'[t] # None => 1 <= rank'[sock'[t]]
    BY <1>1, <1>2, <1>3, <1>4 DEF AcceptedOnce
  <2> QED
    BY <2>2, <2>3, <2>4, <2>5 DEF AcceptedOnce
<1>8. LoopInOrder'
  BY <1>1, <1>2, <1>3, <1>4 DEF LoopInOrder, Conn, AcceptedOnce
<1>9. RequestsAreAccepted'
  BY <1>1, <1>2, <1>3, <1>4 DEF RequestsAreAccepted, Request
<1>10. SlotIsRecent'
  BY <1>1, <1>2, <1>3, <1>4 DEF SlotIsRecent, Conn, AcceptedOnce, ServerTypeOK
<1>11. HandlerNeverOlder'
  BY <1>1, <1>2, <1>3, <1>4
  DEF HandlerNeverOlder, Conn, AcceptedOnce, LoopInOrder, Serving, ServerTypeOK
<1>12. AnswersFlowForward'
  <2> SUFFICES ASSUME NEW c \in Clients, NEW i \in DOMAIN s2c[c]
               PROVE  1 <= rank'[s2c[c][i].of] /\ rank'[s2c[c][i].of] <= rank'[c] + 1
    BY DEF AnswersFlowForward
  <2>1. s2c[c][i].of \in Clients
    BY MessagesAreTyped
  <2>2. 1 <= rank[s2c[c][i].of] /\ rank[s2c[c][i].of] <= rank[c] + 1
    BY DEF AnswersFlowForward
  <2>3. s2c[c][i].of # new /\ rank[c] <= rank'[c]
    BY <1>1, <1>3, <1>4, <2>2
  <2> QED
    BY <1>1, <1>4, <2>1, <2>2, <2>3
<1>13. RepliesFlowForward'
  <2> SUFFICES ASSUME NEW h \in Clients, thr[h] = "send"
               PROVE  /\ out[h] \in Outgoing /\ 1 <= rank'[out[h].rsp.of]
                      /\ Conn(out[h].conn)' # None =>
                           rank'[out[h].rsp.of] <= rank'[Conn(out[h].conn)'] + 1
    BY DEF RepliesFlowForward
  <2> DEFINE o == out[h].rsp.of
  <2>1. /\ out[h] \in Outgoing /\ 1 <= rank[o]
        /\ Conn(out[h].conn) # None => rank[o] <= rank[Conn(out[h].conn)] + 1
    BY DEF RepliesFlowForward
  <2>2. o \in Clients /\ out[h].conn \in Handles \cup {None}
    BY <2>1 DEF Outgoing, Response
  <2>3. o # new /\ rank'[o] = rank[o] /\ rank[o] <= accepts
    BY <1>3, <1>4, <2>1, <2>2 DEF AcceptedOnce
  <2>4. CASE out[h].conn = s
    BY <1>1, <1>2, <1>4, <2>1, <2>2, <2>3, <2>4 DEF Conn
  <2>5. CASE out[h].conn # s
    <3>1. Conn(out[h].conn)' = Conn(out[h].conn)
      BY <1>4, <2>2, <2>5 DEF Conn
    <3>2. Conn(out[h].conn) # None =>
            Conn(out[h].conn) \in Clients \ {new}
      BY <1>1, <1>3, <2>2 DEF Conn, AcceptedOnce
    <3> QED
      BY <1>1, <1>4, <2>1, <2>2, <2>3, <3>1, <3>2
  <2> QED
    BY <2>4, <2>5
<1> QED
  BY <1>5, <1>6, <1>7, <1>8, <1>9, <1>10, <1>11, <1>12, <1>13

LEMMA FillSlotInv ==
  ASSUME ServerInv, FillSlot
  PROVE  ServerInv'
<1> USE DEF ServerInv, FillSlot, netVars, threadVars, history
<1>1. NetTypeOK' /\ ServerTypeOK'
  BY DEF NetTypeOK, ServerTypeOK
<1>2. RequestsNameTheirSender' /\ AcceptedOnce' /\ RequestsAreAccepted'
  BY DEF RequestsNameTheirSender, AcceptedOnce, RequestsAreAccepted
<1>3. LoopInOrder' /\ SlotIsRecent'
  BY DEF LoopInOrder, SlotIsRecent, Conn
<1>4. HandlerNeverOlder' /\ AnswersFlowForward' /\ RepliesFlowForward'
  BY DEF HandlerNeverOlder, AnswersFlowForward, RepliesFlowForward, Conn, Serving
<1> QED
  BY <1>1, <1>2, <1>3, <1>4

LEMMA SpawnInv ==
  ASSUME ServerInv, NEW c \in Clients, Spawn(c)
  PROVE  ServerInv'
<1> USE DEF ServerInv, Spawn, netVars, history
<1>1. NetTypeOK' /\ ServerTypeOK'
  BY DEF NetTypeOK, ServerTypeOK, ThreadStates
<1>2. RequestsNameTheirSender' /\ AcceptedOnce' /\ RequestsAreAccepted'
  BY DEF RequestsNameTheirSender, AcceptedOnce, RequestsAreAccepted,
         ServerTypeOK
<1>3. LoopInOrder' /\ SlotIsRecent'
  BY DEF LoopInOrder, SlotIsRecent, Conn, ServerTypeOK
<1>4. HandlerNeverOlder' /\ AnswersFlowForward' /\ RepliesFlowForward'
  BY DEF HandlerNeverOlder, AnswersFlowForward, RepliesFlowForward, Conn, Serving,
         ServerTypeOK
<1> QED
  BY <1>1, <1>2, <1>3, <1>4

(***************************************************************************)
(* The handler threads.                                                    *)
(***************************************************************************)
LEMMA StartInv ==
  ASSUME ServerInv, NEW h \in Clients, Start(h)
  PROVE  ServerInv'
<1> USE DEF ServerInv, Start, netVars, slotVars, history
<1>1. NetTypeOK' /\ ServerTypeOK'
  BY DEF NetTypeOK, ServerTypeOK, ThreadStates
<1>2. RequestsNameTheirSender' /\ AcceptedOnce' /\ RequestsAreAccepted'
  BY DEF RequestsNameTheirSender, AcceptedOnce, RequestsAreAccepted,
         ServerTypeOK
<1>3. LoopInOrder' /\ SlotIsRecent' /\ AnswersFlowForward'
  BY DEF LoopInOrder, SlotIsRecent, AnswersFlowForward, Conn, ServerTypeOK
<1>4. HandlerNeverOlder'
  <2>1. Conn(ctx) # None => 1 <= rank[h] /\ rank[h] <= rank[Conn(ctx)]
    BY DEF SlotIsRecent, LoopInOrder, AcceptedOnce, ServerTypeOK
  <2> QED
    BY <2>1 DEF HandlerNeverOlder, Conn, Serving, ServerTypeOK
<1>5. RepliesFlowForward'
  BY DEF RepliesFlowForward, Conn, ServerTypeOK
<1> QED
  BY <1>1, <1>2, <1>3, <1>4, <1>5

LEMMA RecvInv ==
  ASSUME ServerInv, NEW h \in Clients, Recv(h)
  PROVE  ServerInv'
<1> DEFINE c == Conn(own[h])
<1> USE DEF ServerInv, slotVars, history
<1>1. /\ c # None /\ thr[h] = "recv" /\ thr' = [thr EXCEPT ![h] = "reply"]
      /\ UNCHANGED <<backlog, sock, s2c, left, slotVars, own, out, history>>
  BY DEF Recv
<1>2. c \in Clients /\ 1 <= rank[c]
  BY <1>1 DEF Conn, AcceptedOnce, NetTypeOK, ServerTypeOK
<1>3. c2s \in [Clients -> Seq(Request)] /\ c2s[c] \in Seq(Request)
  BY <1>2 DEF NetTypeOK
<1> DEFINE Rest(k) == SubSeq(c2s[c], k + 1, Len(c2s[c]))
           Q(k) == MergedRequest(SubSeq(c2s[c], 1, k))
<1>4. PICK k \in 1 .. Len(c2s[c]) :
        req' = [req EXCEPT ![h] = Q(k)] /\ c2s' = [c2s EXCEPT ![c] = Rest(k)]
  BY DEF Recv
<1> HIDE DEF c, Rest, Q
<1>5. Q(k) \in Request /\ Q(k).from = c
  <2>1. Q(k) \in Request /\ Q(k).from = c2s[c][1].from
    BY <1>3, TakingFromAStream, MergedRequestIsTyped DEF Q
  <2>2. 1 \in DOMAIN c2s[c]
    BY <1>3
  <2> QED
    BY <1>2, <2>1, <2>2 DEF RequestsNameTheirSender
<1>6. /\ Rest(k) \in Seq(Request)
      /\ \A i \in DOMAIN Rest(k) : k + i \in DOMAIN c2s[c] /\ Rest(k)[i] = c2s[c][k + i]
  BY <1>3, TakingFromAStream DEF Rest
<1>7. NetTypeOK' /\ ServerTypeOK'
  <2>1. c2s' \in [Clients -> Seq(Request)]
    BY <1>2, <1>3, <1>4, <1>6
  <2>2. req' \in [Clients -> Request \cup {None}] /\ thr' \in [Clients -> ThreadStates]
    BY <1>1, <1>4, <1>5 DEF ServerTypeOK, ThreadStates
  <2> QED
    BY <1>1, <2>1, <2>2 DEF NetTypeOK, ServerTypeOK
<1>8. RequestsNameTheirSender'
  <2>1. \A d \in Clients : \A i \in DOMAIN c2s'[d] : c2s'[d][i].from = d
    BY <1>2, <1>3, <1>4, <1>6 DEF RequestsNameTheirSender
  <2> QED
    BY <1>1, <2>1 DEF RequestsNameTheirSender
<1>9. AcceptedOnce'
  BY <1>1 DEF AcceptedOnce
<1>10. RequestsAreAccepted'
  BY <1>1, <1>2, <1>4, <1>5 DEF RequestsAreAccepted, ServerTypeOK
<1>11. LoopInOrder' /\ SlotIsRecent' /\ AnswersFlowForward'
  BY <1>1 DEF LoopInOrder, SlotIsRecent, AnswersFlowForward, Conn, ServerTypeOK
<1>12. HandlerNeverOlder' /\ RepliesFlowForward'
  BY <1>1 DEF HandlerNeverOlder, RepliesFlowForward, Conn, Serving, ServerTypeOK
<1> QED
  BY <1>7, <1>8, <1>9, <1>10, <1>11, <1>12

LEMMA RecvFailsInv ==
  ASSUME ServerInv, NEW h \in Clients, RecvFails(h)
  PROVE  ServerInv'
<1> USE DEF ServerInv, RecvFails, netVars, slotVars, history
<1>1. NetTypeOK' /\ ServerTypeOK'
  BY DEF NetTypeOK, ServerTypeOK, ThreadStates
<1>2. RequestsNameTheirSender' /\ AcceptedOnce' /\ RequestsAreAccepted'
  BY DEF RequestsNameTheirSender, AcceptedOnce, RequestsAreAccepted,
         ServerTypeOK
<1>3. LoopInOrder' /\ SlotIsRecent' /\ AnswersFlowForward'
  BY DEF LoopInOrder, SlotIsRecent, AnswersFlowForward, Conn, ServerTypeOK
<1>4. HandlerNeverOlder' /\ RepliesFlowForward'
  BY DEF HandlerNeverOlder, RepliesFlowForward, Conn, Serving, ServerTypeOK
<1> QED
  BY <1>1, <1>2, <1>3, <1>4

LEMMA CloseConnInv ==
  ASSUME ServerInv, NEW h \in Clients, CloseConn(h)
  PROVE  ServerInv'
<1> USE DEF ServerInv, CloseConn, slotVars, history
<1>1. /\ thr' \in [Clients -> ThreadStates]
      /\ \A g \in Clients :
           \/ thr'[g] = thr[g]
           \/ thr'[g] = "done" /\ thr[g] = "close"
           \/ thr'[g] = "close" /\ thr[g] = "recv"
  BY DEF ServerTypeOK, ThreadStates
<1>2. \A t \in Handles \cup {None} : Conn(t)' \in {Conn(t), None}
  BY DEF Conn
<1>3. NetTypeOK' /\ ServerTypeOK'
  BY <1>1 DEF NetTypeOK, ServerTypeOK
<1>4. RequestsNameTheirSender' /\ RequestsAreAccepted'
  BY <1>1 DEF RequestsNameTheirSender, RequestsAreAccepted
<1>5. AcceptedOnce'
  BY DEF AcceptedOnce
<1>6. LoopInOrder' /\ SlotIsRecent'
  BY <1>1, <1>2 DEF LoopInOrder, SlotIsRecent, Conn, ServerTypeOK
<1>7. HandlerNeverOlder'
  BY <1>1, <1>2 DEF HandlerNeverOlder, Conn, Serving, ServerTypeOK
<1>8. AnswersFlowForward'
  BY DEF AnswersFlowForward
<1>9. RepliesFlowForward'
  <2>1. \A o \in Outgoing : o.conn \in Handles \cup {None}
    BY DEF Outgoing
  <2>2. \A g \in Clients : thr'[g] = "send" => thr[g] = "send"
    BY <1>1
  <2> QED
    BY <1>2, <2>1, <2>2 DEF RepliesFlowForward
<1> QED
  BY <1>3, <1>4, <1>5, <1>6, <1>7, <1>8, <1>9

(***************************************************************************)
(* The handle read from the slot stands for the newest connection, for the *)
(* one before it while the newest is being written there, or for none.     *)
(***************************************************************************)
LEMMA ReplyInv ==
  ASSUME ServerInv, NEW h \in Clients, Reply(h)
  PROVE  ServerInv'
<1> DEFINE q == req[h]
<1> USE DEF ServerInv, Reply, netVars, slotVars, history
<1>1. q \in Request /\ q.from \in Clients /\ 1 <= rank[q.from]
  BY DEF RequestsAreAccepted, Request
<1>2. PICK r \in ResponsesTo(q) : out' = [out EXCEPT ![h] = [conn |-> ctx, rsp |-> r]]
  OBVIOUS
<1>3. r \in Response /\ r.of = q.from
  BY <1>1, <1>2, ResponsesAreTyped
<1>4. [conn |-> ctx, rsp |-> r] \in Outgoing
  BY <1>3 DEF Outgoing, ServerTypeOK
<1>5. NetTypeOK' /\ ServerTypeOK'
  BY <1>2, <1>4 DEF NetTypeOK, ServerTypeOK, ThreadStates
<1>6. RequestsNameTheirSender' /\ AcceptedOnce' /\ RequestsAreAccepted'
  BY DEF RequestsNameTheirSender, AcceptedOnce, RequestsAreAccepted, ServerTypeOK
<1>7. LoopInOrder' /\ SlotIsRecent' /\ HandlerNeverOlder' /\ AnswersFlowForward'
  BY DEF LoopInOrder, SlotIsRecent, HandlerNeverOlder, AnswersFlowForward, Conn,
         Serving, ServerTypeOK
<1>8. RepliesFlowForward'
  <2>1. Conn(ctx) # None => rank[q.from] <= rank[Conn(ctx)] + 1
    <3>1. rank[q.from] <= accepts /\ rank[q.from] \in Nat /\ accepts \in Nat
      BY <1>1 DEF AcceptedOnce, ServerTypeOK
    <3>2. Conn(ctx) # None => accepts <= rank[Conn(ctx)] + 1
      BY <3>1 DEF SlotIsRecent
    <3>3. Conn(ctx) # None => rank[Conn(ctx)] \in Nat
      BY DEF Conn, NetTypeOK, ServerTypeOK
    <3> QED
      BY <3>1, <3>2, <3>3
  <2>2. out'[h] = [conn |-> ctx, rsp |-> r] /\ thr'[h] = "send"
    BY <1>2 DEF ServerTypeOK
  <2>3. \A g \in Clients \ {h} : out'[g] = out[g] /\ thr'[g] = thr[g]
    BY <1>2 DEF ServerTypeOK
  <2>4. \A t : Conn(t)' = Conn(t)
    BY DEF Conn
  <2>5. /\ out'[h] \in Outgoing /\ 1 <= rank[out'[h].rsp.of]
        /\ Conn(out'[h].conn) # None =>
             rank[out'[h].rsp.of] <= rank[Conn(out'[h].conn)] + 1
    BY <1>1, <1>3, <1>4, <2>1, <2>2
  <2>6. \A g \in Clients \ {h} :
          thr'[g] = "send" =>
            /\ out'[g] \in Outgoing /\ 1 <= rank[out'[g].rsp.of]
            /\ Conn(out'[g].conn) # None =>
                 rank[out'[g].rsp.of] <= rank[Conn(out'[g].conn)] + 1
    BY <2>3 DEF RepliesFlowForward
  <2>7. rank' = rank
    OBVIOUS
  <2> QED
    BY <2>4, <2>5, <2>6, <2>7 DEF RepliesFlowForward
<1> QED
  BY <1>5, <1>6, <1>7, <1>8

(***************************************************************************)
(* A response that is sent goes forward because the one about to be sent   *)
(* did.                                                                    *)
(***************************************************************************)
LEMMA SendReplyInv ==
  ASSUME ServerInv, NEW h \in Clients, SendReply(h)
  PROVE  ServerInv'
<1> DEFINE c == Conn(out[h].conn)
           r == out[h].rsp
<1> USE DEF ServerInv, SendReply, slotVars, history
<1>1. /\ out[h] \in Outgoing /\ 1 <= rank[r.of]
      /\ c # None => rank[r.of] <= rank[c] + 1
  BY DEF RepliesFlowForward
<1>2. r \in Response /\ out[h].conn \in Handles \cup {None}
  BY <1>1 DEF Outgoing
<1>3. ServerTypeOK'
  BY DEF ServerTypeOK, ThreadStates
<1>4. RequestsNameTheirSender' /\ AcceptedOnce' /\ RequestsAreAccepted'
  BY DEF RequestsNameTheirSender, AcceptedOnce, RequestsAreAccepted, ServerTypeOK
<1>5. LoopInOrder' /\ SlotIsRecent' /\ HandlerNeverOlder' /\ RepliesFlowForward'
  BY DEF LoopInOrder, SlotIsRecent, HandlerNeverOlder, RepliesFlowForward, Conn,
         Serving, ServerTypeOK
<1>6. CASE c \in {None} \cup left
  <2>1. s2c' = s2c
    BY <1>6 DEF Delivered
  <2>2. NetTypeOK' /\ AnswersFlowForward'
    BY <2>1 DEF NetTypeOK, AnswersFlowForward
  <2> QED
    BY <1>3, <1>4, <1>5, <2>2
<1>7. CASE c \notin {None} \cup left
  <2>1. c \in Clients /\ s2c' = [s2c EXCEPT ![c] = Append(@, r)]
    BY <1>2, <1>7 DEF Delivered, Conn, NetTypeOK
  <2>2. s2c[c] \in Seq(Response) /\ s2c \in [Clients -> Seq(Response)]
    BY <2>1 DEF NetTypeOK
  <2> HIDE DEF c, r
  <2>3. NetTypeOK'
    BY <1>2, <2>1, <2>2 DEF NetTypeOK
  <2>4. AnswersFlowForward'
    <3>1. 1 <= rank[r.of] /\ rank[r.of] <= rank[c] + 1
      BY <1>1, <2>1, <1>7
    <3>2. \A i \in DOMAIN s2c'[c] :
            \/ i \in DOMAIN s2c[c] /\ s2c'[c][i] = s2c[c][i]
            \/ s2c'[c][i] = r
      BY <1>2, <2>1, <2>2
    <3>3. \A d \in Clients \ {c} : s2c'[d] = s2c[d]
      BY <2>1, <2>2
    <3> QED
      BY <3>1, <3>2, <3>3 DEF AnswersFlowForward
  <2> QED
    BY <1>3, <1>4, <1>5, <2>3, <2>4
<1> QED
  BY <1>6, <1>7

LEMMA ServerStepInv ==
  ASSUME ServerInv, ServerNext
  PROVE  ServerInv'
<1>1. thr \in [Clients -> ThreadStates]
  BY DEF ServerInv, ServerTypeOK
<1>2. /\ Ended \in [Clients -> {"none", "done", "trap"}]
      /\ \A g \in Clients : Ended[g] # "none" => thr[g] # "none"
  BY DEF Ended
<1>3. CASE AcceptLoop
  BY <1>2, <1>3, StartUpInv, AcceptInv, FillSlotInv, SpawnInv, ProcessExitInv
  DEF AcceptLoop, StartUpTraps, AcceptAborts, SpawnFails
<1>4. CASE PackThreadTraps
  BY <1>2, <1>4, ProcessExitInv DEF PackThreadTraps
<1>5. ASSUME NEW h \in Clients, Handler(h)
      PROVE  ServerInv'
  <2>1. CASE Start(h)
    BY <2>1, StartInv
  <2>2. CASE Recv(h)
    BY <2>2, RecvInv
  <2>3. CASE RecvFails(h)
    BY <2>3, RecvFailsInv
  <2>4. CASE CloseConn(h)
    BY <2>4, CloseConnInv
  <2>5. CASE Reply(h)
    BY <2>5, ReplyInv
  <2>6. CASE ReplyTraps(h)
    <3> DEFINE last == [Ended EXCEPT ![h] = "trap"]
    <3>1. last \in [Clients -> {"none", "done", "trap"}]
      BY <1>2
    <3>2. \A g \in Clients : last[g] # "none" => thr[g] # "none"
      BY <1>2, <2>6 DEF ReplyTraps
    <3>3. ProcessExit(last)
      BY <2>6 DEF ReplyTraps
    <3> QED
      BY <3>1, <3>2, <3>3, ProcessExitInv
  <2>7. CASE SendReply(h)
    BY <2>7, SendReplyInv
  <2> QED
    BY <1>5, <2>1, <2>2, <2>3, <2>4, <2>5, <2>6, <2>7 DEF Handler
<1> QED
  BY <1>3, <1>4, <1>5 DEF ServerNext

(***************************************************************************)
(* Whatever the clients do, the server's part and the order of accepts     *)
(* stay as they are.                                                       *)
(***************************************************************************)
LEMMA ServerPartUnchanged ==
  ASSUME ServerInv, UNCHANGED <<sock, serverVars>>
  PROVE  /\ ServerTypeOK' /\ LoopInOrder' /\ RequestsAreAccepted'
         /\ SlotIsRecent' /\ HandlerNeverOlder' /\ RepliesFlowForward'
<1> USE DEF ServerInv, serverVars, slotVars, threadVars, history
<1>1. ServerTypeOK' /\ LoopInOrder' /\ RequestsAreAccepted'
  BY DEF ServerTypeOK, LoopInOrder, RequestsAreAccepted, Conn
<1> QED
  BY <1>1 DEF SlotIsRecent, HandlerNeverOlder, RepliesFlowForward, Conn

(***************************************************************************)
(* A client dials for the first time, sends a request of its own, or takes *)
(* responses from the front of its stream.                                 *)
(***************************************************************************)
LEMMA AnyDialInv ==
  ASSUME ServerInv, NEW c \in Clients, AnyDial(c), UNCHANGED <<sock, serverVars>>
  PROVE  ServerInv'
<1> USE DEF ServerInv, AnyDial, Unknown, serverVars, history
<1>1. backlog \in Seq(Clients) /\ rank[c] = 0 /\ ~InBacklog(c)
  BY DEF NetTypeOK
<1>2. /\ backlog' \in Seq(Clients)
      /\ DOMAIN backlog' = DOMAIN backlog \cup {Len(backlog) + 1}
      /\ \A i \in DOMAIN backlog : backlog'[i] = backlog[i]
      /\ backlog'[Len(backlog) + 1] = c
  BY <1>1
<1>3. NetTypeOK'
  BY <1>2 DEF NetTypeOK
<1>4. AcceptedOnce'
  BY <1>1, <1>2 DEF AcceptedOnce, InBacklog
<1>5. RequestsNameTheirSender' /\ AnswersFlowForward'
  BY DEF RequestsNameTheirSender, AnswersFlowForward
<1> QED
  BY <1>3, <1>4, <1>5, ServerPartUnchanged

LEMMA AnySendInv ==
  ASSUME ServerInv, NEW c \in Clients, AnySend(c), UNCHANGED <<sock, serverVars>>
  PROVE  ServerInv'
<1> USE DEF ServerInv, serverVars, history
<1>1. UNCHANGED <<backlog, s2c, left>>
  BY DEF AnySend
<1>2. PICK q \in Request : q.from = c /\ c2s' = [c2s EXCEPT ![c] = Append(@, q)]
  BY DEF AnySend
<1>3. c2s \in [Clients -> Seq(Request)] /\ c2s[c] \in Seq(Request)
  BY DEF NetTypeOK
<1>4. /\ Append(c2s[c], q) \in Seq(Request)
      /\ \A i \in DOMAIN Append(c2s[c], q) :
           \/ i \in DOMAIN c2s[c] /\ Append(c2s[c], q)[i] = c2s[c][i]
           \/ Append(c2s[c], q)[i] = q
  BY <1>3
<1>5. NetTypeOK'
  BY <1>1, <1>2, <1>3, <1>4 DEF NetTypeOK
<1>6. RequestsNameTheirSender'
  BY <1>2, <1>3, <1>4 DEF RequestsNameTheirSender
<1>7. AcceptedOnce' /\ AnswersFlowForward'
  BY <1>1 DEF AcceptedOnce, AnswersFlowForward
<1> QED
  BY <1>5, <1>6, <1>7, ServerPartUnchanged

LEMMA AnyReceiveInv ==
  ASSUME ServerInv, NEW c \in Clients, AnyReceive(c), UNCHANGED <<sock, serverVars>>
  PROVE  ServerInv'
<1> DEFINE Rest(k) == SubSeq(s2c[c], k + 1, Len(s2c[c]))
<1> USE DEF ServerInv, serverVars, history
<1>1. UNCHANGED <<backlog, c2s>> /\ left' \in {left, left \cup {c}}
  BY DEF AnyReceive
<1>2. s2c \in [Clients -> Seq(Response)] /\ s2c[c] \in Seq(Response)
  BY DEF NetTypeOK
<1>3. PICK k \in 0 .. Len(s2c[c]) : s2c' = [s2c EXCEPT ![c] = Rest(k)]
  BY DEF AnyReceive
<1>4. /\ Rest(k) \in Seq(Response)
      /\ \A i \in DOMAIN Rest(k) : k + i \in DOMAIN s2c[c] /\ Rest(k)[i] = s2c[c][k + i]
  BY <1>2, WhatIsLeft
<1> HIDE DEF Rest
<1>5. NetTypeOK'
  BY <1>1, <1>2, <1>3, <1>4 DEF NetTypeOK
<1>6. RequestsNameTheirSender' /\ AcceptedOnce'
  BY <1>1 DEF RequestsNameTheirSender, AcceptedOnce
<1>7. AnswersFlowForward'
  BY <1>2, <1>3, <1>4 DEF AnswersFlowForward
<1> QED
  BY <1>5, <1>6, <1>7, ServerPartUnchanged

(***************************************************************************)
(* Every step keeps the invariant.                                         *)
(***************************************************************************)
LEMMA OpenNextInv == ServerInv /\ [OpenNext]_openVars => ServerInv'
<1> SUFFICES ASSUME ServerInv, [OpenNext]_openVars PROVE ServerInv'
  OBVIOUS
<1>1. CASE ServerNext
  BY <1>1, ServerStepInv
<1>2. ASSUME NEW c \in Clients, AnyClient(c)
      PROVE  ServerInv'
  BY <1>2, AnyDialInv, AnySendInv, AnyReceiveInv DEF AnyClient
<1>3. CASE UNCHANGED openVars
  <2> USE <1>3 DEF openVars, netVars, ServerInv
  <2>1. NetTypeOK' /\ RequestsNameTheirSender'
    BY DEF NetTypeOK, RequestsNameTheirSender
  <2>2. AcceptedOnce' /\ AnswersFlowForward'
    BY DEF AcceptedOnce, AnswersFlowForward, serverVars, history
  <2> QED
    BY <2>1, <2>2, ServerPartUnchanged
<1> QED
  BY <1>1, <1>2, <1>3 DEF OpenNext

(***************************************************************************)
(* The server's inductive invariant, whatever the clients do.              *)
(***************************************************************************)
THEOREM ServerInvariance == OpenSpec => []ServerInv
<1>1. OpenInit => ServerInv
  BY InitInv
<1>2. ServerInv /\ [OpenNext]_openVars => ServerInv'
  BY OpenNextInv
<1> QED
  BY <1>1, <1>2, PTL DEF OpenSpec

(***************************************************************************)
(* Nobody but the client itself makes it known to the server.              *)
(***************************************************************************)
LEMMA UnknownStays ==
  ASSUME ServerInv, NEW c \in Clients, Unknown(c),
         ServerNext \/ (\E d \in Clients \ {c} : AnyClient(d)) \/ UNCHANGED openVars
  PROVE  Unknown(c)'
<1>1. /\ backlog \in Seq(Clients) /\ rank \in [Clients -> Nat]
      /\ \A i \in DOMAIN backlog : backlog[i] # c
  BY DEF ServerInv, NetTypeOK, ServerTypeOK, Unknown, InBacklog
<1>2. ASSUME NEW s \in Handles, Accept(s)
      PROVE  Unknown(c)'
  <2>1. backlog # <<>> /\ backlog' = Tail(backlog) /\ Head(backlog) # c
    BY <1>1, <1>2 DEF Accept
  <2>2. \A i \in DOMAIN backlog' : i + 1 \in DOMAIN backlog /\ backlog'[i] = backlog[i + 1]
    BY <1>1, <2>1
  <2>3. rank'[c] = rank[c]
    BY <1>1, <1>2, <2>1 DEF Accept
  <2> QED
    BY <1>1, <2>2, <2>3 DEF Unknown, InBacklog
<1>3. ASSUME backlog' \in {backlog, <<>>}, rank' = rank
      PROVE  Unknown(c)'
  BY <1>3 DEF Unknown, InBacklog
<1>4. CASE ServerNext
  BY <1>2, <1>3, <1>4
  DEF ServerNext, AcceptLoop, StartUp, StartUpTraps, AcceptAborts, FillSlot, Spawn,
      SpawnFails, PackThreadTraps, ProcessExit, Handler, Start, Recv, RecvFails, CloseConn,
      Reply, SendReply, ReplyTraps, netVars, history
<1>5. ASSUME NEW d \in Clients \ {c}, AnyClient(d)
      PROVE  Unknown(c)'
  <2>1. rank' = rank
    BY <1>5 DEF AnyClient, serverVars, history
  <2>2. CASE AnyDial(d)
    <3>1. \A i \in DOMAIN backlog' :
             \/ i \in DOMAIN backlog /\ backlog'[i] = backlog[i]
             \/ backlog'[i] = d
      BY <1>1, <2>2 DEF AnyDial
    <3> QED
      BY <1>1, <2>1, <3>1 DEF Unknown, InBacklog
  <2>3. CASE backlog' = backlog
    BY <1>3, <2>1, <2>3
  <2> QED
    BY <1>5, <2>2, <2>3 DEF AnyClient, AnySend, AnyReceive
<1>6. CASE UNCHANGED openVars
  BY <1>3, <1>6 DEF openVars, netVars, serverVars, history
<1> QED
  BY <1>4, <1>5, <1>6

(***************************************************************************)
(* Steps that keep sockets, slot and the order of accepts, and handlers    *)
(* that stay handlers of the connection whose handle they copied, keep the *)
(* newest connection held.                                                 *)
(***************************************************************************)
LEMMA HeldUnlessMoved ==
  ASSUME ServerInv, HeldInv, UNCHANGED <<slotVars, sock, history>>,
         \A h \in Clients :
           /\ thr[h] = "start" => thr'[h] = "start"
           /\ thr[h] \in Serving =>
                thr'[h] \in Serving /\ own'[h] = own[h]
  PROVE  HeldInv'
<1> USE DEF HeldInv, slotVars, history
<1>1. RanksAreDistinct'
  BY DEF RanksAreDistinct
<1>2. NewestIsHeld'
  <2> SUFFICES ASSUME NEW s \in Handles, sock[s] # None, rank[sock[s]] = accepts
               PROVE  \/ loop = "init" /\ conn = s
                      \/ loop = "spawn" /\ ctx = s
                      \/ loop = "accept" /\ ctx = s /\ (thr'[sock[s]] = "start" \/ Served(s)')
    BY DEF NewestIsHeld
  <2>1. sock[s] \in Clients
    BY DEF ServerInv, NetTypeOK
  <2>2. Served(s) => Served(s)'
    BY DEF Served
  <2> QED
    BY <2>1, <2>2 DEF NewestIsHeld
<1> QED
  BY <1>1, <1>2

(***************************************************************************)
(* Without sockets nothing has to be held.                                 *)
(***************************************************************************)
LEMMA HeldAtTheEnd ==
  ASSUME HeldInv, NEW last, ProcessExit(last)
  PROVE  HeldInv'
BY DEF HeldInv, RanksAreDistinct, NewestIsHeld, ProcessExit, history

LEMMA AcceptHeld ==
  ASSUME ServerInv, HeldInv, NEW s \in Handles, Accept(s)
  PROVE  HeldInv'
<1> DEFINE new == Head(backlog)
<1> USE DEF HeldInv, Accept
<1>1. /\ new \in Clients /\ accepts \in Nat /\ rank \in [Clients -> Nat]
      /\ sock \in [Handles -> Clients \cup {None}]
  BY DEF ServerInv, NetTypeOK, ServerTypeOK
<1>2. \A c \in Clients : rank[c] <= accepts
  BY DEF ServerInv, AcceptedOnce
<1>3. /\ rank'[new] = accepts + 1 /\ accepts' = accepts + 1
      /\ \A c \in Clients \ {new} : rank'[c] = rank[c]
  BY <1>1
<1>4. RanksAreDistinct'
  BY <1>1, <1>2, <1>3 DEF RanksAreDistinct
<1>5. NewestIsHeld'
  <2>1. rank[new] = 0
    BY DEF ServerInv, AcceptedOnce
  <2>2. \A t \in Handles \ {s} : sock'[t] # None => rank'[sock'[t]] # accepts'
    BY <1>1, <1>2, <1>3, <2>1 DEF ServerInv, AcceptedOnce
  <2> QED
    BY <2>2 DEF NewestIsHeld
<1> QED
  BY <1>4, <1>5

LEMMA FillSlotHeld ==
  ASSUME HeldInv, FillSlot
  PROVE  HeldInv'
BY DEF HeldInv, RanksAreDistinct, NewestIsHeld, FillSlot, netVars, history

LEMMA SpawnHeld ==
  ASSUME ServerInv, HeldInv, NEW c \in Clients, Spawn(c)
  PROVE  HeldInv'
<1> USE DEF HeldInv, Spawn, netVars, history
<1>1. RanksAreDistinct'
  BY DEF RanksAreDistinct
<1>2. NewestIsHeld'
  <2> SUFFICES ASSUME NEW s \in Handles, sock[s] # None, rank[sock[s]] = accepts
               PROVE  thr'[sock[s]] = "start" /\ ctx = s
    BY DEF NewestIsHeld
  <2>1. sock[s] \in Clients /\ 1 <= rank[sock[s]] /\ thr \in [Clients -> ThreadStates]
    BY DEF ServerInv, NetTypeOK, ServerTypeOK, AcceptedOnce
  <2>2. rank \in [Clients -> Nat]
    BY DEF ServerInv, ServerTypeOK
  <2>3. rank[sock[s]] > 0
    BY <2>1, <2>2
  <2>4. sock[s] = c
    BY <2>1, <2>3 DEF RanksAreDistinct
  <2> QED
    BY <2>1, <2>4 DEF NewestIsHeld
<1> QED
  BY <1>1, <1>2

LEMMA StartHeld ==
  ASSUME ServerInv, HeldInv, NEW h \in Clients, Start(h)
  PROVE  HeldInv'
<1> USE DEF HeldInv, Start, netVars, slotVars, history
<1>1. RanksAreDistinct'
  BY DEF RanksAreDistinct
<1>2. /\ thr \in [Clients -> ThreadStates] /\ own \in [Clients -> Handles \cup {None}]
      /\ sock \in [Handles -> Clients \cup {None}]
  BY DEF ServerInv, NetTypeOK, ServerTypeOK
<1>3. NewestIsHeld'
  <2> SUFFICES ASSUME NEW s \in Handles, sock[s] # None, rank[sock[s]] = accepts
               PROVE  \/ loop = "init" /\ conn = s
                      \/ loop = "spawn" /\ ctx = s
                      \/ loop = "accept" /\ ctx = s /\ (thr'[sock[s]] = "start" \/ Served(s)')
    BY DEF NewestIsHeld
  <2>1. CASE loop = "accept" /\ ctx = s /\ thr[sock[s]] = "start"
    <3>1. CASE sock[s] = h
      BY <1>2, <2>1, <3>1 DEF Served, Serving
    <3>2. CASE sock[s] # h
      BY <1>2, <2>1, <3>2
    <3> QED
      BY <3>1, <3>2
  <2>2. CASE loop = "accept" /\ ctx = s /\ Served(s)
    <3>1. PICK g \in Clients : thr[g] \in Serving /\ own[g] = s
      BY <2>2 DEF Served
    <3>2. g # h /\ thr'[g] = thr[g] /\ own'[g] = own[g]
      BY <1>2, <3>1 DEF Serving
    <3> QED
      BY <2>2, <3>1, <3>2 DEF Served
  <2> QED
    BY <2>1, <2>2 DEF NewestIsHeld
<1> QED
  BY <1>1, <1>3

(***************************************************************************)
(* A handler closes what it holds: nobody needs to hold it any more.       *)
(***************************************************************************)
LEMMA CloseConnServed ==
  ASSUME ServerInv, NEW h \in Clients, CloseConn(h), NEW s \in Handles,
         s # own[h], Served(s)
  PROVE  Served(s)'
<1>1. PICK g \in Clients : thr[g] \in Serving /\ own[g] = s
  BY DEF Served
<1>2. g # h /\ own' = own /\ thr'[g] \in {thr[g], "close"}
  BY <1>1 DEF CloseConn
<1> QED
  BY <1>1, <1>2 DEF Served, Serving

LEMMA CloseConnHeld ==
  ASSUME ServerInv, HeldInv, NEW h \in Clients, CloseConn(h)
  PROVE  HeldInv'
<1> USE DEF HeldInv, CloseConn, slotVars, history
<1>1. RanksAreDistinct'
  BY DEF RanksAreDistinct
<1>2. /\ thr' \in [Clients -> ThreadStates]
      /\ \A g \in Clients \ {h} :
           \/ thr'[g] = thr[g]
           \/ thr'[g] = "close" /\ thr[g] = "recv"
  BY DEF ServerInv, ServerTypeOK, ThreadStates
<1>3. \A s \in Handles : sock'[s] # None => s # own[h] /\ sock'[s] = sock[s]
  OBVIOUS
<1>4. NewestIsHeld'
  <2> SUFFICES ASSUME NEW s \in Handles, sock'[s] # None, rank[sock'[s]] = accepts
               PROVE  \/ loop = "init" /\ conn = s
                      \/ loop = "spawn" /\ ctx = s
                      \/ loop = "accept" /\ ctx = s /\ (thr'[sock'[s]] = "start" \/ Served(s)')
    BY DEF NewestIsHeld
  <2>1. s # own[h] /\ sock'[s] = sock[s] /\ sock[s] \in Clients
    BY <1>3 DEF ServerInv, NetTypeOK
  <2>2. CASE loop = "accept" /\ ctx = s /\ thr[sock[s]] = "start"
    BY <1>2, <2>1, <2>2
  <2>3. CASE loop = "accept" /\ ctx = s /\ Served(s)
    BY <2>1, <2>3, CloseConnServed
  <2> QED
    BY <2>1, <2>2, <2>3 DEF NewestIsHeld
<1> QED
  BY <1>1, <1>4

LEMMA OpenNextHeld == ServerInv /\ HeldInv /\ [OpenNext]_openVars => HeldInv'
<1> SUFFICES ASSUME ServerInv, HeldInv, [OpenNext]_openVars PROVE HeldInv'
  OBVIOUS
<1> USE DEF slotVars, history
<1>1. CASE AcceptLoop
  <2>1. CASE StartUp
    BY <2>1 DEF StartUp, HeldInv, RanksAreDistinct, NewestIsHeld, netVars, threadVars
  <2> QED
    BY <1>1, <2>1, AcceptHeld, FillSlotHeld, SpawnHeld, HeldAtTheEnd
    DEF AcceptLoop, StartUpTraps, AcceptAborts, SpawnFails
<1>2. CASE PackThreadTraps
  BY <1>2, HeldAtTheEnd DEF PackThreadTraps
<1>3. ASSUME NEW h \in Clients, Handler(h)
      PROVE  HeldInv'
  <2>1. thr \in [Clients -> ThreadStates]
    BY DEF ServerInv, ServerTypeOK
  <2>2. CASE Recv(h)
    BY <2>1, <2>2, HeldUnlessMoved DEF Recv, Serving
  <2>3. CASE RecvFails(h)
    BY <2>1, <2>3, HeldUnlessMoved DEF RecvFails, Serving, netVars
  <2>4. CASE Reply(h)
    BY <2>1, <2>4, HeldUnlessMoved DEF Reply, Serving, netVars
  <2>5. CASE ReplyTraps(h)
    BY <2>5, HeldAtTheEnd DEF ReplyTraps
  <2>6. CASE SendReply(h)
    BY <2>1, <2>6, HeldUnlessMoved DEF SendReply, Serving
  <2> QED
    BY <1>3, <2>2, <2>3, <2>4, <2>5, <2>6, StartHeld, CloseConnHeld DEF Handler
<1>4. ASSUME UNCHANGED <<sock, serverVars>>
      PROVE  HeldInv'
  BY <1>4, HeldUnlessMoved DEF serverVars, threadVars
<1>5. ASSUME NEW c \in Clients, AnyClient(c)
      PROVE  HeldInv'
  BY <1>4, <1>5 DEF AnyClient
<1>6. CASE UNCHANGED openVars
  BY <1>4, <1>6 DEF openVars, netVars
<1> QED
  BY <1>1, <1>2, <1>3, <1>5, <1>6 DEF OpenNext, ServerNext

(***************************************************************************)
(* However accepts, handlers and their closing interleave, the connection  *)
(* accepted last is in the accept loop's hands, in the slot for a handler  *)
(* that is about to copy it, or in a handler's (rtsp-server.c).            *)
(***************************************************************************)
THEOREM ServerHoldsTheNewest == OpenSpec => []HeldInv
<1>1. OpenInit => HeldInv
  BY DEF OpenInit, NetInit, ServerInit, HeldInv, RanksAreDistinct, NewestIsHeld
<1>2. ServerInv /\ HeldInv /\ [OpenNext]_openVars => HeldInv'
  BY OpenNextHeld
<1> QED
  BY <1>1, <1>2, ServerInvariance, PTL DEF OpenSpec

(***************************************************************************)
(* A connection in a handler's hands stays there, and a handler that found *)
(* another handle stays one, while nobody accepts, starts or closes.       *)
(***************************************************************************)
LEMMA OrphansUnlessMoved ==
  ASSUME ServerInv, OrphansWereSuperseded,
         UNCHANGED <<loop, conn, ctx, sock, own, accepts, rank>>,
         \A h \in Clients :
           /\ thr[h] = "start" => thr'[h] = "start"
           /\ thr[h] \in Serving => thr'[h] \in Serving
           /\ thr[h] = "done" => thr'[h] = "done"
  PROVE  OrphansWereSuperseded'
<1>1. \A s \in Handles : sock[s] # None => sock[s] \in Clients
  BY DEF ServerInv, NetTypeOK
<1>2. \A s \in Handles : Served(s) => Served(s)'
  BY DEF Served
<1> QED
  BY <1>1, <1>2 DEF OrphansWereSuperseded

LEMMA AcceptOrphans ==
  ASSUME ServerInv, OrphansWereSuperseded, NEW t \in Handles, Accept(t)
  PROVE  OrphansWereSuperseded'
<1> SUFFICES ASSUME NEW s \in Handles, sock'[s] # None, s # t
             PROVE  \/ Served(s)'
                    \/ thr'[sock'[s]] = "start"
                    \/ /\ thr'[sock'[s]] \in Serving \cup {"done"}
                       /\ own'[sock'[s]] # s /\ rank'[sock'[s]] < accepts'
  BY DEF OrphansWereSuperseded, Accept
<1> DEFINE c == sock[s]
<1>1. /\ loop = "accept" /\ thr' = thr /\ own' = own /\ accepts' = accepts + 1
      /\ rank' = [rank EXCEPT ![Head(backlog)] = accepts + 1]
  BY DEF Accept, threadVars
<1>2. /\ sock \in [Handles -> Clients \cup {None}] /\ accepts \in Nat
      /\ rank \in [Clients -> Nat] /\ backlog \in Seq(Clients) /\ backlog # <<>>
  BY DEF ServerInv, NetTypeOK, ServerTypeOK, Accept
<1>3. sock'[s] = c /\ c \in Clients /\ c # None
  BY <1>2 DEF Accept
<1>4. 1 <= rank[c] /\ rank[c] <= accepts /\ rank[Head(backlog)] = 0
  BY <1>2, <1>3 DEF ServerInv, AcceptedOnce
<1>5. rank'[c] = rank[c] /\ rank'[c] < accepts'
  BY <1>1, <1>2, <1>3, <1>4
<1>6. Served(s) => Served(s)'
  BY <1>1 DEF Served
<1>7. \/ Served(s)
      \/ thr[c] = "start"
      \/ thr[c] \in Serving \cup {"done"} /\ own[c] # s
  BY <1>1, <1>3 DEF OrphansWereSuperseded
<1> QED
  BY <1>1, <1>3, <1>5, <1>6, <1>7

LEMMA FillSlotOrphans ==
  ASSUME OrphansWereSuperseded, FillSlot
  PROVE  OrphansWereSuperseded'
<1>1. \A s \in Handles : Served(s)' <=> Served(s)
  BY DEF Served, FillSlot, threadVars
<1> QED
  BY <1>1 DEF OrphansWereSuperseded, FillSlot, netVars, threadVars, history

(***************************************************************************)
(* The slot the handler is created with stands for its connection.         *)
(***************************************************************************)
LEMMA SpawnOrphans ==
  ASSUME ServerInv, HeldInv, OrphansWereSuperseded, NEW c \in Clients, Spawn(c)
  PROVE  OrphansWereSuperseded'
<1>1. /\ loop = "spawn" /\ rank[c] = accepts /\ thr' = [thr EXCEPT ![c] = "start"]
      /\ UNCHANGED <<sock, own, accepts, rank>>
  BY DEF Spawn, netVars, history
<1>2. /\ thr \in [Clients -> ThreadStates] /\ rank \in [Clients -> Nat]
      /\ sock \in [Handles -> Clients \cup {None}] /\ accepts \in Nat
  BY DEF ServerInv, NetTypeOK, ServerTypeOK
<1>3. thr[c] = "none" /\ 1 <= accepts
  BY <1>1, <1>2 DEF ServerInv, LoopInOrder
<1>4. \A g \in Clients : thr[g] # "none" => thr'[g] = thr[g]
  BY <1>1, <1>2, <1>3
<1> SUFFICES ASSUME NEW s \in Handles, sock[s] # None
             PROVE  \/ Served(s)'
                    \/ thr'[sock[s]] = "start"
                    \/ /\ thr'[sock[s]] \in Serving \cup {"done"}
                       /\ own[sock[s]] # s /\ rank[sock[s]] < accepts
  BY <1>1 DEF OrphansWereSuperseded
<1>5. sock[s] \in Clients
  BY <1>2
<1>6. CASE ctx = s
  <2>1. rank[sock[s]] = accepts
    BY <1>1, <1>6, HandlesAssumption DEF ServerInv, SlotIsRecent, Conn, ServerTypeOK
  <2>2. sock[s] = c
    BY <1>1, <1>2, <1>3, <1>5, <2>1 DEF HeldInv, RanksAreDistinct
  <2> QED
    BY <1>1, <1>2, <2>2
<1>7. CASE Served(s)
  <2>1. Served(s)'
    BY <1>1, <1>4, <1>7 DEF Served, Serving
  <2> QED
    BY <2>1
<1>8. CASE thr[sock[s]] = "start"
  BY <1>4, <1>5, <1>8
<1>9. CASE /\ thr[sock[s]] \in Serving \cup {"done"}
           /\ own[sock[s]] # s /\ rank[sock[s]] < accepts
  BY <1>4, <1>5, <1>9 DEF Serving
<1> QED
  BY <1>1, <1>6, <1>7, <1>8, <1>9 DEF OrphansWereSuperseded

(***************************************************************************)
(* A handler that does not find its own connection in the slot is too      *)
(* late: the newest connection is still where its handler looks for it.    *)
(***************************************************************************)
LEMMA StartOrphans ==
  ASSUME ServerInv, HeldInv, OrphansWereSuperseded, NEW h \in Clients, Start(h)
  PROVE  OrphansWereSuperseded'
<1>1. /\ thr[h] = "start" /\ thr' = [thr EXCEPT ![h] = "recv"]
      /\ own' = [own EXCEPT ![h] = ctx]
      /\ UNCHANGED <<sock, loop, conn, ctx, accepts, rank>>
  BY DEF Start, netVars, slotVars, history
<1>2. /\ thr \in [Clients -> ThreadStates] /\ own \in [Clients -> Handles \cup {None}]
      /\ rank \in [Clients -> Nat] /\ accepts \in Nat
      /\ sock \in [Handles -> Clients \cup {None}]
  BY DEF ServerInv, NetTypeOK, ServerTypeOK
<1>3. /\ thr'[h] = "recv" /\ own'[h] = ctx
      /\ \A g \in Clients \ {h} : thr'[g] = thr[g] /\ own'[g] = own[g]
  BY <1>1, <1>2
<1>4. \A s \in Handles : Served(s) => Served(s)'
  BY <1>1, <1>3 DEF Served, Serving
<1> SUFFICES ASSUME NEW s \in Handles, sock[s] # None
             PROVE  \/ loop = "init" /\ conn = s
                    \/ loop = "spawn" /\ ctx = s
                    \/ Served(s)'
                    \/ thr'[sock[s]] = "start"
                    \/ /\ thr'[sock[s]] \in Serving \cup {"done"}
                       /\ own'[sock[s]] # s /\ rank[sock[s]] < accepts
  BY <1>1 DEF OrphansWereSuperseded
<1>5. sock[s] \in Clients
  BY <1>2
<1>6. CASE sock[s] = h
  <2>1. CASE ctx = s
    BY <1>3, <2>1 DEF Served, Serving
  <2>2. CASE loop = "init" /\ conn = s
    BY <2>2
  <2>3. CASE ctx # s /\ ~(loop = "init" /\ conn = s)
    <3>1. rank[h] # accepts
      BY <1>6, <2>3 DEF HeldInv, NewestIsHeld
    <3>2. rank[h] <= accepts
      BY DEF ServerInv, AcceptedOnce
    <3>3. rank[h] < accepts
      BY <1>2, <3>1, <3>2
    <3> QED
      BY <1>3, <1>6, <2>3, <3>3 DEF Serving
  <2> QED
    BY <2>1, <2>2, <2>3
<1>7. CASE sock[s] # h
  <2>1. thr'[sock[s]] = thr[sock[s]] /\ own'[sock[s]] = own[sock[s]]
    BY <1>3, <1>5, <1>7
  <2> QED
    BY <1>4, <2>1 DEF OrphansWereSuperseded
<1> QED
  BY <1>6, <1>7

(***************************************************************************)
(* What a handler leaves open when it is done is not what it copied.       *)
(***************************************************************************)
LEMMA CloseConnOrphans ==
  ASSUME ServerInv, OrphansWereSuperseded, NEW h \in Clients, CloseConn(h)
  PROVE  OrphansWereSuperseded'
<1>1. /\ sock' = [s \in Handles |-> IF s = own[h] THEN None ELSE sock[s]]
      /\ UNCHANGED <<loop, conn, ctx, own, accepts, rank>>
  BY DEF CloseConn, slotVars, history
<1>2. \A g \in Clients :
        \/ thr'[g] = thr[g]
        \/ thr'[g] = "done" /\ thr[g] = "close"
        \/ thr'[g] = "close" /\ thr[g] = "recv"
  BY DEF CloseConn
<1> SUFFICES ASSUME NEW s \in Handles, sock[s] # None, s # own[h]
             PROVE  \/ loop = "init" /\ conn = s
                    \/ loop = "spawn" /\ ctx = s
                    \/ Served(s)'
                    \/ thr'[sock[s]] = "start"
                    \/ /\ thr'[sock[s]] \in Serving \cup {"done"}
                       /\ own[sock[s]] # s /\ rank[sock[s]] < accepts
  BY <1>1 DEF OrphansWereSuperseded
<1>3. sock[s] \in Clients
  BY DEF ServerInv, NetTypeOK
<1>4. Served(s) => Served(s)'
  BY CloseConnServed
<1>5. /\ thr[sock[s]] = "start" => thr'[sock[s]] = "start"
      /\ thr[sock[s]] \in Serving \cup {"done"} => thr'[sock[s]] \in Serving \cup {"done"}
  BY <1>2, <1>3 DEF Serving
<1> QED
  BY <1>4, <1>5 DEF OrphansWereSuperseded

LEMMA OrphansAtTheEnd ==
  ASSUME NEW last, ProcessExit(last)
  PROVE  OrphansWereSuperseded'
BY DEF OrphansWereSuperseded, ProcessExit

LEMMA OpenNextOrphans ==
  ServerInv /\ HeldInv /\ OrphansWereSuperseded /\ [OpenNext]_openVars
    => OrphansWereSuperseded'
<1> SUFFICES ASSUME ServerInv, HeldInv, OrphansWereSuperseded, [OpenNext]_openVars
             PROVE  OrphansWereSuperseded'
  OBVIOUS
<1>1. CASE AcceptLoop
  <2>1. CASE StartUp
    <3>1. \A s \in Handles : Served(s)' <=> Served(s)
      BY <2>1 DEF Served, StartUp, threadVars
    <3> QED
      BY <2>1, <3>1
      DEF StartUp, OrphansWereSuperseded, netVars, threadVars, history
  <2> QED
    BY <1>1, <2>1, AcceptOrphans, FillSlotOrphans, SpawnOrphans, OrphansAtTheEnd
    DEF AcceptLoop, StartUpTraps, AcceptAborts, SpawnFails
<1>2. CASE PackThreadTraps
  BY <1>2, OrphansAtTheEnd DEF PackThreadTraps
<1>3. ASSUME NEW h \in Clients, Handler(h)
      PROVE  OrphansWereSuperseded'
  <2>1. thr \in [Clients -> ThreadStates]
    BY DEF ServerInv, ServerTypeOK
  <2>2. CASE Recv(h)
    BY <2>1, <2>2, OrphansUnlessMoved DEF Recv, Serving, slotVars, history
  <2>3. CASE RecvFails(h)
    BY <2>1, <2>3, OrphansUnlessMoved
    DEF RecvFails, Serving, netVars, slotVars, history
  <2>4. CASE Reply(h)
    BY <2>1, <2>4, OrphansUnlessMoved DEF Reply, Serving, netVars, slotVars, history
  <2>5. CASE SendReply(h)
    BY <2>1, <2>5, OrphansUnlessMoved DEF SendReply, Serving, slotVars, history
  <2>6. CASE ReplyTraps(h)
    BY <2>6, OrphansAtTheEnd DEF ReplyTraps
  <2> QED
    BY <1>3, <2>2, <2>3, <2>4, <2>5, <2>6, StartOrphans, CloseConnOrphans DEF Handler
<1>4. ASSUME UNCHANGED <<sock, serverVars>>
      PROVE  OrphansWereSuperseded'
  BY <1>4, OrphansUnlessMoved DEF serverVars, slotVars, threadVars, history
<1>5. ASSUME NEW c \in Clients, AnyClient(c)
      PROVE  OrphansWereSuperseded'
  BY <1>4, <1>5 DEF AnyClient
<1>6. CASE UNCHANGED openVars
  BY <1>4, <1>6 DEF openVars, netVars
<1> QED
  BY <1>1, <1>2, <1>3, <1>5, <1>6 DEF OpenNext, ServerNext

(***************************************************************************)
(* The server forgets no connection but one whose handler found a later    *)
(* connection's handle in the slot: every other one is in the accept       *)
(* loop's hands, in a handler's, or waits for the handler created for it   *)
(* (rtsp-server.c).                                                        *)
(***************************************************************************)
THEOREM ServerForgetsTheSuperseded == OpenSpec => []OrphansWereSuperseded
<1>1. OpenInit => OrphansWereSuperseded
  BY DEF OpenInit, NetInit, OrphansWereSuperseded
<1>2. /\ ServerInv /\ HeldInv /\ OrphansWereSuperseded /\ [OpenNext]_openVars
      => OrphansWereSuperseded'
  BY OpenNextOrphans
<1> QED
  BY <1>1, <1>2, ServerHoldsTheNewest, ServerInvariance, PTL DEF OpenSpec

=============================================================================
