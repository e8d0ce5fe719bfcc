---------------------------- MODULE RtspPlayers -----------------------------
(***************************************************************************)
(* The RTSP server with players other than simple-rtsp's own client.  A    *)
(* player sends any of the methods that the server announces in Public, in *)
(* any order, waits for a response after each, and leaves when it likes.   *)
(***************************************************************************)
EXTENDS RtspOpenServer, FiniteSets, Functions

CONSTANTS
  Methods,       \* the methods that players send, of those in Public
  MaxRequests,   \* bound: the requests that all players together send at most
  MaxLeaves      \* bound: a player leaves a server that holds its connection
                 \* only while fewer players than that have left

ASSUME PlayersAssumption ==
  Methods \subseteq Public /\ MaxRequests \in Nat /\ MaxLeaves \in Nat

VARIABLES
  player,   \* player[c]: "idle", "ready", "wait" or "gone"
  sent,     \* sent[c]: how many requests player c has sent
  early     \* history: the players of whom a handler took a request before the
            \* accept loop had written their connection into the slot

playerVars == <<player, sent>>
vars == <<netVars, serverVars, playerVars, early>>

PlayersTypeOK ==
  /\ NetTypeOK /\ ServerTypeOK
  /\ player \in [Clients -> {"idle", "ready", "wait", "gone"}]
  /\ sent \in [Clients -> Nat]
  /\ early \subseteq Clients

Init ==
  /\ NetInit /\ ServerInit
  /\ player = [c \in Clients |-> "idle"]
  /\ sent = [c \in Clients |-> 0]
  /\ early = {}

Connect(c) ==
  /\ player[c] = "idle" /\ loop # "down"
  /\ player' = [player EXCEPT ![c] = "ready"]
  /\ backlog' = Append(backlog, c)
  /\ UNCHANGED <<sock, c2s, s2c, left, sent>>

\* Any method.  Which track a SETUP names makes no difference to the
\* way its answer takes, so it is always the same; a PLAY names any session.
RequestsOf(c) ==
  { [ from |-> c, cseq |-> sent[c] + 1, method |-> m,
      track |-> IF m = "SETUP" THEN Media[1] ELSE None,
      session |-> IF m = "PLAY" THEN s ELSE None ] : m \in Methods, s \in Sessions }

Ask(c) ==
  /\ player[c] = "ready" /\ ServerEnd(c)
  /\ FoldFunction(+, 0, sent) < MaxRequests
  /\ \E q \in RequestsOf(c) : c2s' = [c2s EXCEPT ![c] = Append(@, q)]
  /\ sent' = [sent EXCEPT ![c] = @ + 1]
  /\ player' = [player EXCEPT ![c] = "wait"]
  /\ UNCHANGED <<backlog, sock, s2c, left>>

Take(c) ==
  /\ player[c] = "wait" /\ s2c[c] # <<>>
  /\ s2c' = [s2c EXCEPT ![c] = Tail(@)]
  /\ player' = [player EXCEPT ![c] = "ready"]
  /\ UNCHANGED <<backlog, sock, c2s, left, sent>>

Leave(c) ==
  /\ player[c] \in {"ready", "wait"}
  /\ ServerEnd(c) => Cardinality(left) < MaxLeaves
  /\ player' = [player EXCEPT ![c] = "gone"]
  /\ left' = left \cup {c}
  /\ UNCHANGED <<backlog, sock, c2s, s2c, sent>>

\* A player whose connection the server has ended, or never took, gives up.
GiveUp(c) == ~ServerEnd(c) /\ Leave(c)

PlayerActs(c) == Connect(c) \/ Ask(c) \/ Take(c) \/ Leave(c)

\* Only an earlier handler can do that, whose handle was closed by another and
\* then given to this player.
TakenEarly ==
  {c \in Clients : loop = "init" /\ rank[c] = accepts /\ c2s'[c] # c2s[c]}

Next ==
  \/ ServerNext /\ early' = early \cup TakenEarly /\ UNCHANGED playerVars
  \/ \E c \in Clients : PlayerActs(c) /\ UNCHANGED <<serverVars, early>>

Spec ==
  /\ Init /\ [][Next]_vars
  /\ ServerFairness
  /\ \A c \in Clients : WF_playerVars(Take(c) \/ GiveUp(c))

-----------------------------------------------------------------------------

\* A player that has not dialled is unknown to the server, and one that waits has
\* not left.
PlayersAreKnown ==
  \A c \in Clients :
    /\ player[c] = "idle" => Unknown(c)
    /\ c \in left => player[c] = "gone"

\* The inductive invariant: what the server keeps to with any clients, it keeps
\* to with players that send what it announces.
PlayersInv == PlayersTypeOK /\ PlayersAreKnown /\ ServerInv

\* The player's connection is the one accepted last, and its request is not lost to
\* a handler that held the connection's handle before the connection had it.
Newest(c) == rank[c] = accepts /\ c \notin early

\* What the newest player waits for is on its way: its request in its stream or
\* with a handler, the answer with a handler that will send it to that player or
\* in the player's stream.  No other handler, slot or handle gets between.
NewestIsInService ==
  \A c \in Clients :
    player[c] = "wait" /\ Newest(c) /\ ServerEnd(c) =>
      \/ c2s[c] # <<>>
      \/ s2c[c] # <<>>
      \/ \E h \in Clients : thr[h] = "reply" /\ req[h].from = c
      \/ \E h \in Clients : thr[h] = "send" /\ Conn(out[h].conn) = c

\* The player accepted last is not left without an answer.  The server may fail
\* the ones that a later player superseded, and the one that an earlier handler
\* took for its own client, never another.
NewestIsAnswered ==
  \A c \in Clients :
    (player[c] = "wait" /\ Newest(c)) ~> (player[c] # "wait" \/ ~Newest(c))

\* A connection whose player left is closed in the end, unless a later accept
\* superseded it.
LeftAreLetGo ==
  \A c \in Clients :
    c \in left ~> (~ServerEnd(c) \/ rank[c] < accepts)

\* No request that the server announces in Public makes it trap.
NoHandlerTraps == \A h \in Clients : thr[h] # "trap"
=============================================================================
