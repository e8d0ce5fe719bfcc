----------------------------- MODULE RtspNetwork -----------------------------
(***************************************************************************)
(* The TCP connections between the clients and the server, as the two      *)
(* programs see them through the socket calls: a listen backlog, the       *)
(* server's socket handles, and one first-in-first-out stream of whole     *)
(* messages in each direction of a connection.  A connection is named by   *)
(* the client that dialled it, since each client process dials once.       *)
(***************************************************************************)
EXTENDS RtspMessages

CONSTANT Handles   \* the values a server-side socket handle can take

ASSUME HandlesAssumption == None \notin Handles

VARIABLES
  backlog,   \* connections established and not yet accepted, oldest first
  sock,      \* sock[s]: the connection server handle s stands for, or None
  c2s,       \* c2s[c]: requests on their way from client c, oldest first
  s2c,       \* s2c[c]: responses on their way to client c, oldest first
  left       \* the clients that have closed their end or whose process is gone

netVars == <<backlog, sock, c2s, s2c, left>>

NetTypeOK ==
  /\ backlog \in Seq(Clients)
  /\ sock \in [Handles -> Clients \cup {None}]
  /\ c2s \in [Clients -> Seq(Request)]
  /\ s2c \in [Clients -> Seq(Response)]
  /\ left \subseteq Clients

NetInit ==
  /\ backlog = <<>>
  /\ sock = [s \in Handles |-> None]
  /\ c2s = [c \in Clients |-> <<>>]
  /\ s2c = [c \in Clients |-> <<>>]
  /\ left = {}

InBacklog(c) == \E i \in DOMAIN backlog : backlog[i] = c

\* The server's end of c's connection exists: waiting in the backlog, or held
\* under some handle.
ServerEnd(c) == InBacklog(c) \/ \E s \in Handles : sock[s] = c
=============================================================================
