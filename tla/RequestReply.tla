---------------------------- MODULE RequestReply ----------------------------
(***************************************************************************)
(* What an RTSP client expects of its control connection, as run_rtspclient*)
(* relies on it: requests are asked one at a time, and what arrives next   *)
(* on the connection is the one answer to the request asked last.  Either  *)
(* side may fall silent; then nothing more happens on the connection.      *)
(***************************************************************************)
EXTENDS Naturals, Sequences

CONSTANT Clients

VARIABLES
  asked,   \* asked[c]: the number of requests c has asked
  reply,   \* reply[c]: answers on their way to c, as <<asker, number>>
  last     \* last[c]: the number of the request whose answer c took last

abstractVars == <<asked, reply, last>>

Init ==
  /\ asked = [c \in Clients |-> 0]
  /\ reply = [c \in Clients |-> <<>>]
  /\ last  = [c \in Clients |-> 0]

Ask(c) ==
  /\ reply[c] = <<>> /\ last[c] = asked[c]
  /\ asked' = [asked EXCEPT ![c] = @ + 1]
  /\ UNCHANGED <<reply, last>>

Answer(c) ==
  /\ reply[c] = <<>> /\ last[c] < asked[c]
  /\ reply' = [reply EXCEPT ![c] = << <<c, asked[c]>> >>]
  /\ UNCHANGED <<asked, last>>

Take(c) ==
  /\ reply[c] # <<>>
  /\ last' = [last EXCEPT ![c] = Head(reply[c])[2]]
  /\ reply' = [reply EXCEPT ![c] = <<>>]
  /\ UNCHANGED asked

Next == \E c \in Clients : Ask(c) \/ Answer(c) \/ Take(c)

Spec == Init /\ [][Next]_abstractVars
=============================================================================
