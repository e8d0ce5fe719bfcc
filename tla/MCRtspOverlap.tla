---------------------------- MODULE MCRtspOverlap ----------------------------
(***************************************************************************)
(* RtspSystem for model checking with clients that overlap.                *)
(***************************************************************************)
EXTENDS RtspSystem, TLC

\* Bound: at most one client process is killed, the others run their script.
OneKilled == Cardinality({c \in Clients : st[c] = "killed"}) <= 1

\* Bound: nothing is explored behind the end of the server, when all that is left
\* is for clients to take what was sent; MCRtspSerial goes on there.
ServerRuns == loop # "down"

Symmetric == Permutations(Clients) \cup Permutations(Handles)
=============================================================================
