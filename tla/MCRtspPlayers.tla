---------------------------- MODULE MCRtspPlayers ----------------------------
(***************************************************************************)
(* RtspPlayers for model checking.                                         *)
(***************************************************************************)
EXTENDS RtspPlayers, TLC

Symmetric == Permutations(Clients) \cup Permutations(Handles)
=============================================================================
