--------------------------- MODULE MCRtspTransport ---------------------------
(***************************************************************************)
(* RtspTransport for model checking.  The shapes are a request or an answer *)
(* without payload and an answer with one; segments and receives cut each  *)
(* of them at every place.                                                 *)
(***************************************************************************)
EXTENDS RtspTransport

MCShapes == {[lines |-> 2, body |-> 0], [lines |-> 1, body |-> 3]}
=============================================================================
