---------------------------- MODULE MCRtspSerial ----------------------------
(***************************************************************************)
(* RtspSystem for model checking with one client after the other.          *)
(***************************************************************************)
EXTENDS RtspSystem
=============================================================================
