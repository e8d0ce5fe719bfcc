--------------------------- MODULE MCVideoPipeline ---------------------------
(***************************************************************************)
(* VideoPipeline for model checking.  With a payload of 6 bytes a fragment *)
(* carries 3, and the sizes up to 12 reach units that fit, that just do    *)
(* not, and that end with a full and with a one-byte fragment.             *)
(***************************************************************************)
EXTENDS VideoPipeline

CONSTANT MaxSize   \* bound: the largest unit

MCUnitSizes == 0 .. MaxSize
=============================================================================
