--------------------------- MODULE MCHevcStartcode ---------------------------
(***************************************************************************)
(* HevcStartcode for model checking.  The long buffers make the word loop  *)
(* run at every alignment and pass on to the next word or to the last      *)
(* loop, the short ones have bytes that set the top bits the word test     *)
(* looks at.                                                               *)
(***************************************************************************)
EXTENDS HevcStartcode

CONSTANTS LongLen, ShortLen   \* bounds: the lengths of the buffers

LongBuffers == UNION {[1 .. k -> {0, 1}] : k \in 0 .. LongLen}
ShortBuffers == UNION {[1 .. k -> {0, 1, 255}] : k \in 0 .. ShortLen}

MCBuffers == LongBuffers \cup ShortBuffers
=============================================================================
