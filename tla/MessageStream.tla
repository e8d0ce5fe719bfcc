---------------------------- MODULE MessageStream ----------------------------
(***************************************************************************)
(* What the two programs take one direction of a connection for: a stream  *)
(* of whole messages.  What is taken is what was given, in order, each     *)
(* message once and in one piece; a message may never be taken.            *)
(***************************************************************************)
EXTENDS Naturals, Sequences

CONSTANT Messages

VARIABLES
  given,   \* the messages put into the stream
  taken    \* the messages taken out of it

Init == given = <<>> /\ taken = <<>>

Give == /\ \E m \in Messages : given' = Append(given, m)
        /\ UNCHANGED taken

Take == /\ Len(taken) < Len(given)
        /\ taken' = Append(taken, given[Len(taken) + 1])
        /\ UNCHANGED given

Next == Give \/ Take

Spec == Init /\ [][Next]_<<given, taken>>
=============================================================================
