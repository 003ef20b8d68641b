------------------------------ MODULE PuntFifo ------------------------------
(***************************************************************************)
(* What the punt queue promises, with no ring: frames are accepted while   *)
(* fewer than Depth wait, and every drain returns the oldest of them, once *)
(* each, as they were.                                                     *)
(***************************************************************************)
EXTENDS Integers, Sequences

CONSTANTS Depth, Frames

VARIABLES
  accepted,   \* every frame accepted so far, in order
  taken,      \* how many of them have been drained
  refused,    \* how many were turned away
  out         \* the frames of the last drain

vars == <<accepted, taken, refused, out>>

Waiting == Len(accepted) - taken

Init == accepted = <<>> /\ taken = 0 /\ refused = 0 /\ out = <<>>

Accept ==
  /\ Waiting < Depth
  /\ \E f \in Frames : accepted' = Append(accepted, f)
  /\ UNCHANGED <<taken, refused, out>>

Refuse ==
  /\ Waiting = Depth
  /\ refused' = refused + 1
  /\ UNCHANGED <<accepted, taken, out>>

Drain ==
  \E k \in 0 .. Waiting :
    /\ taken' = taken + k
    /\ out' = [i \in 1 .. k |-> accepted[taken + i]]
    /\ UNCHANGED <<accepted, refused>>

Next == Accept \/ Refuse \/ Drain

Spec == Init /\ [][Next]_vars
==============================================================================
