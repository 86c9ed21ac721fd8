--------------------------- MODULE PositionRegister ---------------------------
(***************************************************************************)
(* What the server promises of a listening position: a register that       *)
(* changes only by merging an observation into what is there.              *)
(***************************************************************************)
EXTENDS PositionMerge

VARIABLE pos

Init == pos = None

Observe(o) == pos' = Merged(pos, o)

Next == \E o \in Observation : Observe(o)

Spec == Init /\ [][Next]_pos

=============================================================================
