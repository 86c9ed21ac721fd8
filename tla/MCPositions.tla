------------------------------ MODULE MCPositions ------------------------------
(***************************************************************************)
(* One episode on a phone of a listener.                                   *)
(***************************************************************************)
EXTENDS PositionSync

=============================================================================
