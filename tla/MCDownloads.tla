----------------------------- MODULE MCDownloads -----------------------------
(***************************************************************************)
(* A download whose size its server alone tells, as large as the limit,    *)
(* and one that is larger than the limit although its feed says less.      *)
(***************************************************************************)
EXTENDS Downloads

CONSTANTS untold, short

MCSize == [e \in Episodes |-> IF e = short THEN 3 ELSE 2]
MCDeclared == [e \in Episodes |-> IF e = short THEN 1 ELSE None]

=============================================================================
