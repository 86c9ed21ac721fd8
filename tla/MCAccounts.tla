------------------------------ MODULE MCAccounts ------------------------------
(***************************************************************************)
(* An account and the one that takes its address after it.                 *)
(***************************************************************************)
EXTENDS Accounts

=============================================================================
