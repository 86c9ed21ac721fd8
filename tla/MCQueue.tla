------------------------------- MODULE MCQueue -------------------------------
(***************************************************************************)
(* Two phones of one account; or one phone that changes accounts.          *)
(***************************************************************************)
EXTENDS QueueSync

=============================================================================
