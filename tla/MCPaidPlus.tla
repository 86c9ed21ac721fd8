------------------------------ MODULE MCPaidPlus ------------------------------
(***************************************************************************)
(* PLUS from the store: a subscription that is sent again, lapses,         *)
(* resumes, is refunded and is acknowledged late.                          *)
(***************************************************************************)
EXTENDS PaidLane

CONSTANTS ann, old, feed

MCKind == [t \in Tokens |-> "plus"]
MCOrderOf == [t \in Tokens |-> t]
MCShowOf == [t \in Tokens |-> feed]
MCAccountOf == [t \in Tokens |-> None]
MCCodeShow == << >>
MCMaxUses == << >>

=============================================================================
