----------------------------- MODULE MCPaidShows -----------------------------
(***************************************************************************)
(* Shows, gifts and tips: a show bought by one account, a gift of the same *)
(* show, and a second token with the first one's order id.                 *)
(***************************************************************************)
EXTENDS PaidLane, TLC

CONSTANTS ann, bob, gifted, sold, again, o1, o2, feed, code

MCKind == gifted :> "gift" @@ sold :> "show" @@ again :> "tip"
MCOrderOf == gifted :> o1 @@ sold :> o2 @@ again :> o2
MCShowOf == [t \in Tokens |-> feed]
MCAccountOf == gifted :> ann @@ sold :> bob @@ again :> bob
MCCodeShow == [c \in Codes |-> feed]
MCMaxUses == [c \in Codes |-> 1]
Interchangeable == Permutations(Workers)

=============================================================================
