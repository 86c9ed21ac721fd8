------------------------------- MODULE MCOutbox -------------------------------
(***************************************************************************)
(* Two entries in two shards, one of them a status push; two drains.       *)
(***************************************************************************)
EXTENDS Outbox, TLC

MCShardOf == [e \in Entries |-> e % Shards]
MCAccepts == [d \in Drains |-> Entries]
MCAtMostOnce == Entries \cap {2}
Interchangeable == Permutations(Drains)

=============================================================================
