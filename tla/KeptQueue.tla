------------------------------ MODULE KeptQueue ------------------------------
(***************************************************************************)
(* What the synced playlist promises an account: its list is replaced only *)
(* by a phone that has held or saved that very version, or when the list   *)
(* is empty ("last writer asks", packages/player-core/src/queue-sync.ts).  *)
(***************************************************************************)
EXTENDS Naturals

CONSTANTS Accounts, Devices, Lists, Empty

VARIABLES
  list,      \* the list of each account
  version,   \* its version
  held       \* the versions each phone has held or saved

Init ==
  /\ list = [a \in Accounts |-> Empty]
  /\ version = [a \in Accounts |-> 0]
  /\ held = [d \in Devices |-> {}]

\* A phone takes, saves or finds on itself a version the account has had.
Keep(d, a) ==
  /\ \E v \in 0..version[a] : held' = [held EXCEPT ![d] = @ \cup {<<a, v>>}]
  /\ UNCHANGED <<list, version>>

Replace(d, a, l) ==
  /\ list[a] = Empty \/ <<a, version[a]>> \in held[d]
  /\ list' = [list EXCEPT ![a] = l]
  /\ version' = [version EXCEPT ![a] = @ + 1]
  /\ held' = [held EXCEPT ![d] = @ \cup {<<a, version[a] + 1>>}]

Next == \E d \in Devices, a \in Accounts :
          Keep(d, a) \/ \E l \in Lists : Replace(d, a, l)

Spec == Init /\ [][Next]_<<list, version, held>>

=============================================================================
