------------------------------- MODULE PlusLine -------------------------------
(***************************************************************************)
(* What the store of PLUS promises: every change is made of the rows that  *)
(* stand, at once, with the digest queue told their latest end (`L#<id>/   *)
(* PLUSV`: "the old FOR UPDATE").  Only the clock may be a little old.     *)
(***************************************************************************)
EXTENDS Naturals

CONSTANTS
  NoRows, None,         \* no rows, no end
  Change,               \* the changes that are asked for
  Permitted(_, _, _),   \* what a change asks of the rows and the used codes
  Changed(_, _, _, _),  \* the rows a change makes of the rows, begun and
                        \* computed at two times
  UsedAfter(_, _),      \* the codes used after it
  LatestEnd(_, _)       \* the latest end of rows as of a time

VARIABLES
  now,    \* the server's clock
  row,    \* the rows of the listener
  queue,  \* the end under which the digest queue holds them
  used    \* the codes the listener has redeemed

Init == now = 0 /\ row = NoRows /\ queue = None /\ used = {}

Tick == now' = now + 1 /\ UNCHANGED <<row, queue, used>>

Make(c, at, t) ==
  /\ at <= t /\ t <= now
  /\ Permitted(c, row, used)
  /\ row' = Changed(c, row, at, t)
  /\ queue' = LatestEnd(row', t)
  /\ used' = UsedAfter(c, used)
  /\ now' = now

Next == Tick \/ \E c \in Change, at \in 0..now, t \in 0..now : Make(c, at, t)

Spec == Init /\ [][Next]_<<now, row, queue, used>>

=============================================================================
