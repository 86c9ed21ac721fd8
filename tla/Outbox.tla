---------------------------------- MODULE Outbox ----------------------------------
(***************************************************************************)
(* The outbox of the API (apps/api/src/jobs/outbox.ts): work a commit      *)
(* causes is queued with the commit, and drained by any number of          *)
(* invocations at once: the stream's batches, the minute's schedule and    *)
(* requests that want one episode's entries now.  An entry that keeps      *)
(* failing is parked for the owner, who retries or discards it.            *)
(*                                                                         *)
(* A drain reads a shard once and then works from what it read.  `batch`   *)
(* holds that: the attempts of each entry it has still to run, as they     *)
(* were when the shard was read.                                           *)
(***************************************************************************)
EXTENDS Naturals, FiniteSets

CONSTANTS
  Entries,     \* entries, numbered in the order of their createdAt
  Drains,      \* invocations that drain at the same time
  Shards,      \* OUTBOX_SHARDS
  ShardOf,     \* the shard of an entry
  Accepts,     \* the entries a drain is asked for (opts.match)
  Limit,       \* the entries one drain runs (opts.limit)
  ParkAfter,   \* OUTBOX_PARK_AFTER
  AtMostOnce,  \* entries whose handler claims its marker first (push:status)
  MaxRetries,  \* bound: how often the owner retries an entry
  FailureCap,  \* bound: failures are counted up to here
  None         \* no item under the key

ASSUME OutboxConstants ==
  /\ Entries \subseteq Nat /\ IsFiniteSet(Entries)
  /\ Shards \in Nat \ {0}
  /\ ShardOf \in [Entries -> 0 .. Shards - 1]
  /\ Accepts \in [Drains -> SUBSET Entries]
  /\ Limit \in Nat \ {0}
  /\ ParkAfter \in Nat \ {0}
  /\ AtMostOnce \subseteq Entries
  /\ MaxRetries \in Nat
  /\ FailureCap \in Nat /\ FailureCap >= ParkAfter * (MaxRetries + 1)
  /\ None \notin Nat

VARIABLES
  pending,    \* the attempts of an OUTBOX# item
  parked,     \* PARKED# items
  marker,     \* U#APPLIED items
  effects,    \* how often the work of an entry was done
  queued,     \* entries ever queued
  done,       \* entries a drain deleted after their handler
  discarded,  \* entries the owner discarded
  failures,   \* failures of an entry so far
  retries,    \* how often the owner retried an entry
  drain       \* what an invocation is doing, with what it has read

history == <<queued, done, discarded, failures, retries>>
items == <<pending, parked, marker>>
vars == <<items, effects, history, drain>>

-----------------------------------------------------------------------------
NoBatch == [e \in Entries |-> None]

DrainStates == [pc: {"idle", "look", "claimed", "applied", "failed"},
                shard: 0 .. Shards, budget: 0 .. Limit,
                batch: [Entries -> Nat \cup {None}]]

Idle == [pc |-> "idle", shard |-> 0, budget |-> 0, batch |-> NoBatch]

Started == [Idle EXCEPT !.pc = "look", !.budget = Limit]

At(d, pc) == drain[d].pc = pc
Goto(d, pc) == drain' = [drain EXCEPT ![d].pc = pc]

InBatch(d) == {e \in Entries : drain[d].batch[e] # None}

\* The entry a drain has in hand is the oldest one left of its batch.
InHand(d, e) ==
  e \in InBatch(d) /\ \A f \in InBatch(d) : e <= f

\* An entry some drain has read and not finished with.
Held(e) == \E d \in Drains : e \in InBatch(d)

Exists(e) == pending[e] # None

Init ==
  /\ pending = [e \in Entries |-> None]
  /\ parked = {}
  /\ marker = {}
  /\ effects = [e \in Entries |-> 0]
  /\ queued = {}
  /\ done = {}
  /\ discarded = {}
  /\ failures = [e \in Entries |-> 0]
  /\ retries = [e \in Entries |-> 0]
  /\ drain = [d \in Drains |-> Idle]

-----------------------------------------------------------------------------
(* A drain *)

\* enqueue: in the transaction that made the work necessary.
Enqueue(e) ==
  /\ e \notin queued
  /\ queued' = queued \cup {e}
  /\ pending' = [pending EXCEPT ![e] = 0]
  /\ UNCHANGED <<parked, marker, effects, done, discarded, failures, retries, drain>>

BeginDrain(d) ==
  /\ At(d, "idle")
  /\ drain' = [drain EXCEPT ![d] = Started]
  /\ UNCHANGED <<items, effects, history>>

\* The first `budget` entries of the shard, oldest first (queryAll, max).
Oldest(shard, budget) ==
  LET here == {e \in Entries : ShardOf[e] = shard /\ Exists(e)}
  IN  {e \in here : Cardinality({f \in here : f < e}) < budget}

\* The next shard is read, while the budget lasts.
ReadShard(d) ==
  /\ At(d, "look")
  /\ InBatch(d) = {}
  /\ LET s == drain[d]
         read == Oldest(s.shard, s.budget) \cap Accepts[d]
     IN /\ s.shard < Shards
        /\ s.budget > 0
        /\ drain' = [drain EXCEPT ![d] = [s EXCEPT
             !.shard = @ + 1,
             !.batch = [e \in Entries |-> IF e \in read THEN pending[e] ELSE None]]]
  /\ UNCHANGED <<items, effects, history>>

EndDrain(d) ==
  /\ At(d, "look")
  /\ InBatch(d) = {}
  /\ drain[d].shard = Shards \/ drain[d].budget = 0
  /\ drain' = [drain EXCEPT ![d] = Idle]
  /\ UNCHANGED <<items, effects, history>>

\* The loop goes on to the next entry; this one has used a unit of budget.
Finished(s, e) ==
  [s EXCEPT !.pc = "look", !.budget = @ - 1, !.batch = [@ EXCEPT ![e] = None]]

Finish(d, e) == drain' = [drain EXCEPT ![d] = Finished(@, e)]

-----------------------------------------------------------------------------
(* The handler of the entry in hand *)

\* Mutant: the handler does its work without asking for the marker.
DoneBeforeNever(e) == FALSE

\* The marker says an earlier run did the work.
DoneBefore(e) == e \in marker

\* Mutant: every handler claims its marker in a write before its work.
ClaimsAlways(e) == TRUE

\* push.ts statusPushHandler claims the marker on its own, before it sends.
ClaimsFirst(e) == e \in AtMostOnce

\* heat.bump: the work and the marker are one transaction.
Apply(d, e) ==
  /\ At(d, "look")
  /\ ~ClaimsFirst(e)
  /\ marker' = marker \cup {e}
  /\ effects' = IF DoneBefore(e) THEN effects ELSE [effects EXCEPT ![e] = @ + 1]
  /\ Goto(d, "applied")
  /\ UNCHANGED <<pending, parked, history>>

\* push:status: the marker is put if absent; when it is there, nothing is sent.
Claim(d, e) ==
  /\ At(d, "look")
  /\ ClaimsFirst(e)
  /\ marker' = marker \cup {e}
  /\ Goto(d, IF DoneBefore(e) THEN "applied" ELSE "claimed")
  /\ UNCHANGED <<pending, parked, effects, history>>

\* The push goes out.
Send(d, e) ==
  /\ At(d, "claimed")
  /\ effects' = [effects EXCEPT ![e] = @ + 1]
  /\ Goto(d, "applied")
  /\ UNCHANGED <<items, history>>

\* Sending failed: the handler catches it and returns.
SendSkipped(d) ==
  /\ At(d, "claimed")
  /\ Goto(d, "applied")
  /\ UNCHANGED <<items, effects, history>>

\* Bounded: failures past FailureCap are not told apart.
Fail(d, e) ==
  /\ Goto(d, "failed")
  /\ failures' = [failures EXCEPT ![e] = IF @ < FailureCap THEN @ + 1 ELSE @]
  /\ UNCHANGED <<items, effects, queued, done, discarded, retries>>

\* No handler for the kind, or it threw before its work.
HandlerFails(d, e) == At(d, "look") /\ Fail(d, e)

\* The delete threw, or the handler did after its transaction had committed.
DeleteFails(d, e) == At(d, "applied") /\ Fail(d, e)

\* The entry is deleted, whoever else has run or moved it meanwhile.
DeleteEntry(d, e) ==
  /\ At(d, "applied")
  /\ pending' = [pending EXCEPT ![e] = None]
  /\ done' = done \cup {e}
  /\ Finish(d, e)
  /\ UNCHANGED <<parked, marker, effects, queued, discarded, failures, retries>>

-----------------------------------------------------------------------------
(* After a failure *)

SpentTries(d, e) == drain[d].batch[e] + 1 >= ParkAfter

\* Mutant: a failure is not counted.
NotedNever(attempts) == attempts

\* ADD 1, only where the item exists.
Noted(attempts) == IF attempts = None THEN None ELSE attempts + 1

CountAttempt(d, e) ==
  /\ At(d, "failed")
  /\ ~SpentTries(d, e)
  /\ pending' = [pending EXCEPT ![e] = Noted(@)]
  /\ Finish(d, e)
  /\ UNCHANGED <<parked, marker, effects, history>>

\* Mutant: the move asks only that the entry is there.
UnmovedIfThere(e, seen) == Exists(e)

\* Mutant: the move asks nothing of the entry.
UnmovedAlways(e, seen) == TRUE

\* The condition of the move: nobody changed the attempts since the read.
Unmoved(e, seen) == pending[e] = seen

\* One transaction deletes the entry and puts it under PARKED#.
Park(d, e) ==
  /\ At(d, "failed")
  /\ SpentTries(d, e)
  /\ Unmoved(e, drain[d].batch[e])
  /\ e \notin parked
  /\ pending' = [pending EXCEPT ![e] = None]
  /\ parked' = parked \cup {e}
  /\ Finish(d, e)
  /\ UNCHANGED <<marker, effects, history>>

\* The write failed or lost the race; the error is swallowed.
NotNoted(d, e) ==
  /\ At(d, "failed")
  /\ Finish(d, e)
  /\ UNCHANGED <<items, effects, history>>

\* The invocation ends here.
Stop(d) ==
  /\ ~At(d, "idle")
  /\ drain' = [drain EXCEPT ![d] = Idle]
  /\ UNCHANGED <<items, effects, history>>

-----------------------------------------------------------------------------
(* The owner, and time *)

\* retryParked: back under OUTBOX# with no attempts.
Retry(e) ==
  /\ e \in parked
  /\ ~Exists(e)
  /\ retries[e] < MaxRetries
  /\ parked' = parked \ {e}
  /\ pending' = [pending EXCEPT ![e] = 0]
  /\ retries' = [retries EXCEPT ![e] = @ + 1]
  /\ UNCHANGED <<marker, effects, queued, done, discarded, failures, drain>>

\* discardParked
Discard(e) ==
  /\ e \in parked
  /\ parked' = parked \ {e}
  /\ discarded' = discarded \cup {e}
  /\ UNCHANGED <<pending, marker, effects, queued, done, failures, retries, drain>>

\* The marker lives two days: longer than a drain, and longer than an entry
\* that is drained every minute stays pending.
MarkerExpires(e) ==
  /\ e \in marker
  /\ ~Exists(e)
  /\ ~Held(e)
  /\ marker' = marker \ {e}
  /\ UNCHANGED <<pending, parked, effects, history, drain>>

-----------------------------------------------------------------------------
Handle(d, e) ==
  \/ Apply(d, e)
  \/ Claim(d, e)
  \/ HandlerFails(d, e)

Conclude(d, e) ==
  \/ DeleteEntry(d, e)
  \/ CountAttempt(d, e)
  \/ Park(d, e)

OnEntry(d, e) ==
  /\ InHand(d, e)
  /\ \/ Handle(d, e)
     \/ Send(d, e)
     \/ SendSkipped(d)
     \/ DeleteFails(d, e)
     \/ Conclude(d, e)
     \/ NotNoted(d, e)

Loop(d) ==
  \/ BeginDrain(d)
  \/ ReadShard(d)
  \/ EndDrain(d)

Next ==
  \/ \E e \in Entries : Enqueue(e) \/ Retry(e) \/ Discard(e) \/ MarkerExpires(e)
  \/ \E d \in Drains :
       \/ Loop(d)
       \/ Stop(d)
       \/ \E e \in Entries : OnEntry(d, e)

Spec == Init /\ [][Next]_vars

-----------------------------------------------------------------------------
(* Properties *)

\* Items and drains have their shape: a drain never runs more entries than
\* its limit, however the entries are spread over the shards.
TypeOK ==
  /\ pending \in [Entries -> Nat \cup {None}]
  /\ parked \subseteq Entries
  /\ marker \subseteq Entries
  /\ effects \in [Entries -> Nat]
  /\ queued \subseteq Entries
  /\ done \subseteq Entries
  /\ discarded \subseteq Entries
  /\ failures \in [Entries -> 0 .. FailureCap]
  /\ retries \in [Entries -> 0 .. MaxRetries]
  /\ drain \in [Drains -> DrainStates]

\* An entry is never both waiting to be drained and parked: a late failure
\* of a drain that read it before it was moved does not bring it back.
OnePlace ==
  \A e \in Entries : ~(Exists(e) /\ e \in parked)

\* Gone from the queue and from the parked ones means the work was done or
\* the owner gave it up, whatever failed or stopped on the way ("nothing is
\* dropped").  A handler that claims its marker first may send nothing.
NothingDropped ==
  \A e \in queued \ AtMostOnce :
    Exists(e) \/ e \in parked \/ e \in discarded \/ effects[e] > 0

\* Work is done once, and once more only for each retry by the owner: two
\* drains of one entry and a crash before the delete do not repeat it.
WorkNotRepeated ==
  \A e \in Entries : effects[e] <= 1 + retries[e]

\* Each time an entry was parked, ParkAfter failures of its own paid for it:
\* no failure counts for two parkings, however stale the drain that saw it.
ParkingsPaid ==
  \A e \in Entries :
    failures[e] >= ParkAfter *
      (retries[e] + IF e \in parked \cup discarded THEN 1 ELSE 0)

\* An entry that is gone never comes back.
GoneStaysGone ==
  [][\A e \in queued :
       ~Exists(e) /\ e \notin parked => ~Exists(e)' /\ e \notin parked']_vars

-----------------------------------------------------------------------------
(* Liveness.  A drain starts every minute and ends in time.  Its handlers   *)
(* may fail every time; but not every drain is stopped before it reads,     *)
(* runs or settles an entry, and not every such write is refused.           *)

Fairness ==
  /\ \A d \in Drains :
       /\ WF_vars(Loop(d))
       /\ SF_vars(ReadShard(d))
       /\ WF_vars(Stop(d))
  /\ \A e \in Entries :
       /\ SF_vars(\E d \in Drains : InHand(d, e) /\ Handle(d, e))
       /\ SF_vars(\E d \in Drains : InHand(d, e) /\ Conclude(d, e))

FairSpec == Spec /\ Fairness

\* Every entry leaves the queue in the end, done or parked, even when older
\* ones that always fail use up the whole limit of every drain.
Settles ==
  \A e \in Entries : Exists(e) ~> ~Exists(e)

=============================================================================
