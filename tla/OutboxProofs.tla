------------------------------ MODULE OutboxProofs ------------------------------
(***************************************************************************)
(* Theorems about Outbox, for any entries, shards, limits and number of    *)
(* invocations that drain at the same time.                                *)
(***************************************************************************)
EXTENDS Outbox, FiniteSetTheorems, TLAPS

\* The entries a drain has still to run are no more than its budget.
BudgetCovers ==
  \A d \in Drains : Cardinality(InBatch(d)) <= drain[d].budget

TypedInv == TypeOK /\ BudgetCovers

-----------------------------------------------------------------------------
(* Reading a shard *)

\* Sets of entries are finite, and so are the parts of them.
LEMMA EntriesFinite ==
  ASSUME NEW S, S \subseteq Entries
  PROVE  IsFiniteSet(S) /\ Cardinality(S) \in Nat
<1>1. IsFiniteSet(S)
  BY OutboxConstants, FS_Subset
<1> QED
  BY <1>1, FS_CardinalityType

\* The read of a shard never returns more than it was limited to: each entry
\* it returns has a number of older ones below the limit, all different.
LEMMA OldestWithinBudget ==
  ASSUME NEW shard, NEW budget \in Nat
  PROVE  /\ Oldest(shard, budget) \subseteq Entries
         /\ \A e \in Oldest(shard, budget) : Exists(e)
         /\ Cardinality(Oldest(shard, budget)) <= budget
<1> DEFINE here == {e \in Entries : ShardOf[e] = shard /\ Exists(e)}
           older(e) == {f \in here : f < e}
           read == {e \in here : Cardinality(older(e)) < budget}
           places == 0 .. budget - 1
           place == [e \in read |-> Cardinality(older(e))]
<1>1. Oldest(shard, budget) = read
  BY DEF Oldest
<1>2. read \subseteq Entries /\ \A e \in read : Exists(e)
  OBVIOUS
<1>3. \A e \in here : IsFiniteSet(older(e)) /\ Cardinality(older(e)) \in Nat
  <2> SUFFICES ASSUME NEW e \in here
               PROVE  IsFiniteSet(older(e)) /\ Cardinality(older(e)) \in Nat
    OBVIOUS
  <2>1. older(e) \subseteq Entries
    OBVIOUS
  <2> QED
    BY <2>1, EntriesFinite
<1>4. place \in [read -> places]
  <2> SUFFICES ASSUME NEW e \in read PROVE Cardinality(older(e)) \in places
    OBVIOUS
  <2>1. Cardinality(older(e)) \in Nat /\ Cardinality(older(e)) < budget
    BY <1>3
  <2> HIDE DEF older
  <2> QED
    BY <2>1
<1>5. ASSUME NEW e \in read, NEW f \in read, e < f
      PROVE  place[e] < place[f]
  <2>1. e \in Nat /\ f \in Nat
    BY OutboxConstants
  <2>2. ASSUME NEW g \in older(e) PROVE g \in older(f) \ {e}
    <3>1. g \in here /\ g < e /\ g \in Nat
      BY OutboxConstants
    <3>2. g < f /\ g # e
      BY <3>1, <2>1, <1>5
    <3> QED
      BY <3>1, <3>2
  <2>3. e \in older(f)
    BY <1>5
  <2>4. IsFiniteSet(older(f) \ {e})
        /\ Cardinality(older(f) \ {e}) = Cardinality(older(f)) - 1
    BY <2>3, <1>3, FS_RemoveElement
  <2>5. Cardinality(older(e)) <= Cardinality(older(f) \ {e})
    BY <2>2, <2>4, FS_Subset
  <2>6. Cardinality(older(e)) \in Nat /\ Cardinality(older(f)) \in Nat
    BY <1>3
  <2> HIDE DEF older
  <2>7. Cardinality(older(e)) < Cardinality(older(f))
    BY <2>4, <2>5, <2>6
  <2> QED
    BY <2>7
<1>6. ASSUME NEW e \in read, NEW f \in read, place[e] = place[f]
      PROVE  e = f
  <2>1. e \in Nat /\ f \in Nat /\ place[e] \in Nat /\ place[f] \in Nat
    BY OutboxConstants, <1>3
  <2>2. place[e] < place[f] \/ place[f] < place[e] \/ ~(e < f \/ f < e)
    BY <1>5
  <2> HIDE DEF place, read
  <2>3. ~(e < f \/ f < e)
    BY <1>6, <2>1, <2>2
  <2> QED
    BY <2>1, <2>3
<1>7. place \in Injection(read, places)
  <2> HIDE DEF place, read, places
  <2> QED
    BY <1>4, <1>6 DEF Injection, IsInjective
<1>8. IsFiniteSet(places) /\ Cardinality(places) = budget
  BY FS_Interval
<1>9. Cardinality(read) <= budget
  <2> HIDE DEF place, read, places
  <2> QED
    BY <1>7, <1>8, FS_Injection
<1> QED
  BY <1>1, <1>2, <1>9

-----------------------------------------------------------------------------
(* A drain's own step *)

\* Only d moves, and lands in state s.
Moves(d, s) == drain' = [drain EXCEPT ![d] = s]

\* The drain that moves is in its new state, the others are where they were.
LEMMA MovedDrains ==
  ASSUME TypeOK, NEW d \in Drains, NEW STATE s, Moves(d, s)
  PROVE  /\ drain'[d] = s
         /\ \A c \in Drains \ {d} : drain'[c] = drain[c]
         /\ s \in DrainStates => drain' \in [Drains -> DrainStates]
BY DEF TypeOK, Moves

\* A drain that goes on within its entry keeps its batch and its budget.
LEMMA GotoMoves ==
  ASSUME TypeOK, NEW d \in Drains, NEW STATE pc, Goto(d, pc),
         pc \in {"idle", "look", "claimed", "applied", "failed"}
  PROVE  /\ drain' \in [Drains -> DrainStates]
         /\ drain'[d].pc = pc
         /\ \A c \in Drains \ {d} : drain'[c] = drain[c]
         /\ \A c \in Drains : drain'[c].batch = drain[c].batch
                              /\ drain'[c].budget = drain[c].budget
<1>1. drain[d] \in DrainStates
  BY DEF TypeOK
<1>2. drain' = [drain EXCEPT ![d] = [drain[d] EXCEPT !.pc = pc]]
  BY DEF Goto, TypeOK
<1> DEFINE s == [drain[d] EXCEPT !.pc = pc]
<1>3. s \in DrainStates /\ s.pc = pc /\ s.batch = drain[d].batch
      /\ s.budget = drain[d].budget
  BY <1>1 DEF DrainStates
<1>4. drain' = [drain EXCEPT ![d] = s]
  BY <1>2
<1> HIDE DEF s
<1>5. drain'[d] = s /\ \A c \in Drains \ {d} : drain'[c] = drain[c]
  BY <1>4 DEF TypeOK
<1>6. drain' \in [Drains -> DrainStates]
  BY <1>3, <1>4 DEF TypeOK
<1>7. \A c \in Drains : drain'[c].batch = drain[c].batch
                        /\ drain'[c].budget = drain[c].budget
  <2> SUFFICES ASSUME NEW c \in Drains
               PROVE  drain'[c].batch = drain[c].batch
                      /\ drain'[c].budget = drain[c].budget
    OBVIOUS
  <2>1. CASE c = d
    BY <2>1, <1>3, <1>5
  <2>2. CASE c # d
    BY <2>2, <1>5
  <2> QED
    BY <2>1, <2>2
<1> QED
  BY <1>3, <1>5, <1>6, <1>7

\* What Finished leaves of a drain that has e in hand and budget for it.
LEMMA FinishedState ==
  ASSUME NEW s \in DrainStates, NEW e \in Entries, s.budget > 0
  PROVE  /\ Finished(s, e) \in DrainStates
         /\ Finished(s, e).pc = "look"
         /\ Finished(s, e).budget = s.budget - 1
         /\ Finished(s, e).batch = [s.batch EXCEPT ![e] = None]
<1> DEFINE rest == [s.batch EXCEPT ![e] = None]
           less == s.budget - 1
<1>1. rest \in [Entries -> Nat \cup {None}]
  BY DEF DrainStates
<1>2. less \in 0 .. Limit
  BY OutboxConstants DEF DrainStates
<1>3. Finished(s, e) = [s EXCEPT !.pc = "look", !.budget = less, !.batch = rest]
  BY DEF Finished
<1> HIDE DEF rest, less
<1>4. /\ Finished(s, e) \in DrainStates
      /\ Finished(s, e).pc = "look"
      /\ Finished(s, e).budget = less
      /\ Finished(s, e).batch = rest
  BY <1>1, <1>2, <1>3 DEF DrainStates
<1> QED
  BY <1>4 DEF rest, less

\* While an entry is in hand there is budget for it.
LEMMA HandHasBudget ==
  ASSUME TypedInv, NEW d \in Drains, NEW e \in InBatch(d)
  PROVE  drain[d].budget > 0
<1>1. InBatch(d) \subseteq Entries
  BY DEF InBatch
<1>2. IsFiniteSet(InBatch(d)) /\ Cardinality(InBatch(d)) \in Nat
  BY <1>1, EntriesFinite
<1>3. Cardinality(InBatch(d)) # 0
  BY <1>2, FS_EmptySet
<1>4. Cardinality(InBatch(d)) <= drain[d].budget
  BY DEF TypedInv, BudgetCovers
<1>5. drain[d].budget \in Nat
  BY OutboxConstants DEF TypedInv, TypeOK, DrainStates
<1> QED
  BY <1>2, <1>3, <1>4, <1>5


\* A drain that settles the entry in hand: the entry leaves its batch, and
\* nothing else of the drains changes.
LEMMA FinishMoves ==
  ASSUME TypedInv, NEW d \in Drains, NEW e \in Entries, InHand(d, e),
         Finish(d, e)
  PROVE  /\ drain' \in [Drains -> DrainStates]
         /\ drain'[d].pc = "look"
         /\ drain'[d].budget = drain[d].budget - 1
         /\ drain'[d].batch = [drain[d].batch EXCEPT ![e] = None]
         /\ \A c \in Drains \ {d} : drain'[c] = drain[c]
<1> DEFINE s == Finished(drain[d], e)
<1>1. drain[d] \in DrainStates /\ TypeOK
  BY DEF TypedInv, TypeOK
<1>2. drain[d].budget > 0
  BY HandHasBudget DEF InHand
<1>3. /\ s \in DrainStates
      /\ s.pc = "look"
      /\ s.budget = drain[d].budget - 1
      /\ s.batch = [drain[d].batch EXCEPT ![e] = None]
  BY <1>1, <1>2, FinishedState
<1>4. Moves(d, s)
  BY DEF Finish, Moves
<1> HIDE DEF s
<1> QED
  BY <1>1, <1>3, <1>4, MovedDrains

\* Idle and Started are states of a drain, with nothing to run.
LEMMA RestingStates ==
  /\ Idle \in DrainStates /\ Idle.pc = "idle" /\ Idle.batch = NoBatch
  /\ Started \in DrainStates /\ Started.pc = "look" /\ Started.batch = NoBatch
  /\ NoBatch \in [Entries -> Nat \cup {None}]
  /\ Idle.budget \in Nat /\ Started.budget \in Nat
<1>1. NoBatch \in [Entries -> Nat \cup {None}]
  BY DEF NoBatch
<1>2. 0 \in 0 .. Shards /\ 0 \in 0 .. Limit /\ Limit \in 0 .. Limit
  BY OutboxConstants
<1>3. Idle \in DrainStates /\ Idle.pc = "idle" /\ Idle.batch = NoBatch
      /\ Idle.budget = 0
  BY <1>1, <1>2 DEF Idle, DrainStates
<1>4. /\ Started \in DrainStates
      /\ Started.pc = "look"
      /\ Started.batch = NoBatch
      /\ Started.budget = Limit
  BY <1>2, <1>3 DEF Started, DrainStates
<1> QED
  BY <1>1, <1>3, <1>4, OutboxConstants

\* What a drain takes from a shard it reads.
LEMMA ReadMoves ==
  ASSUME TypedInv, NEW d \in Drains, ReadShard(d)
  PROVE  /\ drain' \in [Drains -> DrainStates]
         /\ drain'[d].pc = "look"
         /\ drain'[d].budget = drain[d].budget
         /\ \A e \in Entries : drain'[d].batch[e] # None => Exists(e)
         /\ Cardinality({e \in Entries : drain'[d].batch[e] # None})
              <= drain[d].budget
         /\ \A c \in Drains \ {d} : drain'[c] = drain[c]
<1> DEFINE s == drain[d]
           read == Oldest(s.shard, s.budget) \cap Accepts[d]
           batch == [e \in Entries |-> IF e \in read THEN pending[e] ELSE None]
           next == s.shard + 1
           t == [s EXCEPT !.shard = next, !.batch = batch]
<1>1. s \in DrainStates /\ TypeOK
  BY DEF TypedInv, TypeOK
<1>2. s.shard < Shards /\ s.budget > 0 /\ s.pc = "look"
  BY DEF ReadShard, At
<1>3. s.budget \in Nat
  BY <1>1, OutboxConstants DEF DrainStates
<1>4. batch \in [Entries -> Nat \cup {None}]
  BY DEF TypedInv, TypeOK
<1>5. /\ Oldest(s.shard, s.budget) \subseteq Entries
      /\ \A e \in Oldest(s.shard, s.budget) : Exists(e)
      /\ Cardinality(Oldest(s.shard, s.budget)) <= s.budget
  BY <1>3, OldestWithinBudget
<1>6. {e \in Entries : batch[e] # None} = read
  BY <1>5 DEF Exists
<1>7. Cardinality(read) <= s.budget
  <2>1. IsFiniteSet(Oldest(s.shard, s.budget))
        /\ Cardinality(Oldest(s.shard, s.budget)) \in Nat
    BY <1>5, EntriesFinite
  <2>2. IsFiniteSet(read) /\ Cardinality(read) \in Nat
        /\ Cardinality(read) <= Cardinality(Oldest(s.shard, s.budget))
    <3>1. read \subseteq Oldest(s.shard, s.budget)
      OBVIOUS
    <3> HIDE DEF read
    <3>2. IsFiniteSet(read)
          /\ Cardinality(read) <= Cardinality(Oldest(s.shard, s.budget))
      BY <3>1, <2>1, FS_Subset
    <3> QED
      BY <3>2, FS_CardinalityType
  <2> HIDE DEF read
  <2> QED
    BY <2>1, <2>2, <1>5, <1>3
<1>8. drain' = [drain EXCEPT ![d] = t]
  BY DEF ReadShard
<1>9. \A e \in read : Exists(e)
  BY <1>5
<1> HIDE DEF batch, read
<1>10. t \in DrainStates /\ t.pc = "look" /\ t.budget = s.budget /\ t.batch = batch
  <2>1. next \in 0 .. Shards
    BY <1>1, <1>2, OutboxConstants DEF DrainStates
  <2> HIDE DEF s, next
  <2> QED
    BY <1>1, <1>2, <1>4, <2>1 DEF DrainStates
<1>11. Moves(d, t)
  BY <1>8 DEF Moves
<1> HIDE DEF t
<1>12. /\ drain'[d] = t
       /\ \A c \in Drains \ {d} : drain'[c] = drain[c]
       /\ drain' \in [Drains -> DrainStates]
  BY <1>1, <1>10, <1>11, MovedDrains
<1>13. \A e \in Entries : batch[e] # None => Exists(e)
  BY <1>6, <1>9
<1>14. {e \in Entries : drain'[d].batch[e] # None} = read
  BY <1>6, <1>10, <1>12
<1> QED
  BY <1>7, <1>10, <1>12, <1>13, <1>14

-----------------------------------------------------------------------------
(* Type correctness *)

\* The invariant of the drains, when only d moves.
LEMMA BudgetKept ==
  ASSUME TypedInv, NEW d \in Drains,
         \A c \in Drains \ {d} : drain'[c] = drain[c],
         Cardinality({e \in Entries : drain'[d].batch[e] # None})
           <= drain'[d].budget
  PROVE  BudgetCovers'
<1> SUFFICES ASSUME NEW c \in Drains
             PROVE  Cardinality({e \in Entries : drain'[c].batch[e] # None})
                      <= drain'[c].budget
  BY DEF BudgetCovers, InBatch
<1>1. CASE c = d
  BY <1>1
<1>2. CASE c # d
  BY <1>2 DEF TypedInv, BudgetCovers, InBatch
<1> QED
  BY <1>1, <1>2

\* Steps that start or end a drain keep the types.
LEMMA LoopTyped ==
  ASSUME TypedInv, NEW d \in Drains, Loop(d) \/ Stop(d)
  PROVE  drain' \in [Drains -> DrainStates] /\ BudgetCovers'
<1>1. ASSUME NEW s, s \in {Idle, Started}, Moves(d, s)
      PROVE  drain' \in [Drains -> DrainStates] /\ BudgetCovers'
  <2>1. /\ drain'[d] = s
        /\ \A c \in Drains \ {d} : drain'[c] = drain[c]
        /\ drain' \in [Drains -> DrainStates]
    BY <1>1, MovedDrains, RestingStates DEF TypedInv
  <2>2. {e \in Entries : drain'[d].batch[e] # None} = {}
    BY <2>1, <1>1, RestingStates DEF NoBatch
  <2>3. Cardinality({e \in Entries : drain'[d].batch[e] # None})
          <= drain'[d].budget
    BY <2>1, <2>2, <1>1, RestingStates, FS_EmptySet
  <2> QED
    BY <2>1, <2>3, BudgetKept
<1>2. CASE ReadShard(d)
  BY <1>2, ReadMoves, BudgetKept
<1>3. CASE BeginDrain(d)
  BY <1>1, <1>3 DEF BeginDrain, Moves
<1>4. CASE EndDrain(d)
  BY <1>1, <1>4 DEF EndDrain, Moves
<1>5. CASE Stop(d)
  BY <1>1, <1>5 DEF Stop, Moves
<1> QED
  BY <1>2, <1>3, <1>4, <1>5 DEF Loop

\* Settling the entry in hand keeps the types of the drains.
LEMMA FinishTyped ==
  ASSUME TypedInv, NEW d \in Drains, NEW e \in Entries, InHand(d, e),
         Finish(d, e)
  PROVE  drain' \in [Drains -> DrainStates] /\ BudgetCovers'
<1>1. /\ drain' \in [Drains -> DrainStates]
      /\ drain'[d].budget = drain[d].budget - 1
      /\ drain'[d].batch = [drain[d].batch EXCEPT ![e] = None]
      /\ \A c \in Drains \ {d} : drain'[c] = drain[c]
  BY FinishMoves
<1>2. drain[d].batch \in [Entries -> Nat \cup {None}] /\ drain[d].budget \in Nat
  BY OutboxConstants DEF TypedInv, TypeOK, DrainStates
<1>3. {f \in Entries : drain'[d].batch[f] # None} = InBatch(d) \ {e}
  BY <1>1, <1>2 DEF InBatch
<1>4. InBatch(d) \subseteq Entries /\ e \in InBatch(d)
  BY DEF InBatch, InHand
<1>5. IsFiniteSet(InBatch(d)) /\ Cardinality(InBatch(d)) \in Nat
  BY <1>4, EntriesFinite
<1>6. Cardinality(InBatch(d) \ {e}) = Cardinality(InBatch(d)) - 1
  BY <1>4, <1>5, FS_RemoveElement
<1>7. Cardinality(InBatch(d)) <= drain[d].budget
  BY DEF TypedInv, BudgetCovers
<1>8. Cardinality({f \in Entries : drain'[d].batch[f] # None})
        <= drain'[d].budget
  <2> DEFINE before == Cardinality(InBatch(d))
             after == Cardinality(InBatch(d) \ {e})
             budget == drain[d].budget
  <2>1. before \in Nat /\ budget \in Nat /\ after = before - 1 /\ before <= budget
    BY <1>2, <1>5, <1>6, <1>7
  <2> HIDE DEF before, after, budget
  <2>2. after <= budget - 1
    BY <2>1
  <2> QED
    BY <1>1, <1>3, <2>2 DEF after, budget
<1> QED
  BY <1>1, <1>8, BudgetKept

\* Going on within the entry in hand keeps the types of the drains.
LEMMA GotoTyped ==
  ASSUME TypedInv, NEW d \in Drains, NEW STATE pc, Goto(d, pc),
         pc \in {"idle", "look", "claimed", "applied", "failed"}
  PROVE  drain' \in [Drains -> DrainStates] /\ BudgetCovers'
<1>1. /\ drain' \in [Drains -> DrainStates]
      /\ \A c \in Drains \ {d} : drain'[c] = drain[c]
      /\ drain'[d].batch = drain[d].batch
      /\ drain'[d].budget = drain[d].budget
  BY GotoMoves DEF TypedInv
<1>2. Cardinality({e \in Entries : drain'[d].batch[e] # None})
        <= drain'[d].budget
  BY <1>1 DEF TypedInv, BudgetCovers, InBatch
<1> QED
  BY <1>1, <1>2, BudgetKept

\* TypedInv holds at the start.
LEMMA TypedInit == Init => TypedInv
<1> SUFFICES ASSUME Init PROVE TypedInv
  OBVIOUS
<1>1. TypeOK
  BY RestingStates, OutboxConstants DEF Init, TypeOK
<1>2. ASSUME NEW d \in Drains
      PROVE  Cardinality(InBatch(d)) <= drain[d].budget
  <2>1. drain[d] = Idle
    BY DEF Init
  <2>2. InBatch(d) = {}
    BY <2>1, RestingStates DEF InBatch, NoBatch
  <2> QED
    BY <2>1, <2>2, FS_EmptySet, RestingStates
<1> QED
  BY <1>1, <1>2 DEF TypedInv, BudgetCovers

\* Steps that move no drain keep TypedInv.
LEMMA EntryStepTyped ==
  ASSUME TypedInv, NEW e \in Entries,
         Enqueue(e) \/ Retry(e) \/ Discard(e) \/ MarkerExpires(e)
  PROVE  TypedInv'
<1>1. UNCHANGED drain
  BY DEF Enqueue, Retry, Discard, MarkerExpires
<1>2. BudgetCovers'
  BY <1>1 DEF TypedInv, BudgetCovers, InBatch
<1>3. CASE Enqueue(e)
  BY <1>1, <1>2, <1>3 DEF Enqueue, TypedInv, TypeOK
<1>4. CASE Retry(e)
  <2>1. retries' \in [Entries -> 0 .. MaxRetries]
    BY <1>4, OutboxConstants DEF Retry, TypedInv, TypeOK
  <2> QED
    BY <1>1, <1>2, <1>4, <2>1 DEF Retry, TypedInv, TypeOK
<1>5. CASE Discard(e)
  BY <1>1, <1>2, <1>5 DEF Discard, TypedInv, TypeOK
<1>6. CASE MarkerExpires(e)
  BY <1>1, <1>2, <1>6 DEF MarkerExpires, TypedInv, TypeOK, history
<1> QED
  BY <1>3, <1>4, <1>5, <1>6

\* Steps of a drain on the entry in hand keep TypedInv.
LEMMA HandStepTyped ==
  ASSUME TypedInv, NEW d \in Drains, NEW e \in Entries, OnEntry(d, e)
  PROVE  TypedInv'
<1>1. InHand(d, e)
  BY DEF OnEntry
<1> USE DEF TypedInv, TypeOK, items, history
<1>2. CASE Apply(d, e)
  <2>1. effects' \in [Entries -> Nat]
    BY <1>2 DEF Apply
  <2>2. marker' \subseteq Entries
    BY <1>2 DEF Apply
  <2> QED
    BY <1>2, <2>1, <2>2, GotoTyped DEF Apply
<1>3. CASE Claim(d, e)
  BY <1>3, GotoTyped DEF Claim
<1>4. CASE Send(d, e)
  BY <1>4, GotoTyped DEF Send
<1>5. CASE SendSkipped(d)
  BY <1>5, GotoTyped DEF SendSkipped
<1>6. CASE HandlerFails(d, e) \/ DeleteFails(d, e)
  <2>1. Fail(d, e)
    BY <1>6 DEF HandlerFails, DeleteFails
  <2>2. failures' \in [Entries -> 0 .. FailureCap]
    BY <2>1, OutboxConstants DEF Fail
  <2> QED
    BY <2>1, <2>2, GotoTyped DEF Fail
<1>7. CASE DeleteEntry(d, e)
  BY <1>1, <1>7, FinishTyped DEF DeleteEntry
<1>8. CASE CountAttempt(d, e)
  <2>1. pending' \in [Entries -> Nat \cup {None}]
    BY <1>8 DEF CountAttempt, Noted
  <2> QED
    BY <1>1, <1>8, <2>1, FinishTyped DEF CountAttempt
<1>9. CASE Park(d, e)
  BY <1>1, <1>9, FinishTyped DEF Park
<1>10. CASE NotNoted(d, e)
  BY <1>1, <1>10, FinishTyped DEF NotNoted
<1> QED
  BY <1>2, <1>3, <1>4, <1>5, <1>6, <1>7, <1>8, <1>9, <1>10
     DEF OnEntry, Handle, Conclude

\* Every step keeps TypedInv.
LEMMA TypedStep == TypedInv /\ [Next]_vars => TypedInv'
<1> SUFFICES ASSUME TypedInv, [Next]_vars PROVE TypedInv'
  OBVIOUS
<1>1. ASSUME NEW d \in Drains, Loop(d) \/ Stop(d) PROVE TypedInv'
  BY <1>1, LoopTyped
     DEF Loop, BeginDrain, ReadShard, EndDrain, Stop, TypedInv, TypeOK, items, history
<1>2. CASE UNCHANGED vars
  BY <1>2 DEF vars, items, history, TypedInv, TypeOK, BudgetCovers, InBatch
<1> QED
  BY <1>1, <1>2, EntryStepTyped, HandStepTyped DEF Next

\* The state of the outbox is what outbox.ts stores, for every instance; a
\* drain never runs more entries than its limit, over all its shards.
THEOREM TypeCorrect == Spec => []TypeOK
<1>1. TypedInv => TypeOK
  BY DEF TypedInv
<1> QED
  BY <1>1, TypedInit, TypedStep, PTL DEF Spec

-----------------------------------------------------------------------------
(* Hands: what the drains hold while others move *)

\* No drain gets an entry that was not there, and no drain but those that
\* already had it has an entry in hand past its handler.
LetsGo ==
  /\ \A e \in Entries : Held(e)' => Held(e) \/ Exists(e)
  /\ \A d \in Drains, e \in Entries, pc \in {"claimed", "applied"} :
       InHand(d, e)' /\ At(d, pc)' => InHand(d, e) /\ At(d, pc)

\* A drain that only rests or looks for more afterwards lets go of its entry.
LEMMA RestLetsGo ==
  ASSUME NEW d \in Drains,
         \A c \in Drains \ {d} : drain'[c] = drain[c],
         drain'[d].pc \in {"idle", "look"},
         \A e \in Entries : drain'[d].batch[e] # None => e \in InBatch(d) \/ Exists(e)
  PROVE  LetsGo
<1>1. ASSUME NEW e \in Entries, Held(e)' PROVE Held(e) \/ Exists(e)
  <2>1. PICK c \in Drains : drain'[c].batch[e] # None
    BY <1>1 DEF Held, InBatch
  <2>2. CASE c = d
    BY <2>1, <2>2 DEF Held
  <2>3. CASE c # d
    BY <2>1, <2>3 DEF Held, InBatch
  <2> QED
    BY <2>2, <2>3
<1>2. ASSUME NEW c \in Drains, NEW e \in Entries, NEW pc \in {"claimed", "applied"},
             InHand(c, e)', At(c, pc)'
      PROVE  InHand(c, e) /\ At(c, pc)
  <2>1. c # d
    BY <1>2 DEF At
  <2>2. drain'[c] = drain[c]
    BY <2>1
  <2> QED
    BY <1>2, <2>2 DEF InHand, InBatch, At
<1> QED
  BY <1>1, <1>2 DEF LetsGo

\* Starting, reading, ending and stopping let go.
LEMMA LoopLetsGo ==
  ASSUME TypedInv, NEW d \in Drains, Loop(d) \/ Stop(d)
  PROVE  LetsGo
<1>1. ASSUME NEW s, s \in {Idle, Started}, Moves(d, s) PROVE LetsGo
  <2>1. drain'[d] = s /\ \A c \in Drains \ {d} : drain'[c] = drain[c]
    BY <1>1, MovedDrains DEF TypedInv
  <2>2. drain'[d].pc \in {"idle", "look"} /\ drain'[d].batch = NoBatch
    BY <2>1, <1>1, RestingStates
  <2> QED
    BY <2>1, <2>2, RestLetsGo DEF NoBatch
<1>2. CASE ReadShard(d)
  <2>1. /\ drain'[d].pc = "look"
        /\ \A e \in Entries : drain'[d].batch[e] # None => Exists(e)
        /\ \A c \in Drains \ {d} : drain'[c] = drain[c]
    BY <1>2, ReadMoves
  <2> QED
    BY <2>1, RestLetsGo
<1>3. CASE BeginDrain(d)
  BY <1>1, <1>3 DEF BeginDrain, Moves
<1>4. CASE EndDrain(d)
  BY <1>1, <1>4 DEF EndDrain, Moves
<1>5. CASE Stop(d)
  BY <1>1, <1>5 DEF Stop, Moves
<1> QED
  BY <1>2, <1>3, <1>4, <1>5 DEF Loop

\* Settling the entry in hand lets go.
LEMMA FinishLetsGo ==
  ASSUME TypedInv, NEW d \in Drains, NEW e \in Entries, InHand(d, e),
         Finish(d, e)
  PROVE  LetsGo
<1>1. /\ drain'[d].pc = "look"
      /\ drain'[d].batch = [drain[d].batch EXCEPT ![e] = None]
      /\ \A c \in Drains \ {d} : drain'[c] = drain[c]
  BY FinishMoves
<1>2. drain[d].batch \in [Entries -> Nat \cup {None}]
  BY DEF TypedInv, TypeOK, DrainStates
<1>3. \A f \in Entries : drain'[d].batch[f] # None => f \in InBatch(d)
  BY <1>1, <1>2 DEF InBatch
<1> QED
  BY <1>1, <1>3, RestLetsGo

\* Going on within an entry moves nobody's hands.
LEMMA GotoHands ==
  ASSUME TypedInv, NEW d \in Drains, NEW STATE pc, Goto(d, pc),
         pc \in {"idle", "look", "claimed", "applied", "failed"}
  PROVE  /\ \A e \in Entries : Held(e)' <=> Held(e)
         /\ \A c \in Drains, e \in Entries : InHand(c, e)' <=> InHand(c, e)
         /\ drain'[d].pc = pc
         /\ \A c \in Drains \ {d} : drain'[c].pc = drain[c].pc
<1>1. /\ drain'[d].pc = pc
      /\ \A c \in Drains \ {d} : drain'[c] = drain[c]
      /\ \A c \in Drains : drain'[c].batch = drain[c].batch
  BY GotoMoves DEF TypedInv
<1>2. \A c \in Drains : InBatch(c)' = InBatch(c)
  BY <1>1 DEF InBatch
<1> QED
  BY <1>1, <1>2 DEF Held, InHand

-----------------------------------------------------------------------------
(* The inductive invariant *)

\* Nothing is kept of an entry before it is queued.
Known ==
  \A e \in Entries \ queued :
    /\ ~Exists(e) /\ e \notin parked /\ e \notin marker /\ ~Held(e)
    /\ effects[e] = 0

PlaceInv == Known /\ OnePlace /\ NothingDropped

\* Where the handler has returned, or left its marker, the work was done.
WorkDone ==
  /\ \A e \in marker \ AtMostOnce : effects[e] > 0
  /\ \A d \in Drains, e \in Entries \ AtMostOnce :
       InHand(d, e) /\ At(d, "applied") => effects[e] > 0

\* A drain about to send a push holds its marker, alone.
ClaimHolds ==
  /\ \A d \in Drains, e \in Entries : InHand(d, e) /\ At(d, "claimed") =>
       e \in AtMostOnce /\ e \in marker /\ effects[e] <= retries[e]
  /\ \A c, d \in Drains, e \in Entries :
       /\ InHand(c, e) /\ At(c, "claimed")
       /\ InHand(d, e) /\ At(d, "claimed")
       => c = d

\* An entry that can still be run without a marker has not been run since
\* it was last put in the outbox.
FreshWork ==
  \A e \in Entries \ marker :
    Exists(e) \/ Held(e) => effects[e] <= retries[e]

WorkInv == WorkDone /\ ClaimHolds /\ FreshWork /\ WorkNotRepeated

OutboxInv == TypedInv /\ PlaceInv /\ WorkInv

\* Counters are natural numbers.
LEMMA CountersNat ==
  ASSUME TypedInv
  PROVE  \A e \in Entries : effects[e] \in Nat /\ retries[e] \in Nat
BY OutboxConstants DEF TypedInv, TypeOK

-----------------------------------------------------------------------------
(* The work *)

\* A step that does no work, makes no entry and lets go keeps WorkInv.
LEMMA LettingGoKeepsWork ==
  ASSUME TypedInv, WorkInv, LetsGo, UNCHANGED <<marker, effects, retries>>,
         \A e \in Entries : Exists(e)' => Exists(e)
  PROVE  WorkInv'
<1>1. WorkDone'
  BY DEF WorkInv, WorkDone, LetsGo
<1>2. ClaimHolds'
  BY DEF WorkInv, ClaimHolds, LetsGo
<1>3. FreshWork'
  BY DEF WorkInv, FreshWork, LetsGo
<1>4. WorkNotRepeated'
  BY DEF WorkInv, WorkNotRepeated
<1> QED
  BY <1>1, <1>2, <1>3, <1>4 DEF WorkInv

\* Queueing, retrying, discarding and expiring keep WorkInv.
LEMMA EntryStepKeepsWork ==
  ASSUME TypedInv, PlaceInv, WorkInv, NEW e \in Entries,
         Enqueue(e) \/ Retry(e) \/ Discard(e) \/ MarkerExpires(e)
  PROVE  WorkInv'
<1>1. /\ \A f \in Entries : Held(f)' <=> Held(f)
      /\ \A d \in Drains, f \in Entries : InHand(d, f)' <=> InHand(d, f)
      /\ \A d \in Drains, pc \in {"claimed", "applied"} : At(d, pc)' <=> At(d, pc)
  BY DEF Enqueue, Retry, Discard, MarkerExpires, Held, InHand, InBatch, At
<1>2. \A d \in Drains, f \in Entries : InHand(d, f) => Held(f)
  BY DEF InHand, Held
<1>3. \A f \in Entries : effects[f] \in Nat /\ retries[f] \in Nat
  BY CountersNat
<1>4. /\ effects' = effects
      /\ retries' \in [Entries -> Nat]
      /\ \A f \in Entries : retries[f] <= retries'[f]
      /\ marker' \subseteq marker
      /\ \A f \in Entries : Held(f) => (f \in marker' <=> f \in marker)
  <2>1. CASE Enqueue(e) \/ Discard(e) \/ MarkerExpires(e)
    BY <2>1, <1>3 DEF Enqueue, Discard, MarkerExpires, history, TypedInv, TypeOK
  <2>2. CASE Retry(e)
    BY <2>2, <1>3 DEF Retry, TypedInv, TypeOK
  <2> QED
    BY <2>1, <2>2
<1>5. \A f \in Entries : retries'[f] \in Nat
  BY <1>4
<1>6. WorkDone'
  BY <1>1, <1>2, <1>4 DEF WorkInv, WorkDone
<1>7. ClaimHolds'
  BY <1>1, <1>2, <1>3, <1>4, <1>5 DEF WorkInv, ClaimHolds
<1>8. WorkNotRepeated'
  BY <1>3, <1>4, <1>5 DEF WorkInv, WorkNotRepeated
<1>9. FreshWork'
  <2> SUFFICES ASSUME NEW f \in Entries, f \notin marker', Exists(f)' \/ Held(f)
               PROVE  effects[f] <= retries'[f]
    BY <1>1, <1>4 DEF FreshWork
  <2>1. CASE Exists(f) \/ Held(f)
    <3>1. f \notin marker
      BY <2>1, <1>4 DEF Enqueue, Retry, Discard, MarkerExpires
    <3>2. effects[f] <= retries[f]
      BY <2>1, <3>1 DEF WorkInv, FreshWork
    <3> QED
      BY <3>2, <1>3, <1>4, <1>5
  <2>2. CASE ~Exists(f) /\ ~Held(f)
    <3>1. f = e /\ (Enqueue(e) \/ Retry(e))
      BY <2>2 DEF Enqueue, Retry, Discard, MarkerExpires, Exists, TypedInv, TypeOK
    <3>2. CASE Enqueue(e)
      BY <3>1, <3>2, <1>3, <1>5 DEF Enqueue, PlaceInv, Known
    <3>3. CASE Retry(e)
      <4>1. retries'[f] = retries[f] + 1
        BY <3>1, <3>3 DEF Retry, TypedInv, TypeOK
      <4>2. effects[f] <= 1 + retries[f]
        BY DEF WorkInv, WorkNotRepeated
      <4> QED
        BY <4>1, <4>2, <1>3
    <3> QED
      BY <3>1, <3>2, <3>3
  <2> QED
    BY <2>1, <2>2
<1> QED
  BY <1>6, <1>7, <1>8, <1>9 DEF WorkInv

\* A handler that does its work under its marker keeps WorkInv.
LEMMA ApplyKeepsWork ==
  ASSUME TypedInv, WorkInv, NEW d \in Drains, NEW e \in Entries, InHand(d, e),
         Apply(d, e)
  PROVE  WorkInv'
<1> DEFINE more == IF e \in marker THEN effects[e] ELSE effects[e] + 1
<1>1. /\ \A f \in Entries : Held(f)' <=> Held(f)
      /\ \A c \in Drains, f \in Entries : InHand(c, f)' <=> InHand(c, f)
      /\ drain'[d].pc = "applied"
      /\ \A c \in Drains \ {d} : drain'[c].pc = drain[c].pc
  BY GotoHands DEF Apply
<1>2. \A f \in Entries : effects[f] \in Nat /\ retries[f] \in Nat
  BY CountersNat
<1>3. /\ e \notin AtMostOnce
      /\ marker' = marker \cup {e}
      /\ UNCHANGED <<pending, retries>>
      /\ \A f \in Entries \ {e} : effects'[f] = effects[f]
      /\ effects'[e] = more
  BY DEF Apply, ClaimsFirst, DoneBefore, history, TypedInv, TypeOK
<1>4. Held(e)
  BY DEF InHand, Held
<1>5. more > 0 /\ more <= 1 + retries[e] /\ more >= effects[e]
  <2>1. CASE e \in marker
    BY <2>1, <1>2, <1>3 DEF WorkInv, WorkDone, WorkNotRepeated
  <2>2. CASE e \notin marker
    BY <2>2, <1>2, <1>4 DEF WorkInv, FreshWork
  <2> QED
    BY <2>1, <2>2
<1> HIDE DEF more
<1>6. \A f \in Entries : effects[f] > 0 => effects'[f] > 0
  BY <1>3, <1>5
<1>7. WorkDone'
  <2>1. \A f \in marker' \ AtMostOnce : effects'[f] > 0
    BY <1>3, <1>5, <1>6 DEF WorkInv, WorkDone, TypedInv, TypeOK
  <2>2. ASSUME NEW c \in Drains, NEW f \in Entries \ AtMostOnce,
               InHand(c, f)', At(c, "applied")'
        PROVE  effects'[f] > 0
    <3>1. CASE c = d
      <4>1. f = e
        BY <3>1, <1>1, <2>2, OutboxConstants DEF InHand
      <4> QED
        BY <4>1, <1>3, <1>5
    <3>2. CASE c # d
      <4>1. InHand(c, f) /\ At(c, "applied")
        BY <3>2, <1>1, <2>2 DEF At
      <4> QED
        BY <4>1, <1>6 DEF WorkInv, WorkDone
    <3> QED
      BY <3>1, <3>2
  <2> QED
    BY <2>1, <2>2 DEF WorkDone
<1>8. \A c \in Drains, f \in Entries :
        InHand(c, f)' /\ At(c, "claimed")' =>
          InHand(c, f) /\ At(c, "claimed") /\ f # e
  BY <1>1, <1>3 DEF At, WorkInv, ClaimHolds
<1>9. ClaimHolds'
  BY <1>3, <1>8 DEF WorkInv, ClaimHolds
<1>10. FreshWork'
  <2> SUFFICES ASSUME NEW f \in Entries, f \notin marker', Exists(f)' \/ Held(f)'
               PROVE  effects'[f] <= retries'[f]
    BY DEF FreshWork
  <2>1. f # e /\ f \notin marker /\ (Exists(f) \/ Held(f))
    BY <1>1, <1>3 DEF Exists
  <2> QED
    BY <2>1, <1>3 DEF WorkInv, FreshWork
<1>11. WorkNotRepeated'
  BY <1>3, <1>5 DEF WorkInv, WorkNotRepeated
<1> QED
  BY <1>7, <1>9, <1>10, <1>11 DEF WorkInv

\* A handler that claims its marker first keeps WorkInv.
LEMMA ClaimKeepsWork ==
  ASSUME TypedInv, WorkInv, NEW d \in Drains, NEW e \in Entries, InHand(d, e),
         Claim(d, e)
  PROVE  WorkInv'
<1> DEFINE pc == IF e \in marker THEN "applied" ELSE "claimed"
<1>1. /\ \A f \in Entries : Held(f)' <=> Held(f)
      /\ \A c \in Drains, f \in Entries : InHand(c, f)' <=> InHand(c, f)
      /\ drain'[d].pc = pc
      /\ \A c \in Drains \ {d} : drain'[c].pc = drain[c].pc
  BY GotoHands DEF Claim, DoneBefore
<1>2. /\ e \in AtMostOnce
      /\ marker' = marker \cup {e}
      /\ UNCHANGED <<pending, effects, retries>>
  BY DEF Claim, ClaimsFirst, history
<1>3. Held(e)
  BY DEF InHand, Held
<1>4. \A f \in Entries : InHand(d, f) => f = e
  BY OutboxConstants DEF InHand, InBatch
<1>5. WorkDone'
  BY <1>1, <1>2, <1>4 DEF WorkInv, WorkDone, At
<1>6. \A c \in Drains \ {d}, f \in Entries :
        InHand(c, f)' /\ At(c, "claimed")' => InHand(c, f) /\ At(c, "claimed")
  BY <1>1 DEF At
<1>7. \A f \in Entries : InHand(d, f)' /\ At(d, "claimed")' =>
        f = e /\ e \notin marker
  BY <1>1, <1>4 DEF At
<1>8. ClaimHolds'
  <2>1. ASSUME NEW c \in Drains, NEW f \in Entries,
               InHand(c, f)', At(c, "claimed")'
        PROVE  f \in AtMostOnce /\ f \in marker' /\ effects'[f] <= retries'[f]
    <3>1. CASE c = d
      BY <3>1, <2>1, <1>7, <1>2, <1>3 DEF WorkInv, FreshWork
    <3>2. CASE c # d
      BY <3>2, <2>1, <1>6, <1>2 DEF WorkInv, ClaimHolds
    <3> QED
      BY <3>1, <3>2
  <2>2. ASSUME NEW b \in Drains, NEW c \in Drains, NEW f \in Entries,
               InHand(b, f)', At(b, "claimed")', InHand(c, f)', At(c, "claimed")'
        PROVE  b = c
    <3>1. CASE b # d /\ c # d
      BY <3>1, <2>2, <1>6 DEF WorkInv, ClaimHolds
    <3>2. CASE b = d \/ c = d
      <4>1. f = e /\ e \notin marker
        BY <3>2, <2>2, <1>7
      <4>2. \A a \in Drains \ {d} : ~(InHand(a, f)' /\ At(a, "claimed")')
        BY <4>1, <1>6 DEF WorkInv, ClaimHolds
      <4> QED
        BY <3>2, <4>2, <2>2
    <3> QED
      BY <3>1, <3>2
  <2> QED
    BY <2>1, <2>2 DEF ClaimHolds
<1>9. FreshWork'
  BY <1>1, <1>2 DEF WorkInv, FreshWork, Exists
<1>10. WorkNotRepeated'
  BY <1>2 DEF WorkInv, WorkNotRepeated
<1> QED
  BY <1>5, <1>8, <1>9, <1>10 DEF WorkInv

\* Sending under the claimed marker keeps WorkInv.
LEMMA SendKeepsWork ==
  ASSUME TypedInv, WorkInv, NEW d \in Drains, NEW e \in Entries, InHand(d, e),
         Send(d, e)
  PROVE  WorkInv'
<1>1. /\ \A f \in Entries : Held(f)' <=> Held(f)
      /\ \A c \in Drains, f \in Entries : InHand(c, f)' <=> InHand(c, f)
      /\ drain'[d].pc = "applied"
      /\ \A c \in Drains \ {d} : drain'[c].pc = drain[c].pc
  BY GotoHands DEF Send
<1>2. \A f \in Entries : effects[f] \in Nat /\ retries[f] \in Nat
  BY CountersNat
<1>3. /\ At(d, "claimed")
      /\ UNCHANGED <<pending, marker, retries>>
      /\ \A f \in Entries \ {e} : effects'[f] = effects[f]
      /\ effects'[e] = effects[e] + 1
  BY DEF Send, items, history, TypedInv, TypeOK
<1>4. e \in AtMostOnce /\ e \in marker /\ effects[e] <= retries[e]
  BY <1>3 DEF WorkInv, ClaimHolds
<1>5. \A f \in Entries : InHand(d, f) => f = e
  BY OutboxConstants DEF InHand, InBatch
<1>6. WorkDone'
  BY <1>1, <1>3, <1>4, <1>5 DEF WorkInv, WorkDone, At, TypedInv, TypeOK
<1>7. \A c \in Drains, f \in Entries :
        InHand(c, f)' /\ At(c, "claimed")' =>
          InHand(c, f) /\ At(c, "claimed") /\ f # e
  <2> SUFFICES ASSUME NEW c \in Drains, NEW f \in Entries,
                      InHand(c, f)', At(c, "claimed")'
               PROVE  InHand(c, f) /\ At(c, "claimed") /\ f # e
    OBVIOUS
  <2>1. c # d /\ InHand(c, f) /\ At(c, "claimed")
    BY <1>1 DEF At
  <2> QED
    BY <2>1, <1>3 DEF WorkInv, ClaimHolds
<1>8. ClaimHolds'
  BY <1>3, <1>7 DEF WorkInv, ClaimHolds
<1>9. FreshWork'
  BY <1>1, <1>3, <1>4 DEF WorkInv, FreshWork, Exists
<1>10. WorkNotRepeated'
  BY <1>2, <1>3, <1>4 DEF WorkInv, WorkNotRepeated
<1> QED
  BY <1>6, <1>8, <1>9, <1>10 DEF WorkInv

\* A push that is skipped, and a failure, keep WorkInv: no work is done and
\* nobody else's hands move.
LEMMA FailureKeepsWork ==
  ASSUME TypedInv, WorkInv, NEW d \in Drains, NEW e \in Entries, InHand(d, e),
         SendSkipped(d) \/ Fail(d, e)
  PROVE  WorkInv'
<1>1. PICK pc \in {"applied", "failed"} :
        /\ Goto(d, pc)
        /\ pc = "applied" => At(d, "claimed")
  BY DEF SendSkipped, Fail
<1>2. /\ \A f \in Entries : Held(f)' <=> Held(f)
      /\ \A c \in Drains, f \in Entries : InHand(c, f)' <=> InHand(c, f)
      /\ drain'[d].pc = pc
      /\ \A c \in Drains \ {d} : drain'[c].pc = drain[c].pc
  BY <1>1, GotoHands
<1>3. UNCHANGED <<pending, marker, effects, retries>>
  BY DEF SendSkipped, Fail, items, history
<1>4. pc = "applied" => \A f \in Entries : InHand(d, f) => f \in AtMostOnce
  BY <1>1 DEF WorkInv, ClaimHolds
<1>5. WorkDone'
  BY <1>2, <1>3, <1>4 DEF WorkInv, WorkDone, At
<1>6. ClaimHolds'
  BY <1>2, <1>3 DEF WorkInv, ClaimHolds, At
<1>7. FreshWork'
  BY <1>2, <1>3 DEF WorkInv, FreshWork, Exists
<1>8. WorkNotRepeated'
  BY <1>3 DEF WorkInv, WorkNotRepeated
<1> QED
  BY <1>5, <1>6, <1>7, <1>8 DEF WorkInv

\* Steps on the entry in hand keep WorkInv.
LEMMA HandStepKeepsWork ==
  ASSUME TypedInv, WorkInv, NEW d \in Drains, NEW e \in Entries, OnEntry(d, e)
  PROVE  WorkInv'
<1>1. InHand(d, e)
  BY DEF OnEntry
<1>2. ASSUME DeleteEntry(d, e) \/ CountAttempt(d, e) \/ Park(d, e) \/ NotNoted(d, e)
      PROVE  WorkInv'
  <2>1. LetsGo
    BY <1>1, <1>2, FinishLetsGo DEF DeleteEntry, CountAttempt, Park, NotNoted
  <2>2. UNCHANGED <<marker, effects, retries>>
    BY <1>2 DEF DeleteEntry, CountAttempt, Park, NotNoted, items, history
  <2>3. \A f \in Entries : Exists(f)' => Exists(f)
    BY <1>2 DEF DeleteEntry, CountAttempt, Park, NotNoted, items, Exists, Noted,
                TypedInv, TypeOK
  <2> QED
    BY <2>1, <2>2, <2>3, LettingGoKeepsWork
<1>3. HandlerFails(d, e) \/ DeleteFails(d, e) => Fail(d, e)
  BY DEF HandlerFails, DeleteFails
<1> QED
  BY <1>1, <1>2, <1>3, ApplyKeepsWork, ClaimKeepsWork, SendKeepsWork,
     FailureKeepsWork DEF OnEntry, Handle, Conclude

\* Every step keeps WorkInv.
LEMMA WorkStep ==
  ASSUME OutboxInv, [Next]_vars
  PROVE  WorkInv'
<1> USE DEF OutboxInv
<1>1. ASSUME NEW d \in Drains, Loop(d) \/ Stop(d) PROVE WorkInv'
  <2>1. LetsGo
    BY <1>1, LoopLetsGo
  <2>2. UNCHANGED <<items, effects, history>>
    BY <1>1 DEF Loop, BeginDrain, ReadShard, EndDrain, Stop
  <2> QED
    BY <2>1, <2>2, LettingGoKeepsWork DEF items, history, Exists
<1>2. CASE UNCHANGED vars
  BY <1>2 DEF vars, items, history, WorkInv, WorkDone, ClaimHolds, FreshWork,
              WorkNotRepeated, InHand, InBatch, Held, At, Exists
<1> QED
  BY <1>1, <1>2, EntryStepKeepsWork, HandStepKeepsWork DEF Next

-----------------------------------------------------------------------------
(* The places of an entry *)

\* A drain's loop, and its end, move no entry.
LEMMA LoopKeepsPlace ==
  ASSUME TypedInv, PlaceInv, NEW d \in Drains, Loop(d) \/ Stop(d)
  PROVE  PlaceInv'
<1>1. LetsGo
  BY LoopLetsGo
<1>2. UNCHANGED <<items, effects, history>>
  BY DEF Loop, BeginDrain, ReadShard, EndDrain, Stop
<1>3. Known'
  BY <1>1, <1>2 DEF PlaceInv, Known, LetsGo, items, history, Exists
<1>4. OnePlace' /\ NothingDropped'
  BY <1>2 DEF PlaceInv, OnePlace, NothingDropped, items, history, Exists
<1> QED
  BY <1>3, <1>4 DEF PlaceInv

\* Queueing, retrying, discarding and expiring keep PlaceInv.
LEMMA EntryStepKeepsPlace ==
  ASSUME TypedInv, PlaceInv, NEW e \in Entries,
         Enqueue(e) \/ Retry(e) \/ Discard(e) \/ MarkerExpires(e)
  PROVE  PlaceInv'
<1>1. \A f \in Entries : Held(f)' <=> Held(f)
  BY DEF Enqueue, Retry, Discard, MarkerExpires, Held, InBatch
<1>2. e \notin queued => ~Exists(e) /\ e \notin parked /\ e \notin marker
  BY DEF PlaceInv, Known
<1>3. CASE Enqueue(e)
  BY <1>1, <1>2, <1>3, OutboxConstants
     DEF Enqueue, PlaceInv, Known, OnePlace, NothingDropped, Exists, TypedInv, TypeOK
<1>4. CASE Retry(e)
  BY <1>1, <1>2, <1>4, OutboxConstants
     DEF Retry, PlaceInv, Known, OnePlace, NothingDropped, Exists, TypedInv, TypeOK
<1>5. CASE Discard(e)
  BY <1>1, <1>5
     DEF Discard, PlaceInv, Known, OnePlace, NothingDropped, Exists
<1>6. CASE MarkerExpires(e)
  BY <1>1, <1>6
     DEF MarkerExpires, history, PlaceInv, Known, OnePlace, NothingDropped, Exists
<1> QED
  BY <1>3, <1>4, <1>5, <1>6

\* Steps on the entry in hand keep PlaceInv.
LEMMA HandStepKeepsPlace ==
  ASSUME TypedInv, PlaceInv, WorkInv, NEW d \in Drains, NEW e \in Entries,
         OnEntry(d, e)
  PROVE  PlaceInv'
<1>1. InHand(d, e)
  BY DEF OnEntry
<1>2. Held(e) /\ e \in queued
  BY <1>1 DEF InHand, Held, PlaceInv, Known
<1>3. ASSUME Apply(d, e) \/ Claim(d, e) \/ Send(d, e) \/ SendSkipped(d) \/ Fail(d, e)
      PROVE  PlaceInv'
  <2>1. \A f \in Entries : Held(f)' <=> Held(f)
    BY <1>3, GotoHands DEF Apply, Claim, Send, SendSkipped, Fail
  <2>2. /\ UNCHANGED <<pending, parked, queued, discarded>>
        /\ marker' \subseteq marker \cup {e}
        /\ \A f \in Entries \ {e} : effects'[f] = effects[f]
        /\ effects[e] > 0 => effects'[e] > 0
    BY <1>3, CountersNat DEF Apply, Claim, Send, SendSkipped, Fail, items, history,
                             TypedInv, TypeOK
  <2>3. Known'
    BY <1>2, <2>1, <2>2 DEF PlaceInv, Known, Exists
  <2>4. OnePlace'
    BY <2>2 DEF PlaceInv, OnePlace, Exists
  <2>5. NothingDropped'
    <3>1. queued \subseteq Entries
      BY DEF TypedInv, TypeOK
    <3>2. \A f \in Entries : effects[f] > 0 => effects'[f] > 0
      BY <2>2
    <3> QED
      BY <3>1, <3>2, <2>2 DEF PlaceInv, NothingDropped, Exists
  <2> QED
    BY <2>3, <2>4, <2>5 DEF PlaceInv
<1>4. ASSUME DeleteEntry(d, e) \/ CountAttempt(d, e) \/ Park(d, e) \/ NotNoted(d, e)
      PROVE  PlaceInv'
  <2>1. LetsGo
    BY <1>1, <1>4, FinishLetsGo DEF DeleteEntry, CountAttempt, Park, NotNoted
  <2>2. UNCHANGED <<marker, effects, queued, discarded>>
    BY <1>4 DEF DeleteEntry, CountAttempt, Park, NotNoted, items, history
  <2>3. /\ \A f \in Entries : Exists(f)' => Exists(f)
        /\ \A f \in Entries \ {e} : Exists(f)' <=> Exists(f)
        /\ parked \subseteq parked' /\ parked' \subseteq parked \cup {e}
    BY <1>4, OutboxConstants
       DEF DeleteEntry, CountAttempt, Park, NotNoted, items, history, Exists, Noted,
           TypedInv, TypeOK
  <2>4. Known'
    BY <1>2, <2>1, <2>2, <2>3 DEF PlaceInv, Known, LetsGo
  <2>5. e \in parked' /\ e \notin parked => ~Exists(e)'
    BY <1>4 DEF DeleteEntry, CountAttempt, Park, NotNoted, items, Exists, TypedInv, TypeOK
  <2>6. OnePlace'
    BY <2>3, <2>5 DEF PlaceInv, OnePlace
  <2>7. Exists(e) /\ ~Exists(e)' /\ e \notin AtMostOnce => e \in parked' \/ effects[e] > 0
    <3>1. CASE DeleteEntry(d, e)
      BY <1>1, <3>1 DEF DeleteEntry, WorkInv, WorkDone
    <3>2. CASE CountAttempt(d, e)
      BY <3>2, OutboxConstants DEF CountAttempt, Noted, Exists, TypedInv, TypeOK
    <3>3. CASE Park(d, e)
      BY <3>3 DEF Park
    <3>4. CASE NotNoted(d, e)
      BY <3>4 DEF NotNoted, items, Exists
    <3> QED
      BY <1>4, <3>1, <3>2, <3>3, <3>4
  <2>8. NothingDropped'
    <3> SUFFICES ASSUME NEW f \in queued', f \notin AtMostOnce,
                        ~Exists(f)', f \notin parked', f \notin discarded'
                 PROVE  effects'[f] > 0
      BY DEF NothingDropped
    <3>1. f \in queued /\ f \in Entries
      BY <2>2 DEF TypedInv, TypeOK
    <3>2. Exists(f) \/ effects[f] > 0
      BY <3>1, <2>2, <2>3 DEF PlaceInv, NothingDropped
    <3>3. Exists(f) => f = e
      BY <3>1, <2>3
    <3> QED
      BY <3>2, <3>3, <2>2, <2>7
  <2> QED
    BY <2>4, <2>6, <2>8 DEF PlaceInv
<1>5. HandlerFails(d, e) \/ DeleteFails(d, e) => Fail(d, e)
  BY DEF HandlerFails, DeleteFails
<1> QED
  BY <1>3, <1>4, <1>5 DEF OnEntry, Handle, Conclude

\* Every step keeps PlaceInv.
LEMMA PlaceStep ==
  ASSUME OutboxInv, [Next]_vars
  PROVE  PlaceInv'
<1> USE DEF OutboxInv
<1>1. CASE UNCHANGED vars
  BY <1>1 DEF vars, items, history, PlaceInv, Known, OnePlace, NothingDropped,
              Held, InBatch, Exists
<1> QED
  BY <1>1, LoopKeepsPlace, EntryStepKeepsPlace, HandStepKeepsPlace DEF Next

-----------------------------------------------------------------------------
(* What a parking costs *)

\* The drains that have seen e fail and have not written that down.
Failed(e) == {d \in Drains : InHand(d, e) /\ At(d, "failed")}

\* How often e was parked.
Parkings(e) == retries[e] + (IF e \in parked \cup discarded THEN 1 ELSE 0)

\* The failures of e its item remembers.
Waiting(e) == IF Exists(e) THEN pending[e] ELSE 0

\* A failure has paid for a parking, is remembered by the item, or is still
\* in the hands of the drain that saw it; or it was lost: never two of these.
Paid(e) ==
  \/ failures[e] = FailureCap
  \/ failures[e] >= ParkAfter * Parkings(e) + Waiting(e) + Cardinality(Failed(e))

\* What the owner gave up is nowhere.
GivenUp ==
  \A e \in discarded : e \in queued /\ ~Exists(e) /\ e \notin parked

PaidInv ==
  /\ GivenUp
  /\ \A e \in Entries : IsFiniteSet(Failed(e)) /\ Paid(e)

\* A drain less with a failure in hand is one failure less, or none.
LEMMA OneFailureLess ==
  ASSUME NEW S, IsFiniteSet(S), NEW d
  PROVE  /\ IsFiniteSet(S \ {d})
         /\ Cardinality(S) \in Nat /\ Cardinality(S \ {d}) \in Nat
         /\ d \in S => Cardinality(S \ {d}) = Cardinality(S) - 1
         /\ Cardinality(S \ {d}) <= Cardinality(S)
<1>1. Cardinality(S) \in Nat
  BY FS_CardinalityType
<1>2. CASE d \in S
  <2>1. IsFiniteSet(S \ {d}) /\ Cardinality(S \ {d}) = Cardinality(S) - 1
    BY <1>2, FS_RemoveElement
  <2>2. Cardinality(S \ {d}) \in Nat
    BY <2>1, FS_CardinalityType
  <2> QED
    BY <1>1, <2>1, <2>2
<1>3. CASE d \notin S
  <2>1. S \ {d} = S
    BY <1>3
  <2> QED
    BY <1>1, <1>3, <2>1
<1> QED
  BY <1>2, <1>3

\* A drain that leaves its failure behind takes it off the failures in hand.
LEMMA FailureLeft ==
  ASSUME NEW d \in Drains,
         \A c \in Drains \ {d} : drain'[c] = drain[c],
         drain'[d].pc # "failed"
  PROVE  \A e \in Entries : Failed(e)' = Failed(e) \ {d}
<1> SUFFICES ASSUME NEW e \in Entries, NEW c \in Drains
             PROVE  InHand(c, e)' /\ At(c, "failed")' <=>
                      c # d /\ InHand(c, e) /\ At(c, "failed")
  BY DEF Failed
<1>1. CASE c = d
  BY <1>1 DEF At
<1>2. CASE c # d
  <2>1. drain'[c] = drain[c]
    BY <1>2
  <2> QED
    BY <1>2, <2>1 DEF InHand, InBatch, At
<1> QED
  BY <1>1, <1>2

\* The terms of Paid are natural numbers.
LEMMA PaidNat ==
  ASSUME TypedInv, NEW e \in Entries
  PROVE  Parkings(e) \in Nat /\ Waiting(e) \in Nat /\ failures[e] \in Nat
<1>1. retries[e] \in Nat /\ failures[e] \in Nat /\ pending[e] \in Nat \cup {None}
  BY OutboxConstants DEF TypedInv, TypeOK
<1> QED
  BY <1>1 DEF Parkings, Waiting, Exists

\* What is owed for the parkings of an entry is a number.
LEMMA OwedNat ==
  ASSUME NEW k \in Nat
  PROVE  ParkAfter * k \in Nat /\ ParkAfter * (k + 1) = ParkAfter * k + ParkAfter
BY OutboxConstants

\* What an item remembers is a number, before and after a step.
LEMMA WaitingNat ==
  ASSUME TypedInv, TypedInv', NEW e \in Entries
  PROVE  Waiting(e) \in Nat /\ Waiting(e)' \in Nat
<1>1. pending[e] \in Nat \cup {None} /\ pending'[e] \in Nat \cup {None}
  BY DEF TypedInv, TypeOK
<1> QED
  BY <1>1 DEF Waiting, Exists

\* A drain that starts, reads, ends or stops has no failure in hand then.
LEMMA LoopLeaves ==
  ASSUME TypedInv, NEW d \in Drains, Loop(d) \/ Stop(d)
  PROVE  /\ drain'[d].pc # "failed"
         /\ \A c \in Drains \ {d} : drain'[c] = drain[c]
<1>1. ASSUME NEW s, s \in {Idle, Started}, Moves(d, s)
      PROVE  drain'[d].pc # "failed" /\ \A c \in Drains \ {d} : drain'[c] = drain[c]
  <2>1. drain'[d] = s /\ \A c \in Drains \ {d} : drain'[c] = drain[c]
    BY <1>1, MovedDrains DEF TypedInv
  <2> QED
    BY <2>1, <1>1, RestingStates
<1>2. CASE ReadShard(d)
  BY <1>2, ReadMoves
<1>3. CASE BeginDrain(d)
  BY <1>1, <1>3 DEF BeginDrain, Moves
<1>4. CASE EndDrain(d)
  BY <1>1, <1>4 DEF EndDrain, Moves
<1>5. CASE Stop(d)
  BY <1>1, <1>5 DEF Stop, Moves
<1> QED
  BY <1>2, <1>3, <1>4, <1>5 DEF Loop

\* Paid survives where nothing it is about grows.
LEMMA NothingOwedKeepsPaid ==
  ASSUME TypedInv, TypedInv', NEW e \in Entries,
         IsFiniteSet(Failed(e)), Paid(e),
         IsFiniteSet(Failed(e)'),
         failures'[e] = failures[e], Parkings(e)' = Parkings(e),
         Waiting(e)' + Cardinality(Failed(e)') <= Waiting(e) + Cardinality(Failed(e))
  PROVE  Paid(e)'
<1>1. /\ Cardinality(Failed(e)) \in Nat
      /\ Cardinality(Failed(e)') \in Nat
  BY FS_CardinalityType
<1>2. Parkings(e) \in Nat /\ Waiting(e) \in Nat /\ Waiting(e)' \in Nat
      /\ failures[e] \in Nat
  BY WaitingNat, PaidNat
<1>3. ParkAfter * Parkings(e) \in Nat
  BY <1>2, OwedNat
<1> DEFINE owed == ParkAfter * Parkings(e)
           n == Cardinality(Failed(e))
           m == Cardinality(Failed(e)')
           w == Waiting(e)
           v == Waiting(e)'
<1>4. CASE failures[e] = FailureCap
  BY <1>4 DEF Paid
<1>5. CASE failures[e] >= owed + w + n
  <2> owed \in Nat /\ n \in Nat /\ m \in Nat /\ w \in Nat /\ v \in Nat /\ v + m <= w + n
    BY <1>1, <1>2, <1>3
  <2> HIDE DEF owed, n, m, w, v
  <2>1. failures[e] >= owed + v + m
    BY <1>2, <1>5
  <2> QED
    BY <2>1 DEF Paid, owed, n, m, w, v
<1> QED
  BY <1>4, <1>5 DEF Paid

\* A drain that leaves its failure behind keeps the books of an entry that
\* owes nothing more.
LEMMA LeavingKeepsPaid ==
  ASSUME TypedInv, TypedInv', PaidInv, NEW d \in Drains,
         \A c \in Drains \ {d} : drain'[c] = drain[c],
         drain'[d].pc # "failed",
         NEW e \in Entries,
         failures'[e] = failures[e], Parkings(e)' = Parkings(e),
         Waiting(e)' <= Waiting(e)
  PROVE  IsFiniteSet(Failed(e)') /\ Paid(e)'
<1>1. Failed(e)' = Failed(e) \ {d}
  BY FailureLeft
<1>2. IsFiniteSet(Failed(e)) /\ Paid(e)
  BY DEF PaidInv
<1>3. /\ IsFiniteSet(Failed(e)')
      /\ Cardinality(Failed(e)) \in Nat /\ Cardinality(Failed(e)') \in Nat
      /\ Cardinality(Failed(e)') <= Cardinality(Failed(e))
  BY <1>1, <1>2, OneFailureLess
<1>4. Waiting(e) \in Nat /\ Waiting(e)' \in Nat
  BY WaitingNat
<1>5. Waiting(e)' + Cardinality(Failed(e)') <= Waiting(e) + Cardinality(Failed(e))
  BY <1>3, <1>4
<1> QED
  BY <1>2, <1>3, <1>5, NothingOwedKeepsPaid

\* Queueing, retrying, discarding and expiring keep the books.
LEMMA EntryStepKeepsPaid ==
  ASSUME TypedInv, TypedInv', PlaceInv, PaidInv, NEW e \in Entries,
         Enqueue(e) \/ Retry(e) \/ Discard(e) \/ MarkerExpires(e)
  PROVE  PaidInv'
<1>1. UNCHANGED drain
  BY DEF Enqueue, Retry, Discard, MarkerExpires
<1>2. e \notin queued => ~Exists(e) /\ e \notin parked
  BY DEF PlaceInv, Known
<1>3. e \in parked => e \in queued /\ ~Exists(e)
  BY <1>2 DEF PlaceInv, OnePlace
<1>4. GivenUp'
  BY <1>2, <1>3, OutboxConstants
     DEF PaidInv, GivenUp, Enqueue, Retry, Discard, MarkerExpires, history, Exists,
         TypedInv, TypeOK
<1>5. ASSUME NEW f \in Entries
      PROVE  IsFiniteSet(Failed(f)') /\ Paid(f)'
  <2>1. Failed(f)' = Failed(f)
    BY <1>1 DEF Failed, InHand, InBatch, At
  <2>2. failures'[f] = failures[f]
    BY DEF Enqueue, Retry, Discard, MarkerExpires, history
  <2>3. Parkings(f)' = Parkings(f)
    <3>1. CASE Enqueue(e) \/ Discard(e) \/ MarkerExpires(e)
      BY <3>1 DEF Enqueue, Discard, MarkerExpires, history, Parkings
    <3>2. CASE Retry(e)
      <4>1. CASE f = e
        <5>1. e \in parked /\ e \notin discarded
          BY <3>2 DEF Retry, PaidInv, GivenUp
        <5>2. e \notin parked' \cup discarded' /\ retries'[e] = retries[e] + 1
          BY <3>2, <5>1 DEF Retry, TypedInv, TypeOK
        <5>3. retries[e] \in Nat
          BY CountersNat
        <5> QED
          BY <4>1, <5>1, <5>2, <5>3 DEF Parkings
      <4>2. CASE f # e
        BY <3>2, <4>2 DEF Retry, Parkings, TypedInv, TypeOK
      <4> QED
        BY <4>1, <4>2
    <3> QED
      BY <3>1, <3>2
  <2>4. Waiting(f)' = Waiting(f)
    BY <1>2, OutboxConstants
       DEF Enqueue, Retry, Discard, MarkerExpires, Waiting, Exists, TypedInv, TypeOK
  <2>5. IsFiniteSet(Failed(f)) /\ Paid(f)
    BY DEF PaidInv
  <2> QED
    BY <2>1, <2>2, <2>3, <2>4, <2>5 DEF Paid
<1> QED
  BY <1>4, <1>5 DEF PaidInv

\* A failure puts its drain among those that have one in hand, and is
\* counted, up to the cap.
LEMMA FailKeepsPaid ==
  ASSUME TypedInv, TypedInv', PaidInv, NEW d \in Drains, NEW e \in Entries,
         InHand(d, e), HandlerFails(d, e) \/ DeleteFails(d, e)
  PROVE  PaidInv'
<1>1. Fail(d, e) /\ ~At(d, "failed")
  BY DEF HandlerFails, DeleteFails, At
<1>2. /\ \A c \in Drains, f \in Entries : InHand(c, f)' <=> InHand(c, f)
      /\ drain'[d].pc = "failed"
      /\ \A c \in Drains \ {d} : drain'[c].pc = drain[c].pc
  BY <1>1, GotoHands DEF Fail
<1>3. \A f \in Entries : InHand(d, f) => f = e
  BY OutboxConstants DEF InHand, InBatch
<1>4. Failed(e)' = Failed(e) \cup {d} /\ d \notin Failed(e)
  BY <1>1, <1>2 DEF Failed, At
<1>5. \A f \in Entries \ {e} : Failed(f)' = Failed(f)
  BY <1>1, <1>2, <1>3 DEF Failed, At
<1>6. GivenUp'
  BY <1>1 DEF Fail, items, PaidInv, GivenUp, Exists
<1>7. \A f \in Entries : Parkings(f)' = Parkings(f) /\ Waiting(f)' = Waiting(f)
  BY <1>1 DEF Fail, items, Parkings, Waiting, Exists
<1>8. ASSUME NEW f \in Entries, f # e
      PROVE  IsFiniteSet(Failed(f)') /\ Paid(f)'
  <2>1. failures'[f] = failures[f]
    BY <1>1, <1>8 DEF Fail, TypedInv, TypeOK
  <2>2. IsFiniteSet(Failed(f)) /\ Paid(f)
    BY DEF PaidInv
  <2> QED
    BY <1>5, <1>7, <1>8, <2>1, <2>2 DEF Paid
<1>9. IsFiniteSet(Failed(e)') /\ Paid(e)'
  <2>1. IsFiniteSet(Failed(e)) /\ Paid(e)
    BY DEF PaidInv
  <2>2. IsFiniteSet(Failed(e)') /\ Cardinality(Failed(e)') = Cardinality(Failed(e)) + 1
        /\ Cardinality(Failed(e)) \in Nat
    BY <1>4, <2>1, FS_AddElement, FS_CardinalityType
  <2>3. failures[e] \in Nat /\ FailureCap \in Nat /\ failures[e] <= FailureCap
        /\ failures'[e] = IF failures[e] < FailureCap THEN failures[e] + 1 ELSE failures[e]
    BY <1>1, OutboxConstants DEF Fail, TypedInv, TypeOK
  <2> DEFINE owed == ParkAfter * Parkings(e)
             n == Cardinality(Failed(e))
             w == Waiting(e)
  <2>4. owed \in Nat /\ w \in Nat /\ n \in Nat
    BY <2>2, PaidNat, OwedNat
  <2>5. failures[e] = FailureCap \/ failures[e] >= owed + w + n
    BY <2>1 DEF Paid
  <2> HIDE DEF owed, n, w
  <2>6. failures'[e] = FailureCap \/ failures'[e] >= owed + w + (n + 1)
    BY <2>3, <2>4, <2>5
  <2>7. Paid(e)'
    BY <1>7, <2>2, <2>6 DEF Paid, owed, n, w
  <2> QED
    BY <2>2, <2>7
<1> QED
  BY <1>6, <1>8, <1>9 DEF PaidInv

\* Parking an entry takes what its item remembers, and the failure in hand,
\* for one parking.
LEMMA ParkKeepsPaid ==
  ASSUME TypedInv, TypedInv', PaidInv, NEW d \in Drains, NEW e \in Entries,
         InHand(d, e), Park(d, e)
  PROVE  IsFiniteSet(Failed(e)') /\ Paid(e)'
<1>1. /\ drain'[d].pc = "look"
      /\ \A c \in Drains \ {d} : drain'[c] = drain[c]
  BY FinishMoves DEF Park
<1>2. Failed(e)' = Failed(e) \ {d} /\ d \in Failed(e)
  BY <1>1, FailureLeft DEF Failed, Park
<1>3. IsFiniteSet(Failed(e)) /\ Paid(e)
  BY DEF PaidInv
<1>4. /\ IsFiniteSet(Failed(e)')
      /\ Cardinality(Failed(e)) \in Nat /\ Cardinality(Failed(e)') \in Nat
      /\ Cardinality(Failed(e)') = Cardinality(Failed(e)) - 1
  BY <1>2, <1>3, OneFailureLess
<1>5. /\ Exists(e) /\ pending[e] \in Nat /\ pending[e] + 1 >= ParkAfter
      /\ pending'[e] = None
  BY DEF Park, SpentTries, Unmoved, InHand, InBatch, Exists, TypedInv, TypeOK
<1>6. Waiting(e) = pending[e] /\ Waiting(e)' = 0
  BY <1>5 DEF Waiting, Exists
<1>7. e \notin parked /\ e \notin discarded /\ e \in parked'
      /\ UNCHANGED <<failures, retries, discarded>>
  BY <1>5 DEF Park, history, PaidInv, GivenUp
<1>8. retries[e] \in Nat
  BY CountersNat
<1>9. Parkings(e) = retries[e] /\ Parkings(e)' = retries[e] + 1
  BY <1>7, <1>8 DEF Parkings
<1>10. /\ ParkAfter * retries[e] \in Nat
       /\ ParkAfter * (retries[e] + 1) = ParkAfter * retries[e] + ParkAfter
  BY <1>8, OwedNat
<1> DEFINE owed == ParkAfter * retries[e]
           n == Cardinality(Failed(e))
           m == Cardinality(Failed(e)')
           w == pending[e]
<1>11. failures[e] = FailureCap \/ failures[e] >= owed + w + n
  BY <1>3, <1>6, <1>9 DEF Paid
<1>12. failures[e] \in Nat /\ ParkAfter \in Nat
  BY PaidNat, OutboxConstants
<1>13. owed \in Nat /\ n \in Nat /\ m = n - 1 /\ w \in Nat /\ w + 1 >= ParkAfter
  BY <1>4, <1>5, <1>10
<1>14. failures[e] = FailureCap \/ failures[e] >= owed + ParkAfter + 0 + m
  <2> HIDE DEF owed, n, m, w
  <2> QED
    BY <1>11, <1>12, <1>13
<1>15. Paid(e)'
  BY <1>6, <1>7, <1>9, <1>10, <1>14 DEF Paid
<1> QED
  BY <1>4, <1>15

\* Counting a failure moves it from the hands of its drain to the item.
LEMMA CountKeepsPaid ==
  ASSUME TypedInv, TypedInv', PaidInv, NEW d \in Drains, NEW e \in Entries,
         InHand(d, e), CountAttempt(d, e)
  PROVE  IsFiniteSet(Failed(e)') /\ Paid(e)'
<1>1. /\ drain'[d].pc = "look"
      /\ \A c \in Drains \ {d} : drain'[c] = drain[c]
  BY FinishMoves DEF CountAttempt
<1>2. Failed(e)' = Failed(e) \ {d} /\ d \in Failed(e)
  BY <1>1, FailureLeft DEF Failed, CountAttempt
<1>3. IsFiniteSet(Failed(e)) /\ Paid(e)
  BY DEF PaidInv
<1>4. /\ IsFiniteSet(Failed(e)')
      /\ Cardinality(Failed(e)) \in Nat /\ Cardinality(Failed(e)') \in Nat
      /\ Cardinality(Failed(e)') = Cardinality(Failed(e)) - 1
  BY <1>2, <1>3, OneFailureLess
<1>5. pending[e] \in Nat \cup {None} /\ pending'[e] = Noted(pending[e])
  BY DEF CountAttempt, TypedInv, TypeOK
<1>6. Waiting(e) \in Nat /\ Waiting(e)' \in Nat /\ Waiting(e)' <= Waiting(e) + 1
  BY <1>5, WaitingNat, OutboxConstants DEF Waiting, Exists, Noted
<1>7. failures'[e] = failures[e] /\ Parkings(e)' = Parkings(e)
  BY DEF CountAttempt, history, Parkings
<1>8. Waiting(e)' + Cardinality(Failed(e)') <= Waiting(e) + Cardinality(Failed(e))
  BY <1>4, <1>6
<1> QED
  BY <1>3, <1>4, <1>7, <1>8, NothingOwedKeepsPaid

\* Steps of a drain, other than a failure, keep the books.
LEMMA DrainStepKeepsPaid ==
  ASSUME TypedInv, TypedInv', PlaceInv, PaidInv, NEW d \in Drains,
         \/ Loop(d) \/ Stop(d)
         \/ \E e \in Entries :
              OnEntry(d, e) /\ ~HandlerFails(d, e) /\ ~DeleteFails(d, e)
  PROVE  PaidInv'
<1>1. CASE Loop(d) \/ Stop(d)
  <2>1. drain'[d].pc # "failed" /\ \A c \in Drains \ {d} : drain'[c] = drain[c]
    BY <1>1, LoopLeaves
  <2>2. UNCHANGED <<items, effects, history>>
    BY <1>1 DEF Loop, BeginDrain, ReadShard, EndDrain, Stop
  <2>3. \A f \in Entries : failures'[f] = failures[f] /\ Parkings(f)' = Parkings(f)
                           /\ Waiting(f)' = Waiting(f) /\ Waiting(f) \in Nat
    BY <2>2, WaitingNat DEF items, history, Parkings, Waiting, Exists
  <2>4. \A f \in Entries : IsFiniteSet(Failed(f)') /\ Paid(f)'
    BY <2>1, <2>3, LeavingKeepsPaid
  <2>5. GivenUp'
    BY <2>2 DEF items, history, PaidInv, GivenUp, Exists
  <2> QED
    BY <2>4, <2>5 DEF PaidInv
<1>2. ASSUME NEW e \in Entries, OnEntry(d, e), ~HandlerFails(d, e), ~DeleteFails(d, e)
      PROVE  PaidInv'
  <2>1. InHand(d, e)
    BY <1>2 DEF OnEntry
  <2>2. \/ Apply(d, e) \/ Claim(d, e) \/ Send(d, e) \/ SendSkipped(d)
        \/ DeleteEntry(d, e) \/ CountAttempt(d, e) \/ Park(d, e) \/ NotNoted(d, e)
    BY <1>2 DEF OnEntry, Handle, Conclude
  <2>3. drain'[d].pc # "failed" /\ \A c \in Drains \ {d} : drain'[c] = drain[c]
    <3>1. CASE \E pc \in {"claimed", "applied"} : Goto(d, pc)
      BY <3>1, GotoMoves DEF TypedInv
    <3>2. CASE Finish(d, e)
      BY <3>2, <2>1, FinishMoves
    <3> QED
      BY <2>2, <3>1, <3>2 DEF Apply, Claim, Send, SendSkipped, DeleteEntry,
                              CountAttempt, Park, NotNoted
  <2>4. \A f \in Entries \ {e} :
          failures'[f] = failures[f] /\ Parkings(f)' = Parkings(f)
          /\ Waiting(f)' = Waiting(f)
    BY <2>2 DEF Apply, Claim, Send, SendSkipped, DeleteEntry, CountAttempt, Park,
                NotNoted, items, history, Parkings, Waiting, Exists, TypedInv, TypeOK
  <2>5. ASSUME ~CountAttempt(d, e), ~Park(d, e)
        PROVE  failures'[e] = failures[e] /\ Parkings(e)' = Parkings(e)
               /\ Waiting(e)' <= Waiting(e)
    <3>1. Waiting(e) \in Nat
      BY WaitingNat
    <3>2. failures'[e] = failures[e] /\ Parkings(e)' = Parkings(e)
      BY <2>2, <2>5 DEF Apply, Claim, Send, SendSkipped, DeleteEntry, NotNoted, items,
                        history, Parkings
    <3>3. CASE DeleteEntry(d, e)
      <4>1. pending'[e] = None
        BY <3>3 DEF DeleteEntry, TypedInv, TypeOK
      <4>2. Waiting(e)' = 0
        BY <4>1 DEF Waiting, Exists
      <4> QED
        BY <3>1, <3>2, <4>2
    <3>4. CASE ~DeleteEntry(d, e)
      <4>1. Waiting(e)' = Waiting(e)
        BY <2>2, <2>5, <3>4 DEF Apply, Claim, Send, SendSkipped, NotNoted, items,
                                Waiting, Exists
      <4> QED
        BY <3>1, <3>2, <4>1
    <3> QED
      BY <3>3, <3>4
  <2>6. \A f \in Entries : IsFiniteSet(Failed(f)') /\ Paid(f)'
    <3> SUFFICES ASSUME NEW f \in Entries PROVE IsFiniteSet(Failed(f)') /\ Paid(f)'
      OBVIOUS
    <3>1. CASE f = e /\ CountAttempt(d, e)
      BY <2>1, <3>1, CountKeepsPaid
    <3>2. CASE f = e /\ Park(d, e)
      BY <2>1, <3>2, ParkKeepsPaid
    <3>3. CASE f = e /\ ~CountAttempt(d, e) /\ ~Park(d, e)
      BY <2>3, <2>5, <3>3, LeavingKeepsPaid
    <3>4. CASE f # e
      <4>1. Waiting(f) \in Nat
        BY WaitingNat
      <4>2. Waiting(f)' <= Waiting(f)
        BY <2>4, <3>4, <4>1
      <4> QED
        BY <2>3, <2>4, <3>4, <4>2, LeavingKeepsPaid
    <3> QED
      BY <3>1, <3>2, <3>3, <3>4
  <2>7. GivenUp'
    <3>1. UNCHANGED <<queued, discarded>>
      BY <2>2 DEF Apply, Claim, Send, SendSkipped, DeleteEntry, CountAttempt, Park,
                  NotNoted, items, history
    <3>2. \A f \in Entries : Exists(f)' => Exists(f)
      BY <2>2, OutboxConstants
         DEF Apply, Claim, Send, SendSkipped, DeleteEntry, CountAttempt, Park,
             NotNoted, items, history, Exists, Noted, TypedInv, TypeOK
    <3>3. \A f \in parked' : f \in parked \/ Exists(f)
      BY <2>1, <2>2
         DEF Apply, Claim, Send, SendSkipped, DeleteEntry, CountAttempt, Park,
             NotNoted, items, history, Exists, Unmoved, InHand, InBatch
    <3>4. discarded \subseteq Entries
      BY DEF TypedInv, TypeOK
    <3> QED
      BY <3>1, <3>2, <3>3, <3>4 DEF PaidInv, GivenUp
  <2> QED
    BY <2>6, <2>7 DEF PaidInv
<1> QED
  BY <1>1, <1>2

\* Every step keeps the books.
LEMMA PaidStep ==
  ASSUME OutboxInv, OutboxInv', PaidInv, [Next]_vars
  PROVE  PaidInv'
<1> USE DEF OutboxInv
<1>1. CASE UNCHANGED vars
  BY <1>1 DEF vars, items, history, PaidInv, GivenUp, Exists, Failed, Paid, Parkings,
              Waiting, InHand, InBatch, At
<1>2. ASSUME NEW d \in Drains, NEW e \in Entries, OnEntry(d, e)
      PROVE  PaidInv'
  <2>1. InHand(d, e)
    BY <1>2 DEF OnEntry
  <2> QED
    BY <1>2, <2>1, FailKeepsPaid, DrainStepKeepsPaid
<1> QED
  BY <1>1, <1>2, EntryStepKeepsPaid, DrainStepKeepsPaid DEF Next

\* The books are balanced at the start.
LEMMA PaidInit == Init => PaidInv
<1> SUFFICES ASSUME Init PROVE PaidInv
  OBVIOUS
<1>1. \A d \in Drains : InBatch(d) = {}
  BY RestingStates DEF Init, InBatch, NoBatch
<1>2. \A e \in Entries : Failed(e) = {}
  BY <1>1 DEF Failed, InHand
<1>3. ASSUME NEW e \in Entries PROVE IsFiniteSet(Failed(e)) /\ Paid(e)
  <2>1. Cardinality(Failed(e)) = 0 /\ IsFiniteSet(Failed(e))
    BY <1>2, FS_EmptySet
  <2>2. Parkings(e) = 0 /\ Waiting(e) = 0 /\ failures[e] = 0
    BY DEF Init, Parkings, Waiting, Exists
  <2>3. ParkAfter * 0 = 0
    BY OutboxConstants
  <2> QED
    BY <2>1, <2>2, <2>3 DEF Paid
<1> QED
  BY <1>3 DEF PaidInv, GivenUp, Init

\* The invariant holds at the start.
LEMMA OutboxInit == Init => OutboxInv
<1> SUFFICES ASSUME Init PROVE OutboxInv
  OBVIOUS
<1>1. \A d \in Drains : InBatch(d) = {} /\ drain[d].pc = "idle"
  BY RestingStates DEF Init, InBatch, NoBatch
<1>2. PlaceInv
  BY <1>1 DEF Init, PlaceInv, Known, OnePlace, NothingDropped, Held, Exists
<1>3. WorkInv
  BY <1>1 DEF Init, WorkInv, WorkDone, ClaimHolds, FreshWork, WorkNotRepeated,
              Held, Exists, InHand
<1> QED
  BY <1>2, <1>3, TypedInit DEF OutboxInv

\* OutboxInv is an invariant of the specification.
LEMMA OutboxInvariant == Spec => []OutboxInv
<1>1. OutboxInv /\ [Next]_vars => OutboxInv'
  BY TypedStep, WorkStep, PlaceStep DEF OutboxInv
<1> QED
  BY <1>1, OutboxInit, PTL DEF Spec

\* What is owed for every parking of an entry is covered by the cap.
LEMMA CapCovers ==
  ASSUME TypedInv, NEW e \in Entries
  PROVE  Parkings(e) <= MaxRetries + 1 /\ ParkAfter * Parkings(e) <= FailureCap
<1>1. Parkings(e) \in Nat /\ Parkings(e) <= MaxRetries + 1
  BY OutboxConstants DEF Parkings, TypedInv, TypeOK
<1>2. PICK k \in Nat : Parkings(e) + k = MaxRetries + 1
  <2>1. (MaxRetries + 1) - Parkings(e) \in Nat
    BY <1>1, OutboxConstants
  <2> QED
    BY <1>1, <2>1, OutboxConstants
<1>3. ParkAfter * (Parkings(e) + k) = ParkAfter * Parkings(e) + ParkAfter * k
  BY <1>1, <1>2, OutboxConstants
<1>4. ParkAfter * k \in Nat /\ ParkAfter * Parkings(e) \in Nat
  BY <1>1, <1>2, OwedNat
<1> DEFINE owed == ParkAfter * Parkings(e)
           rest == ParkAfter * k
<1>5. owed + rest <= FailureCap
  BY <1>2, <1>3, OutboxConstants
<1>6. owed <= FailureCap
  <2> HIDE DEF owed, rest
  <2> QED
    BY <1>4, <1>5, OutboxConstants DEF owed, rest
<1> QED
  BY <1>1, <1>6

-----------------------------------------------------------------------------
(* Theorems *)

\* An entry is never both pending and parked, so a late failure never brings
\* back what another drain moved (the condition of drainOutbox's update).
THEOREM PlacesExclude == Spec => []OnePlace
<1>1. OutboxInv => OnePlace
  BY DEF OutboxInv, PlaceInv
<1> QED
  BY <1>1, OutboxInvariant, PTL

\* An entry that left the outbox was worked off, is parked or was discarded.
THEOREM EntriesAreKept == Spec => []NothingDropped
<1>1. OutboxInv => NothingDropped
  BY DEF OutboxInv, PlaceInv
<1> QED
  BY <1>1, OutboxInvariant, PTL

\* The work of an entry is done once, and once more per retry of the owner.
THEOREM WorkIsNotRepeated == Spec => []WorkNotRepeated
<1>1. OutboxInv => WorkNotRepeated
  BY DEF OutboxInv, WorkInv
<1> QED
  BY <1>1, OutboxInvariant, PTL

\* Every parking of an entry was paid for with ParkAfter failures of its own:
\* the attempts are reset where an entry is parked, and the condition of that
\* write keeps a drain that read it earlier from parking it again.
THEOREM ParkingsArePaid == Spec => []ParkingsPaid
<1> DEFINE Inv == OutboxInv /\ PaidInv
<1>1. Init => Inv
  BY OutboxInit, PaidInit
<1>2. Inv /\ [Next]_vars => Inv'
  <2> SUFFICES ASSUME Inv, [Next]_vars PROVE Inv'
    OBVIOUS
  <2>1. OutboxInv'
    BY TypedStep, WorkStep, PlaceStep DEF OutboxInv
  <2> QED
    BY <2>1, PaidStep
<1>3. Inv => ParkingsPaid
  <2> SUFFICES ASSUME Inv, NEW e \in Entries
               PROVE  failures[e] >= ParkAfter * Parkings(e)
    BY DEF ParkingsPaid, Parkings
  <2>1. TypedInv
    BY DEF OutboxInv
  <2>2. CASE failures[e] = FailureCap
    BY <2>1, <2>2, CapCovers
  <2>3. CASE failures[e] >= ParkAfter * Parkings(e) + Waiting(e) + Cardinality(Failed(e))
    <3>1. Cardinality(Failed(e)) \in Nat
      BY FS_CardinalityType DEF PaidInv
    <3>2. ParkAfter * Parkings(e) \in Nat /\ Waiting(e) \in Nat /\ failures[e] \in Nat
      BY <2>1, PaidNat, OwedNat
    <3> QED
      BY <2>3, <3>1, <3>2
  <2> QED
    BY <2>2, <2>3 DEF PaidInv, Paid
<1> QED
  BY <1>1, <1>2, <1>3, PTL DEF Spec

\* An entry that left the outbox and is not parked never comes back.
THEOREM GoneEntriesStayGone == Spec => GoneStaysGone
<1> DEFINE Stays == \A e \in queued : ~Exists(e) /\ e \notin parked =>
                      ~Exists(e)' /\ e \notin parked'
<1>1. ASSUME OutboxInv, [Next]_vars PROVE Stays
  <2>1. queued \subseteq Entries
    BY <1>1 DEF OutboxInv, TypedInv, TypeOK
  <2>2. CASE UNCHANGED vars
    BY <2>2 DEF vars, items, Exists
  <2>3. ASSUME NEW d \in Drains, Loop(d) \/ Stop(d) PROVE Stays
    BY <2>3 DEF Loop, BeginDrain, ReadShard, EndDrain, Stop, items, Exists
  <2>4. ASSUME NEW e \in Entries,
               Enqueue(e) \/ Retry(e) \/ Discard(e) \/ MarkerExpires(e)
        PROVE  Stays
    BY <2>1, <2>4, <1>1 DEF Enqueue, Retry, Discard, MarkerExpires, Exists,
                            OutboxInv, TypedInv, TypeOK
  <2>5. ASSUME NEW d \in Drains, NEW e \in Entries, OnEntry(d, e) PROVE Stays
    <3>1. Exists(e) \/ ~Park(d, e)
      BY <2>5 DEF OnEntry, Park, Unmoved, InHand, InBatch, Exists
    <3>2. \A f \in Entries : Exists(f)' => Exists(f)
      BY <2>5, <1>1, OutboxConstants
         DEF OnEntry, Handle, Conclude, Apply, Claim, Send, SendSkipped, HandlerFails,
             DeleteFails, Fail, DeleteEntry, CountAttempt, Park, NotNoted, items,
             Noted, Exists, OutboxInv, TypedInv, TypeOK
    <3>3. parked' \subseteq parked \cup {e} /\ (e \in parked' \ parked => Park(d, e))
      BY <2>5 DEF OnEntry, Handle, Conclude, Apply, Claim, Send, SendSkipped,
                  HandlerFails, DeleteFails, Fail, DeleteEntry, CountAttempt, NotNoted,
                  items, Park
    <3> QED
      BY <2>1, <3>1, <3>2, <3>3
  <2> QED
    BY <1>1, <2>2, <2>3, <2>4, <2>5 DEF Next
<1>2. OutboxInv /\ [Next]_vars => [Stays]_vars
  BY <1>1
<1> QED
  BY <1>2, OutboxInvariant, PTL DEF Spec, GoneStaysGone

=============================================================================
