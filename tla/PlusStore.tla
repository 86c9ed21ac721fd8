------------------------------ MODULE PlusStore -------------------------------
(***************************************************************************)
(* How a listener's PLUS is changed on DynamoDB: an invocation reads the   *)
(* PLUS version, then the rows, computes what they become, and writes that *)
(* in one transaction if the version is still the one it read              *)
(* (paid-ddb/common.ts readPlus, bumpPlus).  Notices of the store, its     *)
(* refunds, redeemed codes and the admin do so at the same time.           *)
(***************************************************************************)
EXTENDS PlusRows

CONSTANTS
  Workers,   \* invocations of the API that run at the same time
  MaxTime,   \* bound of the clock
  MaxActs    \* bound of the changes asked for

VARIABLES
  now,       \* the server's clock
  row,       \* the rows of the listener
  queue,     \* the end under which the digest queue holds them
  used,      \* the codes the listener has redeemed
  version,   \* `v` of PLUSV, 0 before the first change
  worker,    \* what an invocation has read
  bared,     \* history: a row for ever was refunded
  acts       \* how many changes were asked for

items == <<row, queue, used, version>>
vars == <<now, items, worker, bared, acts>>

Idle == [step |-> "idle"]
Worker ==
  {Idle} \cup [step: {"version"}, change: Change, at: Nat]
         \cup [step: {"rows"}, change: Change, at: Nat, v: Nat]
         \cup [step: {"write"}, change: Change, at: Nat, v: Nat, t: Nat,
               rows: [Refs -> Row \cup {None}]]

At(w, step) == worker[w].step = step
Goto(w, state) == worker' = [worker EXCEPT ![w] = state]
Begun(c) == [step |-> "version", change |-> c, at |-> now]

Init ==
  /\ now = 0 /\ row = NoRows /\ queue = None /\ used = {} /\ version = 0
  /\ worker = [w \in Workers |-> Idle]
  /\ bared = FALSE /\ acts = 0

-----------------------------------------------------------------------------
Tick ==
  /\ now < MaxTime /\ now' = now + 1
  /\ UNCHANGED <<items, worker, bared, acts>>

\* A refund begins with the row it finds granted by its purchase.
Begins(c) == c.op = "withdraw" => GrantedBy(row, c.source)

Ask(w, c) ==
  /\ At(w, "idle") /\ c.op # "rechain" /\ Begins(c)
  /\ acts < MaxActs /\ acts' = acts + 1
  /\ Goto(w, Begun(c))
  /\ UNCHANGED <<now, items, bared>>

\* readPlus: the version first, then the rows.
ReadVersion(w) ==
  /\ At(w, "version")
  /\ Goto(w, [step |-> "rows", change |-> worker[w].change, at |-> worker[w].at,
              v |-> version])
  /\ UNCHANGED <<now, items, bared, acts>>

\* A redeem and a refund asked the time before they read, the others do now.
Computes(c, at) == IF c.op \in {"redeem", "withdraw"} THEN at ELSE now

ReadRows(w) ==
  LET k == worker[w] IN
  /\ At(w, "rows")
  /\ Goto(w, [step |-> "write", change |-> k.change, at |-> k.at, v |-> k.v,
              t |-> Computes(k.change, k.at), rows |-> row])
  /\ UNCHANGED <<now, items, bared, acts>>

\* The rows the transaction writes: those that differ from what was read.
Written(k) ==
  LET after == Changed(k.change, k.rows, k.at, k.t)
  IN [r \in Refs |-> IF after[r] # k.rows[r] THEN after[r] ELSE row[r]]

UnmovedAlways(k) == TRUE
Unmoved(k) == k.v = version

Bares(k) == k.change.op = "withdraw" /\ k.rows[Store].until = Never
Nothing(k) == k.change.op = "rechain" /\ Changed(k.change, k.rows, k.at, k.t) = k.rows

\* The transaction.  After an admin's grant the route chains the codes again.
Commit(w) ==
  LET k == worker[w] IN
  /\ At(w, "write") /\ ~Nothing(k)
  /\ Unmoved(k) /\ Permitted(k.change, row, used)
  /\ row' = Written(k)
  /\ queue' = LatestEnd(Changed(k.change, k.rows, k.at, k.t), k.t)
  /\ used' = UsedAfter(k.change, used)
  /\ version' = k.v + 1
  /\ bared' = (bared \/ Bares(k))
  /\ Goto(w, IF k.change.op = "admin" THEN Begun([op |-> "rechain"]) ELSE Idle)
  /\ UNCHANGED <<now, acts>>

\* Cancelled by another's change: the whole attempt is made again.
ReadAgain(w) ==
  /\ At(w, "write") /\ ~Nothing(worker[w])
  /\ ~Unmoved(worker[w]) \/ ~Permitted(worker[w].change, row, used)
  /\ Begins(worker[w].change)
  /\ worker[w].change.op = "redeem" => worker[w].change.code \notin used
  /\ Goto(w, Begun(worker[w].change))
  /\ UNCHANGED <<now, items, bared, acts>>

\* Nothing to chain, a code used before, the tries used up, a crash.
Stop(w) ==
  /\ ~At(w, "idle")
  /\ Goto(w, Idle)
  /\ UNCHANGED <<now, items, bared, acts>>

\* plusQueueRetz: the queue's entry moves to another zone, its end stays.
Rezone ==
  /\ version > 0 /\ version' = version + 1
  /\ acts < MaxActs /\ acts' = acts + 1
  /\ UNCHANGED <<now, row, queue, used, worker, bared>>

Next ==
  \/ Tick \/ Rezone
  \/ \E w \in Workers :
       \/ \E c \in Change : Ask(w, c)
       \/ ReadVersion(w) \/ ReadRows(w) \/ Commit(w) \/ ReadAgain(w) \/ Stop(w)

Spec == Init /\ [][Next]_vars

-----------------------------------------------------------------------------
(* Properties *)

TypeOK ==
  /\ now \in Nat /\ acts \in Nat /\ version \in Nat /\ bared \in BOOLEAN
  /\ row \in [Refs -> Row \cup {None}]
  /\ queue \in Nat \cup {Never, None}
  /\ used \subseteq Codes
  /\ worker \in [Workers -> Worker]

\* A code that has not started overlaps no row that still runs or waits, so
\* that none of its days is lost (purchases.ts: "so they still follow on
\* without overlap").  Beside a row for ever there is nothing to follow on, and
\* a refund of one does not chain the codes.
Apart(c, k) ==
  \/ row[k].until <= row[c].from
  \/ k \in Codes /\ row[k].from >= row[c].until

CodesFollowOn ==
  ~bared /\ Never \notin Until(row, NotEnded(row, now)) =>
    \A c \in Waiting(row, now) : \A k \in NotEnded(row, now) \ {c} : Apart(c, k)

\* The weekly digest finds a listener by the latest end of their rows as long
\* as one has not ended, and by nothing later (bumpPlus, plusMembersDue).
QueueTellsLatestEnd ==
  LET ends == Until(row, NotEnded(row, now)) IN
  IF ends = {} THEN queue = None \/ queue \in 0..now
  ELSE /\ queue \in ends
       /\ queue = Never \/ \A e \in ends : e # Never /\ e <= queue

\* The end the listener is told is the first moment without PLUS (plusRun).
Covered(t) == \E r \in {row[k] : k \in Refs} \ {None} :
                r.from <= t /\ (r.until = Never \/ t < r.until)
UntilIsFirstGap ==
  LET end == PlusUntil(row, now) IN
  /\ end = None <=> ~Covered(now)
  /\ end \in Nat => ~Covered(end) /\ \A t \in now..(end - 1) : Covered(t)
  /\ end = Never => \E k \in Refs : row[k] # None /\ row[k].until = Never

\* Every change is made of the rows as they stand.
Line == INSTANCE PlusLine
ChangesAtOnce == Line!Spec

=============================================================================
