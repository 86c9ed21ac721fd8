------------------------------- MODULE PlusRows -------------------------------
(***************************************************************************)
(* A listener's PLUS as intervals, one row for each source: the store, the *)
(* admin, each redeem code (apps/api/src/db/repos/account/paid-ddb).  A    *)
(* row runs from `from` (0: since ever) until just before `until`.  What a *)
(* change makes of the rows it has read is computed here, by pure          *)
(* operators; PlusStore says when that is written, PlusLine what it means. *)
(***************************************************************************)
EXTENDS Naturals, FiniteSets, FiniteSetsExt

CONSTANTS
  Store, Admin,  \* the refs '' and 'admin'
  Codes,         \* redeem codes, as numbers: their refs are ordered
  Length,        \* the days a code gives
  Purchases,     \* store purchases of the subscription
  Ends,          \* the ends Google may name
  GivenDays,     \* the days an admin may give
  Never,         \* the end of a row that runs for ever
  None           \* no row, no end, no source

Refs == {Store, Admin} \cup Codes
Row == [from: Nat, until: Nat \cup {Never}, source: Purchases \cup {None}]
NoRows == [k \in Refs |-> None]

ASSUME PlusConstants ==
  /\ Codes \subseteq Nat /\ IsFiniteSet(Codes) /\ Length \in [Codes -> Nat \ {0}]
  /\ Ends \subseteq Nat \cup {Never} /\ GivenDays \subseteq Nat
  /\ Store # Admin /\ {Store, Admin} \cap Nat = {}
  /\ Never \notin Nat /\ None \notin Nat \cup {Never} \cup Row \cup Purchases

-----------------------------------------------------------------------------
\* The rows that have not ended, and their latest end: the key of the digest
\* queue.
After(r, t) == r # None /\ (r.until = Never \/ r.until > t)
NotEnded(rows, t) == {k \in Refs : After(rows[k], t)}
Until(rows, S) == {rows[k].until : k \in S}

LatestEndOfStarted(rows, t) ==
  LET ends == Until(rows, {k \in NotEnded(rows, t) : rows[k].from <= t})
  IN IF ends = {} THEN None ELSE IF Never \in ends THEN Never ELSE Max(ends)

LatestEnd(rows, t) ==
  LET ends == Until(rows, NotEnded(rows, t))
  IN IF ends = {} THEN None ELSE IF Never \in ends THEN Never ELSE Max(ends)

\* Codes that have not started are moved after the latest end of the other
\* rows and after each other, each keeping its days; nothing moves earlier.
Days(r) == r.until - r.from
Waiting(rows, t) == {c \in Codes : rows[c] # None /\ rows[c].from > t}

RechainedAfter(rows, t, base) ==
  LET waiting == Waiting(rows, t)
      before(c) == {d \in waiting : \/ rows[d].from < rows[c].from
                                    \/ rows[d].from = rows[c].from /\ d < c}
      start[c \in waiting] ==
        Max({rows[c].from} \cup base
              \cup {start[d] + Days(rows[d]) : d \in before(c)})
  IN IF Never \in base THEN rows
     ELSE [k \in Refs |->
             IF k \in waiting
             THEN [from |-> start[k], until |-> start[k] + Days(rows[k]),
                   source |-> None]
             ELSE rows[k]]

RechainedAfterStore(rows, t) ==
  RechainedAfter(rows, t, Until(rows, NotEnded(rows, t) \cap {Store}))

Rechained(rows, t) ==
  RechainedAfter(rows, t, Until(rows, NotEnded(rows, t) \ Waiting(rows, t)))

-----------------------------------------------------------------------------
\* What a change that began at `at` makes of the rows, computed at t.

\* The store's and the admin's row keeps its start, its end is set.
Given(rows, k, until, source) ==
  [rows EXCEPT ![k] = [from |-> IF rows[k] = None THEN 0 ELSE rows[k].from,
                       until |-> until, source |-> source]]

\* A code follows on the latest end; beside a row for ever it runs at once.
Redeemed(rows, c, t) ==
  LET ends == Until(rows, NotEnded(rows, t))
      start == IF Never \in ends THEN t ELSE Max({t} \cup ends)
  IN [rows EXCEPT ![c] = [from |-> start, until |-> start + Length[c],
                          source |-> None]]

Change ==
  [op: {"store"}, until: Ends, source: Purchases]
    \cup [op: {"admin"}, days: GivenDays]
    \cup [op: {"redeem"}, code: Codes]
    \cup [op: {"withdraw"}, source: Purchases]
    \cup [op: {"revoke", "rechain"}]

Changed(c, rows, at, t) ==
  CASE c.op = "store" -> Rechained(Given(rows, Store, c.until, c.source), t)
    [] c.op = "admin" -> Rechained(Given(rows, Admin, at + c.days, None), t)
    [] c.op = "redeem" -> Redeemed(rows, c.code, t)
    [] c.op = "withdraw" -> [rows EXCEPT ![Store] = None]
    [] c.op = "revoke" -> NoRows
    [] c.op = "rechain" -> Rechained(rows, t)

\* What the transaction asks of the rows as they are when it commits.
GrantedBy(rows, source) == rows[Store] # None /\ rows[Store].source = source

Permitted(c, rows, used) ==
  /\ c.op = "redeem" => rows[c.code] = None /\ c.code \notin used
  /\ c.op = "withdraw" => GrantedBy(rows, c.source)

UsedAfter(c, used) == IF c.op = "redeem" THEN used \cup {c.code} ELSE used

-----------------------------------------------------------------------------
\* plusRun: the run of rows that holds t is followed to its end.
ExtendsBefore(rows, e) ==
  {k \in Refs : /\ rows[k] # None /\ rows[k].from < e
                /\ rows[k].until = Never \/ rows[k].until > e}

Extends(rows, e) ==
  {k \in Refs : /\ rows[k] # None /\ rows[k].from <= e
                /\ rows[k].until = Never \/ rows[k].until > e}

PlusUntil(rows, t) ==
  LET run[e \in Nat] ==
        LET ends == Until(rows, Extends(rows, e))
        IN IF ends = {} THEN e ELSE IF Never \in ends THEN Never ELSE run[Max(ends)]
  IN IF Extends(rows, t) = {} THEN None ELSE run[t]

=============================================================================
