------------------------------- MODULE PaidLane -------------------------------
(***************************************************************************)
(* The paid lane of the API: store purchases, gifts, refunds and redeemed  *)
(* shows (apps/api/src/db/repos/account/paid-ddb).                         *)
(*                                                                         *)
(* Every write of the code is one conditional DynamoDB transaction, and    *)
(* between a read and that write any other invocation may commit.  A read  *)
(* the transaction checks again (a put-if-absent, a version) needs no      *)
(* snapshot: the write is an action whose guard is the condition.  A read  *)
(* it does NOT check again is kept in the worker's record and may be stale *)
(* when it is used: `seen` of a grant, `granted` and `take` of a refund.   *)
(***************************************************************************)
EXTENDS Naturals, FiniteSets

CONSTANTS
  Listeners,   \* accounts
  Tokens,      \* store purchase tokens; a token is the purchase's key
  Orders,      \* store order ids
  Shows,       \* feeds sold as a paid series
  Codes,       \* redeem codes that grant a show
  Workers,     \* invocations of the API that run at the same time
  Kind,        \* what the store sold under a token
  Tests,       \* the tokens that are test purchases of the store
  OrderOf,     \* the order id Google names for a token
  ShowOf,      \* the show a token was bought for
  AccountOf,   \* the account hash Google names, None on an old build
  CodeShow,    \* the show a code gives
  MaxUses,     \* how often a code may be used
  Plus,        \* the thing a PLUS row of the store gives (ref '')
  None,        \* no item under a key
  ByCode       \* an entitlement row without a source purchase

Kinds == {"plus", "show", "gift", "tip"}
Things == Shows \cup {Plus}
Keys == Listeners \X Things            \* entitlement rows L#<id>/ENT#...
Sources == Tokens \cup {None, ByCode}

Purchase == [owner: Listeners, status: {"active", "expired", "refunded"},
             acked: BOOLEAN, voided: BOOLEAN, queued: BOOLEAN,
             granted: SUBSET Keys]
Gift == [claimedBy: Listeners \cup {None}, cancelled: BOOLEAN]

ASSUME PaidConstants ==
  /\ Kind \in [Tokens -> Kinds]
  /\ Tests \subseteq Tokens
  /\ OrderOf \in [Tokens -> Orders]
  /\ ShowOf \in [Tokens -> Shows]
  /\ AccountOf \in [Tokens -> Listeners \cup {None}]
  /\ CodeShow \in [Codes -> Shows]
  /\ MaxUses \in [Codes -> Nat]

ASSUME PaidSentinels ==
  /\ Plus \notin Shows
  /\ None \notin Tokens \cup Listeners
  /\ None \notin Purchase \cup Gift
  /\ ByCode \notin Tokens \cup {None}

VARIABLES
  google,      \* what Google says of a token (external)
  googleAcked, \* the tokens Google was told of (external)
  purchase,    \* the purchase item of a token
  txn,         \* U#TXN#<order id>: the token that claimed it
  ent,         \* the source of an entitlement row, None when there is no row
  gift,        \* the gift a purchase made
  tips,        \* the tokens whose tip item exists
  earning,     \* the Studio earning of a token
  uses,        \* the counter of a redeem code
  used,        \* RUSE rows: <<code, listener>>
  disabled,    \* codes switched off
  worker       \* what an invocation is doing, with what it has read

shop == <<gift, tips, earning>>
codes == <<uses, used, disabled>>
play == <<google, googleAcked>>
vars == <<play, purchase, txn, ent, shop, codes, worker>>

-----------------------------------------------------------------------------
(* Items *)
Recorded(t) == purchase[t] # None

\* common.ts ackDue: Google has not been told of an active purchase.
AckDue(p) == p.status = "active" /\ ~p.acked
Due(t) == Recorded(t) /\ AckDue(purchase[t])

\* The entitlement row a token of this kind gives to l.
KeyOf(t, l) == <<l, IF Kind[t] = "plus" THEN Plus ELSE ShowOf[t]>>

Idle == [pc |-> "idle"]

\* The steps of an invocation, and what it carries from its reads.
Asking == [pc: {"ask"}, t: Tokens, l: Listeners, seen: Purchase \cup {None}]
Writing == [pc: {"write"}, t: Tokens, l: Listeners,
            seen: Purchase \cup {None}, told: BOOLEAN]
Settling == [pc: {"expire", "ack", "note"}, t: Tokens]
Gathering == [pc: {"gather"}, t: Tokens, granted: SUBSET Keys]
Voiding == [pc: {"void"}, t: Tokens, take: SUBSET Keys]
WorkerStates ==
  {Idle} \cup Asking \cup Writing \cup Settling \cup Gathering \cup Voiding

At(w, pc) == worker[w].pc = pc
Goto(w, state) == worker' = [worker EXCEPT ![w] = state]

Init ==
  /\ google = [t \in Tokens |-> "unpaid"]
  /\ googleAcked = {}
  /\ purchase = [t \in Tokens |-> None]
  /\ txn = [o \in Orders |-> None]
  /\ ent = [k \in Keys |-> None]
  /\ gift = [t \in Tokens |-> None]
  /\ tips = {}
  /\ earning = [t \in Tokens |-> "none"]
  /\ uses = [c \in Codes |-> 0]
  /\ used = {}
  /\ disabled = {}
  /\ worker = [w \in Workers |-> Idle]

-----------------------------------------------------------------------------
(* Google Play, as the code uses it: a subscription may lapse and resume,  *)
(* and a payment that is voided is no longer paid.                         *)

GoogleMoves(t, from, to) ==
  /\ google[t] \in from
  /\ google' = [google EXCEPT ![t] = to]
  /\ UNCHANGED <<googleAcked, purchase, txn, ent, shop, codes, worker>>

GooglePays(t) == GoogleMoves(t, {"unpaid"}, "paid")
GoogleLapses(t) == Kind[t] = "plus" /\ GoogleMoves(t, {"paid"}, "lapsed")
GoogleResumes(t) == GoogleMoves(t, {"lapsed"}, "paid")
GoogleVoids(t) == GoogleMoves(t, {"paid", "lapsed"}, "void")

-----------------------------------------------------------------------------
(* Grant: purchases.ts grantGoogle *)

\* The phone sends a token.  A purchase of another account is refused and a
\* recorded purchase that is not PLUS is answered again; neither changes
\* anything, so only the calls that go on to Google are steps.
GrantBegin(w, t, l) ==
  /\ At(w, "idle")
  /\ google[t] # "unpaid"
  /\ Recorded(t) => purchase[t].owner = l /\ Kind[t] = "plus"
  /\ Goto(w, [pc |-> "ask", t |-> t, l |-> l, seen |-> purchase[t]])
  /\ UNCHANGED <<play, purchase, txn, ent, shop, codes>>

AccountOk(t, l) == AccountOf[t] \in {None, l}

\* play.subscription / play.product: paid, and by this account.  A test
\* purchase that is not allowed here (checkTest) is refused: the step Stop.
GrantAsk(w) ==
  /\ At(w, "ask")
  /\ LET s == worker[w] IN
       /\ google[s.t] = "paid"
       /\ AccountOk(s.t, s.l)
       /\ Goto(w, [pc |-> "write", t |-> s.t, l |-> s.l, seen |-> s.seen,
                   told |-> s.t \in googleAcked])
  /\ UNCHANGED <<play, purchase, txn, ent, shop, codes>>

\* Google names another account, or has not taken this payment: nothing is
\* granted, and a PLUS purchase seen before goes on to be marked expired.
GrantNotPaid(w) ==
  /\ At(w, "ask")
  /\ LET s == worker[w] IN
       /\ google[s.t] # "paid" \/ ~AccountOk(s.t, s.l)
       /\ Goto(w, IF s.seen # None /\ AccountOk(s.t, s.l)
                  THEN [pc |-> "expire", t |-> s.t] ELSE Idle)
  /\ UNCHANGED <<play, purchase, txn, ent, shop, codes>>

\* SET status = expired, off the queue, only while the status is active.
Expired(p) ==
  IF p.status = "active" THEN [p EXCEPT !.status = "expired", !.queued = FALSE]
                         ELSE p

GrantExpire(w) ==
  /\ At(w, "expire")
  /\ purchase' = [purchase EXCEPT ![worker[w].t] = Expired(@)]
  /\ Goto(w, Idle)
  /\ UNCHANGED <<play, txn, ent, shop, codes>>

\* After the write: Google is told, unless it already knows.
AfterGrant(t, told) == [pc |-> IF told THEN "note" ELSE "ack", t |-> t]

\* Mutant: a show already owned is taken over by the new purchase.
GrantedByTakingOver(t, l) ==
  IF Kind[t] \in {"plus", "show"} THEN {KeyOf(t, l)} ELSE {}

\* A show already owned (a gift, a code) keeps its own source.
GrantedBy(t, l) ==
  CASE Kind[t] = "plus" -> {KeyOf(t, l)}
    [] Kind[t] = "show" /\ ent[KeyOf(t, l)] = None -> {KeyOf(t, l)}
    [] OTHER -> {}

\* Everything but PLUS is an earning of the show in the Studio: never a test
\* purchase.
EarningOf(t) == IF Kind[t] = "plus" \/ t \in Tests THEN "none" ELSE "sale"

\* unique.ts claimUnique: U#TXN#<order> is put only while it does not exist.
OrderFree(t) == txn[OrderOf[t]] = None

\* create: the purchase, the claim of its order id, what it grants and its
\* earning, in one transaction that needs token and order id to be free.
GrantCreate(w) ==
  /\ At(w, "write")
  /\ LET s == worker[w] IN
       /\ s.seen = None
       /\ ~Recorded(s.t)
       /\ OrderFree(s.t)
       /\ purchase' = [purchase EXCEPT ![s.t] =
            [owner |-> s.l, status |-> "active", acked |-> FALSE,
             voided |-> FALSE, queued |-> TRUE,
             granted |-> GrantedBy(s.t, s.l)]]
       /\ txn' = [txn EXCEPT ![OrderOf[s.t]] = s.t]
       /\ ent' = [k \in Keys |-> IF k \in GrantedBy(s.t, s.l) THEN s.t ELSE ent[k]]
       /\ gift' = [gift EXCEPT ![s.t] =
            IF Kind[s.t] = "gift" THEN [claimedBy |-> None, cancelled |-> FALSE]
                                  ELSE None]
       /\ tips' = IF Kind[s.t] = "tip" THEN tips \cup {s.t} ELSE tips
       /\ earning' = [earning EXCEPT ![s.t] = EarningOf(s.t)]
       /\ Goto(w, AfterGrant(s.t, s.told))
  /\ UNCHANGED <<play, codes>>

\* Another notice of this token committed first: it granted, so this one
\* grants nothing; an order id held by another token fails the request.
GrantRaced(w) ==
  /\ At(w, "write")
  /\ LET s == worker[w] IN
       /\ s.seen = None
       /\ Recorded(s.t) \/ ~OrderFree(s.t)
       /\ Goto(w, IF Recorded(s.t) /\ purchase[s.t].owner = s.l /\ s.told
                  THEN [pc |-> "note", t |-> s.t] ELSE Idle)
  /\ UNCHANGED <<play, purchase, txn, ent, shop, codes>>

\* Mutant: the item that was read is put back, not updated.
RenewedFromSeen(p, seen, key) ==
  [seen EXCEPT !.status = "active", !.granted = @ \cup {key},
               !.queued = ~seen.acked]

\* Mutant: the renewal takes the purchase off the acknowledge queue.
RenewedOffQueue(p, seen, key) ==
  [p EXCEPT !.status = "active", !.granted = seen.granted \cup {key},
            !.queued = FALSE]

\* What renewPlus sets on the purchase item p.  Whether Google is still due
\* to be told, and what was granted so far, come from `seen`.
Renewed(p, seen, key) ==
  [p EXCEPT !.status = "active", !.granted = seen.granted \cup {key},
            !.queued = ~seen.acked]

\* renewPlus: the transaction asks only that the purchase exists.
GrantRenew(w) ==
  /\ At(w, "write")
  /\ LET s == worker[w]
         key == KeyOf(s.t, s.l)
     IN /\ s.seen # None
        /\ purchase' = [purchase EXCEPT ![s.t] = Renewed(@, s.seen, key)]
        /\ ent' = [ent EXCEPT ![key] = s.t]
        /\ Goto(w, AfterGrant(s.t, s.told))
  /\ UNCHANGED <<play, txn, shop, codes>>

\* A cancelled attempt (the PLUS version moved, a conflict) reads again.
GrantRetry(w) ==
  /\ At(w, "write")
  /\ worker[w].seen # None
  /\ Goto(w, [worker[w] EXCEPT !.seen = purchase[worker[w].t]])
  /\ UNCHANGED <<play, purchase, txn, ent, shop, codes>>

-----------------------------------------------------------------------------
(* Telling Google: the end of grantGoogle, and acknowledgeDue *)

\* acknowledgeDue takes a purchase from the Q#ack-due queue.
AckDueBegin(w, t) ==
  /\ At(w, "idle")
  /\ Due(t)
  /\ purchase[t].queued
  /\ Goto(w, [pc |-> "ack", t |-> t])
  /\ UNCHANGED <<play, purchase, txn, ent, shop, codes>>

\* play.acknowledge answers.
TellGoogle(w) ==
  /\ At(w, "ack")
  /\ googleAcked' = googleAcked \cup {worker[w].t}
  /\ Goto(w, [worker[w] EXCEPT !.pc = "note"])
  /\ UNCHANGED <<google, purchase, txn, ent, shop, codes>>

\* SET acknowledgedAt, off the queue.
Acked(p) == [p EXCEPT !.acked = TRUE, !.queued = FALSE]

NoteAcked(w) ==
  /\ At(w, "note")
  /\ purchase' = [purchase EXCEPT ![worker[w].t] = Acked(@)]
  /\ Goto(w, Idle)
  /\ UNCHANGED <<play, txn, ent, shop, codes>>

-----------------------------------------------------------------------------
(* Refund: purchases.ts applyVoided and refundOne *)

\* Mutant: only a purchase still active is refunded.
RefundableWhileActive(t) ==
  google[t] = "void" /\ Recorded(t) /\ purchase[t].status = "active"

\* Google lists the token as voided and the purchase is not voided yet.
Refundable(t) == google[t] = "void" /\ Recorded(t) /\ ~purchase[t].voided

\* The daily check read this token among the voided ones; the purchase is
\* read, and its granted keys with it.
RefundBegin(w, t) ==
  /\ At(w, "idle")
  /\ Refundable(t)
  /\ Goto(w, [pc |-> "gather", t |-> t, granted |-> purchase[t].granted])
  /\ UNCHANGED <<play, purchase, txn, ent, shop, codes>>

\* Mutant: no granted row is ever found.
NothingTakenBack(t, granted) == {}

\* The granted rows that are this purchase's now.
TakenBack(t, granted) == {k \in granted : ent[k] = t}

\* Each granted row is read; a row another source owns now is left alone.
RefundGather(w) ==
  /\ At(w, "gather")
  /\ LET s == worker[w] IN
       Goto(w, [pc |-> "void", t |-> s.t,
                take |-> TakenBack(s.t, s.granted)])
  /\ UNCHANGED <<play, purchase, txn, ent, shop, codes>>

\* The rows the transaction deletes are still this purchase's.
StillOwned(t, take) == \A k \in take : ent[k] = t

\* A sale is marked refunded; the earning of a tip is deleted.
EarningRefunded(t) ==
  CASE Kind[t] = "tip" -> "none"
    [] Kind[t] # "tip" /\ earning[t] = "sale" -> "refunded"
    [] OTHER -> earning[t]

\* SET status = refunded, voidedAt, off the queue.
Voided(p) ==
  [p EXCEPT !.status = "refunded", !.voided = TRUE, !.queued = FALSE]

\* One transaction: voided once, rows deleted, tip deleted, gift cancelled
\* (claimed or not), earning refunded (a tip's earning deleted).
RefundCommit(w) ==
  /\ At(w, "void")
  /\ LET s == worker[w] IN
       /\ ~purchase[s.t].voided
       /\ StillOwned(s.t, s.take)
       /\ purchase' = [purchase EXCEPT ![s.t] = Voided(@)]
       /\ ent' = [k \in Keys |-> IF k \in s.take THEN None ELSE ent[k]]
       /\ gift' = IF gift[s.t] = None THEN gift
                  ELSE [gift EXCEPT ![s.t].cancelled = TRUE]
       /\ tips' = tips \ {s.t}
       /\ earning' = [earning EXCEPT ![s.t] = EarningRefunded(s.t)]
  /\ Goto(w, Idle)
  /\ UNCHANGED <<play, txn, codes>>

\* A refund another worker made, or a row that changed: cancelled whole.  The
\* next attempt, or the next day's check, begins again.
RefundCancelled(w) ==
  /\ At(w, "void")
  /\ \/ purchase[worker[w].t].voided
     \/ ~StillOwned(worker[w].t, worker[w].take)
  /\ Goto(w, Idle)
  /\ UNCHANGED <<play, purchase, txn, ent, shop, codes>>

\* The invocation ends here: Google or the store failed, or it was stopped.
Stop(w) ==
  /\ ~At(w, "idle")
  /\ Goto(w, Idle)
  /\ UNCHANGED <<play, purchase, txn, ent, shop, codes>>

-----------------------------------------------------------------------------
(* Gifts and redeem codes: all they read is checked again by their         *)
(* transaction, so each is one step (a refusal changes nothing).           *)

\* Mutant: a gift somebody claimed can be claimed again.
GiftOpenTwice(t) == gift[t] # None /\ ~gift[t].cancelled

\* Mutant: a gift whose purchase was refunded can still be claimed.
GiftOpenCancelled(t) == gift[t] # None /\ gift[t].claimedBy = None

\* The condition of the gift item: made, not claimed, not cancelled.
GiftOpen(t) ==
  gift[t] # None /\ gift[t].claimedBy = None /\ ~gift[t].cancelled

\* list_append(granted, key)
WithClaimed(p, key) == [p EXCEPT !.granted = @ \cup {key}]

\* gifts.ts claimGift: the gift gets its claimer, the claimer the show, and
\* the purchase records the key it granted.
ClaimGift(t, l) ==
  /\ GiftOpen(t)
  /\ ent[KeyOf(t, l)] = None
  /\ Recorded(t)
  /\ gift' = [gift EXCEPT ![t].claimedBy = l]
  /\ ent' = [ent EXCEPT ![KeyOf(t, l)] = t]
  /\ purchase' = [purchase EXCEPT ![t] = WithClaimed(@, KeyOf(t, l))]
  /\ UNCHANGED <<play, txn, tips, earning, codes, worker>>

\* The condition of the code item: a use is left and it is not switched off.
CodeOpen(c) == uses[c] < MaxUses[c] /\ c \notin disabled

\* redeem.ts redeemCode for a code that gives a show.
RedeemShow(c, l) ==
  /\ <<c, l>> \notin used
  /\ CodeOpen(c)
  /\ ent[<<l, CodeShow[c]>>] = None
  /\ used' = used \cup {<<c, l>>}
  /\ uses' = [uses EXCEPT ![c] = @ + 1]
  /\ ent' = [ent EXCEPT ![<<l, CodeShow[c]>>] = ByCode]
  /\ UNCHANGED <<play, purchase, txn, shop, disabled, worker>>

\* redeem.ts disableCode
DisableCode(c) ==
  /\ disabled' = disabled \cup {c}
  /\ UNCHANGED <<play, purchase, txn, ent, shop, uses, used, worker>>

-----------------------------------------------------------------------------

GooglePlay(t) ==
  \/ GooglePays(t)
  \/ GoogleLapses(t)
  \/ GoogleResumes(t)
  \/ GoogleVoids(t)

Step(w) ==
  \/ GrantAsk(w)
  \/ GrantNotPaid(w)
  \/ GrantExpire(w)
  \/ GrantCreate(w)
  \/ GrantRaced(w)
  \/ GrantRenew(w)
  \/ GrantRetry(w)
  \/ TellGoogle(w)
  \/ NoteAcked(w)
  \/ RefundGather(w)
  \/ RefundCommit(w)
  \/ RefundCancelled(w)
  \/ Stop(w)

Next ==
  \/ \E t \in Tokens : GooglePlay(t)
  \/ \E w \in Workers, t \in Tokens :
       \/ \E l \in Listeners : GrantBegin(w, t, l)
       \/ AckDueBegin(w, t)
       \/ RefundBegin(w, t)
  \/ \E w \in Workers : Step(w)
  \/ \E t \in Tokens, l \in Listeners : ClaimGift(t, l)
  \/ \E c \in Codes : DisableCode(c) \/ \E l \in Listeners : RedeemShow(c, l)

Spec == Init /\ [][Next]_vars

-----------------------------------------------------------------------------
(* Properties *)

\* Items, what invocations carry, and what Google knows have their shape: a
\* purchase is never half an item, and a step carries what the next one reads.
TypeOK ==
  /\ google \in [Tokens -> {"unpaid", "paid", "lapsed", "void"}]
  /\ googleAcked \subseteq Tokens
  /\ purchase \in [Tokens -> Purchase \cup {None}]
  /\ txn \in [Orders -> Tokens \cup {None}]
  /\ ent \in [Keys -> Sources]
  /\ gift \in [Tokens -> Gift \cup {None}]
  /\ tips \subseteq Tokens
  /\ earning \in [Tokens -> {"none", "sale", "refunded"}]
  /\ uses \in [Codes -> Nat]
  /\ used \subseteq Codes \X Listeners
  /\ disabled \subseteq Codes
  /\ worker \in [Workers -> WorkerStates]

\* Every row a purchase pays for is on that purchase's own list, so a refund
\* can find it: through renewals by another purchase, claims and races.
EveryRowTraced ==
  \A k \in Keys : ent[k] \in Tokens =>
    Recorded(ent[k]) /\ k \in purchase[ent[k]].granted

\* One payment of the store is recorded once: a recorded purchase holds its
\* order id, so two tokens of one order are never both granted.
OneGrantPerOrder ==
  \A t \in Tokens : Recorded(t) => txn[OrderOf[t]] = t

\* A gift and the entitlement it gave tell the same story: only its claimer
\* holds the show from it, and until a refund the claimer does hold it.
GiftHasOneHome ==
  \A t \in Tokens : Kind[t] = "gift" =>
    \A l \in Listeners :
      /\ ent[KeyOf(t, l)] = t => Recorded(t) /\ gift[t].claimedBy = l
      /\ Recorded(t) /\ gift[t].claimedBy = l /\ ~gift[t].cancelled
           => ent[KeyOf(t, l)] = t

\* A bought show is taken back by its refund, and by nothing else.
ShowFollowsItsPurchase ==
  \A t \in Tokens : Kind[t] = "show" /\ Recorded(t) =>
    \A k \in Keys :
      ent[k] = t <=> k \in purchase[t].granted /\ ~purchase[t].voided

\* A purchase Google was not told of is on the queue acknowledgeDue reads, so
\* it is never forgotten (Google refunds what is not acknowledged).
DueIsQueued ==
  \A t \in Tokens : Due(t) => purchase[t].queued

\* A code is used once per account and no more often than it allows, and a
\* refused use left nothing behind.
CodeUsesCounted ==
  \A c \in Codes :
    /\ uses[c] = Cardinality({l \in Listeners : <<c, l>> \in used})
    /\ uses[c] <= MaxUses[c]

\* No step rewrites a purchase: its owner, its refund and what it granted stay.
PurchaseNeverRewritten ==
  [][\A t \in Tokens : Recorded(t) =>
       /\ Recorded(t)'
       /\ purchase'[t].owner = purchase[t].owner
       /\ purchase[t].voided => purchase'[t].voided
       /\ purchase[t].acked => purchase'[t].acked
       /\ purchase[t].granted \subseteq purchase'[t].granted]_vars

\* A refund of a show, a gift or a tip is the end of it: a claim, a notice, an
\* acknowledgement or a refund begun before it neither makes the purchase
\* active again nor gives anybody a row from it.
RefundIsFinal ==
  [][\A t \in Tokens : Kind[t] # "plus" /\ Recorded(t) /\ purchase[t].voided =>
       /\ purchase'[t].status = "refunded"
       /\ \A k \in Keys : ent'[k] = t => ent[k] = t]_vars

\* A show somebody owns keeps the source it came from until it is taken back.
OwnedShowKeepsItsSource ==
  [][\A l \in Listeners, s \in Shows :
       LET k == <<l, s>> IN
         ent[k] # None /\ ent'[k] # None => ent'[k] = ent[k]]_vars

\* purchases.ts: "the row is marked, and what it granted is taken back".  A
\* grant that read the purchase before its refund renews it afterwards.
RefundedPlusIsWithdrawn ==
  \A k \in Keys, t \in Tokens :
    ent[k] = t /\ Kind[t] = "plus" => ~purchase[t].voided

-----------------------------------------------------------------------------
(* Liveness.  The sweep runs every hour (acknowledgeDue) and every day      *)
(* (applyVoided), and starts again what failed; an invocation ends in time. *)

OnToken(w, t, A) == ~At(w, "idle") /\ worker[w].t = t /\ A

Fairness ==
  /\ \A w \in Workers : WF_vars(Stop(w))
  /\ \A t \in Tokens :
       /\ SF_vars(\E w \in Workers : RefundBegin(w, t))
       /\ SF_vars(\E w \in Workers : OnToken(w, t, RefundGather(w)))
       /\ SF_vars(\E w \in Workers : OnToken(w, t, RefundCommit(w)))
       /\ SF_vars(\E w \in Workers : AckDueBegin(w, t))
       /\ SF_vars(\E w \in Workers : OnToken(w, t, TellGoogle(w)))
       /\ SF_vars(\E w \in Workers : OnToken(w, t, NoteAcked(w)))

FairSpec == Spec /\ Fairness

\* A recorded purchase Google voided is marked refunded here in the end,
\* whatever fails or races on the way (its rows: ShowFollowsItsPurchase,
\* RefundedPlusIsWithdrawn).
VoidedIsRefunded ==
  \A t \in Tokens : Recorded(t) /\ google[t] = "void" ~>
                     Recorded(t) /\ purchase[t].voided

\* What is due to be acknowledged is acknowledged, or stops being active.
DueIsAcknowledged ==
  \A t \in Tokens : Due(t) ~> ~Due(t)

=============================================================================
