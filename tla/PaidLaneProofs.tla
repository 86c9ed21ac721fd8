---------------------------- MODULE PaidLaneProofs ----------------------------
(***************************************************************************)
(* Theorems about PaidLane, for any number of accounts, tokens, orders,    *)
(* shows, codes and concurrent invocations.                                *)
(***************************************************************************)
EXTENDS PaidLane, FiniteSetTheorems, TLAPS

\* What an invocation relies on between its read and its write: the purchase
\* it acts on is recorded, and purchases are never deleted here.
HeldTokens ==
  \A w \in Workers :
    /\ worker[w] \in Settling \cup Gathering \cup Voiding
         => Recorded(worker[w].t)
    /\ worker[w] \in Asking \cup Writing /\ worker[w].seen # None
         => Recorded(worker[w].t)

TypedInv == TypeOK /\ HeldTokens

\* An invocation's step tells what it carries.
LEMMA StateAtPc ==
  ASSUME TypeOK, NEW w \in Workers
  PROVE  /\ At(w, "idle") => worker[w] = Idle
         /\ At(w, "ask") => worker[w] \in Asking
         /\ At(w, "write") => worker[w] \in Writing
         /\ At(w, "expire") \/ At(w, "ack") \/ At(w, "note")
              => worker[w] \in Settling
         /\ At(w, "gather") => worker[w] \in Gathering
         /\ At(w, "void") => worker[w] \in Voiding
<1>1. worker[w] \in WorkerStates
  BY DEF TypeOK
<1> QED
  BY <1>1 DEF WorkerStates, Idle, Asking, Writing, Settling, Gathering,
              Voiding, At

\* A recorded purchase is a purchase item.
LEMMA RecordedIsPurchase ==
  ASSUME TypeOK, NEW t \in Tokens, Recorded(t)
  PROVE  purchase[t] \in Purchase
BY DEF TypeOK, Recorded

\* The worker that moves lands in a state that keeps TypedInv.
LEMMA GotoKeeps ==
  ASSUME TypedInv, NEW w \in Workers, NEW STATE s, s \in WorkerStates,
         Goto(w, s),
         \A t \in Tokens : Recorded(t) => purchase'[t] # None,
         s \in Settling \cup Gathering \cup Voiding => purchase'[s.t] # None,
         s \in Asking \cup Writing /\ s.seen # None => purchase'[s.t] # None
  PROVE  worker' \in [Workers -> WorkerStates] /\ HeldTokens'
<1>1. worker' \in [Workers -> WorkerStates]
  BY DEF TypedInv, TypeOK, Goto
<1>2. ASSUME NEW v \in Workers
      PROVE  /\ worker'[v] \in Settling \cup Gathering \cup Voiding
                  => purchase'[worker'[v].t] # None
             /\ worker'[v] \in Asking \cup Writing /\ worker'[v].seen # None
                  => purchase'[worker'[v].t] # None
  <2>1. CASE v = w
    <3>1. worker'[v] = s
      BY <2>1 DEF Goto, TypedInv, TypeOK
    <3> QED
      BY <3>1
  <2>2. CASE v # w
    <3>1. worker'[v] = worker[v]
      BY <2>2 DEF Goto, TypedInv, TypeOK
    <3>2. /\ worker[v] \in Settling \cup Gathering \cup Voiding
               => worker[v].t \in Tokens /\ Recorded(worker[v].t)
          /\ worker[v] \in Asking \cup Writing /\ worker[v].seen # None
               => worker[v].t \in Tokens /\ Recorded(worker[v].t)
      BY DEF TypedInv, HeldTokens, Settling, Gathering, Voiding, Asking, Writing
    <3> QED
      BY <3>1, <3>2
  <2> QED
    BY <2>1, <2>2
<1> QED
  BY <1>1, <1>2 DEF HeldTokens, Recorded

\* No invocation holds anything at the start.
LEMMA TypedInit == Init => TypedInv
<1> SUFFICES ASSUME Init PROVE TypedInv
  OBVIOUS
<1>1. TypeOK
  BY PaidSentinels DEF Init, TypeOK, WorkerStates, Sources
<1>2. HeldTokens
  BY DEF Init, HeldTokens, Idle, Settling, Gathering, Voiding, Asking, Writing
<1> QED
  BY <1>1, <1>2 DEF TypedInv

\* A step that moves one worker and leaves the items alone.
LEMMA QuietStepTyped ==
  ASSUME TypedInv, NEW w \in Workers, NEW STATE s, s \in WorkerStates,
         Goto(w, s),
         s \in Settling \cup Gathering \cup Voiding => Recorded(s.t),
         s \in Asking \cup Writing /\ s.seen # None => Recorded(s.t),
         UNCHANGED <<google, purchase, txn, ent, shop, codes>>,
         googleAcked' \subseteq Tokens
  PROVE  TypedInv'
<1>1. worker' \in [Workers -> WorkerStates] /\ HeldTokens'
  BY GotoKeeps DEF Recorded
<1> QED
  BY <1>1 DEF TypedInv, TypeOK, shop, codes

\* The steps of a grant that write no item keep the typing.
LEMMA GrantStepTyped ==
  ASSUME TypedInv, NEW w \in Workers,
         \/ \E t \in Tokens, l \in Listeners : GrantBegin(w, t, l)
         \/ GrantAsk(w) \/ GrantNotPaid(w) \/ GrantRaced(w) \/ GrantRetry(w)
  PROVE  TypedInv'
<1>1. ASSUME NEW t \in Tokens, NEW l \in Listeners, GrantBegin(w, t, l)
      PROVE  TypedInv'
  <2> DEFINE s == [pc |-> "ask", t |-> t, l |-> l, seen |-> purchase[t]]
  <2>1. s \in Asking /\ s \in WorkerStates
    BY DEF TypedInv, TypeOK, Asking, WorkerStates
  <2>2. s \notin Settling \cup Gathering \cup Voiding
    BY DEF Settling, Gathering, Voiding
  <2>3. s.seen # None => Recorded(s.t)
    BY DEF Recorded
  <2>4. Goto(w, s) /\ UNCHANGED <<play, purchase, txn, ent, shop, codes>>
    BY <1>1 DEF GrantBegin
  <2> HIDE DEF s
  <2> QED
    BY <2>1, <2>2, <2>3, <2>4, QuietStepTyped DEF play, TypedInv, TypeOK
<1>2. CASE GrantAsk(w)
  <2>1. worker[w] \in Asking
    BY <1>2, StateAtPc DEF GrantAsk, TypedInv
  <2> DEFINE s == [pc |-> "write", t |-> worker[w].t, l |-> worker[w].l,
                   seen |-> worker[w].seen,
                   told |-> worker[w].t \in googleAcked]
  <2>2. s \in Writing /\ s \in WorkerStates
    BY <2>1 DEF Asking, Writing, WorkerStates
  <2>3. s \notin Settling \cup Gathering \cup Voiding
    BY DEF Settling, Gathering, Voiding
  <2>4. s.seen # None => Recorded(s.t)
    BY <2>1 DEF TypedInv, HeldTokens
  <2>5. Goto(w, s) /\ UNCHANGED <<play, purchase, txn, ent, shop, codes>>
    BY <1>2 DEF GrantAsk
  <2> HIDE DEF s
  <2> QED
    BY <2>2, <2>3, <2>4, <2>5, QuietStepTyped DEF play, TypedInv, TypeOK
<1>3. CASE GrantNotPaid(w)
  <2>1. worker[w] \in Asking
    BY <1>3, StateAtPc DEF GrantNotPaid, TypedInv
  <2> DEFINE s == IF worker[w].seen # None /\ AccountOk(worker[w].t, worker[w].l)
                  THEN [pc |-> "expire", t |-> worker[w].t] ELSE Idle
  <2>2. /\ s \in WorkerStates /\ s \notin Asking \cup Writing
        /\ s \in Settling \cup Gathering \cup Voiding => Recorded(s.t)
    BY <2>1 DEF TypedInv, HeldTokens, Idle, Asking, Writing, Settling,
                Gathering, Voiding, WorkerStates
  <2>3. Goto(w, s) /\ UNCHANGED <<play, purchase, txn, ent, shop, codes>>
    BY <1>3 DEF GrantNotPaid
  <2> HIDE DEF s
  <2> QED
    BY <2>2, <2>3, QuietStepTyped DEF play, TypedInv, TypeOK
<1>4. CASE GrantRaced(w)
  <2>1. worker[w] \in Writing
    BY <1>4, StateAtPc DEF GrantRaced, TypedInv
  <2> DEFINE s == IF /\ Recorded(worker[w].t)
                     /\ purchase[worker[w].t].owner = worker[w].l
                     /\ worker[w].told
                  THEN [pc |-> "note", t |-> worker[w].t] ELSE Idle
  <2>2. /\ s \in WorkerStates /\ s \notin Asking \cup Writing
        /\ s \in Settling \cup Gathering \cup Voiding => Recorded(s.t)
    BY <2>1 DEF Idle, Asking, Writing, Settling, Gathering, Voiding, WorkerStates
  <2>3. Goto(w, s) /\ UNCHANGED <<play, purchase, txn, ent, shop, codes>>
    BY <1>4 DEF GrantRaced
  <2> HIDE DEF s
  <2> QED
    BY <2>2, <2>3, QuietStepTyped DEF play, TypedInv, TypeOK
<1>5. CASE GrantRetry(w)
  <2>1. worker[w] \in Writing
    BY <1>5, StateAtPc DEF GrantRetry, TypedInv
  <2> DEFINE s == [worker[w] EXCEPT !.seen = purchase[worker[w].t]]
  <2>2. purchase[worker[w].t] \in Purchase \cup {None}
    BY <2>1 DEF Writing, TypedInv, TypeOK
  <2>3. s \in Writing /\ s \in WorkerStates
    BY <2>1, <2>2 DEF Writing, WorkerStates
  <2>4. s \notin Settling \cup Gathering \cup Voiding
    BY <2>3 DEF Settling, Gathering, Voiding, Writing
  <2>5. s.seen # None => Recorded(s.t)
    BY <2>1 DEF Recorded, Writing
  <2>6. Goto(w, s) /\ UNCHANGED <<play, purchase, txn, ent, shop, codes>>
    BY <1>5 DEF GrantRetry
  <2> HIDE DEF s
  <2> QED
    BY <2>3, <2>4, <2>5, <2>6, QuietStepTyped DEF play, TypedInv, TypeOK
<1> QED
  BY <1>1, <1>2, <1>3, <1>4, <1>5

\* So do those of acknowledging, refunding and stopping.
LEMMA QuietWorkTyped ==
  ASSUME TypedInv, NEW w \in Workers,
         \/ \E t \in Tokens : AckDueBegin(w, t) \/ RefundBegin(w, t)
         \/ TellGoogle(w) \/ RefundGather(w) \/ RefundCancelled(w) \/ Stop(w)
  PROVE  TypedInv'
<1>1. ASSUME NEW t \in Tokens, AckDueBegin(w, t) \/ RefundBegin(w, t)
      PROVE  TypedInv'
  <2>1. Recorded(t)
    BY <1>1 DEF AckDueBegin, RefundBegin, Due, Refundable
  <2>2. purchase[t].granted \in SUBSET Keys
    BY <2>1, RecordedIsPurchase DEF Purchase, TypedInv
  <2>3. ASSUME NEW STATE s, Goto(w, s),
               \/ s = [pc |-> "ack", t |-> t]
               \/ s = [pc |-> "gather", t |-> t, granted |-> purchase[t].granted],
               UNCHANGED <<play, purchase, txn, ent, shop, codes>>
        PROVE  TypedInv'
    <3>1. s \in Settling \cup Gathering /\ s.t = t
      BY <2>2, <2>3 DEF Settling, Gathering
    <3>2. s \notin Asking \cup Writing /\ s \in WorkerStates
      BY <3>1 DEF Settling, Gathering, Asking, Writing, WorkerStates
    <3> QED
      BY <3>1, <3>2, <2>1, <2>3, QuietStepTyped DEF play, TypedInv, TypeOK
  <2> QED
    BY <1>1, <2>3 DEF AckDueBegin, RefundBegin
<1>2. CASE TellGoogle(w)
  <2>1. worker[w] \in Settling
    BY <1>2, StateAtPc DEF TellGoogle, TypedInv
  <2> DEFINE s == [worker[w] EXCEPT !.pc = "note"]
  <2>2. s \in Settling /\ s \in WorkerStates /\ s.t = worker[w].t
    BY <2>1 DEF Settling, WorkerStates
  <2>3. s \notin Asking \cup Writing
    BY <2>2 DEF Settling, Asking, Writing
  <2>4. Recorded(s.t)
    BY <2>1, <2>2 DEF TypedInv, HeldTokens
  <2>5. /\ Goto(w, s) /\ googleAcked' \subseteq Tokens
        /\ UNCHANGED <<google, purchase, txn, ent, shop, codes>>
    BY <1>2, <2>1 DEF TellGoogle, TypedInv, TypeOK, Settling
  <2> HIDE DEF s
  <2> QED
    BY <2>2, <2>3, <2>4, <2>5, QuietStepTyped
<1>3. CASE RefundGather(w)
  <2>1. worker[w] \in Gathering
    BY <1>3, StateAtPc DEF RefundGather, TypedInv
  <2> DEFINE s == [pc |-> "void", t |-> worker[w].t,
                   take |-> TakenBack(worker[w].t, worker[w].granted)]
  <2>2. s \in Voiding /\ s \in WorkerStates /\ s.t = worker[w].t
    BY <2>1 DEF Gathering, Voiding, WorkerStates, TakenBack
  <2>3. s \notin Asking \cup Writing
    BY <2>2 DEF Voiding, Asking, Writing
  <2>4. Recorded(s.t)
    BY <2>1, <2>2 DEF TypedInv, HeldTokens
  <2>5. Goto(w, s) /\ UNCHANGED <<play, purchase, txn, ent, shop, codes>>
    BY <1>3 DEF RefundGather
  <2> HIDE DEF s
  <2> QED
    BY <2>2, <2>3, <2>4, <2>5, QuietStepTyped DEF play, TypedInv, TypeOK
<1>4. CASE RefundCancelled(w) \/ Stop(w)
  <2>1. Goto(w, Idle) /\ UNCHANGED <<play, purchase, txn, ent, shop, codes>>
    BY <1>4 DEF RefundCancelled, Stop
  <2>2. /\ Idle \in WorkerStates
        /\ Idle \notin Settling \cup Gathering \cup Voiding \cup Asking \cup Writing
    BY DEF Idle, Settling, Gathering, Voiding, Asking, Writing, WorkerStates
  <2> QED
    BY <2>1, <2>2, QuietStepTyped DEF play, TypedInv, TypeOK
<1> QED
  BY <1>1, <1>2, <1>3, <1>4

\* Each update of the code leaves a purchase item.
LEMMA ItemUpdates ==
  ASSUME NEW p \in Purchase
  PROVE  /\ Expired(p) \in Purchase /\ Acked(p) \in Purchase
         /\ Voided(p) \in Purchase
         /\ \A key \in Keys : WithClaimed(p, key) \in Purchase
         /\ \A seen \in Purchase, key \in Keys :
              Renewed(p, seen, key) \in Purchase
BY DEF Purchase, Expired, Acked, Voided, WithClaimed, Renewed

\* One purchase updated: the others stay, and all stay recorded.
LEMMA OneItemTyped ==
  ASSUME TypeOK, NEW t \in Tokens, NEW STATE p, p \in Purchase,
         purchase' = [purchase EXCEPT ![t] = p]
  PROVE  /\ purchase' \in [Tokens -> Purchase \cup {None}]
         /\ \A u \in Tokens : Recorded(u) => purchase'[u] # None
         /\ purchase'[t] # None
BY PaidSentinels DEF TypeOK, Recorded

\* The idle state carries nothing.
LEMMA IdleIsIdle ==
  /\ Idle \in WorkerStates
  /\ Idle \notin Settling \cup Gathering \cup Voiding \cup Asking \cup Writing
BY DEF Idle, Settling, Gathering, Voiding, Asking, Writing, WorkerStates

\* Marking a purchase expired or acknowledged keeps the typing.
LEMMA PurchaseNotesTyped ==
  ASSUME TypedInv, NEW w \in Workers, GrantExpire(w) \/ NoteAcked(w)
  PROVE  TypedInv'
<1> DEFINE t == worker[w].t
           p == IF At(w, "expire") THEN Expired(purchase[t])
                                   ELSE Acked(purchase[t])
<1>1. worker[w] \in Settling
  BY StateAtPc DEF GrantExpire, NoteAcked, TypedInv
<1>2. t \in Tokens /\ Recorded(t)
  BY <1>1 DEF TypedInv, HeldTokens, Settling
<1>3. p \in Purchase
  BY <1>2, RecordedIsPurchase, ItemUpdates DEF TypedInv
<1>4. purchase' = [purchase EXCEPT ![t] = p]
  BY <1>2 DEF GrantExpire, NoteAcked, At, TypedInv, TypeOK
<1> HIDE DEF p, t
<1>5. /\ purchase' \in [Tokens -> Purchase \cup {None}]
      /\ \A u \in Tokens : Recorded(u) => purchase'[u] # None
  BY <1>2, <1>3, <1>4, OneItemTyped DEF TypedInv
<1>6. Goto(w, Idle) /\ UNCHANGED <<play, txn, ent, shop, codes>>
  BY DEF GrantExpire, NoteAcked
<1>7. worker' \in [Workers -> WorkerStates] /\ HeldTokens'
  BY <1>5, <1>6, IdleIsIdle, GotoKeeps
<1> QED
  BY <1>5, <1>6, <1>7 DEF TypedInv, TypeOK, play, shop, codes

\* What a token may grant is one entitlement key.
LEMMA KeyOfIsKey ==
  ASSUME NEW t \in Tokens, NEW l \in Listeners
  PROVE  KeyOf(t, l) \in Keys /\ GrantedBy(t, l) \subseteq {KeyOf(t, l)}
BY PaidConstants DEF KeyOf, Keys, Things, GrantedBy

\* After its write a grant has only Google left to tell.
LEMMA AfterGrantIsSettling ==
  ASSUME NEW t \in Tokens, NEW told \in BOOLEAN
  PROVE  /\ AfterGrant(t, told) \in Settling
         /\ AfterGrant(t, told) \in WorkerStates \ (Asking \cup Writing)
         /\ AfterGrant(t, told).t = t
BY DEF AfterGrant, Settling, Asking, Writing, WorkerStates

\* create keeps the typing.
LEMMA GrantCreateTyped ==
  ASSUME TypedInv, NEW w \in Workers, GrantCreate(w)
  PROVE  TypedInv'
<1> DEFINE t == worker[w].t
           l == worker[w].l
           told == worker[w].told
           p == [owner |-> l, status |-> "active", acked |-> FALSE,
                 voided |-> FALSE, queued |-> TRUE,
                 granted |-> GrantedBy(t, l)]
<1>1. t \in Tokens /\ l \in Listeners /\ told \in BOOLEAN
  BY StateAtPc DEF GrantCreate, TypedInv, Writing
<1>2. p \in Purchase
  BY <1>1, KeyOfIsKey DEF Purchase
<1>3. /\ purchase' = [purchase EXCEPT ![t] = p]
      /\ txn' = [txn EXCEPT ![OrderOf[t]] = t]
      /\ ent' = [k \in Keys |-> IF k \in GrantedBy(t, l) THEN t ELSE ent[k]]
      /\ gift' = [gift EXCEPT ![t] =
           IF Kind[t] = "gift" THEN [claimedBy |-> None, cancelled |-> FALSE]
                               ELSE None]
      /\ tips' = IF Kind[t] = "tip" THEN tips \cup {t} ELSE tips
      /\ earning' = [earning EXCEPT ![t] = EarningOf(t)]
      /\ Goto(w, AfterGrant(t, told))
      /\ UNCHANGED <<play, codes>>
  BY DEF GrantCreate
<1> HIDE DEF p, t, l, told
<1>4. /\ purchase' \in [Tokens -> Purchase \cup {None}]
      /\ \A u \in Tokens : Recorded(u) => purchase'[u] # None
      /\ purchase'[t] # None
  BY <1>1, <1>2, <1>3, OneItemTyped DEF TypedInv
<1>5. worker' \in [Workers -> WorkerStates] /\ HeldTokens'
  BY <1>1, <1>3, <1>4, AfterGrantIsSettling, GotoKeeps
<1>6. ent' \in [Keys -> Sources]
  BY <1>1, <1>3 DEF TypedInv, TypeOK, Sources
<1>7. gift' \in [Tokens -> Gift \cup {None}]
  BY <1>1, <1>3 DEF TypedInv, TypeOK, Gift
<1>8. txn' \in [Orders -> Tokens \cup {None}]
  BY <1>1, <1>3, PaidConstants DEF TypedInv, TypeOK
<1>9. tips' \subseteq Tokens /\ earning' \in [Tokens -> {"none", "sale", "refunded"}]
  BY <1>1, <1>3 DEF TypedInv, TypeOK, EarningOf
<1> QED
  BY <1>3, <1>4, <1>5, <1>6, <1>7, <1>8, <1>9 DEF TypedInv, TypeOK, play, codes

\* renewPlus keeps the typing.
LEMMA GrantRenewTyped ==
  ASSUME TypedInv, NEW w \in Workers, GrantRenew(w)
  PROVE  TypedInv'
<1> DEFINE t == worker[w].t
           key == KeyOf(t, worker[w].l)
           told == worker[w].told
           p == Renewed(purchase[t], worker[w].seen, key)
<1>1. /\ t \in Tokens /\ worker[w].l \in Listeners /\ told \in BOOLEAN
      /\ worker[w].seen \in Purchase
      /\ Recorded(t)
  BY StateAtPc DEF GrantRenew, TypedInv, Writing, HeldTokens
<1>2. key \in Keys /\ p \in Purchase
  BY <1>1, KeyOfIsKey, RecordedIsPurchase, ItemUpdates DEF TypedInv
<1>3. /\ purchase' = [purchase EXCEPT ![t] = p]
      /\ ent' = [ent EXCEPT ![key] = t]
      /\ Goto(w, AfterGrant(t, told))
      /\ UNCHANGED <<play, txn, shop, codes>>
  BY <1>1 DEF GrantRenew, TypedInv, TypeOK
<1> HIDE DEF p, t, key, told
<1>4. /\ purchase' \in [Tokens -> Purchase \cup {None}]
      /\ \A u \in Tokens : Recorded(u) => purchase'[u] # None
      /\ purchase'[t] # None
  BY <1>1, <1>2, <1>3, OneItemTyped DEF TypedInv
<1>5. worker' \in [Workers -> WorkerStates] /\ HeldTokens'
  BY <1>1, <1>3, <1>4, AfterGrantIsSettling, GotoKeeps
<1>6. ent' \in [Keys -> Sources]
  BY <1>1, <1>2, <1>3 DEF TypedInv, TypeOK, Sources
<1> QED
  BY <1>3, <1>4, <1>5, <1>6 DEF TypedInv, TypeOK, play, shop, codes

\* refundOne's transaction keeps the typing.
LEMMA RefundCommitTyped ==
  ASSUME TypedInv, NEW w \in Workers, RefundCommit(w)
  PROVE  TypedInv'
<1> DEFINE t == worker[w].t
           p == Voided(purchase[t])
<1>1. t \in Tokens /\ Recorded(t)
  BY StateAtPc DEF RefundCommit, TypedInv, Voiding, HeldTokens
<1>2. p \in Purchase
  BY <1>1, RecordedIsPurchase, ItemUpdates DEF TypedInv
<1>3. /\ purchase' = [purchase EXCEPT ![t] = p]
      /\ ent' = [k \in Keys |-> IF k \in worker[w].take THEN None ELSE ent[k]]
      /\ gift' = IF gift[t] = None THEN gift
                 ELSE [gift EXCEPT ![t].cancelled = TRUE]
      /\ tips' = tips \ {t}
      /\ earning' = [earning EXCEPT ![t] = EarningRefunded(t)]
      /\ Goto(w, Idle)
      /\ UNCHANGED <<play, txn, codes>>
  BY <1>1 DEF RefundCommit, TypedInv, TypeOK
<1> HIDE DEF p, t
<1>4. /\ purchase' \in [Tokens -> Purchase \cup {None}]
      /\ \A u \in Tokens : Recorded(u) => purchase'[u] # None
  BY <1>1, <1>2, <1>3, OneItemTyped DEF TypedInv
<1>5. worker' \in [Workers -> WorkerStates] /\ HeldTokens'
  BY <1>3, <1>4, IdleIsIdle, GotoKeeps
<1>6. ent' \in [Keys -> Sources]
  BY <1>3 DEF TypedInv, TypeOK, Sources
<1>7. gift' \in [Tokens -> Gift \cup {None}]
  BY <1>1, <1>3 DEF TypedInv, TypeOK, Gift
<1>8. tips' \subseteq Tokens /\ earning' \in [Tokens -> {"none", "sale", "refunded"}]
  BY <1>1, <1>3 DEF TypedInv, TypeOK, EarningRefunded
<1> QED
  BY <1>3, <1>4, <1>5, <1>6, <1>7, <1>8 DEF TypedInv, TypeOK, play, codes

\* claimGift keeps the typing.
LEMMA ClaimGiftTyped ==
  ASSUME TypedInv, NEW t \in Tokens, NEW l \in Listeners, ClaimGift(t, l)
  PROVE  TypedInv'
<1> DEFINE p == WithClaimed(purchase[t], KeyOf(t, l))
<1>1. Recorded(t) /\ KeyOf(t, l) \in Keys
  BY KeyOfIsKey DEF ClaimGift
<1>2. p \in Purchase
  BY <1>1, RecordedIsPurchase, ItemUpdates DEF TypedInv
<1>3. /\ purchase' = [purchase EXCEPT ![t] = p]
      /\ gift[t] # None
      /\ gift' = [gift EXCEPT ![t].claimedBy = l]
      /\ ent' = [ent EXCEPT ![KeyOf(t, l)] = t]
      /\ UNCHANGED <<play, txn, tips, earning, codes, worker>>
  BY DEF ClaimGift, GiftOpen, TypedInv, TypeOK
<1> HIDE DEF p
<1>4. /\ purchase' \in [Tokens -> Purchase \cup {None}]
      /\ \A u \in Tokens : Recorded(u) => purchase'[u] # None
  BY <1>1, <1>2, <1>3, OneItemTyped DEF TypedInv
<1>5. HeldTokens'
  BY <1>3, <1>4 DEF TypedInv, HeldTokens, Recorded, Settling, Gathering,
                    Voiding, Asking, Writing
<1>6. gift' \in [Tokens -> Gift \cup {None}] /\ ent' \in [Keys -> Sources]
  BY <1>1, <1>3 DEF TypedInv, TypeOK, Gift, Sources
<1> QED
  BY <1>3, <1>4, <1>5, <1>6 DEF TypedInv, TypeOK, play, codes

\* Redeemed codes, Google and stuttering keep the typing.
LEMMA CodesAndGoogleTyped ==
  ASSUME TypedInv,
         \/ \E t \in Tokens : GooglePlay(t)
         \/ \E c \in Codes :
              DisableCode(c) \/ \E l \in Listeners : RedeemShow(c, l)
         \/ UNCHANGED vars
  PROVE  TypedInv'
<1>1. HeldTokens'
  BY DEF TypedInv, HeldTokens, Recorded, GooglePlay, GooglePays, GoogleLapses,
         GoogleResumes, GoogleVoids, GoogleMoves, DisableCode, RedeemShow, vars
<1>2. ASSUME NEW t \in Tokens, GooglePlay(t) PROVE TypeOK'
  BY <1>2 DEF TypedInv, TypeOK, GooglePlay, GooglePays, GoogleLapses,
              GoogleResumes, GoogleVoids, GoogleMoves, shop, codes
<1>3. ASSUME NEW c \in Codes, DisableCode(c) PROVE TypeOK'
  BY <1>3 DEF TypedInv, TypeOK, DisableCode, play, shop
<1>4. ASSUME NEW c \in Codes, NEW l \in Listeners, RedeemShow(c, l)
      PROVE  TypeOK'
  <2> DEFINE key == <<l, CodeShow[c]>>
  <2>1. key \in Keys
    BY PaidConstants DEF Keys, Things
  <2>2. /\ ent' = [ent EXCEPT ![key] = ByCode]
        /\ uses' = [uses EXCEPT ![c] = @ + 1]
        /\ used' = used \cup {<<c, l>>}
        /\ UNCHANGED <<play, purchase, txn, shop, disabled, worker>>
    BY <1>4 DEF RedeemShow
  <2> HIDE DEF key
  <2>3. ent' \in [Keys -> Sources]
    BY <2>1, <2>2 DEF TypedInv, TypeOK, Sources
  <2>4. uses' \in [Codes -> Nat]
    BY <2>2 DEF TypedInv, TypeOK
  <2> QED
    BY <2>2, <2>3, <2>4 DEF TypedInv, TypeOK, play, shop
<1>5. CASE UNCHANGED vars
  BY <1>5, <1>1 DEF TypedInv, TypeOK, vars, play, shop, codes
<1> QED
  BY <1>1, <1>2, <1>3, <1>4, <1>5 DEF TypedInv

\* Every step keeps the typing.
LEMMA TypedStep == TypedInv /\ [Next]_vars => TypedInv'
<1> SUFFICES ASSUME TypedInv, [Next]_vars PROVE TypedInv'
  OBVIOUS
<1>1. ASSUME NEW w \in Workers, NEW t \in Tokens,
             \/ \E l \in Listeners : GrantBegin(w, t, l)
             \/ AckDueBegin(w, t)
             \/ RefundBegin(w, t)
      PROVE  TypedInv'
  BY <1>1, GrantStepTyped, QuietWorkTyped
<1>2. ASSUME NEW w \in Workers, Step(w) PROVE TypedInv'
  BY <1>2, GrantStepTyped, QuietWorkTyped, PurchaseNotesTyped,
     GrantCreateTyped, GrantRenewTyped, RefundCommitTyped DEF Step
<1>3. ASSUME NEW t \in Tokens, NEW l \in Listeners, ClaimGift(t, l)
      PROVE  TypedInv'
  BY <1>3, ClaimGiftTyped
<1> QED
  BY <1>1, <1>2, <1>3, CodesAndGoogleTyped DEF Next

\* Every item and every invocation keeps the shape the code gives it: no
\* update leaves a purchase, a gift, an earning or a counter it could not read.
THEOREM TypeCorrect == Spec => []TypeOK
<1>1. TypedInv => TypeOK
  BY DEF TypedInv
<1> QED
  BY <1>1, TypedInit, TypedStep, PTL DEF Spec

-----------------------------------------------------------------------------
(* The safety invariants.  Two facts carry them: what an invocation has    *)
(* read may be old, but what it relies on only grows; and what a PLUS      *)
(* purchase granted is one row, its owner's.                               *)

PlusGrantsOneRow ==
  \A t \in Tokens : Recorded(t) /\ Kind[t] = "plus" =>
    purchase[t].granted = {KeyOf(t, purchase[t].owner)}

GrantsOneThing ==
  \A t \in Tokens : Recorded(t) =>
    \A k \in purchase[t].granted : \E l \in Listeners : k = KeyOf(t, l)

GiftMatchesPurchase ==
  \A t \in Tokens : gift[t] # None <=> Recorded(t) /\ Kind[t] = "gift"

\* What an invocation in state s may rely on, given the purchases now.
SnapshotHolds(s, items) ==
  /\ s \in Asking \cup Writing /\ s.seen # None =>
       /\ Kind[s.t] = "plus"
       /\ items[s.t] # None
       /\ items[s.t].owner = s.l
       /\ s.seen.granted = {KeyOf(s.t, s.l)}
       /\ s.seen.acked => items[s.t].acked
  /\ s \in Gathering =>
       /\ items[s.t] # None
       /\ s.granted \subseteq items[s.t].granted
       /\ Kind[s.t] = "show" => s.granted = items[s.t].granted
  /\ s \in Voiding =>
       /\ items[s.t] # None
       /\ s.take \subseteq items[s.t].granted
       /\ Kind[s.t] = "show" /\ ~items[s.t].voided =>
            s.take = items[s.t].granted

SnapshotsHold == \A w \in Workers : SnapshotHolds(worker[w], purchase)

\* A refund of what is not PLUS leaves its mark: the status, and on the gift
\* the condition that a later claim asks for.
RefundIsMarked ==
  \A t \in Tokens : Kind[t] # "plus" /\ Recorded(t) /\ purchase[t].voided =>
    /\ purchase[t].status = "refunded"
    /\ Kind[t] = "gift" => gift[t].cancelled

ItemsInv ==
  /\ PlusGrantsOneRow
  /\ GrantsOneThing
  /\ GiftMatchesPurchase
  /\ EveryRowTraced
  /\ OneGrantPerOrder
  /\ GiftHasOneHome
  /\ ShowFollowsItsPurchase
  /\ RefundIsMarked
  /\ DueIsQueued

PaidInv == TypedInv /\ SnapshotsHold /\ ItemsInv

\* What a step does to the items, without the worker that does it.
Creates(t, l) ==
  /\ ~Recorded(t) /\ OrderFree(t)
  /\ purchase' = [purchase EXCEPT ![t] =
       [owner |-> l, status |-> "active", acked |-> FALSE, voided |-> FALSE,
        queued |-> TRUE, granted |-> GrantedBy(t, l)]]
  /\ txn' = [txn EXCEPT ![OrderOf[t]] = t]
  /\ ent' = [k \in Keys |-> IF k \in GrantedBy(t, l) THEN t ELSE ent[k]]
  /\ gift' = [gift EXCEPT ![t] =
       IF Kind[t] = "gift" THEN [claimedBy |-> None, cancelled |-> FALSE]
                           ELSE None]
  /\ tips' = IF Kind[t] = "tip" THEN tips \cup {t} ELSE tips
  /\ earning' = [earning EXCEPT ![t] = EarningOf(t)]

Renews(t, l, seen) ==
  /\ Kind[t] = "plus" /\ Recorded(t) /\ purchase[t].owner = l
  /\ seen.granted = {KeyOf(t, l)}
  /\ seen.acked => purchase[t].acked
  /\ purchase' = [purchase EXCEPT ![t] = Renewed(purchase[t], seen, KeyOf(t, l))]
  /\ ent' = [ent EXCEPT ![KeyOf(t, l)] = t]
  /\ UNCHANGED <<txn, gift, tips, earning>>

Notes(t) ==
  /\ Recorded(t)
  /\ \/ purchase' = [purchase EXCEPT ![t] = Expired(purchase[t])]
     \/ purchase' = [purchase EXCEPT ![t] = Acked(purchase[t])]
  /\ UNCHANGED <<txn, ent, gift, tips, earning>>

Refunds(t, take) ==
  /\ Recorded(t) /\ ~purchase[t].voided
  /\ \A k \in take : ent[k] = t
  /\ Kind[t] = "show" => take = purchase[t].granted
  /\ purchase' = [purchase EXCEPT ![t] = Voided(purchase[t])]
  /\ ent' = [k \in Keys |-> IF k \in take THEN None ELSE ent[k]]
  /\ gift' = IF gift[t] = None THEN gift ELSE [gift EXCEPT ![t].cancelled = TRUE]
  /\ tips' = tips \ {t}
  /\ earning' = [earning EXCEPT ![t] = EarningRefunded(t)]
  /\ UNCHANGED txn

Redeems(k) ==
  /\ k \in Keys /\ ent[k] = None
  /\ ent' = [ent EXCEPT ![k] = ByCode]
  /\ UNCHANGED <<purchase, txn, gift, tips, earning>>

ItemsStep ==
  \/ \E t \in Tokens, l \in Listeners :
       Creates(t, l) \/ ClaimGift(t, l) \/ \E seen \in Purchase : Renews(t, l, seen)
  \/ \E t \in Tokens : Notes(t) \/ \E take \in SUBSET Keys : Refunds(t, take)
  \/ \E k \in Keys : Redeems(k)
  \/ UNCHANGED <<purchase, txn, ent, gift, tips, earning>>

\* Each step of the system does one of seven things to the items.
LEMMA StepOnItems ==
  ASSUME TypedInv, SnapshotsHold, [Next]_vars
  PROVE  ItemsStep
<1>1. ASSUME NEW w \in Workers, GrantCreate(w) PROVE ItemsStep
  <2>1. worker[w].t \in Tokens /\ worker[w].l \in Listeners
    BY <1>1, StateAtPc DEF GrantCreate, TypedInv, Writing
  <2>2. Creates(worker[w].t, worker[w].l)
    BY <1>1 DEF GrantCreate, Creates
  <2> QED
    BY <2>1, <2>2 DEF ItemsStep
<1>2. ASSUME NEW w \in Workers, GrantRenew(w) PROVE ItemsStep
  <2>1. /\ worker[w] \in Writing
        /\ worker[w].t \in Tokens /\ worker[w].l \in Listeners
        /\ worker[w].seen \in Purchase
    BY <1>2, StateAtPc DEF GrantRenew, TypedInv, Writing
  <2>2. SnapshotHolds(worker[w], purchase)
    BY DEF SnapshotsHold
  <2>3. Renews(worker[w].t, worker[w].l, worker[w].seen)
    BY <1>2, <2>1, <2>2
    DEF GrantRenew, Renews, SnapshotHolds, Recorded, TypedInv, TypeOK, shop
  <2> QED
    BY <2>1, <2>3 DEF ItemsStep
<1>3. ASSUME NEW w \in Workers, GrantExpire(w) \/ NoteAcked(w) PROVE ItemsStep
  <2>1. worker[w] \in Settling
    BY <1>3, StateAtPc DEF GrantExpire, NoteAcked, TypedInv
  <2>2. worker[w].t \in Tokens /\ Recorded(worker[w].t)
    BY <2>1 DEF TypedInv, HeldTokens, Settling
  <2>3. Notes(worker[w].t)
    BY <1>3, <2>2 DEF GrantExpire, NoteAcked, Notes, TypedInv, TypeOK, shop
  <2> QED
    BY <2>2, <2>3 DEF ItemsStep
<1>4. ASSUME NEW w \in Workers, RefundCommit(w) PROVE ItemsStep
  <2>1. worker[w] \in Voiding
    BY <1>4, StateAtPc DEF RefundCommit, TypedInv
  <2>2. worker[w].t \in Tokens /\ worker[w].take \in SUBSET Keys
    BY <2>1 DEF Voiding
  <2>3. SnapshotHolds(worker[w], purchase)
    BY DEF SnapshotsHold
  <2>4. Refunds(worker[w].t, worker[w].take)
    BY <1>4, <2>1, <2>2, <2>3
    DEF RefundCommit, Refunds, SnapshotHolds, Recorded, StillOwned,
        TypedInv, TypeOK
  <2> QED
    BY <2>2, <2>4 DEF ItemsStep
<1>5. ASSUME NEW c \in Codes, NEW l \in Listeners, RedeemShow(c, l)
      PROVE  ItemsStep
  <2>1. <<l, CodeShow[c]>> \in Keys
    BY PaidConstants DEF Keys, Things
  <2>2. Redeems(<<l, CodeShow[c]>>)
    BY <1>5, <2>1 DEF RedeemShow, Redeems, shop
  <2> QED
    BY <2>1, <2>2 DEF ItemsStep
<1>6. ASSUME NEW t \in Tokens, NEW l \in Listeners, ClaimGift(t, l)
      PROVE  ItemsStep
  BY <1>6 DEF ItemsStep
<1>7. ASSUME NEW w \in Workers,
             \/ \E t \in Tokens :
                  \/ \E l \in Listeners : GrantBegin(w, t, l)
                  \/ AckDueBegin(w, t) \/ RefundBegin(w, t)
             \/ GrantAsk(w) \/ GrantNotPaid(w) \/ GrantRaced(w) \/ GrantRetry(w)
             \/ TellGoogle(w) \/ RefundGather(w) \/ RefundCancelled(w) \/ Stop(w)
      PROVE  UNCHANGED <<purchase, txn, ent, gift, tips, earning>>
  BY <1>7 DEF GrantBegin, AckDueBegin, RefundBegin, GrantAsk, GrantNotPaid,
              GrantRaced, GrantRetry, TellGoogle, RefundGather,
              RefundCancelled, Stop, shop
<1>8. ASSUME \/ \E t \in Tokens : GooglePlay(t)
             \/ \E c \in Codes : DisableCode(c)
             \/ UNCHANGED vars
      PROVE  UNCHANGED <<purchase, txn, ent, gift, tips, earning>>
  BY <1>8 DEF GooglePlay, GooglePays, GoogleLapses, GoogleResumes, GoogleVoids,
              GoogleMoves, DisableCode, vars, shop
<1>9. UNCHANGED <<purchase, txn, ent, gift, tips, earning>> => ItemsStep
  BY DEF ItemsStep
<1> QED
  BY <1>1, <1>2, <1>3, <1>4, <1>5, <1>6, <1>7, <1>8, <1>9 DEF Next, Step

\* What each update of the code keeps, field by field.
LEMMA UpdatesKeep ==
  ASSUME NEW p \in Purchase
  PROVE  /\ \A q \in {Expired(p), Acked(p), Voided(p)} :
              /\ q.owner = p.owner /\ q.granted = p.granted
              /\ p.voided => q.voided
              /\ p.acked => q.acked
         /\ Expired(p).voided = p.voided /\ Acked(p).voided = p.voided
         /\ Voided(p).voided
BY DEF Purchase, Expired, Acked, Voided

\* A claim adds its key and changes nothing else of the purchase.
LEMMA WithClaimedKeeps ==
  ASSUME NEW p \in Purchase, NEW key \in Keys
  PROVE  LET q == WithClaimed(p, key)
         IN  /\ q.owner = p.owner /\ q.voided = p.voided /\ q.acked = p.acked
             /\ q.granted = p.granted \cup {key}
             /\ q.status = p.status /\ q.queued = p.queued
BY DEF Purchase, WithClaimed

\* A renewal takes the granted keys and the queue from what was read.
LEMMA RenewedKeeps ==
  ASSUME NEW p \in Purchase, NEW seen \in Purchase, NEW key \in Keys
  PROVE  LET q == Renewed(p, seen, key)
         IN  /\ q.owner = p.owner /\ q.voided = p.voided /\ q.acked = p.acked
             /\ q.granted = seen.granted \cup {key}
             /\ q.queued = ~seen.acked
BY DEF Purchase, Renewed

\* What of a recorded purchase only grows, whatever the step.
GrownTo(t, q) ==
  /\ q # None
  /\ q.owner = purchase[t].owner
  /\ purchase[t].voided => q.voided
  /\ purchase[t].acked => q.acked
  /\ purchase[t].granted \subseteq q.granted
  /\ Kind[t] # "gift" => q.granted = purchase[t].granted

Grows == \A t \in Tokens : Recorded(t) => GrownTo(t, purchase'[t])

\* No purchase loses its owner, its refund or a granted key.
LEMMA PurchasesGrow ==
  ASSUME TypedInv, ItemsInv, ItemsStep
  PROVE  Grows
<1> SUFFICES ASSUME NEW t \in Tokens, Recorded(t)
             PROVE  GrownTo(t, purchase'[t])
  BY DEF Grows
<1>1. GrownTo(t, purchase[t])
  BY DEF GrownTo, Recorded
<1>2. purchase \in [Tokens -> Purchase \cup {None}]
  BY DEF TypedInv, TypeOK
<1>3. ASSUME NEW u \in Tokens, NEW p \in Purchase,
             purchase' = [purchase EXCEPT ![u] = p], GrownTo(u, p)
      PROVE  GrownTo(t, purchase'[t])
  BY <1>1, <1>2, <1>3
<1>4. ASSUME NEW u \in Tokens, NEW l \in Listeners, Creates(u, l)
      PROVE  GrownTo(t, purchase'[t])
  BY <1>1, <1>2, <1>4 DEF Creates
<1>5. ASSUME NEW u \in Tokens, NEW l \in Listeners, NEW seen \in Purchase,
             Renews(u, l, seen)
      PROVE  GrownTo(t, purchase'[t])
  <2> DEFINE p == Renewed(purchase[u], seen, KeyOf(u, l))
  <2>1. /\ Recorded(u) /\ purchase[u] \in Purchase
        /\ purchase[u].granted = {KeyOf(u, l)} /\ seen.granted = {KeyOf(u, l)}
        /\ KeyOf(u, l) \in Keys
    BY <1>5, KeyOfIsKey, RecordedIsPurchase
    DEF Renews, ItemsInv, PlusGrantsOneRow, TypedInv
  <2>2. p \in Purchase
    BY <2>1, ItemUpdates
  <2>3. GrownTo(u, p)
    BY <2>1, <2>2, RenewedKeeps, PaidSentinels DEF GrownTo
  <2> QED
    BY <1>3, <1>5, <2>2, <2>3 DEF Renews
<1>6. ASSUME NEW u \in Tokens, Notes(u) \/ \E take \in SUBSET Keys : Refunds(u, take)
      PROVE  GrownTo(t, purchase'[t])
  <2>1. purchase[u] \in Purchase
    BY <1>6, RecordedIsPurchase DEF Notes, Refunds, TypedInv
  <2>2. \A p \in {Expired(purchase[u]), Acked(purchase[u]), Voided(purchase[u])} :
          p \in Purchase /\ GrownTo(u, p)
    BY <2>1, ItemUpdates, UpdatesKeep, PaidSentinels DEF GrownTo
  <2> QED
    BY <1>3, <1>6, <2>2 DEF Notes, Refunds
<1>7. ASSUME NEW u \in Tokens, NEW l \in Listeners, ClaimGift(u, l)
      PROVE  GrownTo(t, purchase'[t])
  <2> DEFINE p == WithClaimed(purchase[u], KeyOf(u, l))
  <2>1. Recorded(u) /\ purchase[u] \in Purchase /\ KeyOf(u, l) \in Keys
    BY <1>7, KeyOfIsKey, RecordedIsPurchase DEF ClaimGift, TypedInv
  <2>2. Kind[u] = "gift"
    BY <1>7 DEF ClaimGift, GiftOpen, ItemsInv, GiftMatchesPurchase
  <2>3. p \in Purchase /\ GrownTo(u, p)
    BY <2>1, <2>2, ItemUpdates, WithClaimedKeeps, PaidSentinels DEF GrownTo
  <2>4. purchase' = [purchase EXCEPT ![u] = p]
    BY <1>2, <1>7 DEF ClaimGift
  <2> QED
    BY <1>3, <2>3, <2>4
<1>8. CASE UNCHANGED purchase
  BY <1>1, <1>8
<1> QED
  BY <1>4, <1>5, <1>6, <1>7, <1>8 DEF ItemsStep, Redeems

-----------------------------------------------------------------------------
(* What an invocation has read stays good enough until it writes. *)

\* What was relied on holds of purchases that have only grown.
LEMMA SnapshotSurvives ==
  ASSUME Grows, NEW s \in WorkerStates, SnapshotHolds(s, purchase)
  PROVE  SnapshotHolds(s, purchase')
<1>1. CASE s \in Asking \cup Writing /\ s.seen # None
  <2>1. /\ s.t \in Tokens /\ Recorded(s.t) /\ GrownTo(s.t, purchase'[s.t])
        /\ s \notin Gathering \cup Voiding
    BY <1>1 DEF SnapshotHolds, Grows, Recorded, Asking, Writing, Gathering, Voiding
  <2> QED
    BY <1>1, <2>1 DEF SnapshotHolds, GrownTo
<1>2. CASE s \in Gathering
  <2>1. /\ s.t \in Tokens /\ Recorded(s.t) /\ GrownTo(s.t, purchase'[s.t])
        /\ s \notin Asking \cup Writing \cup Voiding
    BY <1>2 DEF SnapshotHolds, Grows, Recorded, Asking, Writing, Gathering, Voiding
  <2> QED
    BY <1>2, <2>1 DEF SnapshotHolds, GrownTo
<1>3. CASE s \in Voiding
  <2>1. /\ s.t \in Tokens /\ Recorded(s.t) /\ GrownTo(s.t, purchase'[s.t])
        /\ s \notin Asking \cup Writing \cup Gathering
    BY <1>3 DEF SnapshotHolds, Grows, Recorded, Asking, Writing, Gathering, Voiding
  <2> QED
    BY <1>3, <2>1 DEF SnapshotHolds, GrownTo
<1> QED
  BY <1>1, <1>2, <1>3 DEF SnapshotHolds

\* One invocation moves: only its own snapshot is to be shown.
LEMMA GotoSnapshots ==
  ASSUME TypedInv, SnapshotsHold, Grows, NEW w \in Workers, NEW STATE s,
         Goto(w, s), SnapshotHolds(s, purchase')
  PROVE  SnapshotsHold'
<1> SUFFICES ASSUME NEW v \in Workers PROVE SnapshotHolds(worker'[v], purchase')
  BY DEF SnapshotsHold, SnapshotHolds
<1>1. CASE v = w
  BY <1>1 DEF Goto, TypedInv, TypeOK
<1>2. CASE v # w
  <2>1. worker'[v] = worker[v] /\ worker[v] \in WorkerStates
    BY <1>2 DEF Goto, TypedInv, TypeOK
  <2> QED
    BY <2>1, SnapshotSurvives DEF SnapshotsHold
<1> QED
  BY <1>1, <1>2

\* A worker that settles or stops carries nothing it could be wrong about.
LEMMA SettlingHoldsNothing ==
  ASSUME NEW s \in Settling \cup {Idle}, NEW items
  PROVE  SnapshotHolds(s, items)
BY DEF SnapshotHolds, Settling, Idle, Asking, Writing, Gathering, Voiding

\* What an invocation reads is good when it reads it.
LEMMA ReadsHold ==
  ASSUME TypedInv, SnapshotsHold, ItemsInv, Grows, NEW w \in Workers,
         \/ \E t \in Tokens :
              (\E l \in Listeners : GrantBegin(w, t, l)) \/ RefundBegin(w, t)
         \/ GrantAsk(w) \/ GrantRetry(w) \/ RefundGather(w)
  PROVE  SnapshotsHold'
<1>1. ASSUME NEW t \in Tokens, NEW l \in Listeners, GrantBegin(w, t, l)
      PROVE  SnapshotsHold'
  <2> DEFINE s == [pc |-> "ask", t |-> t, l |-> l, seen |-> purchase[t]]
  <2>1. s \in Asking \cup Writing /\ s.seen # None =>
          /\ Kind[s.t] = "plus" /\ purchase[s.t] # None
          /\ purchase[s.t].owner = s.l
          /\ s.seen.granted = {KeyOf(s.t, s.l)}
          /\ s.seen.acked => purchase[s.t].acked
    BY <1>1 DEF GrantBegin, Recorded, ItemsInv, PlusGrantsOneRow
  <2>2. SnapshotHolds(s, purchase)
    BY <2>1 DEF SnapshotHolds, Gathering, Voiding
  <2>3. Goto(w, s) /\ purchase' = purchase
    BY <1>1 DEF GrantBegin
  <2> HIDE DEF s
  <2> QED
    BY <2>2, <2>3, GotoSnapshots
<1>2. ASSUME NEW t \in Tokens, RefundBegin(w, t) PROVE SnapshotsHold'
  <2> DEFINE s == [pc |-> "gather", t |-> t, granted |-> purchase[t].granted]
  <2>1. SnapshotHolds(s, purchase)
    BY <1>2 DEF RefundBegin, Refundable, Recorded, SnapshotHolds, Asking,
                Writing, Voiding
  <2>2. Goto(w, s) /\ purchase' = purchase
    BY <1>2 DEF RefundBegin
  <2> HIDE DEF s
  <2> QED
    BY <2>1, <2>2, GotoSnapshots
<1>3. CASE GrantAsk(w)
  <2>1. worker[w] \in Asking /\ SnapshotHolds(worker[w], purchase)
    BY <1>3, StateAtPc DEF GrantAsk, TypedInv, SnapshotsHold
  <2> DEFINE s == [pc |-> "write", t |-> worker[w].t, l |-> worker[w].l,
                   seen |-> worker[w].seen,
                   told |-> worker[w].t \in googleAcked]
  <2>2. SnapshotHolds(s, purchase)
    BY <2>1 DEF SnapshotHolds, Gathering, Voiding
  <2>3. Goto(w, s) /\ purchase' = purchase
    BY <1>3 DEF GrantAsk
  <2> HIDE DEF s
  <2> QED
    BY <2>2, <2>3, GotoSnapshots
<1>4. CASE GrantRetry(w)
  <2>1. /\ worker[w] \in Writing /\ SnapshotHolds(worker[w], purchase)
        /\ worker[w].seen # None
    BY <1>4, StateAtPc DEF GrantRetry, TypedInv, SnapshotsHold
  <2> DEFINE t == worker[w].t
             l == worker[w].l
             s == [worker[w] EXCEPT !.seen = purchase[t]]
  <2>2. /\ t \in Tokens /\ Kind[t] = "plus" /\ Recorded(t)
        /\ purchase[t].owner = l
    BY <2>1 DEF SnapshotHolds, Writing, Recorded
  <2>3. purchase[t].granted = {KeyOf(t, l)}
    BY <2>2 DEF ItemsInv, PlusGrantsOneRow
  <2>4. /\ s.t = t /\ s.l = l /\ s.seen = purchase[t] /\ s.pc = "write"
        /\ s \notin Gathering \cup Voiding
    BY <2>1 DEF Writing, Gathering, Voiding
  <2>5. Goto(w, s) /\ purchase' = purchase
    BY <1>4 DEF GrantRetry
  <2> HIDE DEF s, t, l
  <2>6. SnapshotHolds(s, purchase)
    BY <2>2, <2>3, <2>4 DEF SnapshotHolds, Recorded
  <2> QED
    BY <2>5, <2>6, GotoSnapshots
<1>5. CASE RefundGather(w)
  <2>1. worker[w] \in Gathering /\ SnapshotHolds(worker[w], purchase)
    BY <1>5, StateAtPc DEF RefundGather, TypedInv, SnapshotsHold
  <2> DEFINE t == worker[w].t
             take == TakenBack(t, worker[w].granted)
             s == [pc |-> "void", t |-> t, take |-> take]
  <2>2. /\ t \in Tokens /\ worker[w].granted \in SUBSET Keys /\ Recorded(t)
        /\ worker[w].granted \subseteq purchase[t].granted
        /\ Kind[t] = "show" => worker[w].granted = purchase[t].granted
    BY <2>1 DEF Gathering, SnapshotHolds, Recorded
  <2>3. take \subseteq purchase[t].granted
    BY <2>2 DEF TakenBack
  <2>4. Kind[t] = "show" /\ ~purchase[t].voided => take = purchase[t].granted
    BY <2>2 DEF TakenBack, ItemsInv, ShowFollowsItsPurchase
  <2>5. Goto(w, s) /\ purchase' = purchase
    BY <1>5 DEF RefundGather
  <2> HIDE DEF t, take
  <2>6. SnapshotHolds(s, purchase)
    BY <2>2, <2>3, <2>4 DEF SnapshotHolds, Recorded, Asking, Writing, Gathering
  <2> HIDE DEF s
  <2> QED
    BY <2>5, <2>6, GotoSnapshots
<1> QED
  BY <1>1, <1>2, <1>3, <1>4, <1>5

\* Every step keeps what invocations rely on.
LEMMA SnapshotsStep ==
  ASSUME TypedInv, SnapshotsHold, ItemsInv, [Next]_vars
  PROVE  SnapshotsHold'
<1>1. Grows
  BY StepOnItems, PurchasesGrow
<1>2. ASSUME NEW w \in Workers, NEW t \in Tokens,
             (\E l \in Listeners : GrantBegin(w, t, l)) \/ RefundBegin(w, t)
      PROVE  SnapshotsHold'
  BY <1>1, <1>2, ReadsHold
<1>3. ASSUME NEW w \in Workers, NEW t \in Tokens, AckDueBegin(w, t)
      PROVE  SnapshotsHold'
  BY <1>1, <1>3, GotoSnapshots, SettlingHoldsNothing DEF AckDueBegin, Settling
<1>4. ASSUME NEW w \in Workers, GrantAsk(w) \/ GrantRetry(w) \/ RefundGather(w)
      PROVE  SnapshotsHold'
  BY <1>1, <1>4, ReadsHold
<1>5. ASSUME NEW w \in Workers, GrantNotPaid(w) \/ GrantRaced(w)
      PROVE  SnapshotsHold'
  <2>1. worker[w] \in Asking \cup Writing /\ worker[w].t \in Tokens
    BY <1>5, StateAtPc DEF GrantNotPaid, GrantRaced, TypedInv, Asking, Writing
  <2>2. \A pc \in {"expire", "note"} : [pc |-> pc, t |-> worker[w].t] \in Settling
    BY <2>1 DEF Settling
  <2> QED
    BY <1>1, <1>5, <2>2, GotoSnapshots, SettlingHoldsNothing
    DEF GrantNotPaid, GrantRaced
<1>6. ASSUME NEW w \in Workers, GrantCreate(w) \/ GrantRenew(w)
      PROVE  SnapshotsHold'
  <2>1. worker[w].t \in Tokens /\ worker[w].told \in BOOLEAN
    BY <1>6, StateAtPc DEF GrantCreate, GrantRenew, TypedInv, Writing
  <2>2. Goto(w, AfterGrant(worker[w].t, worker[w].told))
    BY <1>6 DEF GrantCreate, GrantRenew
  <2>3. AfterGrant(worker[w].t, worker[w].told) \in Settling
    BY <2>1, AfterGrantIsSettling
  <2> QED
    BY <1>1, <2>2, <2>3, GotoSnapshots, SettlingHoldsNothing
<1>7. ASSUME NEW w \in Workers, TellGoogle(w) PROVE SnapshotsHold'
  <2>1. worker[w] \in Settling
    BY <1>7, StateAtPc DEF TellGoogle, TypedInv
  <2>2. [worker[w] EXCEPT !.pc = "note"] \in Settling
    BY <2>1 DEF Settling
  <2>3. Goto(w, [worker[w] EXCEPT !.pc = "note"])
    BY <1>7 DEF TellGoogle
  <2> QED
    BY <1>1, <2>2, <2>3, GotoSnapshots, SettlingHoldsNothing
<1>8. ASSUME NEW w \in Workers,
             \/ GrantExpire(w) \/ NoteAcked(w) \/ RefundCommit(w)
             \/ RefundCancelled(w) \/ Stop(w)
      PROVE  SnapshotsHold'
  <2>1. Goto(w, Idle)
    BY <1>8 DEF GrantExpire, NoteAcked, RefundCommit, RefundCancelled, Stop
  <2> QED
    BY <1>1, <2>1, GotoSnapshots, SettlingHoldsNothing
<1>9. CASE UNCHANGED worker
  <2> SUFFICES ASSUME NEW v \in Workers PROVE SnapshotHolds(worker[v], purchase')
    BY <1>9 DEF SnapshotsHold, SnapshotHolds
  <2>1. worker[v] \in WorkerStates
    BY DEF TypedInv, TypeOK
  <2> QED
    BY <1>1, <2>1, SnapshotSurvives DEF SnapshotsHold
<1>10. ASSUME \/ \E t \in Tokens : GooglePlay(t)
              \/ \E t \in Tokens, l \in Listeners : ClaimGift(t, l)
              \/ \E c \in Codes :
                   DisableCode(c) \/ \E l \in Listeners : RedeemShow(c, l)
              \/ UNCHANGED vars
       PROVE  UNCHANGED worker
  BY <1>10 DEF GooglePlay, GooglePays, GoogleLapses, GoogleResumes,
               GoogleVoids, GoogleMoves, ClaimGift, DisableCode, RedeemShow, vars
<1> QED
  BY <1>2, <1>3, <1>4, <1>5, <1>6, <1>7, <1>8, <1>9, <1>10 DEF Next, Step

-----------------------------------------------------------------------------
(* Each kind of write keeps the invariants of the items. *)

\* PLUS and a show are different keys; accounts have different keys.
LEMMA KeysApart ==
  ASSUME NEW t \in Tokens, NEW u \in Tokens,
         NEW l \in Listeners, NEW m \in Listeners
  PROVE  /\ Kind[t] = "plus" /\ Kind[u] # "plus" => KeyOf(t, l) # KeyOf(u, m)
         /\ KeyOf(t, l) = KeyOf(t, m) => l = m
BY PaidConstants, PaidSentinels DEF KeyOf

\* A row that comes from a purchase is a row of that purchase's thing.
LEMMA RowOfItsPurchase ==
  ASSUME ItemsInv, NEW k \in Keys, ent[k] \in Tokens
  PROVE  Recorded(ent[k]) /\ \E l \in Listeners : k = KeyOf(ent[k], l)
BY DEF ItemsInv, EveryRowTraced, GrantsOneThing

\* create keeps the invariants of the items.
LEMMA CreateKeeps ==
  ASSUME TypedInv, ItemsInv, NEW t \in Tokens, NEW l \in Listeners, Creates(t, l)
  PROVE  ItemsInv'
<1> DEFINE p == [owner |-> l, status |-> "active", acked |-> FALSE,
                 voided |-> FALSE, queued |-> TRUE, granted |-> GrantedBy(t, l)]
<1>1. /\ purchase'[t] = p /\ p # None
      /\ \A u \in Tokens : u # t => purchase'[u] = purchase[u]
      /\ \A k \in Keys : ent'[k] = IF k \in GrantedBy(t, l) THEN t ELSE ent[k]
      /\ txn'[OrderOf[t]] = t /\ txn[OrderOf[t]] = None
      /\ \A o \in Orders : o # OrderOf[t] => txn'[o] = txn[o]
      /\ ~Recorded(t)
  <2>1. p \in Purchase
    BY KeyOfIsKey DEF Purchase
  <2> QED
    BY <2>1, PaidConstants, PaidSentinels
    DEF Creates, OrderFree, TypedInv, TypeOK
<1>2. /\ gift'[t] = IF Kind[t] = "gift" THEN [claimedBy |-> None, cancelled |-> FALSE]
                                        ELSE None
      /\ \A u \in Tokens : u # t =>
           gift'[u] = gift[u] /\ earning'[u] = earning[u] /\ (u \in tips' <=> u \in tips)
      /\ earning'[t] = EarningOf(t)
      /\ Kind[t] = "tip" => t \in tips'
  BY DEF Creates, TypedInv, TypeOK
<1>3. /\ \A k \in GrantedBy(t, l) : k = KeyOf(t, l) /\ k \in Keys
      /\ Kind[t] = "plus" => GrantedBy(t, l) = {KeyOf(t, l)}
      /\ Kind[t] # "plus" => \A k \in GrantedBy(t, l) : ent[k] = None
      /\ Kind[t] = "gift" => GrantedBy(t, l) = {}
  BY KeyOfIsKey DEF GrantedBy
<1>4. [claimedBy |-> None, cancelled |-> FALSE] # None
  <2>1. [claimedBy |-> None, cancelled |-> FALSE] \in Gift
    BY DEF Gift
  <2> QED
    BY <2>1, PaidSentinels
<1> HIDE DEF p
<1>5. \A k \in Keys : ent[k] # t
  BY <1>1 DEF ItemsInv, EveryRowTraced
\* A row of the new purchase was not a row of a show or a gift before.
<1>6. ASSUME NEW u \in Tokens, Kind[u] # "plus", u # t, NEW k \in Keys
      PROVE  ent'[k] = u <=> ent[k] = u
  <2>1. CASE k \notin GrantedBy(t, l)
    BY <1>1, <2>1
  <2>2. CASE k \in GrantedBy(t, l)
    <3>1. ent'[k] = t
      BY <1>1, <2>2
    <3>2. ent[k] # u
      BY <1>3, <1>6, <2>2, RowOfItsPurchase, KeysApart, PaidSentinels
    <3> QED
      BY <3>1, <3>2, <1>6
  <2> QED
    BY <2>1, <2>2
<1>7. PlusGrantsOneRow' /\ GrantsOneThing'
  <2>1. p.granted = GrantedBy(t, l) /\ p.owner = l
    BY DEF p
  <2>2. PlusGrantsOneRow'
    BY <1>1, <1>3, <2>1 DEF ItemsInv, PlusGrantsOneRow, Recorded, KeyOf
  <2>3. GrantsOneThing'
    BY <1>1, <1>3, <2>1 DEF ItemsInv, GrantsOneThing, Recorded, KeyOf
  <2> QED
    BY <2>2, <2>3
<1>8. GiftMatchesPurchase'
  BY <1>1, <1>2, <1>4 DEF ItemsInv, GiftMatchesPurchase, Recorded
<1>9. EveryRowTraced'
  BY <1>1 DEF p, ItemsInv, EveryRowTraced, Recorded
<1>10. OneGrantPerOrder'
  BY <1>1, PaidConstants, PaidSentinels DEF ItemsInv, OneGrantPerOrder, Recorded
<1>11. GiftHasOneHome'
  <2> SUFFICES ASSUME NEW u \in Tokens, Kind[u] = "gift", NEW m \in Listeners
               PROVE  /\ ent'[KeyOf(u, m)] = u =>
                           purchase'[u] # None /\ gift'[u].claimedBy = m
                      /\ purchase'[u] # None /\ gift'[u].claimedBy = m /\ ~gift'[u].cancelled
                           => ent'[KeyOf(u, m)] = u
    BY DEF GiftHasOneHome, Recorded, KeyOf
  <2>1. KeyOf(u, m) \in Keys
    BY KeyOfIsKey
  <2>2. CASE u = t
    <3>1. ent'[KeyOf(t, m)] # t
      BY <1>1, <1>3, <1>5, <2>1, <2>2
    <3>2. gift'[t].claimedBy = None /\ m # None
      BY <1>2, <2>2, PaidSentinels
    <3> QED
      BY <2>2, <3>1, <3>2
  <2>3. CASE u # t
    <3>1. ent'[KeyOf(u, m)] = u <=> ent[KeyOf(u, m)] = u
      BY <1>6, <2>1, <2>3
    <3>2. purchase'[u] = purchase[u] /\ gift'[u] = gift[u]
      BY <1>1, <1>2, <2>3
    <3>3. /\ ent[KeyOf(u, m)] = u => purchase[u] # None /\ gift[u].claimedBy = m
          /\ purchase[u] # None /\ gift[u].claimedBy = m /\ ~gift[u].cancelled
                => ent[KeyOf(u, m)] = u
      BY DEF ItemsInv, GiftHasOneHome, Recorded
    <3> QED
      BY <3>1, <3>2, <3>3
  <2> QED
    BY <2>2, <2>3
<1>12. ShowFollowsItsPurchase'
  <2> SUFFICES ASSUME NEW u \in Tokens, Kind[u] = "show", purchase'[u] # None,
                      NEW k \in Keys
               PROVE  ent'[k] = u <=>
                        k \in purchase'[u].granted /\ ~purchase'[u].voided
    BY DEF ShowFollowsItsPurchase, Recorded
  <2>1. CASE u = t
    BY <1>1, <1>5, <2>1 DEF p
  <2>2. CASE u # t
    BY <1>1, <1>6, <2>2 DEF ItemsInv, ShowFollowsItsPurchase, Recorded
  <2> QED
    BY <2>1, <2>2
<1>13. RefundIsMarked'
  BY <1>1, <1>2 DEF p, ItemsInv, RefundIsMarked, Recorded
<1>14. DueIsQueued'
  BY <1>1 DEF p, ItemsInv, DueIsQueued, Due, AckDue, Recorded
<1> QED
  BY <1>7, <1>8, <1>9, <1>10, <1>11, <1>12, <1>13, <1>14 DEF ItemsInv

\* renewPlus keeps them, however old the read it works from.
LEMMA RenewKeeps ==
  ASSUME TypedInv, ItemsInv, NEW t \in Tokens, NEW l \in Listeners,
         NEW seen \in Purchase, Renews(t, l, seen)
  PROVE  ItemsInv'
<1> DEFINE key == KeyOf(t, l)
<1>1. /\ Recorded(t) /\ purchase[t] \in Purchase /\ Kind[t] = "plus"
      /\ key \in Keys /\ purchase[t].granted = {key} /\ seen.granted = {key}
      /\ seen.acked => purchase[t].acked
  BY KeyOfIsKey, RecordedIsPurchase
  DEF Renews, ItemsInv, PlusGrantsOneRow, TypedInv
<1>2. /\ purchase'[t] # None
      /\ purchase'[t].owner = purchase[t].owner
      /\ purchase'[t].granted = purchase[t].granted
      /\ purchase'[t].acked = purchase[t].acked
      /\ purchase'[t].queued = ~seen.acked
      /\ \A u \in Tokens : u # t => purchase'[u] = purchase[u]
  <2> DEFINE p == Renewed(purchase[t], seen, key)
  <2>1. /\ purchase'[t] = p
        /\ \A u \in Tokens : u # t => purchase'[u] = purchase[u]
    BY DEF Renews, TypedInv, TypeOK
  <2>2. p \in Purchase /\ p # None
    <3>1. p \in Purchase
      BY <1>1, ItemUpdates
    <3> QED
      BY <3>1, PaidSentinels
  <2>3. /\ p.owner = purchase[t].owner /\ p.acked = purchase[t].acked
        /\ p.granted = purchase[t].granted /\ p.queued = ~seen.acked
    BY <1>1, RenewedKeeps
  <2> HIDE DEF p
  <2> QED
    BY <2>1, <2>2, <2>3
<1>3. /\ \A k \in Keys : ent'[k] = IF k = key THEN t ELSE ent[k]
      /\ UNCHANGED <<txn, gift, tips, earning>>
  BY DEF Renews, TypedInv, TypeOK
<1> HIDE DEF key
<1>4. ASSUME NEW u \in Tokens, Kind[u] # "plus", NEW k \in Keys
      PROVE  ent'[k] = u <=> ent[k] = u
  <2>1. ent[key] # u
    BY <1>1, <1>4, RowOfItsPurchase, KeysApart DEF key
  <2> QED
    BY <1>1, <1>3, <1>4, <2>1
<1>5. PlusGrantsOneRow' /\ GrantsOneThing'
  BY <1>1, <1>2 DEF ItemsInv, PlusGrantsOneRow, GrantsOneThing, Recorded, KeyOf
<1>6. GiftMatchesPurchase'
  BY <1>1, <1>2, <1>3 DEF ItemsInv, GiftMatchesPurchase, Recorded
<1>7. EveryRowTraced'
  BY <1>1, <1>2, <1>3 DEF ItemsInv, EveryRowTraced, Recorded
<1>8. OneGrantPerOrder'
  BY <1>1, <1>2, <1>3 DEF ItemsInv, OneGrantPerOrder, Recorded
<1>9. GiftHasOneHome'
  <2> SUFFICES ASSUME NEW u \in Tokens, Kind[u] = "gift", NEW m \in Listeners
               PROVE  /\ ent'[KeyOf(u, m)] = u =>
                           purchase'[u] # None /\ gift'[u].claimedBy = m
                      /\ purchase'[u] # None /\ gift'[u].claimedBy = m /\ ~gift'[u].cancelled
                           => ent'[KeyOf(u, m)] = u
    BY DEF GiftHasOneHome, Recorded, KeyOf
  <2>1. ent'[KeyOf(u, m)] = u <=> ent[KeyOf(u, m)] = u
    BY <1>4, KeyOfIsKey
  <2>2. purchase'[u] = purchase[u] /\ gift'[u] = gift[u]
    BY <1>1, <1>2, <1>3
  <2> QED
    BY <2>1, <2>2 DEF ItemsInv, GiftHasOneHome, Recorded
<1>10. ShowFollowsItsPurchase'
  BY <1>1, <1>2, <1>4 DEF ItemsInv, ShowFollowsItsPurchase, Recorded
<1>11. RefundIsMarked'
  BY <1>1, <1>2, <1>3 DEF ItemsInv, RefundIsMarked, Recorded
<1>12. DueIsQueued'
  BY <1>1, <1>2 DEF ItemsInv, DueIsQueued, Due, AckDue, Recorded
<1> QED
  BY <1>5, <1>6, <1>7, <1>8, <1>9, <1>10, <1>11, <1>12 DEF ItemsInv

\* None of these three updates leaves Google to be told.
LEMMA NoMoreDue ==
  ASSUME NEW p \in Purchase
  PROVE  ~AckDue(Expired(p)) /\ ~AckDue(Acked(p)) /\ ~AckDue(Voided(p))
BY DEF Purchase, AckDue, Expired, Acked, Voided

\* Expiring and acknowledging keep them.
LEMMA NotesKeep ==
  ASSUME TypedInv, ItemsInv, NEW t \in Tokens, Notes(t)
  PROVE  ItemsInv'
<1>1. /\ purchase[t] \in Purchase /\ Recorded(t)
      /\ purchase'[t] \in {Expired(purchase[t]), Acked(purchase[t])}
      /\ \A u \in Tokens : u # t => purchase'[u] = purchase[u]
      /\ UNCHANGED <<txn, ent, gift, tips, earning>>
  BY RecordedIsPurchase DEF Notes, TypedInv, TypeOK
<1>2. /\ purchase'[t] # None
      /\ purchase'[t].owner = purchase[t].owner
      /\ purchase'[t].granted = purchase[t].granted
      /\ purchase'[t].voided = purchase[t].voided
      /\ ~(purchase'[t].status = "active" /\ ~purchase'[t].acked)
  <2>1. \A p \in {Expired(purchase[t]), Acked(purchase[t])} :
          /\ p # None /\ p.owner = purchase[t].owner
          /\ p.granted = purchase[t].granted /\ p.voided = purchase[t].voided
          /\ ~(p.status = "active" /\ ~p.acked)
    <3>1. Expired(purchase[t]) \in Purchase /\ Acked(purchase[t]) \in Purchase
      BY <1>1, ItemUpdates
    <3>2. /\ ~AckDue(Expired(purchase[t])) /\ ~AckDue(Acked(purchase[t]))
          /\ Expired(purchase[t]).voided = purchase[t].voided
          /\ Acked(purchase[t]).voided = purchase[t].voided
      BY <1>1, UpdatesKeep, NoMoreDue
    <3>3. \A p \in {Expired(purchase[t]), Acked(purchase[t])} :
            p.owner = purchase[t].owner /\ p.granted = purchase[t].granted
      BY <1>1, UpdatesKeep
    <3> QED
      BY <3>1, <3>2, <3>3, PaidSentinels DEF AckDue
  <2> QED
    BY <1>1, <2>1
<1>3. PlusGrantsOneRow' /\ GrantsOneThing'
  BY <1>1, <1>2 DEF ItemsInv, PlusGrantsOneRow, GrantsOneThing, Recorded, KeyOf
<1>4. GiftMatchesPurchase'
  BY <1>1, <1>2 DEF ItemsInv, GiftMatchesPurchase, Recorded
<1>5. EveryRowTraced' /\ OneGrantPerOrder'
  BY <1>1, <1>2 DEF ItemsInv, EveryRowTraced, OneGrantPerOrder, Recorded
<1>6. GiftHasOneHome'
  BY <1>1, <1>2 DEF ItemsInv, GiftHasOneHome, Recorded, KeyOf
<1>7. ShowFollowsItsPurchase'
  BY <1>1, <1>2 DEF ItemsInv, ShowFollowsItsPurchase, Recorded
<1>8. RefundIsMarked'
  <2>1. purchase[t].status = "refunded" => purchase'[t].status = "refunded"
    BY <1>1 DEF Expired, Acked, Purchase
  <2> QED
    BY <1>1, <1>2, <2>1 DEF ItemsInv, RefundIsMarked, Recorded
<1>9. DueIsQueued'
  BY <1>1, <1>2 DEF ItemsInv, DueIsQueued, Due, AckDue, Recorded
<1> QED
  BY <1>3, <1>4, <1>5, <1>6, <1>7, <1>8, <1>9 DEF ItemsInv

\* A refund keeps them.
LEMMA RefundKeeps ==
  ASSUME TypedInv, ItemsInv, NEW t \in Tokens, NEW take \in SUBSET Keys,
         Refunds(t, take)
  PROVE  ItemsInv'
<1>1. /\ purchase[t] \in Purchase /\ Recorded(t) /\ ~purchase[t].voided
      /\ \A k \in take : ent[k] = t
      /\ Kind[t] = "show" => take = purchase[t].granted
      /\ purchase'[t] = Voided(purchase[t])
      /\ \A u \in Tokens : u # t => purchase'[u] = purchase[u]
      /\ \A k \in Keys : ent'[k] = IF k \in take THEN None ELSE ent[k]
      /\ txn' = txn
  BY RecordedIsPurchase DEF Refunds, TypedInv, TypeOK
<1>2. /\ \A u \in Tokens : u # t =>
           gift'[u] = gift[u] /\ earning'[u] = earning[u] /\ (u \in tips' <=> u \in tips)
      /\ t \notin tips' /\ earning'[t] = EarningRefunded(t)
  BY DEF Refunds, TypedInv, TypeOK
<1>3. /\ gift'[t] # None <=> gift[t] # None
      /\ gift'[t] # None => gift'[t].cancelled /\ gift'[t].claimedBy = gift[t].claimedBy
  <2>1. CASE gift[t] = None
    BY <2>1 DEF Refunds
  <2>2. CASE gift[t] # None
    <3>1. gift[t] \in Gift /\ gift'[t] = [gift[t] EXCEPT !.cancelled = TRUE]
      BY <2>2 DEF Refunds, TypedInv, TypeOK
    <3>2. /\ gift'[t] \in Gift /\ gift'[t].cancelled
          /\ gift'[t].claimedBy = gift[t].claimedBy
      BY <3>1 DEF Gift
    <3> QED
      BY <2>2, <3>2, PaidSentinels
  <2> QED
    BY <2>1, <2>2
<1>4. /\ purchase'[t] # None
      /\ purchase'[t].owner = purchase[t].owner
      /\ purchase'[t].granted = purchase[t].granted
      /\ purchase'[t].voided
      /\ ~(purchase'[t].status = "active" /\ ~purchase'[t].acked)
  <2> DEFINE p == Voided(purchase[t])
  <2>1. /\ p # None /\ p.owner = purchase[t].owner
        /\ p.granted = purchase[t].granted /\ p.voided
        /\ ~(p.status = "active" /\ ~p.acked)
    BY <1>1, ItemUpdates, UpdatesKeep, NoMoreDue, PaidSentinels DEF AckDue
  <2>2. purchase'[t] = p
    BY <1>1
  <2> HIDE DEF p
  <2> QED
    BY <2>1, <2>2
<1>5. \A u \in Tokens, k \in Keys : u # t => (ent'[k] = u <=> ent[k] = u)
  BY <1>1, PaidSentinels
<1>6. PlusGrantsOneRow' /\ GrantsOneThing'
  BY <1>1, <1>4 DEF ItemsInv, PlusGrantsOneRow, GrantsOneThing, Recorded, KeyOf
<1>7. GiftMatchesPurchase'
  BY <1>1, <1>2, <1>3, <1>4 DEF ItemsInv, GiftMatchesPurchase, Recorded
<1>8. EveryRowTraced'
  BY <1>1, <1>4, PaidSentinels DEF ItemsInv, EveryRowTraced, Recorded
<1>9. OneGrantPerOrder'
  BY <1>1, <1>4 DEF ItemsInv, OneGrantPerOrder, Recorded
<1>10. GiftHasOneHome'
  <2> SUFFICES ASSUME NEW u \in Tokens, Kind[u] = "gift", NEW m \in Listeners
               PROVE  /\ ent'[KeyOf(u, m)] = u =>
                           purchase'[u] # None /\ gift'[u].claimedBy = m
                      /\ purchase'[u] # None /\ gift'[u].claimedBy = m /\ ~gift'[u].cancelled
                           => ent'[KeyOf(u, m)] = u
    BY DEF GiftHasOneHome, Recorded, KeyOf
  <2>1. KeyOf(u, m) \in Keys
    BY KeyOfIsKey
  <2>2. ent[KeyOf(u, m)] = u => purchase[u] # None /\ gift[u].claimedBy = m
    BY DEF ItemsInv, GiftHasOneHome, Recorded
  <2>3. purchase[u] # None /\ gift[u].claimedBy = m /\ ~gift[u].cancelled
          => ent[KeyOf(u, m)] = u
    BY DEF ItemsInv, GiftHasOneHome, Recorded
  <2>4. gift[t] # None <=> Kind[t] = "gift"
    BY <1>1 DEF ItemsInv, GiftMatchesPurchase
  <2>5. CASE u = t
    BY <1>1, <1>3, <1>4, <2>1, <2>2, <2>4, <2>5, PaidSentinels
  <2>6. CASE u # t
    BY <1>1, <1>2, <1>5, <2>1, <2>2, <2>3, <2>6
  <2> QED
    BY <2>5, <2>6
<1>11. ShowFollowsItsPurchase'
  <2> SUFFICES ASSUME NEW u \in Tokens, Kind[u] = "show", purchase'[u] # None,
                      NEW k \in Keys
               PROVE  ent'[k] = u <=>
                        k \in purchase'[u].granted /\ ~purchase'[u].voided
    BY DEF ShowFollowsItsPurchase, Recorded
  <2>1. CASE u = t
    <3>1. ent[k] = t => k \in take
      BY <1>1, <2>1 DEF ItemsInv, ShowFollowsItsPurchase
    <3> QED
      BY <1>1, <1>4, <2>1, <3>1, PaidSentinels
  <2>2. CASE u # t
    BY <1>1, <1>5, <2>2 DEF ItemsInv, ShowFollowsItsPurchase, Recorded
  <2> QED
    BY <2>1, <2>2
<1>12. RefundIsMarked'
  <2>1. Kind[t] = "gift" => gift[t] # None
    BY <1>1 DEF ItemsInv, GiftMatchesPurchase
  <2>2. purchase'[t].status = "refunded"
    BY <1>1 DEF Voided, Purchase
  <2> QED
    BY <1>1, <1>2, <1>3, <2>1, <2>2 DEF ItemsInv, RefundIsMarked, Recorded
<1>13. DueIsQueued'
  BY <1>1, <1>4 DEF ItemsInv, DueIsQueued, Due, AckDue, Recorded
<1> QED
  BY <1>6, <1>7, <1>8, <1>9, <1>10, <1>11, <1>12, <1>13 DEF ItemsInv

\* A claimed gift keeps them.
LEMMA ClaimKeeps ==
  ASSUME TypedInv, ItemsInv, NEW t \in Tokens, NEW l \in Listeners,
         ClaimGift(t, l)
  PROVE  ItemsInv'
<1> DEFINE key == KeyOf(t, l)
           p == WithClaimed(purchase[t], key)
<1>1. /\ Recorded(t) /\ purchase[t] \in Purchase /\ key \in Keys
      /\ gift[t] # None /\ gift[t].claimedBy = None /\ ~gift[t].cancelled
      /\ Kind[t] = "gift" /\ ent[key] = None
  BY KeyOfIsKey, RecordedIsPurchase
  DEF ClaimGift, GiftOpen, TypedInv, ItemsInv, GiftMatchesPurchase
<1>2. p \in Purchase
  BY <1>1, ItemUpdates
<1>3. /\ p # None /\ p.owner = purchase[t].owner
      /\ p.voided = purchase[t].voided /\ p.acked = purchase[t].acked
      /\ p.status = purchase[t].status /\ p.queued = purchase[t].queued
      /\ p.granted = purchase[t].granted \cup {key}
  BY <1>1, <1>2, WithClaimedKeeps, PaidSentinels
<1>4. /\ purchase'[t] = p
      /\ \A u \in Tokens : u # t => purchase'[u] = purchase[u]
      /\ \A k \in Keys : ent'[k] = IF k = key THEN t ELSE ent[k]
      /\ UNCHANGED <<txn, tips, earning>>
  BY <1>1 DEF ClaimGift, TypedInv, TypeOK
<1>5. /\ gift'[t] # None /\ gift'[t].claimedBy = l /\ ~gift'[t].cancelled
      /\ \A u \in Tokens : u # t => gift'[u] = gift[u]
  <2>1. gift[t] \in Gift /\ gift' = [gift EXCEPT ![t].claimedBy = l]
    BY <1>1 DEF ClaimGift, TypedInv, TypeOK
  <2>2. [gift[t] EXCEPT !.claimedBy = l] \in Gift
    BY <2>1 DEF Gift
  <2>3. /\ gift'[t] = [gift[t] EXCEPT !.claimedBy = l]
        /\ \A u \in Tokens : u # t => gift'[u] = gift[u]
    BY <2>1 DEF TypedInv, TypeOK
  <2> QED
    BY <1>1, <2>1, <2>2, <2>3, PaidSentinels DEF Gift
<1> HIDE DEF p
<1>6. PlusGrantsOneRow'
  BY <1>1, <1>4 DEF ItemsInv, PlusGrantsOneRow, Recorded, KeyOf
<1>7. GrantsOneThing'
  BY <1>1, <1>3, <1>4 DEF ItemsInv, GrantsOneThing, Recorded, KeyOf
<1> HIDE DEF key
<1>8. GiftMatchesPurchase'
  BY <1>1, <1>3, <1>4, <1>5 DEF ItemsInv, GiftMatchesPurchase, Recorded
<1>9. EveryRowTraced'
  BY <1>1, <1>3, <1>4 DEF ItemsInv, EveryRowTraced, Recorded
<1>10. OneGrantPerOrder'
  BY <1>1, <1>4 DEF ItemsInv, OneGrantPerOrder, Recorded
<1>11. \A u \in Tokens, k \in Keys : u # t => (ent'[k] = u <=> ent[k] = u)
  BY <1>1, <1>4, PaidSentinels
<1>12. GiftHasOneHome'
  <2> SUFFICES ASSUME NEW u \in Tokens, Kind[u] = "gift", NEW m \in Listeners
               PROVE  /\ ent'[KeyOf(u, m)] = u =>
                           purchase'[u] # None /\ gift'[u].claimedBy = m
                      /\ purchase'[u] # None /\ gift'[u].claimedBy = m /\ ~gift'[u].cancelled
                           => ent'[KeyOf(u, m)] = u
    BY DEF GiftHasOneHome, Recorded, KeyOf
  <2>1. KeyOf(u, m) \in Keys
    BY KeyOfIsKey
  <2>2. ent[KeyOf(u, m)] = u => purchase[u] # None /\ gift[u].claimedBy = m
    BY DEF ItemsInv, GiftHasOneHome, Recorded
  <2>3. purchase[u] # None /\ gift[u].claimedBy = m /\ ~gift[u].cancelled
          => ent[KeyOf(u, m)] = u
    BY DEF ItemsInv, GiftHasOneHome, Recorded
  <2>4. CASE u = t
    <3>1. ent[KeyOf(t, m)] # t
      BY <1>1, <2>2, <2>4, PaidSentinels
    <3>2. KeyOf(t, m) = key <=> m = l
      BY KeysApart DEF key
    <3> QED
      BY <1>3, <1>4, <1>5, <2>1, <2>4, <3>1, <3>2
  <2>5. CASE u # t
    BY <1>4, <1>5, <1>11, <2>1, <2>2, <2>3, <2>5
  <2> QED
    BY <2>4, <2>5
<1>13. ShowFollowsItsPurchase'
  BY <1>1, <1>4, <1>11 DEF ItemsInv, ShowFollowsItsPurchase, Recorded
<1>14. RefundIsMarked'
  BY <1>1, <1>3, <1>4, <1>5 DEF ItemsInv, RefundIsMarked, Recorded
<1>15. DueIsQueued'
  BY <1>1, <1>3, <1>4 DEF ItemsInv, DueIsQueued, Due, AckDue, Recorded
<1> QED
  BY <1>6, <1>7, <1>8, <1>9, <1>10, <1>12, <1>13, <1>14, <1>15 DEF ItemsInv

\* A redeemed show keeps them.
LEMMA RedeemKeeps ==
  ASSUME TypedInv, ItemsInv, NEW k \in Keys, Redeems(k)
  PROVE  ItemsInv'
<1>1. /\ UNCHANGED <<purchase, txn, gift, tips, earning>>
      /\ ent' = [ent EXCEPT ![k] = ByCode] /\ ent[k] = None
  BY DEF Redeems
<1>2. \A u \in Tokens, j \in Keys : ent'[j] = u <=> ent[j] = u
  BY <1>1, PaidSentinels DEF TypedInv, TypeOK
<1>3. /\ PlusGrantsOneRow' /\ GrantsOneThing' /\ GiftMatchesPurchase'
      /\ OneGrantPerOrder' /\ RefundIsMarked'
  BY <1>1 DEF ItemsInv, PlusGrantsOneRow, GrantsOneThing, GiftMatchesPurchase,
              OneGrantPerOrder, RefundIsMarked, Recorded, KeyOf
<1>4. DueIsQueued'
  BY <1>1 DEF ItemsInv, DueIsQueued, Due, Recorded
<1>5. EveryRowTraced' /\ ShowFollowsItsPurchase'
  BY <1>1, <1>2 DEF ItemsInv, EveryRowTraced, ShowFollowsItsPurchase, Recorded
<1>6. GiftHasOneHome'
  BY <1>1, <1>2, KeyOfIsKey DEF ItemsInv, GiftHasOneHome, Recorded, KeyOf
<1> QED
  BY <1>3, <1>4, <1>5, <1>6 DEF ItemsInv

\* Every write of items keeps them.
LEMMA ItemsKept ==
  ASSUME TypedInv, ItemsInv, ItemsStep
  PROVE  ItemsInv'
<1>1. CASE UNCHANGED <<purchase, txn, ent, gift, tips, earning>>
  BY <1>1 DEF ItemsInv, PlusGrantsOneRow, GrantsOneThing, GiftMatchesPurchase,
              EveryRowTraced, OneGrantPerOrder, GiftHasOneHome,
              ShowFollowsItsPurchase, RefundIsMarked, DueIsQueued, Due,
              Recorded, KeyOf
<1> QED
  BY <1>1, CreateKeeps, RenewKeeps, NotesKeep, RefundKeeps, ClaimKeeps,
     RedeemKeeps DEF ItemsStep

\* The inductive invariant holds at the start.
LEMMA PaidInit == Init => PaidInv
<1> SUFFICES ASSUME Init PROVE PaidInv
  OBVIOUS
<1>1. \A t \in Tokens : ~Recorded(t) /\ gift[t] = None
  BY DEF Init, Recorded
<1>2. \A k \in Keys : ent[k] \notin Tokens
  BY PaidSentinels DEF Init
<1>3. SnapshotsHold
  BY SettlingHoldsNothing DEF Init, SnapshotsHold
<1>4. ItemsInv
  BY <1>1, <1>2, KeyOfIsKey
  DEF ItemsInv, PlusGrantsOneRow, GrantsOneThing, GiftMatchesPurchase,
      EveryRowTraced, OneGrantPerOrder, GiftHasOneHome,
      ShowFollowsItsPurchase, RefundIsMarked, DueIsQueued, Due
<1> QED
  BY <1>3, <1>4, TypedInit DEF PaidInv

\* Every step keeps the inductive invariant.
LEMMA PaidStep == PaidInv /\ [Next]_vars => PaidInv'
BY TypedStep, StepOnItems, SnapshotsStep, ItemsKept DEF PaidInv

\* The inductive invariant holds always.
LEMMA PaidInvariant == Spec => []PaidInv
BY PaidInit, PaidStep, PTL DEF Spec

-----------------------------------------------------------------------------
(* The theorems. *)

\* purchases.ts, gifts.ts: every row a purchase pays for is on its own list,
\* so the loop of refundOne over `granted` reaches it.
THEOREM RowsAreTraced == Spec => []EveryRowTraced
<1>1. PaidInv => EveryRowTraced
  BY DEF PaidInv, ItemsInv
<1> QED
  BY <1>1, PaidInvariant, PTL

\* unique.ts claimUnique in create: one payment is granted under one token.
THEOREM OrdersGrantOnce == Spec => []OneGrantPerOrder
<1>1. PaidInv => OneGrantPerOrder
  BY DEF PaidInv, ItemsInv
<1> QED
  BY <1>1, PaidInvariant, PTL

\* gifts.ts claimGift: a gift is one claimer's, and the claimer has the show.
THEOREM GiftsHaveOneHome == Spec => []GiftHasOneHome
<1>1. PaidInv => GiftHasOneHome
  BY DEF PaidInv, ItemsInv
<1> QED
  BY <1>1, PaidInvariant, PTL

\* create and refundOne: a bought show stays until its refund, and no longer.
THEOREM ShowsFollowPurchases == Spec => []ShowFollowsItsPurchase
<1>1. PaidInv => ShowFollowsItsPurchase
  BY DEF PaidInv, ItemsInv
<1> QED
  BY <1>1, PaidInvariant, PTL

\* purchaseItem, renewPlus: acknowledgeDue finds whatever is due.
THEOREM DueStaysQueued == Spec => []DueIsQueued
<1>1. PaidInv => DueIsQueued
  BY DEF PaidInv, ItemsInv
<1> QED
  BY <1>1, PaidInvariant, PTL

\* Every update of a purchase item keeps its owner, its refund, what Google
\* was told and what it granted, even when it was computed from an old read.
THEOREM PurchasesStay == Spec => PurchaseNeverRewritten
<1>1. PaidInv /\ [Next]_vars =>
        [\A t \in Tokens : Recorded(t) =>
           /\ Recorded(t)'
           /\ purchase'[t].owner = purchase[t].owner
           /\ purchase[t].voided => purchase'[t].voided
           /\ purchase[t].acked => purchase'[t].acked
           /\ purchase[t].granted \subseteq purchase'[t].granted]_vars
  <2>1. ASSUME PaidInv, [Next]_vars PROVE Grows
    BY <2>1, StepOnItems, PurchasesGrow DEF PaidInv
  <2> QED
    BY <2>1 DEF Grows, GrownTo, Recorded
<1> QED
  BY <1>1, PaidInvariant, PTL DEF Spec, PurchaseNeverRewritten

\* create ("a show already owned keeps its own source"), claimGift, redeemCode
\* and refundOne: no step gives an owned show to another source.
THEOREM OwnedShowsKeepSources == Spec => OwnedShowKeepsItsSource
<1>1. ASSUME PaidInv, ItemsStep, NEW l \in Listeners, NEW s \in Shows,
             ent[<<l, s>>] # None, ent'[<<l, s>>] # None
      PROVE  ent'[<<l, s>>] = ent[<<l, s>>]
  <2> DEFINE k == <<l, s>>
  <2>1. k \in Keys /\ ent \in [Keys -> Sources]
    BY <1>1 DEF Keys, Things, PaidInv, TypedInv, TypeOK
  <2>2. ASSUME NEW t \in Tokens, NEW m \in Listeners, Kind[t] = "plus"
        PROVE  k # KeyOf(t, m)
    BY <2>2, PaidSentinels DEF KeyOf
  <2>3. ASSUME NEW t \in Tokens, NEW m \in Listeners, Creates(t, m)
        PROVE  ent'[k] = ent[k]
    BY <1>1, <2>1, <2>2, <2>3 DEF Creates, GrantedBy
  <2>4. ASSUME NEW t \in Tokens, NEW m \in Listeners, NEW seen \in Purchase,
               Renews(t, m, seen)
        PROVE  ent'[k] = ent[k]
    BY <2>1, <2>2, <2>4 DEF Renews
  <2>5. ASSUME NEW t \in Tokens, NEW m \in Listeners, ClaimGift(t, m)
        PROVE  ent'[k] = ent[k]
    BY <1>1, <2>1, <2>5 DEF ClaimGift
  <2>6. ASSUME NEW j \in Keys, Redeems(j) PROVE ent'[k] = ent[k]
    BY <1>1, <2>1, <2>6 DEF Redeems
  <2>7. ASSUME NEW t \in Tokens, NEW take \in SUBSET Keys, Refunds(t, take)
        PROVE  ent'[k] = ent[k]
    BY <1>1, <2>1, <2>7 DEF Refunds
  <2> QED
    BY <1>1, <2>3, <2>4, <2>5, <2>6, <2>7 DEF ItemsStep, Notes
<1>2. PaidInv /\ [Next]_vars =>
        [\A l \in Listeners, s \in Shows :
           LET k == <<l, s>> IN
             ent[k] # None /\ ent'[k] # None => ent'[k] = ent[k]]_vars
  BY <1>1, StepOnItems DEF PaidInv
<1> QED
  BY <1>2, PaidInvariant, PTL DEF Spec, OwnedShowKeepsItsSource

\* refundOne, and the conditions of claimGift and of the SET status in
\* grantGoogle: what is refunded is not active again, and gives no row again.
THEOREM RefundsAreFinal == Spec => RefundIsFinal
<1>1. ASSUME PaidInv, ItemsStep, NEW t \in Tokens, Kind[t] # "plus",
             Recorded(t), purchase[t].voided
      PROVE  /\ purchase'[t].status = "refunded"
             /\ \A k \in Keys : ent'[k] = t => ent[k] = t
  <2>1. /\ purchase[t] \in Purchase /\ purchase[t].status = "refunded"
        /\ Kind[t] = "gift" => gift[t].cancelled
    BY <1>1, RecordedIsPurchase
    DEF PaidInv, TypedInv, ItemsInv, RefundIsMarked
  <2>2. /\ purchase \in [Tokens -> Purchase \cup {None}]
        /\ ent \in [Keys -> Sources]
    BY <1>1 DEF PaidInv, TypedInv, TypeOK
  <2>3. ASSUME NEW u \in Tokens, NEW l \in Listeners, Creates(u, l)
        PROVE  purchase'[t] = purchase[t] /\ \A k \in Keys : ent'[k] = t => ent[k] = t
    BY <1>1, <2>2, <2>3 DEF Creates
  <2>4. ASSUME NEW u \in Tokens, NEW l \in Listeners, NEW seen \in Purchase,
               Renews(u, l, seen)
        PROVE  purchase'[t] = purchase[t] /\ \A k \in Keys : ent'[k] = t => ent[k] = t
    BY <1>1, <2>2, <2>4 DEF Renews
  <2>5. ASSUME NEW u \in Tokens, NEW l \in Listeners, ClaimGift(u, l)
        PROVE  purchase'[t] = purchase[t] /\ \A k \in Keys : ent'[k] = t => ent[k] = t
    <3>1. Kind[u] = "gift" /\ ~gift[u].cancelled
      BY <1>1, <2>5
      DEF ClaimGift, GiftOpen, PaidInv, ItemsInv, GiftMatchesPurchase
    <3>2. u # t
      BY <2>1, <3>1
    <3> QED
      BY <2>2, <2>5, <3>2 DEF ClaimGift
  <2>6. ASSUME NEW u \in Tokens, Notes(u)
        PROVE  /\ purchase'[t].status = "refunded"
               /\ \A k \in Keys : ent'[k] = t => ent[k] = t
    <3>1. /\ Expired(purchase[t]).status = "refunded"
          /\ Acked(purchase[t]).status = "refunded"
      BY <2>1 DEF Expired, Acked, Purchase
    <3>2. CASE u = t
      BY <2>2, <2>6, <3>1, <3>2 DEF Notes
    <3>3. CASE u # t
      BY <2>1, <2>2, <2>6, <3>3 DEF Notes
    <3> QED
      BY <3>2, <3>3
  <2>7. ASSUME NEW u \in Tokens, NEW take \in SUBSET Keys, Refunds(u, take)
        PROVE  /\ purchase'[t].status = "refunded"
               /\ \A k \in Keys : ent'[k] = t => ent[k] = t
    <3>1. u # t
      BY <1>1, <2>7 DEF Refunds
    <3> QED
      BY <2>1, <2>2, <2>7, <3>1, PaidSentinels DEF Refunds
  <2>8. ASSUME NEW j \in Keys, Redeems(j)
        PROVE  purchase' = purchase /\ \A k \in Keys : ent'[k] = t => ent[k] = t
    BY <2>2, <2>8, PaidSentinels DEF Redeems
  <2> QED
    BY <1>1, <2>1, <2>3, <2>4, <2>5, <2>6, <2>7, <2>8 DEF ItemsStep
<1>2. PaidInv /\ [Next]_vars =>
        [\A t \in Tokens : Kind[t] # "plus" /\ Recorded(t) /\ purchase[t].voided =>
           /\ purchase'[t].status = "refunded"
           /\ \A k \in Keys : ent'[k] = t => ent[k] = t]_vars
  BY <1>1, StepOnItems DEF PaidInv
<1> QED
  BY <1>2, PaidInvariant, PTL DEF Spec, RefundIsFinal

\* The accounts that used a code are finitely many, and the counter is their
\* number: redeemCode puts one row and adds one, on the code's condition.
UsersOf(c) == {l \in Listeners : <<c, l>> \in used}

CodesInv ==
  /\ TypeOK
  /\ \A c \in Codes : /\ IsFiniteSet(UsersOf(c))
                      /\ uses[c] = Cardinality(UsersOf(c))
                      /\ uses[c] <= MaxUses[c]

\* Every step keeps the counters of the codes.
LEMMA CodesStep ==
  ASSUME CodesInv, TypeOK', [Next]_vars
  PROVE  CodesInv'
<1>1. CASE UNCHANGED <<uses, used>>
  BY <1>1 DEF CodesInv, UsersOf
<1>2. ASSUME NEW c \in Codes, NEW l \in Listeners, RedeemShow(c, l)
      PROVE  CodesInv'
  <2>1. /\ uses' = [uses EXCEPT ![c] = @ + 1]
        /\ used' = used \cup {<<c, l>>}
        /\ l \notin UsersOf(c)
        /\ uses[c] < MaxUses[c]
    BY <1>2 DEF RedeemShow, CodeOpen, UsersOf
  <2>2. UsersOf(c)' = UsersOf(c) \cup {l}
    BY <2>1 DEF UsersOf
  <2>3. \A d \in Codes : d # c => UsersOf(d)' = UsersOf(d) /\ uses'[d] = uses[d]
    BY <2>1 DEF UsersOf, CodesInv, TypeOK
  <2>4. uses'[c] = uses[c] + 1 /\ uses[c] \in Nat /\ MaxUses[c] \in Nat
    BY <2>1, PaidConstants DEF CodesInv, TypeOK
  <2>5. /\ IsFiniteSet(UsersOf(c) \cup {l})
        /\ Cardinality(UsersOf(c) \cup {l}) = Cardinality(UsersOf(c)) + 1
    BY <2>1, FS_AddElement DEF CodesInv
  <2>6. IsFiniteSet(UsersOf(c)') /\ uses'[c] = Cardinality(UsersOf(c)')
    BY <2>2, <2>4, <2>5 DEF CodesInv
  <2>7. uses'[c] <= MaxUses[c]
    BY <2>1, <2>4
  <2> QED
    BY <2>3, <2>6, <2>7 DEF CodesInv
<1>3. UNCHANGED <<uses, used>>
        \/ \E c \in Codes, l \in Listeners : RedeemShow(c, l)
  BY DEF Next, Step, GrantBegin, AckDueBegin, RefundBegin, GrantAsk,
         GrantNotPaid, GrantExpire, GrantCreate, GrantRaced, GrantRenew,
         GrantRetry, TellGoogle, NoteAcked, RefundGather, RefundCommit,
         RefundCancelled, Stop, ClaimGift, DisableCode, GooglePlay, GooglePays,
         GoogleLapses, GoogleResumes, GoogleVoids, GoogleMoves, codes, vars
<1> QED
  BY <1>1, <1>2, <1>3

\* redeem.ts redeemCode: the counter is the number of accounts that used the
\* code, and never more than the code allows.
THEOREM CodesAreCounted == Spec => []CodeUsesCounted
<1>1. Init => CodesInv
  <2> SUFFICES ASSUME Init PROVE CodesInv
    OBVIOUS
  <2>1. \A c \in Codes : UsersOf(c) = {} /\ uses[c] = 0 /\ MaxUses[c] \in Nat
    BY PaidConstants DEF Init, UsersOf
  <2>2. TypeOK
    BY TypedInit DEF TypedInv
  <2> QED
    BY <2>1, <2>2, FS_EmptySet DEF CodesInv
<1>2. CodesInv /\ TypeOK' /\ [Next]_vars => CodesInv'
  BY CodesStep
<1>3. CodesInv => CodeUsesCounted
  BY DEF CodesInv, CodeUsesCounted, UsersOf
<1> QED
  BY <1>1, <1>2, <1>3, TypeCorrect, PTL DEF Spec

=============================================================================
