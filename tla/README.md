# Verification of SocialMorning

SocialMorning is a podcast application: a phone app (`apps/mobile`), an API on
AWS Lambda over one DynamoDB table (`apps/api`), a studio site (`apps/studio`)
and shared packages (`packages/`).  This directory holds TLA+ modules translated
from its source, the TLC configurations that check them on small instances, and
proofs of their safety properties for every value of their constants.

Seven parts are modelled: how purchases are granted, refunded, given and
redeemed (`PaidLane`) and the PLUS intervals they share (`PlusStore`), how work
that a commit causes is drained (`Outbox`), how a listening position
(`PositionSync`) and a playlist (`QueueSync`) are kept by several phones and the
server, the phone's player (`Player`) and download manager (`Downloads`), and
accounts with their sessions and their deletion (`Accounts`).  They were chosen because they
hold what cannot be put right later (money, notifications, the listener's place and
lists, the account itself) and because each works from reads that are old when they
are used, or from events that belong to something already replaced.

## 1. Inventory

| Part | State it keeps | Operations | What is hard |
|---|---|---|---|
| **paid lane** `db/repos/account/paid-ddb` | purchase, order id, entitlement rows, gifts, tips, earnings, codes | `grantGoogle`, `renewPlus`, `acknowledgeDue`, `applyVoided`/`refundOne`, `claimGift`, `redeemCode`, `disableCode`, `createCodes`, `rechain` | several invocations at once; Google asked between read and write; retries from an old read; refund over six items |
| **outbox** `jobs/outbox.ts` | `OUTBOX#` and `PARKED#` items, once-only markers | `enqueue`, `drainOutbox` (which parks), `retryParked`, `discardParked`, handlers | stream, schedule and requests drain together; a drain works from a shard read once; crash between handler and delete; starvation by failing entries |
| **PLUS intervals** `paid-ddb/common.ts` | interval rows by source, `PLUSV` with the version and the digest queue's key | `readPlus`, `rechain`, `applyRows`, `bumpPlus` for store, admin, codes and refunds; `plusRun` | every source moves the waiting codes; computed from reads, checked by one version; boundaries and rows for ever |
| **resumable jobs** `runJob`, **deletion** `deletion.ts` | job phase and version; the DELETION item | request, cancel, take what is due, step, save | a step done and its phase not saved; two workers on one job; cancelling what has begun |
| **accounts, sessions, codes** `ddb/listeners.ts`, `codes.ts`, `sessions.ts` | listener, unique names, code tries, sessions, device list | sign-up, sign-in, rotate, sign-out | two rotations of one token; a sign-out that read the chain before; the address of a deleted account |
| **push** `ddb/push.ts`, `push-sweep.ts` | tokens, receipts, digests | register, send, sweep | a token moves to another account while its receipt is read |
| **server positions** `library/ddb/positions.ts` | one versioned item per episode | `observePositions`, `listPositions` | read, merge and conditional put race |
| **position sync** `mobile/sync/positions.ts`, `sqlite-playback.ts` | a row per episode with `progressSeq` and `syncedSeq`; flags in memory | save, attempt, retry, timer, reconcile | saves during an upload; lost answers; killed app; old answers |
| **queue sync** `mobile/sync/queue.ts`, `ddb/profile.ts` | the queue, the version agreed on, a conflict | round, choose, push | the queue is edited while the server's copy is on its way |
| **player** `playback/reducer.ts`, `store.ts`, adapter | state machine with load ids, timers, focus | commands, native events | an event or a retry that belongs to an earlier load |
| **downloads** `downloads/manager.ts` | rows, budget, one transfer | tick, start, finish, evict | starvation by a failing head of the line; sizes declared wrong |
| **translation** `translate/job.ts` | spent budget, leases | ask, call, book | calls in flight together pass the cap |
| **heat, comments** `heat/`, `social/` | curves, intervals, likes, counters | bump, post, delete | counters through the outbox |
| **single-table store** `db/ddb/` | none of its own | conditional transaction, retry, batch | conflicts and cancelled transactions |
| **Google Play client** `billing/` | none | ask, acknowledge, voided list | outside answers |
| discovery, studio, admin, safety | single items and reports | reads and single conditional writes | little concurrency |
| feeds, UI, routes, mail, images, voice, native modules | none to check | I/O and presentation | - |

How they interact: a repository writes its items and its outbox entry in one
transaction; the stream, the minute's schedule or a request drains the entry and
its handler writes other repositories.  The phone calls the API; the API calls
Google, Expo's push service and translators.  There is no lock anywhere: all
that keeps two invocations apart is the condition of a transaction.  The file
`PROJECT.json` lists every part with its files, the hazards with the line where
each bites and the properties aimed at it.

## 2. How code becomes actions

* **One transaction is one step.**  A DynamoDB transaction commits whole or not
  at all; it is one action whose guard is its conditions.
* **What is read and not checked again is kept.**  Between a read and the write
  any other invocation may commit.  Where the write's condition asks again for
  what was read (a put if absent, a version) no snapshot is needed and the read
  disappears into the guard.  Where it does not, the value read is carried in
  the worker, drain or request and may be old when used.  Most
  of section 7 lives in such a value.
* **What runs to its end without waiting is one step.**  The phone's JavaScript is one
  thread: between two waits (network, file system, a native player) nothing else
  runs, so `dispatch` with its effects up to the next wait is one action.
* **A crash is a step.**  An invocation may end between any two of its steps; a
  phone may be killed; a request may be lost, or answered to nobody.
* **Data is abstracted**: shows, accounts, tokens and entries are model values,
  places in an episode small numbers, time is either left out (expiry of a
  marker is an action) or a clock of a few values whose ties are kept.

## 3. Modules

### PaidLane: purchases, gifts, refunds, codes

`purchase`, `txn`, `ent`, `gift`, `tips`, `earning`, `uses`/`used`/`disabled`
are the items of the table; `google` and `googleAcked` are what Google Play says
(external); `worker` is what each invocation is doing with what it has read.

| Action | Code |
|---|---|
| `GrantBegin`, `GrantAsk`, `GrantNotPaid`, `GrantExpire` | `grantGoogle` up to Google's answer |
| `GrantCreate`, `GrantRaced` | its first write: purchase, order id, row, gift or tip, earning |
| `GrantRenew`, `GrantRetry` | `renewPlus`, and the loop that reads again |
| `AckDueBegin`, `TellGoogle`, `NoteAcked` | `acknowledgeDue` and the end of `grantGoogle` |
| `RefundBegin`, `RefundGather`, `RefundCommit`, `RefundCancelled` | `applyVoided` and `refundOne` |
| `ClaimGift`, `RedeemShow`, `DisableCode` | `gifts.ts`, `redeem.ts` |
| `Stop` | the invocation ends anywhere |

The worker's `seen` (grant), `granted` and `take` (refund) are its unchecked
reads.  Here a PLUS row is there or not; its interval is `PlusStore`'s.  `Tests` are the
store's test purchases, which earn nothing (`purchases.ts:187`); an invocation that refuses one
ends as `Stop`.

### PlusRows, PlusLine, PlusStore: the intervals of PLUS

`PlusRows` holds the algorithms as operators on rows (a row per source: store,
admin, each code): `NotEnded`, `Rechained` (codes that wait follow on in order,
after whatever does not wait), `Changed` (what each change makes of the rows),
`LatestEnd` (the digest's key) and `PlusUntil` (`plusRun`: the end of the
unbroken run).  Chains and runs are recursive *functions*, so the module can
be used from a proof.  `PlusLine` is the abstract specification, the lock the code
says it replaces ("the old FOR UPDATE"): each change is made of the rows that
stand, at once; only the clock may be a little old.  `PlusStore` is
the code: an invocation (`worker`) reads the version, then the rows, computes,
and writes if the version still stands.

| Action | Code |
|---|---|
| `Ask` | the calls: `plusChange` (store, admin), `redeemCode`, `refundOne`, `revokeAllPlus`, `rechainCodes` after an admin's grant |
| `ReadVersion`, `ReadRows` | `readPlus`, in this order |
| `Computes` | the time read and `rechain`; redeem and refund read theirs before `readPlus`, the others after it |
| `Commit`, `ReadAgain`, `Stop` | `bumpPlus` with `applyRows`, `withRetry`, the invocation's end |
| `Rezone` | `plusQueueRetz`: the version rises, the rows do not change |
| `Tick` | a day passes |

`bared` records that a row for ever was refunded: that refund does not rechain
(section 7).

### Outbox: queue, drains, parking

`pending` holds the attempts of an entry's item, `parked` the parked items,
`marker` the once-only markers, `drain` what each invocation has read.
`ReadShard` reads the first `budget` entries of a shard and keeps their attempts;
`Apply` is a handler whose marker and work are one transaction (`heat.bump`);
`Claim` then `Send` is one that claims first (`push:status`); `DeleteEntry`,
`CountAttempt`, `Park`, `NotNoted` are what follows; `Retry` and `Discard` are
the owner's.  `effects`, `queued`, `done`, `discarded`, `failures`, `retries`
are history the properties refer to.

### PositionMerge, PositionRegister, PositionSync: the listener's place

`PositionMerge` is `mergePosition`.  `PositionRegister` is the abstract
specification of what the server promises: a register that changes only by
merging an observation into what stands.  `PositionSync` has the phones (`row`,
`on`, `dirty`, `retry`, `pull`), requests under way (`puts`, with their stage at
the server), and the server's item (`pos`, `version`, `clock`).

| Action | Code |
|---|---|
| `SaveQuietly`, `SaveAtOnce` | `PositionStore.save` and `onSaved` by the save's reason |
| `Timer`, `RetryFires` | the 30 s timer and the retry of `attempt` |
| `Arrive`, `Read`, `Keep`, `Write`, `ReadAgain` | the route's stamp and `observeOne` |
| `PutAnswered`, `PutFails` | `markSynced`, `applyServerRows`, the `finally` of `attempt` |
| `Start`, `PullReads`, `PullAnswered`, `PullFails` | `reconcile` |
| `Kill` | the app is killed; only its row stays |

`own`, `sought`, `urgent`, `heard` are history: the phone's last save, seek and
urgent save, and the last of its saves the server has merged.  Rows of different
episodes never touch, so one episode is enough.  `Keep` answers with what was
read when the merge leaves it, as the code returns early without a write.  A
request the phone gave up may still be at work on the server.  Play is
projected out: the timer may fire whenever the app runs, and no progress
is assumed of it.

### KeptQueue, QueueSync: the playlist

`KeptQueue` is the abstract specification: an account's list is replaced only by a
phone that has held (or, asked, has set aside) the version it replaces, and the
version rises.  `QueueSync` has the phones (`local`, `agreed`, `choice`, `backups`,
and two requests at once: a round and the upload of a chosen list in `flow`), the
account's lists (`written`, whose length is the version), and uploads nobody
waits for any more (`late`).

| Action | Code |
|---|---|
| `StartRound`, `ServerGet`, `Decide` | `sync`, GET, `planQueueSync` and what `round` does of the plan |
| `ServerPut`, `ServerPutLate`, `Answered` | `putQueue` under its version, `push` with its answer or conflict |
| `TakeServers`, `KeepMine`, `Restore` | `choose` both ways, `restore` of a backup |
| `Edit`, `Switch` | the listener edits the list, signs in and out |
| `GiveUp`, `Kill` | the request's 10 s are over, the app is killed |

### Player: loads, interruptions, stored places

`app` is the state the reducer keeps (`st`), the effects still to run (`chain`), what
the adapter last saw of the library and asked of it (`was`, `asks`), timers, queue,
switches and stored rows;
`player` is the native library (external: from `expo-audio-adapter.ts`, how it is
called and what it reports).  One action dispatches an event with everything
`dispatch` does synchronously; `Execute` runs the next effect, `Report` reads the
library's status, which may be older than the newest load.

| Action | Code |
|---|---|
| `OnLoaded` ... `OnError`, `OnSeek` (operators, one per event) | the cases of `reduce`; `OnEnded` stores the last tick's place as finished, as `reducer.ts:447` does |
| `Listener`, `Button` | commands of the runtime; lock screen and headset |
| `Execute`, `Report` | the adapter's effect chain and `onStatus` |
| `PlayerSettles`, `PlayerMoves`, `PlayerTroubled`, `PlayerRecovers` | the library: loads, plays, is interrupted, fails, comes back |
| `RetryDue`, `WatchExpires`, `DeadlinePasses`, `SleepTimeout` | the timers |
| `Background`, `Restart` | app in the background; killed and started, `restore` |

### Downloads: rows, limit, one transfer

`row` is the table, `older` the order it was asked for in, `file` what is on disk,
`transfer` the native tasks, `ticks` the ticks that await the network's kind.
`Declared` is what a feed says of a size: nothing, the truth or any other number; a server
tells the size with the bytes or, if it is one of the `Silent`, may leave it out.  What is told
replaces what was declared, and only where nothing was declared is the limit asked about again
(`TooBig`).  While nobody has told a size, a row counts what has come of it.

| Action | Code |
|---|---|
| `Ask`, `Cancel`, `RemoveDownload`, `Play` | `request` (with eviction), `cancel`, `remove`, `afterFinished` |
| `Timer`, `TickAnswered`, `Run` | `tick` before and after its await, `run` |
| `Progress`, `Complete`, `Break` | `onProgress` with its second look at the limit, the end, the failure |
| `Verify`, `Restart`, `Lost` | `verify`, `recover`, the system deletes a file |
| `NetworkChanges`, `SetAllowMobile` | network and setting |

### Accounts: sign-up, sessions, deletion

`email`, `listener`, `deletion`, `job`, `session`, `pointers` are the items;
`request` and `worker` what requests and the hourly step have read.

| Action | Code |
|---|---|
| `SignIn`, `SignUp`, `PutSession` | after the right code: find or make the listener, put the session and its pointer |
| `Rotate`, `PutRotated` | `rotateSessionRow`: read, then swap under its condition |
| `SignOut`, `ReadChain`, `EndChain` | `deleteSessionChain` |
| `Leave`, `LeaveList`, `Keep`, `Show` | `requestDeletion`, `cancelDeletion` |
| `TakeDue`, `Open`, `Resume`, `ReadJob`, `SaveJob`, `Crash` | `runDueDeletions`, `runJob`, `resumeJobs` |
| `ClearContent`, `ClearSessions`, `ClearChain`, `ClearPartition`, `DeleteListener` | the phases of `deletionStep` |
| `FreeEmail`, `ForgetRequest` | the two writes of its phase `unique`: the address if it is still this account's, then the DELETION item |

## 4. Runs

| Run | Instance | Checks | Shows |
|---|---|---|---|
| `paid_shows` | a gift, a show and a tip (a test purchase) with the show's order id, 2 accounts, a code, 2 workers (about 980,000 states) | `GiftHasOneHome`, `ShowFollowsItsPurchase`, `OwnedShowKeepsItsSource`, `RefundIsFinal` | who owns a show and what was paid for it stay in step through races between grant, claim, redeem and refund; nothing begun before a refund gives access after it |
| `paid_plus` | a PLUS token, 3 workers, fairness (98,367) | `PurchaseNeverRewritten`, `VoidedIsRefunded`, `DueIsAcknowledged` | renewals that compute from old reads lose no acknowledgement and no refund mark, and the sweeps reach what failed before |
| `plus` | store, admin (two lengths of run) and 2 codes, 2 invocations, 4 changes, a day that passes (1,033,132) | `CodesFollowOn`, `QueueTellsLatestEnd`, `UntilIsFirstGap`, `ChangesAtOnce` | the version makes every change of rows that stand; waiting codes follow on without overlap; digest and end of the run agree with the rows |
| `outbox` | 2 entries in 2 shards, one of them a push, 2 drains, parking after 2 failures, one retry (about 3.4 million) | `NothingDropped`, `WorkNotRepeated`, `ParkingsPaid`, `GoneStaysGone` | concurrent drains and crashes neither drop, repeat nor revive work |
| `outbox_live` | 1 shard, limit 1, 2 entries, 2 drains, fairness | `Settles` | an entry that always fails does not keep a later one for ever: it is parked |
| `positions` | a phone, 2 saves, 1 failure, stamps that tie, fairness (523,197) | `SeekNotForgotten`, `MergesAtomically`, `ProgressKept`, `UnseenNeverOverwritten`, `UrgentIsUploaded` | the server is a merge register, the phone loses no seek and nothing unheard, an urgent save is uploaded through failures and a killed app |
| `queue_sync` | an account on 2 phones, 2 lists, a failure, a sign-out, fairness (1,236,144) | `AgreedIsShared`, `NothingLostOnPhone`, `ReplacedOnlyIfKept`, `Follows` | no list is lost or replaced unseen, and phones come to show the account's list or the question |
| `player` | 3 episodes, one of them gone, 2 commands, an interruption or failure, fairness (474,911) | `SilentUntilAsked`, `StopIsStored`, `HoldsWhatIsShown`, `EndOfEpisodeHolds`, `ReplayIsMarked`, `LoadEnds` | late events and retries do not disturb a newer load, and the place heard is the place stored |
| `accounts` | 2 accounts for one address, 3 tokens, 2 requests, 2 workers, 1 crash, fairness (642,838) | `EmailHasItsAccount`, `GoneIsLast`, `RecordedKeepHolds`, `OneSuccessor`, `DeviceIsListed`, `DeletionEnds` | deletion survives crashes and doubled workers and leaves a newer account of the address alone; sessions stay a list |
| `downloads` | 2 episodes, one of 2 units that only its server tells, one of 3 declared as 1 whose server may tell nothing, a limit of 2, 2 ticks, fairness (110,240) | `OneTransfer`, `WithinBudget`, `DownloadsEnd` | ticks that overlap start one transfer; what was promised of the sizes stays within the limit; downloads end |
| `paid_plus_refund` | one PLUS token, 2 workers | `RefundedPlusIsWithdrawn`, violated | section 7 |
| `queue_accounts` | 2 accounts, 2 phones, no failure | `ReplacedOnlyIfKept`, violated | section 7 |

### Bounds and why they are enough

* Two workers, drains and phones: every hazard listed is between two; more
  only repeats them.  Symmetry is used for workers and drains in runs
  without liveness, where no definition tells them apart.  The proofs cover any number.
* `paid_shows` shares one order id between a show and a tip so that the claim of
  an order id can fail, and lets a gift, a purchase and a code compete for one
  show.  A code has one use for two accounts.  `paid_plus` has a third worker, so that
  both sweeps and a renewal run together.
* `plus`: two codes can wait, one on the other, and four changes let a renewal move
  both and a refund take what they followed.  Ends of 1, 3 and never beside a given
  length of 2 make intervals end before, within, exactly at and after one another;
  one passing day ends a row.  `Length` is a day per code: the code only adds it.
* `outbox`: `ParkAfter` is 2, not 10 (the code compares with it and nothing
  else), `MaxRetries` 1, `FailureCap` the number of failures those can pay for
  (beyond it failures are not told apart).  `outbox_live` needs a limit smaller
  than the number of entries, or nothing could starve.
* `positions`: two saves and one failure already give a save during an upload,
  an answer that is lost and a retry; two uploads of one phone race at the server
  when one was given up there, and that is the race of two phones.
  `Seqs` is as large as those saves and answers can count (`Counted` cuts off no
  reachable row), `Stamps` lets two requests share a millisecond or follow each
  other.  The retry limit of `withVersionRetry` (5) is out of reach of these
  bounds and is not modelled.
* `queue_sync`: three acts of the listener are an edit on each phone and an answer
  to the question; one failure leaves a late upload, one switch a sign-out while
  a request runs.  `BACKUPS_KEEP` is 1, not 10, so that the oldest backup is dropped.
* `player`: two commands and one trouble give a load replaced while it loads, a
  pause or seek beside it, or an interruption of the replaced source; with the
  queue a third load follows by itself.  `MAX_RETRIES` is 1, not 6: what
  follows the first retry and the last is then both met.  An episode has the places 0, 1 and 2 (its end).
* `accounts`: the second account is the one that signs up with the address of the
  first; three tokens are two rotations of one, or a session of each; two acts
  are a request and a Keep, or a rotation beside a sign-out.
* `downloads`: the two episodes do not fit together, and the one of which nothing is declared
  fits alone, so each of the three questions about the limit is answered both ways; the other is
  let in because its feed understates it.  Two ticks may wait together.
* `CHECK_DEADLOCK FALSE` is set where the system may rest: nothing to upload, no
  acts left, an idle player.  The bounds above (`Max...`) stand in guards.

### Fairness

Runs without a liveness property assume none.  In `paid_plus` an invocation ends in time (WF of
`Stop`, the Lambda's time limit), and the sweeps (`acknowledgeDue` every hour,
`applyVoided` every day) take up each token again and again, so that a step
which is possible again and again is not cut off every time (SF per token).  In
`outbox_live` a drain starts every minute and ends (WF), and not every drain is
stopped before it reads, runs or settles an entry (SF); handlers may fail every
time.  In `positions` a running phone's retry timer fires, a killed app is
started again, the server works off its requests and answers arrive (WF);
nothing is assumed of the 30 s timer, which runs only during play.  In
`queue_sync` a round starts every 60 s while the app is in front, and requests end,
answered or given up (WF).  In `player` the event loop goes on, the library
settles what it was told and a retry timer fires (WF); the listener owes
nothing, and what took the sound may keep it.  In `accounts` requests are
served and the hourly step runs (WF per request and per worker); crashes
are bounded in number, as the code's hourly resumption presumes.  In `downloads` the 30 s
timer runs, the network's kind is told and transfers progress (WF); that
they stop failing is a premise of `DownloadsEnd` itself.

## 5. Proofs

Eight modules named `...Proofs` are checked by TLAPS
with no assumption but the ones in the modules (types of the constants, the
sentinels are not data, `FailureCap` covers the retries; `Codes` and `Episodes`
of `Downloads` are finite, as the rows of a table and the codes handed out are).
Each states an inductive invariant, shows that it holds at first and that every
action keeps it, and derives the theorems.  With these, every safety property a run
checks of a specification is proved for every value of the constants; the table
of `PROJECT.json` pairs them.

**PaidLane.** `PaidInv == TypedInv /\ SnapshotsHold /\ ItemsInv`.  The
properties are not inductive alone, because a write uses an old read.
`SnapshotsHold` says what of an old read still holds whenever it is used: a
grant's `seen` is of a purchase with the same owner, lists its one PLUS row, and
is acknowledged only if the purchase is (so the queue computed from it errs on
the safe side); a refund takes only
rows on the list it read.  This needs `PurchasesGrow`: a purchase only gains
keys, acknowledgement and refund.  `ItemsInv` adds that a PLUS purchase grants
one row, any purchase grants keys of one thing, and a gift exists with its
purchase.  From it: `TypeCorrect`, `RowsAreTraced`, `OrdersGrantOnce`,
`GiftsHaveOneHome`, `ShowsFollowPurchases`, `DueStaysQueued`,
and the action properties `PurchasesStay`,
`OwnedShowsKeepSources` and `RefundsAreFinal`.  The last needs what a refund leaves behind
for every later condition to meet (`RefundIsMarked`: the status, and the gift's cancellation).  `CodesAreCounted` has an induction of its own.

**Outbox.** `OutboxInv == TypedInv /\ PlaceInv /\ WorkInv`.  For `TypeOK` (a
drain never runs more than its limit) one needs that what is left of a batch is
covered by the budget (`BudgetCovers`), which rests on `OldestWithinBudget`: the
entries with fewer than n before them are at most n.  For the rest:
entries never queued leave no trace (`Known`); a marker, and a handler that has
returned, mean the work was done (`WorkDone`); a drain about to send a push
holds its marker alone (`ClaimHolds`); and an entry without a marker that may
still be run has not been run since the owner's last retry (`FreshWork`).  From it:
`TypeCorrect`, `PlacesExclude`, `EntriesAreKept`, `WorkIsNotRepeated`,
`GoneEntriesStayGone`.  `ParkingsArePaid` counts the books: a failure of an entry is
spent on a parking, remembered by its item (`Waiting`), or in the hands of a drain
that saw it and has not written it down (`Failed`), never two of these
(`PaidInv`).  The number of drains with a failure in hand is the cardinality of a set that each
step changes by at most one, so any number of drains is covered; a drain that dies, or
writes to an item that has moved, loses its failure and pays for nothing.

**Positions.** `PositionInv == TypeOK /\ PutsInv /\ Unheard /\
SeekNotForgotten`.  `PutsInv` says that a request whose version still stands has
read what stands (so its conditional put merges into the current item), that an
answered one was merged, and that no request counts beyond its phone's row;
`Unheard` that what the server has not heard is not counted as synced.  From it:
`PositionTypes`, `SeekIsUploaded`, `UnseenIsKept`, and `SyncImplementsRegister`:
every step of the detailed specification is a merge of the register or leaves it
alone (the mapping is the identity on `pos`).  `ProgressIsKept` follows from the
register and the merge.  The merge itself: without seeks it is symmetric and
associative (`MergeIsSymmetric`, `MergeIsAssociative`), and repeating an upload
later moves nothing (`RetryMovesNothing`).  With seeks none of the three holds;
section 7 says what follows.

**Playlist.** `QueueInv == TypeOK /\ ...` says of every list a phone has from
the server (an answer, a question, an agreement) that the account had it under
that version, and of every upload, waited for or late, that the version it asks
for is one its phone has held or is empty.  Versions only grow
(`WasStays`), so an old answer stays true.  From it `AgreementIsShared`,
`NothingIsLost`, `OnlyTheListenerEmpties`, and `SyncImplementsKeptQueue`: every
step is a replacement of `KeptQueue` or leaves it alone.  The first and the last assume
one account (`OneAccount`); with two the last is false, and the run `queue_accounts`
shows why.

**Downloads.** `DownloadInv == TypeOK /\ OneTransfer`: inductive as it
stands once `running`, the native task and the row's state are tied together;
`OneTransferRuns` is for any episodes, sizes and ticks waiting together.
`BudgetHolds` is about a sum over rows, and holds whatever feeds declare and servers
tell: every row holds at most the limit *of what was promised* (`Promised`: the declared size; where
there is none the size the server tells; nothing where it may tell none).  `GrantsFit` says
that these parts fit together, `SizesKnown` what a row's state says of its size and of
the file.  Each row is given as many *units* as it holds (`Units`); the sum is the number
of units (`SumIsTotal`), and the library's theorems on finite sets
then do what an induction over rows would: rows evicted take their units
away (`Total` of the part and of the rest), a row that begins or grows adds its own, and each
is admitted only where the units still fit, or grows past its promise, where it adds none.

**Accounts.** `DeletionInv` ties items, jobs and workers: what a worker has read is
the job or older, and what it is about to save has been done (`WorkerOK`), and a
job in its last phases owns no address (`AccountOK`).  From it `EmailStaysOwned`,
`ListenerGoesLast`, `RecordedKeepsHold`.  `SessionInv` adds that a live session is
its predecessor's successor (`ChainsLink`) and that what a request has read of a
chain is of its account (`RequestOK`); from it `SessionsHaveOneSuccessor`
and `DevicesAreListed`.

**Player.** `PlayerInv` holds between the app's steps.  Its parts are lemmas of
each event (`SavedKeeps` ... `ObservedKeeps`), since one status of the library is
several events.  `ShownBy`: the last load still to run is of the episode shown, or
no load is and the player holds it; an event that shows another episode appends
its load.  `Stored`: a state that rests, *or loads in order to rest*, stands where its row
says (a restart loads paused, and becomes paused only later).  `Mute`: until the
listener asks, nothing sounds, no retry is due and no effect to run would play.
`eoe => hold`: the switch is never on without holding the queue.  From it
`ShownIsHeld`, `StopIsKept`, `SilenceHolds`, and, since only the listener, a restart
and the queue's advance (which `hold` stops) change the episode, `EndHoldsTheQueue`.
`ReplaysAreMarked` needs an invariant of app *and* library (`ReplayInv`, without failures):
a state shown at its end by its own report (`Arrived`) has a player that is at that end,
and no load or seek to run; and where an episode heard to its end is shown anywhere
else, the listener restarted it (`restarted`) and its next save will be marked.  The
first half is what keeps a late report from setting the episode back: reports before
a load or a seek still to run are nobody's (`Whose`), and a player at the end
does not move.  Most events only pass the place on (`Turns`) and share one lemma; each of
those that save has its own.
`LoadsAreAwaited` is the safety half of `LoadEnds`: while a load is shown, its retry, a load in
the chain, or a status not reported yet is still to come, so no order of failures, retries
and late reports leaves the screen loading with nothing under way.  Its invariant (`WaitInv`)
adds what a status may rely on: a source is not ready and failed at once, an error is
reported of a failed source only, and *loaded* was noted of a source that is ready or has failed
since.  Events keep it by one relation (`Works`): they end the load, or a retry or a load is
to come, or all stands as it did; the one status that notes *loaded* also ends the load.
That what is to come does come is fairness, and stays with TLC.

**PLUS.** `StoreInv` says that an invocation's version is one the item has had, and
that *if it still stands the rows it read are the rows that stand* (`ReadsHold`):
every change raises the version, and rows are read after it.  From
this `StoreImplementsLine`: every step of `PlusStore` is a change of `PlusLine`
made at once, or a stutter, for any codes, purchases, lengths and workers; and
`QueueFollowsTheRows`: the digest's key is the latest end as of some moment that
has been; as time only ends rows, it is the latest end now (`QueueIsTold`).

The algorithms on rows are proved without induction over data.  *The chain:*
`Rechained` starts a waiting code after the base and after the codes ahead of it.  That
these starts exist and are numbers (`ChainExists`, `ChainTyped`) is by a least counterexample,
the code with the fewest codes ahead: a code ahead has fewer itself (`AheadShrinks`).  So chaining makes the codes follow on *whatever the rows were*
(`RechainedFollows`); a redeemed code starts after every end (`RedeemedFollows`); a refund
that does not chain keeps what was apart apart, unless the row ran for ever; and time only
ends rows (`FollowOnLater`).  With `RowsInv` (only the store's row runs for ever, no code ends
before it starts) this is `CodesDoFollowOn`.  *The run:* `plusRun` goes on from row to row.  Its
closed form is the first moment no row covers (`FirstGap`); that the recursion comes to it
is by a greatest counterexample, since the ends of rows are bounded (`EndsBounded`).  This is
`UntilIsTheFirstGap`.

**Only model-checked:** liveness (`VoidedIsRefunded`, `DueIsAcknowledged`,
`Settles`, `UrgentIsUploaded`, `Follows`, `LoadEnds`, `DeletionEnds`,
`DownloadsEnd`), which needs fairness and `ENABLED` and is beyond the prover.  The two
properties that are violated (section 7) are refuted by TLC alone.

**Only proved:** `EveryRowTraced`, `DueIsQueued`, `OneGrantPerOrder`,
`CodeUsesCounted`, `OnePlace`, `EmptiedOnlyByHand`, `LoadIsAwaited` and the type
invariants hold by a theorem and are checked by no run of their own.

## 6. Not modelled

* **Paid lane:** `createCodes`, lists and exports.  Tips and earnings are modelled, but no
  property judges them: grant and refund write them in one transaction each.  **PLUS:** the time zone of the
  digest's key (`Rezone` raises the version and no more).
* **Outbox:** handlers other than the two kinds; jobs other than a deletion.
* **Positions:** sign-in and sign-out of a phone, a 404 that registers an episode
  first, deletions of positions, the watch and its own places.
* **Playlist:** the limit of 300 entries and the removal of unknown episodes; lists
  are values.
* **Player:** speed, loop, clips, volume and fade, the text of the lock
  screen, the refusal to stream on mobile data, `OUTPUT_LOST` (no code sends it).  `Advanced` takes
  the phone to be online: the offline branch of `nextPlayable` (`queue.ts:63-72` of player-core), which
  passes over items that are not downloaded and keeps them in the queue, is left out.
* **Downloads:** an episode that vanished from its feed or whose file changes its size between two attempts, a limit or an eviction
  switch changed while rows exist, the format of resume data.  Between its long
  waits (network, transfer) the manager is taken to run undisturbed.
* **Accounts:** tries and locks of codes and passwords (a sign-in begins after
  the right code), a change of address, the second factor, acting as another,
  expiry.  The phases of a deletion that clear what the account wrote are one phase.
* **The single-table store's helpers** are modelled as what they promise: an
  atomic conditional step.  Should a transaction be retried by the client after
  it committed, its own condition fails; the callers treat that as a race, and
  that is a step of the models.
* **Push tokens** and the **translation budget** are single items with a counter or an
  owner and no tie to the parts above; their hazards are listed without a property.
* Ranking and discovery compute on floating-point data with little control;
  feeds parse text; studio, admin, safety are single conditional writes;
  user interface, routes, mail and images keep no state of their own.  These
  are by far most of the source, so the modules stand for a small part of its lines.

## 7. Findings and observations

Two runs end in a counterexample to what the code says of itself.

1. **A refunded PLUS can be renewed** (`paid_plus_refund`).  `renewPlus` asks only
   that the purchase exists and its first attempt uses what was read before
   Google was asked.  A refund in between is undone: the row is back, the status
   active, and `voidedAt` keeps every later sweep from taking it again.
2. **A list can reach another account** (`queue_accounts`).  `round` and `choose` take
   the listener when they begin, but a request carries the token of
   whoever is signed in when it is sent (`queue.ts:91`), and the question outlives a sign-out.
   The list of the account signed in now is replaced by the other's, under a
   version its phone never held, though `queue.ts:12-13` and `queue-sync.ts:11` say
   that a list is never replaced without asking.

Further behaviours met while modelling.  No run stands for them; where a property
is stated so as not to speak of one, it is said here.

*Purchases and PLUS*
* `refundOne` (`purchases.ts:252`) reads the granted keys, then deletes those rows; its
  transaction does not ask that the list is unchanged.  A gift claimed in between
  stays with its claimer.
* A renewal that read the purchase before it was acknowledged puts it back on the
  acknowledge queue (harmless, but it is read again among the 50 oldest).
* A second purchase of an owned show grants no row, so a refund of the first takes
  the show although the second is paid.
* The refund of an endless store row (expiry null, `google-play.ts:106`) does not
  rechain: codes that waited can then overlap a row an admin extended
  meanwhile.  `CodesFollowOn` excludes it (`bared`).
* Codes redeemed beside an endless row start at once and overlap each other;
  `CodesFollowOn` speaks of rows with an end.
* The clock read for a change may be older than its commit: a code that has just
  started can still be moved.
* `plusQueueRetz` (`purchases.ts:389`) returns when `PLUSV` is absent or on its zone
  already, while a first purchase that read the old zone is about to write: the
  digest stays in the old zone.

*Outbox*
* The delete after a handler (`outbox.ts:83`) is unconditional and `done` is counted
  whether anything was deleted; when another drain parked the entry meanwhile it is
  done and parked, and in = done + pending + parked + discarded does not add up.
* A handler's marker lives two days (`heat/ddb.ts:244`): an entry parked longer and then retried by the
  owner repeats work that was done.  `WorkNotRepeated` allows one repetition for each retry.
* The limit of a drain is shared by the shards in order (`outbox.ts:70`): entries that fail in the first
  shards can use it up until they are parked.  `Settles` is checked with one shard and says
  nothing of this.

*Positions*
* `reconcile` (`positions.ts:116`) compares the rows it fetched with the phone's row at
  the time of the answer: a save made, uploaded and marked synced meanwhile is
  moved back.
* A skip past the end is saved finished as a seek; the merge (`merge.ts:25`) clears
  `finished` of a newer seek, and the answer takes it back on the phone.
* A seek that was merged but whose answer was lost is sent again with a new
  stamp; as a newer seek it sets back what another phone has played since.

*Player*
* A LOADED of the replaced source is stamped with the current load's id
  (`store.ts:295`), so the new state may start before its source is ready.
* `ReplayIsMarked` leaves out failures and reports older than a seek or a load: a tick
  after a seek back, a report when the same episode loads again, and "Try again"
  after the end each save the replay unmarked, and the merge would take it back to the end.
* `advanceQueue` removes the next item, and `load` may then refuse it on mobile data.
* A pause while an episode loads is ignored (`reducer.ts:286`); a retry timer is not
  cancelled by the next load; a sleep timer that fires during a load is lost.

*Downloads*
* A download that always fails is paused and at once the oldest eligible row again
  (`manager.ts:175`): later ones wait for ever.  `DownloadsEnd` presumes that failures stop.
* The limit can be passed.  A size declared too small is replaced by the server's
  (`manager.ts:141`) and not asked about again (`:149`), and a size nobody tells is never
  asked about: in the instance of `downloads` TLC finds a state where all that is used
  exceeds the limit.  `WithinBudget` therefore speaks of what was promised: the declared
  size, or where nothing is declared what the server tells; bytes past a promise are
  what passes the limit.  Where the promise was not too small nothing uncounted is on disk, except
  the part that a paused download leaves when a tick refuses it (`:194`).
* The partial file of a paused row is not counted after the limit was lowered.
* Where removing a file throws in the over-limit path, the row stays `downloading` and
  blocks the others until the app restarts.

*Accounts*
* A Keep after the deletion began un-hides the account and is answered 204
  (`deletion.ts:88`; the route ignores the result, `me.ts:140-143`), but the job goes on and
  deletes it.  `RecordedKeepHolds` speaks of a Keep that was recorded.
* The second write of a Keep can un-hide an account that has been left again; a
  request made while a job runs leaves a queued item the job's end never takes.
* A rotation between `requestDeletion`'s listing and its deletes leaves the new
  session alive, and a session put between the phases `sessions` and `listener`
  survives the account.
* `resumeJobs` (`outbox.ts:241`) takes the oldest job first and ends when a step throws: a job that fails
  every time keeps the later ones from being resumed.  `DeletionEnds` bounds the crashes, so this is outside
  its premise.
* `returnCodeAttempt` and `deleteEmailCode` (`codes.ts`) carry no code: a late one acts on a newer code.

## 8. Plan

Done: paid lane, PLUS intervals, outbox, positions, playlist, player, downloads,
accounts with deletion.  What is left, in this order:

1. **PushTokens**: tokens that move between accounts while receipts are read, and the
   weekly digest over the queue `PlusStore` keeps.
2. **SignIn**: codes, tries and locks in front of `Accounts`.
3. **TranslateBudget**: how far calls in flight pass the cap.
4. Proofs: what the other liveness properties rest on as a safety lemma, as
   `LoadsAreAwaited` is for the player (what is never lost between two tries), and the lemmas of `PlusRows` for rows of any sources.
