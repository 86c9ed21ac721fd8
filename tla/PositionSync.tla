------------------------------ MODULE PositionSync ------------------------------
(***************************************************************************)
(* The listening position of one episode, kept by several phones of one    *)
(* listener and by the server: apps/mobile/src/sync/positions.ts and its   *)
(* store, and apps/api/src/db/repos/library/ddb/positions.ts.              *)
(*                                                                         *)
(* A request is a record in `puts`.  The phone may stop waiting for it (a  *)
(* timeout, a killed app) while the server still works on it; it is then   *)
(* not `awaited`.  The server reads the item, merges, and puts the result  *)
(* only where the version is the one it read.                              *)
(***************************************************************************)
EXTENDS PositionMerge, FiniteSets

CONSTANTS
  Devices,      \* the phones of the listener
  End,          \* the place from which an episode counts as finished
  MaxSaves,     \* bound: saves by the listener, over all phones
  MaxFailures   \* bound: requests given up and apps killed, over all phones

VARIABLES
  pos,       \* the server's item, an observation
  version,   \* its version
  clock,     \* the server's clock
  puts,      \* PUT /v1/me/positions requests
  row,       \* the phone's row
  on,        \* the app runs
  dirty,     \* an upload was wanted while one was in flight
  retry,     \* a retry is scheduled
  pull,      \* where the phone's reconcile is
  saves, failures,
  own,       \* seq of the phone's last save by the listener
  sought,    \* seq of its last seek
  urgent,    \* seq of its last save that asks for an upload at once
  heard      \* the highest seq of the phone the server has merged

server == <<pos, version, clock>>
app == <<on, dirty, retry, pull>>
asked == <<own, sought, urgent>>
bounds == <<saves, failures>>
vars == <<server, puts, row, app, bounds, asked, heard>>

-----------------------------------------------------------------------------
(* The phone's row *)

Row == {r \in [offset: Offsets, finished: BOOLEAN, seek: BOOLEAN,
               seq: Seqs, synced: Seqs] : r.synced <= r.seq}

ASSUME PositionConstants ==
  /\ End \in Offsets
  /\ 0 \in Seqs /\ 0 \in Stamps
  /\ None \notin [offset: Offsets, finished: BOOLEAN, seek: BOOLEAN,
                  seq: Nat, synced: Nat]
  /\ MaxSaves \in Nat
  /\ MaxFailures \in Nat

\* What the player saves.
Place == {p \in [offset: Offsets, finished: BOOLEAN, seek: BOOLEAN] :
            p.finished => p.offset = End}

Unsynced(r) == r # None /\ r.synced < r.seq

\* Mutant: the flag of a seek is the flag of the last save.
SavedUnflagged(r, p) ==
  [offset |-> p.offset, finished |-> p.finished, seek |-> p.seek,
   seq |-> IF r = None THEN 1 ELSE r.seq + 1,
   synced |-> IF r = None THEN 0 ELSE r.synced]

\* PositionStore.save: the flag of a seek stays until the server has seen it.
Saved(r, p) ==
  [offset |-> p.offset, finished |-> p.finished,
   seek |-> p.seek \/ (Unsynced(r) /\ r.seek),
   seq |-> IF r = None THEN 1 ELSE r.seq + 1,
   synced |-> IF r = None THEN 0 ELSE r.synced]

\* PositionStore.markSynced
MarkedSynced(r, seq) == IF seq > r.synced THEN [r EXCEPT !.synced = seq] ELSE r

\* PositionStore.applyRemote: an echo keeps the count, news raise it.
Remote(r, answer) ==
  LET same == r # None /\ r.offset = answer.offset /\ r.finished = answer.finished
      seq == IF r = None THEN 1 ELSE IF same THEN r.seq ELSE r.seq + 1
  IN  [offset |-> answer.offset, finished |-> answer.finished,
       seek |-> answer.seek, seq |-> seq, synced |-> seq]

\* Mutant: the answer always wins.
AppliedAlways(r, answer, known) == Remote(r, answer)

\* applyServerRows: progress the server has not seen wins locally.
Applied(r, answer, known) ==
  IF r # None /\ r.seq > known THEN r ELSE Remote(r, answer)

\* Bound: a row counts within Seqs.
Counted(r) == r # None => r.seq \in Seqs

-----------------------------------------------------------------------------
(* Uploads *)

Idle == [stage |-> "idle"]
Pulls == [stage: {"idle", "push", "ask"}]
           \cup [stage: {"answer"}, item: Observation \cup {None}]

Put == [dev: Devices, obs: Observation,
        stage: {"sent", "stamped", "merging", "done"}, awaited: BOOLEAN,
        cur: Observation \cup {None}, version: Nat]

Waiting(d, requests) == \E p \in requests : p.dev = d /\ p.awaited

Request(d, r) ==
  [dev |-> d, stage |-> "sent", awaited |-> TRUE, cur |-> None, version |-> 0,
   obs |-> [offset |-> r.offset, finished |-> r.finished, seek |-> r.seek,
            seq |-> r.seq, at |-> 0]]

\* attempt: one upload at a time, and only of what the server does not know.
Attempted(d, r, requests) ==
  IF Waiting(d, requests) \/ ~Unsynced(r) THEN requests
  ELSE requests \cup {Request(d, r)}

\* attempt while one is in flight: remembered.
Attempt(d, r) ==
  /\ puts' = Attempted(d, r, puts)
  /\ dirty' = [dirty EXCEPT ![d] = @ \/ Waiting(d, puts)]

\* Mutant: an upload wanted meanwhile is forgotten.
ConcludedForgetting(d, r, requests) == requests

\* The `finally` of attempt: once more, if one was wanted meanwhile.
Concluded(d, r, requests) ==
  IF dirty[d] THEN Attempted(d, r, requests) ELSE requests

Conclude(d, r, requests) ==
  /\ puts' = Concluded(d, r, requests)
  /\ dirty' = [dirty EXCEPT ![d] = FALSE]
  /\ pull' = [pull EXCEPT ![d] = IF @.stage = "push" THEN [stage |-> "ask"] ELSE @]

-----------------------------------------------------------------------------
(* The listener *)

Save(d, p) ==
  /\ on[d]
  /\ saves < MaxSaves
  /\ saves' = saves + 1
  /\ row' = [row EXCEPT ![d] = Saved(@, p)]
  /\ Counted(row'[d])
  /\ own' = [own EXCEPT ![d] = row'[d].seq]
  /\ sought' = [sought EXCEPT ![d] = IF p.seek THEN row'[d].seq ELSE @]
  /\ UNCHANGED <<server, on, retry, pull, failures, heard>>

\* Reasons tick and other: the timer, or a later save, uploads it.
SaveQuietly(d, p) ==
  /\ Save(d, p)
  /\ UNCHANGED <<puts, dirty, urgent>>

\* Reasons stop, seek, finished and background.
SaveAtOnce(d, p) ==
  /\ Save(d, p)
  /\ urgent' = [urgent EXCEPT ![d] = row'[d].seq]
  /\ Attempt(d, row'[d])

\* Every 30 s while the episode plays; the listener may start it at any time.
Timer(d) ==
  /\ on[d]
  /\ Unsynced(row[d])
  /\ Attempt(d, row[d])
  /\ UNCHANGED <<server, row, on, retry, pull, bounds, asked, heard>>

RetryFires(d) ==
  /\ retry[d]
  /\ retry' = [retry EXCEPT ![d] = FALSE]
  /\ Attempt(d, row[d])
  /\ UNCHANGED <<server, row, on, pull, bounds, asked, heard>>

-----------------------------------------------------------------------------
(* The server *)

\* The route stamps what it received; two requests may share a millisecond.
Arrive(p) ==
  /\ p.stage = "sent"
  /\ clock' \in {clock, clock + 1} \cap Stamps
  /\ puts' = (puts \ {p}) \cup
       {[p EXCEPT !.stage = "stamped", !.obs = [p.obs EXCEPT !.at = clock']]}
  /\ UNCHANGED <<pos, version, row, app, bounds, asked, heard>>

Reread(p) ==
  /\ puts' = (puts \ {p}) \cup
       {[p EXCEPT !.stage = "merging", !.cur = pos, !.version = version]}
  /\ UNCHANGED <<server, row, app, bounds, asked, heard>>

Read(p) ==
  /\ p.stage = "stamped"
  /\ Reread(p)

\* Mutant: the put has no condition.
UnwrittenAlways(p) == TRUE

\* The condition v = :seen.
Unwritten(p) == p.version = version

Outcome(p) == Merged(p.cur, p.obs)

\* The merge leaves the item that was read: told by the stamp, and the flag.
Left(p) ==
  /\ p.cur # None
  /\ Outcome(p).at # p.obs.at
  /\ Outcome(p).finished = p.cur.finished

\* Nobody waits for the answer to a request that was given up.
Answer(p, item, v) ==
  IF p.awaited THEN {[p EXCEPT !.stage = "done", !.cur = item, !.version = v]}
  ELSE {}

Settle(p, item, v) ==
  /\ puts' = (puts \ {p}) \cup Answer(p, item, v)
  /\ heard' = [heard EXCEPT ![p.dev] = IF p.obs.seq > @ THEN p.obs.seq ELSE @]
  /\ UNCHANGED <<clock, row, app, bounds, asked>>

\* What was read is the answer, with no write.
Keep(p) ==
  /\ p.stage = "merging"
  /\ Left(p)
  /\ Settle(p, p.cur, p.version)
  /\ UNCHANGED <<pos, version>>

Write(p) ==
  /\ p.stage = "merging"
  /\ ~Left(p)
  /\ Unwritten(p)
  /\ pos' = Outcome(p)
  /\ version' = version + 1
  /\ Settle(p, pos', version')

\* The condition failed: the item is read again.
ReadAgain(p) ==
  /\ p.stage = "merging"
  /\ ~Left(p)
  /\ ~Unwritten(p)
  /\ Reread(p)

-----------------------------------------------------------------------------
(* Answers and failures *)

\* markSynced for what was sent, then applyServerRows.
PutAnswered(p) ==
  LET d == p.dev IN
  /\ p.awaited /\ p.stage = "done"
  /\ row' = [row EXCEPT ![d] =
       Applied(MarkedSynced(@, p.obs.seq), p.cur, p.obs.seq)]
  /\ Counted(row'[d])
  /\ Conclude(d, row'[d], puts \ {p})
  /\ UNCHANGED <<server, on, retry, bounds, asked, heard>>

\* What is left of a request its phone does not wait for: it may be lost on
\* its way, or the server may still get to it.
GivenUp(p) ==
  IF p.stage = "done" THEN {{}} ELSE {{}, {[p EXCEPT !.awaited = FALSE]}}

PutFails(p) ==
  /\ p.awaited
  /\ failures < MaxFailures
  /\ failures' = failures + 1
  /\ retry' = [retry EXCEPT ![p.dev] = TRUE]
  /\ \E left \in GivenUp(p) :
       Conclude(p.dev, row[p.dev], (puts \ {p}) \cup left)
  /\ UNCHANGED <<server, row, on, saves, asked, heard>>

\* The app is killed: only the row stays.
Kill(d) ==
  /\ on[d]
  /\ failures < MaxFailures
  /\ failures' = failures + 1
  /\ on' = [on EXCEPT ![d] = FALSE]
  /\ dirty' = [dirty EXCEPT ![d] = FALSE]
  /\ retry' = [retry EXCEPT ![d] = FALSE]
  /\ pull' = [pull EXCEPT ![d] = Idle]
  /\ LET mine == {p \in puts : p.dev = d /\ p.awaited} IN
       IF mine = {} THEN puts' = puts
       ELSE \E p \in mine : \E left \in GivenUp(p) :
              puts' = (puts \ {p}) \cup left
  /\ UNCHANGED <<server, row, saves, asked, heard>>

-----------------------------------------------------------------------------
(* reconcile, at the start of the app: push, then pull *)

Start(d) ==
  /\ ~on[d]
  /\ on' = [on EXCEPT ![d] = TRUE]
  /\ Attempt(d, row[d])
  /\ pull' = [pull EXCEPT ![d] =
       [stage |-> IF Unsynced(row[d]) THEN "push" ELSE "ask"]]
  /\ UNCHANGED <<server, row, retry, bounds, asked, heard>>

\* GET /v1/me/positions reads the item.
PullReads(d) ==
  /\ pull[d].stage = "ask"
  /\ pull' = [pull EXCEPT ![d] = [stage |-> "answer", item |-> pos]]
  /\ UNCHANGED <<server, puts, row, on, dirty, retry, bounds, asked, heard>>

PullAnswered(d) ==
  /\ pull[d].stage = "answer"
  /\ pull' = [pull EXCEPT ![d] = Idle]
  /\ row' = [row EXCEPT ![d] =
       IF pull[d].item = None THEN @
       ELSE Applied(@, pull[d].item, IF @ = None THEN 0 ELSE @.synced)]
  /\ Counted(row'[d])
  /\ UNCHANGED <<server, puts, on, dirty, retry, bounds, asked, heard>>

PullFails(d) ==
  /\ pull[d].stage \in {"ask", "answer"}
  /\ pull' = [pull EXCEPT ![d] = Idle]
  /\ UNCHANGED <<server, puts, row, on, dirty, retry, bounds, asked, heard>>

-----------------------------------------------------------------------------
Init ==
  /\ pos = None /\ version = 0 /\ clock = 0
  /\ puts = {}
  /\ row = [d \in Devices |-> None]
  /\ on = [d \in Devices |-> TRUE]
  /\ dirty = [d \in Devices |-> FALSE]
  /\ retry = [d \in Devices |-> FALSE]
  /\ pull = [d \in Devices |-> Idle]
  /\ saves = 0 /\ failures = 0
  /\ own = [d \in Devices |-> 0]
  /\ sought = [d \in Devices |-> 0]
  /\ urgent = [d \in Devices |-> 0]
  /\ heard = [d \in Devices |-> 0]

Listener(d) ==
  \E p \in Place : SaveQuietly(d, p) \/ SaveAtOnce(d, p)

Server(p) ==
  \/ Arrive(p)
  \/ Read(p)
  \/ Keep(p)
  \/ Write(p)
  \/ ReadAgain(p)

Phone(d) ==
  \/ Timer(d)
  \/ RetryFires(d)
  \/ Start(d)
  \/ PullReads(d)
  \/ PullAnswered(d)
  \/ PullFails(d)

Next ==
  \/ \E d \in Devices : Listener(d) \/ Phone(d) \/ Kill(d)
  \/ \E p \in puts : Server(p) \/ PutAnswered(p) \/ PutFails(p)

Spec == Init /\ [][Next]_vars

-----------------------------------------------------------------------------
(* Properties *)

\* A phone's row never counts more as synced than it has saved, and what is
\* in flight has its shape.
TypeOK ==
  /\ pos \in Observation \cup {None}
  /\ version \in Nat /\ clock \in Stamps
  /\ puts \subseteq Put
  /\ row \in [Devices -> Row \cup {None}]
  /\ on \in [Devices -> BOOLEAN]
  /\ dirty \in [Devices -> BOOLEAN]
  /\ retry \in [Devices -> BOOLEAN]
  /\ pull \in [Devices -> Pulls]
  /\ saves \in 0 .. MaxSaves /\ failures \in 0 .. MaxFailures
  /\ \A f \in {own, sought, urgent, heard} : f \in [Devices -> Seqs]

\* The server's read and its conditional put, with other requests in between,
\* are one merge into what stands.
Register == INSTANCE PositionRegister
MergesAtomically == Register!Spec

\* positions.ts (server): progress never goes backwards, finished is sticky,
\* and only a seek received later moves either back.
ProgressKept ==
  [][pos # None /\ pos' # pos =>
       \/ pos'.offset >= pos.offset /\ (pos.finished => pos'.finished)
       \/ pos'.seek /\ pos'.at > pos.at]_vars

\* What the listener last did on a phone is not overwritten by an answer the
\* server gave without knowing of it.
UnseenNeverOverwritten ==
  [][\A d \in Devices :
       own'[d] = own[d] /\ row'[d] # None /\ row[d] # None
         /\ <<row'[d].offset, row'[d].finished>> # <<row[d].offset, row[d].finished>>
       => own[d] <= heard[d]]_vars

\* A seek is uploaded as a seek, however many saves come after it first.
SeekNotForgotten ==
  \A d \in Devices : sought[d] > heard[d] => row[d].seek

-----------------------------------------------------------------------------
(* Liveness.  A phone that runs gets its timers and its answers, a killed   *)
(* app is started again, and the server finishes what it was asked.         *)

Fairness ==
  /\ \A d \in Devices : WF_vars(Start(d)) /\ WF_vars(RetryFires(d))
  /\ WF_vars(\E p \in puts : Server(p))
  /\ \A d \in Devices : WF_vars(\E p \in puts : p.dev = d /\ PutAnswered(p))

FairSpec == Spec /\ Fairness

\* A save that asks for an upload at once is uploaded in the end: through an
\* upload already in flight, failures, and a killed app.
UrgentIsUploaded ==
  \A d \in Devices : urgent[d] > heard[d] ~> urgent[d] <= heard[d]

=============================================================================
