------------------------------ MODULE Downloads ------------------------------
(***************************************************************************)
(* The downloads of a phone: apps/mobile/src/downloads/manager.ts with the *)
(* rules of packages/player-core/src/downloads.ts.                         *)
(*                                                                         *)
(* Two waits are long: the network's kind, which a tick asks for, and the  *)
(* transfer.  Between them the manager runs to its next wait in one go     *)
(* (expo-downloader.ts removes and measures files without waiting, and     *)
(* settles a transfer when it is cancelled), so a step here is what        *)
(* happens from one long wait to the next.  Bytes come in units; a file    *)
(* that exists has at least one.                                           *)
(***************************************************************************)
EXTENDS Naturals, FiniteSets, Functions

CONSTANTS
  Episodes,
  Size,       \* the bytes of each file
  Declared,   \* what its feed says they are, right or wrong, or None
  Silent,     \* episodes whose server may leave the size out
  Budget,
  Starred,    \* favourites
  None,
  MaxTicks    \* bound: ticks that wait for the network's kind together

ASSUME DownloadConstants ==
  /\ IsFiniteSet(Episodes) /\ None \notin Nat /\ None \notin Episodes
  /\ Size \in [Episodes -> Nat \ {0}]
  /\ Declared \in [Episodes -> Nat \cup {None}] /\ Silent \subseteq Episodes
  /\ Budget \in Nat /\ MaxTicks \in Nat \ {0}
  /\ Starred \subseteq Episodes

Row == [state: {"waiting", "downloading", "paused", "complete", "failed"},
        total: Nat \cup {None}, done: Nat, mobile: BOOLEAN]

ASSUME NoneIsNoRow == None \notin Row

VARIABLES
  row,        \* the downloads table
  older,      \* pairs of its rows: asked for (or completed) before the other
  file,       \* units on disk
  running,
  transfer,   \* the native tasks
  ticks,      \* ticks that wait for the network's kind
  network,
  mobile,     \* settings downloads.allowMobile
  evict,      \* settings downloads.evictOldest
  part        \* episodes listened part-way

settings == <<network, mobile, evict, part>>
vars == <<row, older, file, running, transfer, ticks, settings>>

-----------------------------------------------------------------------------
(* The rules *)

Is(e, states) == row[e] # None /\ row[e].state \in states
Bytes(n) == IF n = None THEN 0 ELSE n

\* usedBytesOf: paused downloads hold their size too, or, while nobody told
\* it, what has come of it.
Counted(e) ==
  IF Is(e, {"downloading", "paused"}) /\ row[e].total = None THEN row[e].done
  ELSE IF Is(e, {"complete", "downloading", "paused"}) THEN Bytes(row[e].total)
  ELSE 0

Counting == [e \in Episodes |-> Counted(e)]

Held(es) == SumFunctionOnSet(Counting, es)
Used == Held(Episodes)

Fits(used, n) == Budget > 0 /\ used + Bytes(n) <= Budget

Kept(e) == e \in Starred \/ e \in part

\* evictionPlan: the fewest of the oldest that make room, if any do.
EvictionPlans(used, n) ==
  LET removable == {e \in Episodes : Is(e, {"complete"}) /\ ~Kept(e)}
      oldest == {es \in SUBSET removable :
                   \A p \in older : p[2] \in es /\ p[1] \in removable => p[1] \in es}
      enough == {es \in oldest : Fits(used - Held(es), n)}
  IN  {es \in enough : \A other \in enough : es \subseteq other}

\* Room for n more bytes: what has to be removed for it (one set, or none).
Room(used, n) ==
  IF Fits(used, n) THEN {{}} ELSE IF evict THEN EvictionPlans(used, n) ELSE {}

\* The room a tick asks for: what a paused row holds is not asked for twice,
\* but while its size is unknown makeRoom looks at all that is used.
RoomToRun(e) ==
  IF row[e].total = None /\ ~Fits(Used - Counted(e), None)
  THEN Room(Used, None)
  ELSE Room(Used - Counted(e), row[e].total)

Allowed(e) == network = "wifi" \/ (network = "cellular" /\ (row[e].mobile \/ mobile))

\* Mutant: a download under way is not looked at.
EligibleAnyway == {e \in Episodes : Is(e, {"waiting", "paused"}) /\ Allowed(e)}

\* nextDownload: none beside one that is downloading.
Eligible ==
  IF \E e \in Episodes : Is(e, {"downloading"}) THEN {}
  ELSE {e \in Episodes : Is(e, {"waiting", "paused"}) /\ Allowed(e)}

Oldest(e, es) == e \in es /\ \A other \in es \ {e} : <<e, other>> \in older

-----------------------------------------------------------------------------
(* Steps that others are made of *)

Without(es) == [e \in Episodes |-> IF e \in es THEN None ELSE row[e]]
Erased(es) == [e \in Episodes |-> IF e \in es THEN 0 ELSE file[e]]

Unlisted(es) == {p \in older : p[1] \notin es /\ p[2] \notin es}
Newest(e, gone) ==
  Unlisted(gone \cup {e}) \cup {<<other, e>> : other \in {o \in Episodes \ {e} : Without(gone)[o] # None}}

\* tick, up to its wait: nothing while a transfer is known to run.
Tick(run) == ticks' = IF run = None /\ ticks < MaxTicks THEN ticks + 1 ELSE ticks

\* Mutant: a cancelled transfer is waited for.
SettledLate(e) == running

\* start() is settled on cancel, and run() ends.
Settled(e) == IF running = e THEN None ELSE running

\* A run that ends: `finally`, and the tick after it.
Ends(e) ==
  /\ transfer' = transfer \ {e}
  /\ running' = None
  /\ Tick(None)
  /\ UNCHANGED settings

-----------------------------------------------------------------------------
Init ==
  /\ row = [e \in Episodes |-> None] /\ older = {}
  /\ file = [e \in Episodes |-> 0]
  /\ running = None /\ transfer = {} /\ ticks = 0
  /\ network = "none" /\ mobile = FALSE /\ evict \in BOOLEAN
  /\ part = {}

\* request: a row that failed may be asked for again.
Ask(e) ==
  LET expected == IF row[e] # None /\ row[e].total # None THEN row[e].total ELSE Declared[e] IN
  /\ row[e] = None \/ Is(e, {"failed"})
  /\ \E gone \in Room(Used, expected), m \in BOOLEAN :
       /\ row' = [Without(gone) EXCEPT ![e] =
                    [state |-> "waiting", total |-> expected, done |-> 0, mobile |-> m]]
       /\ older' = Newest(e, gone)
       /\ file' = Erased(gone)
  /\ Tick(running)
  /\ UNCHANGED <<running, transfer, settings>>

\* run, up to the transfer: it goes on where the file ends, or starts again
\* when the server does not know ranges.
Run(e, gone) ==
  /\ row' = [Without(gone) EXCEPT ![e].state = "downloading"]
  /\ older' = Unlisted(gone)
  /\ \E left \in {0, file[e]} : file' = [Erased(gone) EXCEPT ![e] = left]
  /\ running' = e /\ transfer' = transfer \cup {e}

\* tick, from the answer on.
TickAnswered ==
  /\ ticks > 0 /\ ticks' = ticks - 1
  /\ \/ Eligible = {} /\ UNCHANGED <<row, older, file, running, transfer>>
     \/ \E e \in Episodes :
          LET room == RoomToRun(e) IN
          /\ Oldest(e, Eligible)
          /\ \/ \E gone \in room : Run(e, gone)
             \/ /\ room = {}
                /\ row' = [row EXCEPT ![e].state = "failed"]
                /\ UNCHANGED <<older, file, running, transfer>>
  /\ UNCHANGED settings

\* Mutant: a size that is only known when the bytes come is never refused.
NeverTooBig(e) == FALSE

\* The limit is asked about again only where no size was known before.
TooBig(e) == row[e].total = None /\ ~Fits(Used - Counted(e), Size[e])

\* onProgress: what the server tells takes the place of what the feed said.
Progress(e) ==
  /\ e \in transfer /\ file[e] < Size[e]
  /\ \E told \in BOOLEAN :
       LET known == IF told THEN Size[e] ELSE row[e].total
           heard == Is(e, {"downloading"})
           over == told /\ heard /\ TooBig(e)
       IN
       /\ told \/ e \in Silent
       /\ IF over
          THEN /\ row' = [row EXCEPT ![e] =
                           [@ EXCEPT !.state = "failed", !.total = known, !.done = 0]]
               /\ file' = Erased({e})
               /\ Ends(e)
          ELSE /\ row' = IF heard THEN [row EXCEPT ![e] =
                                          [@ EXCEPT !.total = known, !.done = file[e] + 1]]
                         ELSE row
               /\ file' = [file EXCEPT ![e] = @ + 1]
               /\ UNCHANGED <<running, transfer, ticks, settings>>
  /\ UNCHANGED older

\* The size is then the one on disk.
Complete(e) ==
  /\ e \in transfer /\ file[e] = Size[e]
  /\ row' = [row EXCEPT ![e] =
               [@ EXCEPT !.state = "complete", !.total = Size[e], !.done = Size[e]]]
  /\ older' = Newest(e, {})
  /\ Ends(e)
  /\ UNCHANGED file

\* The `catch` of run: the next tick goes on from what is there.
Break(e) ==
  /\ e \in transfer
  /\ row' = [row EXCEPT ![e].state = "paused"]
  /\ Ends(e)
  /\ UNCHANGED <<older, file>>

\* Row and file go; what runs is cancelled first.
Drop(e) ==
  /\ row[e] # None
  /\ row' = Without({e}) /\ older' = Unlisted({e}) /\ file' = Erased({e})
  /\ transfer' = transfer \ {e} /\ running' = Settled(e)
  /\ UNCHANGED settings

Cancel(e) == Drop(e) /\ Tick(Settled(e))

\* remove, and removeFinished for each finished one: only the run's end ticks.
RemoveDownload(e) ==
  /\ Drop(e)
  /\ IF running = e THEN Tick(Settled(e)) ELSE UNCHANGED ticks

\* afterFinished removes what is complete, when the listener chose so.
Play(e) ==
  /\ part' \in {part \cup {e}, part \ {e}}
  /\ \/ UNCHANGED <<row, older, file>>
     \/ /\ e \notin part' /\ Is(e, {"complete"})
        /\ row' = Without({e}) /\ older' = Unlisted({e}) /\ file' = Erased({e})
  /\ UNCHANGED <<running, transfer, ticks, network, mobile, evict>>

\* A complete file that something else deleted; verify takes its row away.
Lost(e) ==
  /\ Is(e, {"complete"}) /\ file[e] > 0
  /\ file' = Erased({e})
  /\ UNCHANGED <<row, older, running, transfer, ticks, settings>>

Verify(e) ==
  /\ Is(e, {"complete"}) /\ file[e] = 0
  /\ row' = Without({e}) /\ older' = Unlisted({e})
  /\ UNCHANGED <<file, running, transfer, ticks, settings>>

\* The app is killed; when it starts, recover.
Restart ==
  /\ row' = [e \in Episodes |-> IF Is(e, {"downloading"})
                                THEN [row[e] EXCEPT !.state = "paused"] ELSE row[e]]
  /\ running' = None /\ transfer' = {} /\ ticks' = 1
  /\ UNCHANGED <<older, file, settings>>

\* Every 30 s.
Timer ==
  /\ Tick(running)
  /\ UNCHANGED <<row, older, file, running, transfer, settings>>

NetworkChanges ==
  /\ network' \in {"none", "cellular", "wifi"} \ {network}
  /\ Tick(running)
  /\ UNCHANGED <<row, older, file, running, transfer, mobile, evict, part>>

SetAllowMobile ==
  /\ mobile' = ~mobile
  /\ Tick(running)
  /\ UNCHANGED <<row, older, file, running, transfer, network, evict, part>>

-----------------------------------------------------------------------------
Fails == Restart \/ \E e \in Episodes : Break(e)

Next ==
  \/ \E e \in Episodes :
       \/ Ask(e) \/ Cancel(e) \/ RemoveDownload(e) \/ Play(e) \/ Lost(e) \/ Verify(e)
       \/ Progress(e) \/ Complete(e)
  \/ TickAnswered \/ Timer \/ NetworkChanges \/ SetAllowMobile \/ Fails

Spec == Init /\ [][Next]_vars

\* The 30 s timer runs, the network's kind is told, and transfers go on.
Fairness ==
  /\ WF_vars(Timer) /\ WF_vars(TickAnswered)
  /\ \A e \in Episodes : WF_vars(Progress(e)) /\ WF_vars(Complete(e))

FairSpec == Spec /\ Fairness

-----------------------------------------------------------------------------
(* Properties *)

TypeOK ==
  /\ row \in [Episodes -> Row \cup {None}]
  /\ older \subseteq Episodes \X Episodes
  /\ file \in [Episodes -> Nat]
  /\ running \in Episodes \cup {None}
  /\ transfer \subseteq Episodes
  /\ ticks \in 0 .. MaxTicks
  /\ network \in {"none", "cellular", "wifi"} /\ mobile \in BOOLEAN /\ evict \in BOOLEAN
  /\ part \subseteq Episodes

\* At most one transfer runs, and it is the one the manager knows of and the
\* table shows, although ticks ask `running` before they wait for the network
\* and start a transfer after it.
OneTransfer ==
  /\ transfer = IF running = None THEN {} ELSE {running}
  /\ \A e \in Episodes : Is(e, {"downloading"}) <=> e = running

\* What the manager is told of a size before it can be asked to refuse it: by
\* the feed, or by the server where the feed says nothing.
Promised(e) ==
  IF Declared[e] # None THEN Declared[e] ELSE IF e \in Silent THEN 0 ELSE Size[e]

\* What a download holds of what was promised: bytes past it were never
\* compared with the limit.
Granted == [e \in Episodes |-> IF Counted(e) <= Promised(e) THEN Counted(e) ELSE Promised(e)]

\* Downloads pass the limit by no more than what feeds leave out and nobody
\* tells: what was promised of them fits together, with paused ones, ones of
\* a size not known yet and ones that wait in any number; and where the
\* promise was not too small, what is on disk is counted, but for the part
\* that a refused row leaves.
WithinBudget ==
  /\ SumFunctionOnSet(Granted, Episodes) <= Budget
  /\ \A e \in Episodes :
       Size[e] <= Promised(e) => file[e] <= Counted(e) \/ Is(e, {"waiting", "failed"})

\* Once the phone stays on Wi-Fi and transfers stop breaking, every download
\* asked for ends, whatever the listener cancels, removes or asks for.
DownloadsEnd ==
  (<>[](network = "wifi") /\ <>[][~Fails]_vars) =>
    \A e \in Episodes :
      Is(e, {"waiting", "downloading", "paused"}) ~>
        ~Is(e, {"waiting", "downloading", "paused"})

=============================================================================
