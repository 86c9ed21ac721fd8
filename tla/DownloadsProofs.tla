---------------------------- MODULE DownloadsProofs ----------------------------
(***************************************************************************)
(* Theorems about the download manager, for any episodes, sizes, sizes     *)
(* told by feeds and servers, budget and number of ticks that wait         *)
(* together.                                                               *)
(***************************************************************************)
EXTENDS Downloads, FiniteSetTheorems, WellFoundedInduction, TLAPS

-----------------------------------------------------------------------------
(* Steps that others are made of *)

LEMMA TickType ==
  ASSUME TypeOK, NEW run, Tick(run)
  PROVE  ticks' \in 0 .. MaxTicks
  BY DownloadConstants DEF Tick, TypeOK

\* Only complete downloads are removed to make room.
LEMMA RoomIsComplete ==
  ASSUME NEW used, NEW n, NEW gone \in Room(used, n)
  PROVE  gone \subseteq {e \in Episodes : Is(e, {"complete"})}
  BY DEF Room, EvictionPlans

\* A tick asks for room like a request does.
LEMMA RoomToRunIsRoom ==
  ASSUME NEW e, NEW gone \in RoomToRun(e)
  PROVE  \E used : gone \in Room(used, row[e].total)
  BY DEF RoomToRun

LEMMA Removal ==
  ASSUME TypeOK, NEW es \in SUBSET Episodes
  PROVE  /\ Without(es) \in [Episodes -> Row \cup {None}]
         /\ Erased(es) \in [Episodes -> Nat]
         /\ Unlisted(es) \subseteq Episodes \X Episodes
         /\ \A e \in Episodes : Without(es)[e] = IF e \in es THEN None ELSE row[e]
  BY DEF TypeOK, Without, Erased, Unlisted

LEMMA NewestType ==
  ASSUME TypeOK, NEW e \in Episodes, NEW gone \in SUBSET Episodes
  PROVE  Newest(e, gone) \subseteq Episodes \X Episodes
  BY DEF TypeOK, Newest, Unlisted

\* Types, and the one transfer that the manager and the table agree on.
DownloadInv == TypeOK /\ OneTransfer

-----------------------------------------------------------------------------
(* Each step keeps types and the one transfer *)

LEMMA AskKeeps ==
  ASSUME DownloadInv, NEW e \in Episodes, Ask(e)
  PROVE  DownloadInv'
  <1> DEFINE expected == IF row[e] # None /\ row[e].total # None THEN row[e].total ELSE Declared[e]
  <1>1. expected \in Nat \cup {None}
    BY DownloadConstants DEF DownloadInv, TypeOK, Row
  <1>2. PICK gone \in Room(Used, expected), m \in BOOLEAN :
          /\ row' = [Without(gone) EXCEPT ![e] =
                       [state |-> "waiting", total |-> expected, done |-> 0, mobile |-> m]]
          /\ older' = Newest(e, gone)
          /\ file' = Erased(gone)
    BY DEF Ask
  <1> DEFINE r == [state |-> "waiting", total |-> expected, done |-> 0, mobile |-> m]
  <1>3. r \in Row /\ r.state = "waiting"
    BY <1>1 DEF Row
  <1>4. gone \in SUBSET Episodes /\ \A g \in gone : ~Is(g, {"downloading"})
    BY RoomIsComplete DEF Is
  <1>5. /\ Tick(running) /\ UNCHANGED <<running, transfer, settings>>
        /\ row[e] = None \/ Is(e, {"failed"})
    BY DEF Ask
  <1> HIDE DEF expected
  <1>6. /\ row' = [Without(gone) EXCEPT ![e] = r] /\ row'[e] = r
        /\ row' \in [Episodes -> Row \cup {None}]
        /\ \A f \in Episodes \ {e} : row'[f] = IF f \in gone THEN None ELSE row[f]
    <2>1. Without(gone) \in [Episodes -> Row \cup {None}]
          /\ \A f \in Episodes : Without(gone)[f] = IF f \in gone THEN None ELSE row[f]
      BY <1>4, Removal DEF DownloadInv
    <2>2. row' = [Without(gone) EXCEPT ![e] = r]
      BY <1>2
    <2> HIDE DEF r
    <2> QED  BY <1>3, <2>1, <2>2
  <1>7. TypeOK'
    <2>1. ticks' \in 0 .. MaxTicks
      BY <1>5, TickType DEF DownloadInv
    <2>2. older' \subseteq Episodes \X Episodes /\ file' \in [Episodes -> Nat]
      BY <1>2, <1>4, NewestType, Removal DEF DownloadInv
    <2> QED  BY <1>5, <1>6, <2>1, <2>2 DEF TypeOK, DownloadInv, settings
  <1>8. OneTransfer'
    <2>1. \A f \in Episodes : Is(f, {"downloading"})' <=> Is(f, {"downloading"})
      <3>1. ~Is(e, {"downloading"}) /\ ~Is(e, {"downloading"})'
        BY <1>3, <1>5, <1>6 DEF Is
      <3>2. ASSUME NEW f \in Episodes \ {e}
            PROVE  Is(f, {"downloading"})' <=> Is(f, {"downloading"})
        BY <1>4, <1>6 DEF Is
      <3> QED  BY <3>1, <3>2
    <2> QED  BY <1>5, <2>1 DEF OneTransfer, DownloadInv
  <1> QED  BY <1>7, <1>8 DEF DownloadInv

\* A step that gives one row another state, or takes it away.
LEMMA RowChanges ==
  ASSUME DownloadInv, NEW e \in Episodes, NEW r \in Row \cup {None},
         row' = [row EXCEPT ![e] = r]
  PROVE  /\ row' \in [Episodes -> Row \cup {None}]
         /\ \A f \in Episodes \ {e} : row'[f] = row[f]
         /\ row'[e] = r
  BY DEF DownloadInv, TypeOK

\* The run of e ends, and its row is no longer downloading.
LEMMA EndKeeps ==
  ASSUME DownloadInv, NEW e \in transfer, Ends(e),
         row' \in [Episodes -> Row \cup {None}],
         \A f \in Episodes \ {e} : row'[f] = row[f],
         ~Is(e, {"downloading"})',
         older' \subseteq Episodes \X Episodes, file' \in [Episodes -> Nat]
  PROVE  DownloadInv'
  <1>1. e = running /\ e \in Episodes /\ transfer = {e}
    BY DEF DownloadInv, OneTransfer, TypeOK
  <1>2. running' = None /\ transfer' = {} /\ UNCHANGED settings
    BY <1>1 DEF Ends
  <1>3. ticks' \in 0 .. MaxTicks
    BY TickType DEF Ends, DownloadInv
  <1>4. TypeOK'
    BY <1>2, <1>3 DEF DownloadInv, TypeOK, settings
  <1>5. \A f \in Episodes : ~Is(f, {"downloading"})'
    <2>1. ASSUME NEW f \in Episodes \ {e}
          PROVE  ~Is(f, {"downloading"})'
      BY <1>1 DEF DownloadInv, OneTransfer, Is
    <2> QED  BY <2>1
  <1>6. OneTransfer'
    BY <1>2, <1>5, DownloadConstants DEF OneTransfer
  <1> QED  BY <1>4, <1>6 DEF DownloadInv

\* A tick starts a transfer only when the table shows none under way.
LEMMA TickKeeps ==
  ASSUME DownloadInv, TickAnswered
  PROVE  DownloadInv'
  <1>1. ticks' \in 0 .. MaxTicks /\ UNCHANGED settings
    BY DownloadConstants DEF TickAnswered, DownloadInv, TypeOK
  <1>2. CASE UNCHANGED <<row, older, file, running, transfer>>
    BY <1>1, <1>2 DEF DownloadInv, TypeOK, OneTransfer, Is, settings
  <1>3. ASSUME NEW e \in Episodes, e \in Eligible,
               NEW gone \in RoomToRun(e), Run(e, gone)
        PROVE  DownloadInv'
    <2>1. /\ row[e] \in Row /\ row[e].state \in {"waiting", "paused"}
          /\ \A f \in Episodes : ~Is(f, {"downloading"})
      BY <1>3 DEF Eligible, Is, DownloadInv, TypeOK
    <2>2. gone \in SUBSET Episodes /\ e \notin gone
      BY <2>1, <1>3, RoomToRunIsRoom, RoomIsComplete DEF Is
    <2>3. running = None /\ transfer = {}
      BY <2>1 DEF DownloadInv, OneTransfer, TypeOK
    <2> DEFINE r == [row[e] EXCEPT !.state = "downloading"]
    <2>4. r \in Row /\ r.state = "downloading" /\ r # None
      <3>1. r \in Row /\ r.state = "downloading"
        BY <2>1 DEF Row
      <3> HIDE DEF r
      <3> QED  BY <3>1, NoneIsNoRow
    <2>5. /\ Without(gone) \in [Episodes -> Row \cup {None}]
          /\ \A f \in Episodes : Without(gone)[f] = IF f \in gone THEN None ELSE row[f]
          /\ Erased(gone) \in [Episodes -> Nat]
          /\ Unlisted(gone) \subseteq Episodes \X Episodes
      BY <2>2, Removal DEF DownloadInv
    <2>6. /\ row' = [Without(gone) EXCEPT ![e] = r]
          /\ older' = Unlisted(gone) /\ running' = e /\ transfer' = {e}
      BY <1>3, <2>2, <2>3, <2>5 DEF Run
    <2> HIDE DEF r
    <2>7. /\ row' \in [Episodes -> Row \cup {None}] /\ row'[e] = r
          /\ \A f \in Episodes \ {e} : row'[f] = None \/ row'[f] = row[f]
      BY <2>4, <2>5, <2>6
    <2>8. file' \in [Episodes -> Nat]
      <3>1. PICK left \in {0, file[e]} : file' = [Erased(gone) EXCEPT ![e] = left]
        BY <1>3 DEF Run
      <3> QED  BY <2>5, <3>1 DEF DownloadInv, TypeOK
    <2>9. TypeOK'
      BY <1>1, <2>5, <2>6, <2>7, <2>8 DEF TypeOK, DownloadInv, settings
    <2>10. \A f \in Episodes : Is(f, {"downloading"})' <=> f = e
      <3>1. Is(e, {"downloading"})'
        BY <2>4, <2>7 DEF Is
      <3>2. ASSUME NEW f \in Episodes \ {e}
            PROVE  ~Is(f, {"downloading"})'
        BY <2>1, <2>7 DEF Is
      <3> QED  BY <3>1, <3>2
    <2>11. OneTransfer'
      BY <2>6, <2>10, DownloadConstants DEF OneTransfer
    <2> QED  BY <2>9, <2>11 DEF DownloadInv
  <1>4. ASSUME NEW e \in Episodes, e \in Eligible,
               row' = [row EXCEPT ![e].state = "failed"],
               UNCHANGED <<older, file, running, transfer>>
        PROVE  DownloadInv'
    <2>1. /\ row[e] \in Row /\ \A f \in Episodes : ~Is(f, {"downloading"})
      BY <1>4 DEF Eligible, Is, DownloadInv, TypeOK
    <2> DEFINE r == [row[e] EXCEPT !.state = "failed"]
    <2>2. r \in Row /\ r.state = "failed" /\ row' = [row EXCEPT ![e] = r]
      BY <1>4, <2>1 DEF Row, DownloadInv, TypeOK
    <2> HIDE DEF r
    <2>3. /\ row' \in [Episodes -> Row \cup {None}] /\ row'[e] = r
          /\ \A f \in Episodes \ {e} : row'[f] = row[f]
      BY <2>2, RowChanges
    <2>4. \A f \in Episodes : ~Is(f, {"downloading"})'
      BY <2>1, <2>2, <2>3 DEF Is
    <2> QED  BY <1>1, <1>4, <2>1, <2>3, <2>4 DEF DownloadInv, TypeOK, OneTransfer, settings
  <1> QED  BY <1>2, <1>3, <1>4 DEF TickAnswered, Oldest

\* The row that a progress event writes.
Heard(e, state, known, done) == [row[e] EXCEPT !.state = state, !.total = known, !.done = done]

\* A progress event tells the size or not: it fails the row and ends the run,
\* or notes what has come, or finds no row that downloads.
LEMMA ProgressCases ==
  ASSUME DownloadInv, NEW e \in Episodes, Progress(e)
  PROVE  \E told \in BOOLEAN, known \in {row[e].total, Size[e]} :
           /\ told \/ e \in Silent
           /\ known = IF told THEN Size[e] ELSE row[e].total
           /\ \/ /\ told /\ TooBig(e)
                 /\ row' = [row EXCEPT ![e] = Heard(e, "failed", known, 0)]
                 /\ file' = Erased({e}) /\ Ends(e)
              \/ /\ told => ~TooBig(e)
                 /\ row' = [row EXCEPT ![e] = Heard(e, "downloading", known, file[e] + 1)]
                 /\ file' = [file EXCEPT ![e] = file[e] + 1]
                 /\ UNCHANGED <<running, transfer, ticks, settings>>
  <1>1. /\ e \in transfer /\ e = running /\ Is(e, {"downloading"})
        /\ row[e] \in Row /\ row[e].state = "downloading"
        /\ row \in [Episodes -> Row \cup {None}] /\ file \in [Episodes -> Nat]
    BY DEF Progress, DownloadInv, OneTransfer, TypeOK, Is
  <1>2. PICK told \in BOOLEAN :
          LET known == IF told THEN Size[e] ELSE row[e].total
              heard == Is(e, {"downloading"})
              over == told /\ heard /\ TooBig(e)
          IN
          /\ told \/ e \in Silent
          /\ IF over
             THEN /\ row' = [row EXCEPT ![e] =
                              [@ EXCEPT !.state = "failed", !.total = known, !.done = 0]]
                  /\ file' = Erased({e})
                  /\ Ends(e)
             ELSE /\ row' = IF heard THEN [row EXCEPT ![e] =
                                             [@ EXCEPT !.total = known, !.done = file[e] + 1]]
                            ELSE row
                  /\ file' = [file EXCEPT ![e] = @ + 1]
                  /\ UNCHANGED <<running, transfer, ticks, settings>>
    BY DEF Progress
  <1> DEFINE known == IF told THEN Size[e] ELSE row[e].total
  <1>3. known \in {row[e].total, Size[e]}
    OBVIOUS
  <1>4. [row[e] EXCEPT !.total = known, !.done = file[e] + 1] =
          Heard(e, "downloading", known, file[e] + 1)
    BY <1>1 DEF Heard, Row
  <1>5. CASE told /\ TooBig(e)
    <2>1. /\ row' = [row EXCEPT ![e] = Heard(e, "failed", known, 0)]
          /\ file' = Erased({e}) /\ Ends(e)
      BY <1>1, <1>2, <1>5 DEF Heard
    <2> QED  BY <1>2, <1>3, <1>5, <2>1
  <1>6. CASE ~(told /\ TooBig(e))
    <2>1. /\ row' = [row EXCEPT ![e] = Heard(e, "downloading", known, file[e] + 1)]
          /\ file' = [file EXCEPT ![e] = file[e] + 1]
          /\ UNCHANGED <<running, transfer, ticks, settings>>
      BY <1>1, <1>2, <1>4, <1>6
    <2> QED  BY <1>2, <1>3, <1>6, <2>1
  <1> QED  BY <1>5, <1>6

LEMMA ProgressKeeps ==
  ASSUME DownloadInv, NEW e \in Episodes, Progress(e)
  PROVE  DownloadInv'
  <1>1. /\ e \in transfer /\ e = running /\ row[e] \in Row /\ Is(e, {"downloading"})
        /\ Size[e] \in Nat /\ older' = older /\ older \subseteq Episodes \X Episodes
        /\ file \in [Episodes -> Nat] /\ file[e] + 1 \in Nat
    BY DownloadConstants DEF Progress, DownloadInv, OneTransfer, TypeOK, Is
  <1>2. ASSUME NEW known \in {row[e].total, Size[e]}, NEW done \in Nat,
               NEW state \in {"failed", "downloading"}
        PROVE  /\ Heard(e, state, known, done) \in Row
               /\ Heard(e, state, known, done).state = state
    BY <1>1 DEF Row, Heard
  <1>3. ASSUME NEW known \in {row[e].total, Size[e]},
               row' = [row EXCEPT ![e] = Heard(e, "failed", known, 0)],
               file' = Erased({e}), Ends(e)
        PROVE  DownloadInv'
    <2>1. PICK r \in Row : r.state = "failed" /\ row' = [row EXCEPT ![e] = r]
      BY <1>2, <1>3
    <2>2. /\ row' \in [Episodes -> Row \cup {None}] /\ row'[e] = r
          /\ \A f \in Episodes \ {e} : row'[f] = row[f]
      BY <2>1, RowChanges
    <2>3. ~Is(e, {"downloading"})'
      BY <2>1, <2>2 DEF Is
    <2>4. file' \in [Episodes -> Nat]
      BY <1>3, Removal DEF DownloadInv
    <2> QED  BY <1>1, <1>3, <2>2, <2>3, <2>4, EndKeeps
  <1>4. ASSUME NEW known \in {row[e].total, Size[e]},
               row' = [row EXCEPT ![e] = Heard(e, "downloading", known, file[e] + 1)],
               file' = [file EXCEPT ![e] = file[e] + 1],
               UNCHANGED <<running, transfer, ticks, settings>>
        PROVE  DownloadInv'
    <2>1. file' \in [Episodes -> Nat]
      BY <1>1, <1>4
    <2>2. PICK r \in Row : r.state = "downloading" /\ row' = [row EXCEPT ![e] = r]
      BY <1>1, <1>2, <1>4
    <2>3. /\ row' \in [Episodes -> Row \cup {None}] /\ row'[e] = r
          /\ \A f \in Episodes \ {e} : row'[f] = row[f]
      BY <2>2, RowChanges
    <2>4. r # None
      BY <2>2, NoneIsNoRow
    <2>5. \A f \in Episodes : Is(f, {"downloading"})' <=> Is(f, {"downloading"})
      <3>1. Is(e, {"downloading"})' <=> Is(e, {"downloading"})
        BY <1>1, <2>2, <2>3, <2>4 DEF Is
      <3>2. \A f \in Episodes \ {e} : Is(f, {"downloading"})' <=> Is(f, {"downloading"})
        BY <2>3 DEF Is
      <3> QED  BY <3>1, <3>2
    <2> QED  BY <1>1, <1>4, <2>1, <2>3, <2>5 DEF DownloadInv, TypeOK, OneTransfer, settings
  <1> QED  BY <1>3, <1>4, ProgressCases

LEMMA CompleteKeeps ==
  ASSUME DownloadInv, NEW e \in Episodes, Complete(e) \/ Break(e)
  PROVE  DownloadInv'
  <1>1. /\ e \in transfer /\ e = running /\ row[e] \in Row
        /\ older \subseteq Episodes \X Episodes /\ file \in [Episodes -> Nat]
        /\ Size[e] \in Nat /\ row \in [Episodes -> Row \cup {None}]
    BY DownloadConstants
       DEF Complete, Break, DownloadInv, OneTransfer, TypeOK, Is
  <1>2. PICK r \in Row : r.state # "downloading" /\ row' = [row EXCEPT ![e] = r]
    <2>1. CASE Complete(e)
      <3> DEFINE r == [row[e] EXCEPT !.state = "complete", !.total = Size[e], !.done = Size[e]]
      <3>1. r \in Row /\ r.state = "complete"
        BY <1>1 DEF Row
      <3>2. row' = [row EXCEPT ![e] = r]
        BY <1>1, <2>1 DEF Complete
      <3> HIDE DEF r
      <3> QED  BY <3>1, <3>2
    <2>2. CASE Break(e)
      <3> DEFINE r == [row[e] EXCEPT !.state = "paused"]
      <3>1. r \in Row /\ r.state = "paused"
        BY <1>1 DEF Row
      <3>2. row' = [row EXCEPT ![e] = r]
        BY <1>1, <2>2 DEF Break
      <3> HIDE DEF r
      <3> QED  BY <3>1, <3>2
    <2> QED  BY <2>1, <2>2
  <1>3. /\ row' \in [Episodes -> Row \cup {None}] /\ row'[e] = r
        /\ \A f \in Episodes \ {e} : row'[f] = row[f]
    BY <1>2, RowChanges
  <1>4. ~Is(e, {"downloading"})'
    BY <1>2, <1>3 DEF Is
  <1>5. older' \subseteq Episodes \X Episodes
    BY <1>1, NewestType DEF Complete, Break, DownloadInv
  <1>6. file' = file /\ Ends(e)
    BY DEF Complete, Break
  <1> QED  BY <1>1, <1>3, <1>4, <1>5, <1>6, EndKeeps

\* A row that is taken away takes the transfer and the run of it along.
LEMMA DropKeeps ==
  ASSUME DownloadInv, NEW e \in Episodes, Drop(e), ticks' \in 0 .. MaxTicks
  PROVE  DownloadInv'
  <1>1. /\ Without({e}) \in [Episodes -> Row \cup {None}]
        /\ Erased({e}) \in [Episodes -> Nat]
        /\ Unlisted({e}) \subseteq Episodes \X Episodes
        /\ \A f \in Episodes : Without({e})[f] = IF f = e THEN None ELSE row[f]
    BY Removal DEF DownloadInv
  <1>2. /\ row' = Without({e}) /\ older' = Unlisted({e}) /\ file' = Erased({e})
        /\ transfer' = transfer \ {e} /\ running' = Settled(e) /\ UNCHANGED settings
    BY DEF Drop
  <1>3. TypeOK'
    BY <1>1, <1>2 DEF DownloadInv, TypeOK, settings, Settled
  <1>4. \A f \in Episodes : Is(f, {"downloading"})' <=> f # e /\ Is(f, {"downloading"})
    BY <1>1, <1>2 DEF Is
  <1>5. OneTransfer'
    BY <1>2, <1>4, DownloadConstants DEF DownloadInv, TypeOK, OneTransfer, Settled
  <1> QED  BY <1>3, <1>5 DEF DownloadInv

\* Rows of complete downloads go without touching what runs.
LEMMA ForgetKeeps ==
  ASSUME DownloadInv, NEW e \in Episodes, Is(e, {"complete"}),
         row' = Without({e}), older' = Unlisted({e}),
         file' \in [Episodes -> Nat], part' \subseteq Episodes,
         UNCHANGED <<running, transfer, ticks, network, mobile, evict>>
  PROVE  DownloadInv'
  <1>1. /\ Without({e}) \in [Episodes -> Row \cup {None}]
        /\ Unlisted({e}) \subseteq Episodes \X Episodes
        /\ \A f \in Episodes : Without({e})[f] = IF f = e THEN None ELSE row[f]
    BY Removal DEF DownloadInv
  <1>2. TypeOK'
    BY <1>1 DEF DownloadInv, TypeOK
  <1>3. \A f \in Episodes : Is(f, {"downloading"})' <=> Is(f, {"downloading"})
    BY <1>1 DEF Is
  <1> QED  BY <1>2, <1>3 DEF DownloadInv, OneTransfer

\* Steps that leave rows and transfers alone.
LEMMA QuietKeeps ==
  ASSUME DownloadInv, TypeOK', UNCHANGED <<row, running, transfer>>
  PROVE  DownloadInv'
  BY DEF DownloadInv, OneTransfer, Is

LEMMA RestartKeeps ==
  ASSUME DownloadInv, Restart
  PROVE  DownloadInv'
  <1> DEFINE w == [e \in Episodes |-> IF Is(e, {"downloading"})
                                     THEN [row[e] EXCEPT !.state = "paused"] ELSE row[e]]
  <1>1. /\ row' = w /\ running' = None /\ transfer' = {} /\ ticks' = 1
        /\ UNCHANGED <<older, file, settings>>
    BY DEF Restart
  <1>2. ASSUME NEW e \in Episodes
        PROVE  w[e] \in Row \cup {None} /\ (w[e] # None => w[e].state # "downloading")
    <2>1. CASE Is(e, {"downloading"})
      <3>1. row[e] \in Row
        BY <2>1 DEF Is, DownloadInv, TypeOK
      <3>2. w[e] = [row[e] EXCEPT !.state = "paused"]
        BY <2>1
      <3>3. w[e] \in Row /\ w[e].state = "paused"
        BY <3>1, <3>2 DEF Row
      <3> QED  BY <3>3
    <2>2. CASE ~Is(e, {"downloading"})
      <3>1. w[e] = row[e] /\ row[e] \in Row \cup {None}
        BY <2>2 DEF DownloadInv, TypeOK
      <3> QED  BY <2>2, <3>1 DEF Is
    <2> QED  BY <2>1, <2>2
  <1>3. w \in [Episodes -> Row \cup {None}]
    BY <1>2
  <1> HIDE DEF w
  <1>4. \A e \in Episodes : ~Is(e, {"downloading"})'
    BY <1>1, <1>2 DEF Is
  <1>5. 1 \in 0 .. MaxTicks
    BY DownloadConstants
  <1>6. TypeOK'
    BY <1>1, <1>3, <1>5 DEF DownloadInv, TypeOK, settings
  <1>7. OneTransfer'
    BY <1>1, <1>4, DownloadConstants DEF OneTransfer
  <1> QED  BY <1>6, <1>7 DEF DownloadInv

LEMMA PlayKeeps ==
  ASSUME DownloadInv, NEW e \in Episodes, Play(e)
  PROVE  DownloadInv'
  <1>1. part' \subseteq Episodes
        /\ UNCHANGED <<running, transfer, ticks, network, mobile, evict>>
    BY DEF Play, DownloadInv, TypeOK
  <1>2. CASE UNCHANGED <<row, older, file>>
    <2>1. TypeOK'
      BY <1>1, <1>2 DEF DownloadInv, TypeOK
    <2> QED  BY <1>1, <1>2, <2>1, QuietKeeps
  <1>3. CASE /\ Is(e, {"complete"})
             /\ row' = Without({e}) /\ older' = Unlisted({e}) /\ file' = Erased({e})
    <2>1. file' \in [Episodes -> Nat]
      BY <1>3, Removal DEF DownloadInv
    <2> QED  BY <1>1, <1>3, <2>1, ForgetKeeps
  <1> QED  BY <1>2, <1>3 DEF Play

LEMMA DownloadStep ==
  ASSUME DownloadInv, [Next]_vars
  PROVE  DownloadInv'
  <1>1. CASE UNCHANGED vars
    BY <1>1 DEF vars, settings, DownloadInv, TypeOK, OneTransfer, Is
  <1>2. ASSUME NEW e \in Episodes, Cancel(e) \/ RemoveDownload(e)
        PROVE  DownloadInv'
    <2>1. ticks' \in 0 .. MaxTicks
      BY <1>2, TickType DEF Cancel, RemoveDownload, DownloadInv, TypeOK
    <2> QED  BY <1>2, <2>1, DropKeeps DEF Cancel, RemoveDownload
  <1>3. ASSUME NEW e \in Episodes, Lost(e)
        PROVE  DownloadInv'
    <2>1. file' \in [Episodes -> Nat]
      BY <1>3, Removal DEF Lost, DownloadInv
    <2>2. TypeOK'
      BY <1>3, <2>1 DEF Lost, DownloadInv, TypeOK, settings
    <2> QED  BY <1>3, <2>2, QuietKeeps DEF Lost
  <1>4. ASSUME NEW e \in Episodes, Verify(e)
        PROVE  DownloadInv'
    <2>1. file' \in [Episodes -> Nat] /\ part' \subseteq Episodes
      BY <1>4 DEF Verify, settings, DownloadInv, TypeOK
    <2> QED  BY <1>4, <2>1, ForgetKeeps DEF Verify, settings
  <1>5. CASE Timer \/ NetworkChanges \/ SetAllowMobile
    <2>1. ticks' \in 0 .. MaxTicks
      BY <1>5, TickType DEF Timer, NetworkChanges, SetAllowMobile, DownloadInv
    <2>2. TypeOK' /\ UNCHANGED <<row, running, transfer>>
      BY <1>5, <2>1 DEF Timer, NetworkChanges, SetAllowMobile, DownloadInv, TypeOK, settings
    <2> QED  BY <2>2, QuietKeeps
  <1> QED  BY <1>1, <1>2, <1>3, <1>4, <1>5, AskKeeps, TickKeeps, ProgressKeeps,
              CompleteKeeps, PlayKeeps, RestartKeeps DEF Next, Fails

LEMMA DownloadInit ==
  ASSUME Init
  PROVE  DownloadInv
  <1>1. TypeOK
    <2>1. 0 \in 0 .. MaxTicks
      BY DownloadConstants
    <2>2. row \in [Episodes -> Row \cup {None}] /\ file \in [Episodes -> Nat]
      BY DEF Init
    <2> QED  BY <2>1, <2>2 DEF Init, TypeOK
  <1>2. OneTransfer
    BY DownloadConstants DEF Init, OneTransfer, Is
  <1> QED  BY <1>1, <1>2 DEF DownloadInv

-----------------------------------------------------------------------------
(* The bytes a set of rows counts *)

LEMMA HasLeast ==
  ASSUME NEW S \in SUBSET Nat, S # {}
  PROVE  \E n \in S : \A m \in S : n <= m
  <1> DEFINE Before == {p \in Nat \X Nat : p[1] < p[2]}
  <1>1. Before = OpToRel(<, Nat)
    BY Zenon DEF OpToRel
  <1>2. IsWellFoundedOn(Before, Nat)
    BY <1>1, NatLessThanWellFounded, Zenon
  <1> HIDE DEF Before
  <1>3. PICK n \in S : \A m \in S : <<m, n>> \notin Before
    BY <1>2, WFMin
  <1>4. \A m \in S : ~ (m < n)
    BY <1>3 DEF Before
  <1> QED  BY <1>4

\* The units that f counts of es, each unit an element.
Units(f, es) == UNION {{e} \X (1 .. f[e]) : e \in es}

\* How many they are: what the sum over es adds up.
Total(f, es) == Cardinality(Units(f, es))

Amounts == [Episodes -> Nat]

LEMMA UpTo ==
  ASSUME NEW n \in Nat
  PROVE  IsFiniteSet(1 .. n) /\ Cardinality(1 .. n) = n
  <1>1. 1 \in Int /\ n \in Int
    OBVIOUS
  <1>2. IsFiniteSet(1 .. n) /\ Cardinality(1 .. n) = IF 1 > n THEN 0 ELSE n - 1 + 1
    BY <1>1, FS_Interval
  <1> QED  BY <1>2

LEMMA UnitsFinite ==
  ASSUME NEW f \in Amounts, NEW es \in SUBSET Episodes
  PROVE  IsFiniteSet(Units(f, es)) /\ Total(f, es) \in Nat
  <1> DEFINE units(e) == {e} \X (1 .. f[e])
             all == {units(e) : e \in es}
             map == [e \in es |-> units(e)]
  <1>1. IsFiniteSet(es)
    BY DownloadConstants, FS_Subset
  <1>2. map \in Surjection(es, all)
    <2>1. map \in [es -> all]
      OBVIOUS
    <2>2. \A t \in all : \E e \in es : map[e] = t
      OBVIOUS
    <2> HIDE DEF map, all
    <2> QED  BY <2>1, <2>2 DEF Surjection
  <1>3. IsFiniteSet(all)
    <2> HIDE DEF map, all
    <2> QED  BY <1>1, <1>2, FS_Surjection
  <1>4. ASSUME NEW e \in es PROVE IsFiniteSet(units(e))
    <2>1. f[e] \in Nat
      BY DEF Amounts
    <2>2. IsFiniteSet(1 .. f[e])
      BY <2>1, UpTo
    <2>3. IsFiniteSet({e})
      BY FS_Singleton
    <2> QED  BY <2>2, <2>3, FS_Product
  <1>5. \A t \in all : IsFiniteSet(t)
    <2> HIDE DEF units
    <2> QED  BY <1>4
  <1>6. Units(f, es) = UNION all
    BY DEF Units
  <1> HIDE DEF all
  <1>7. IsFiniteSet(Units(f, es))
    BY <1>3, <1>5, <1>6, FS_UNION
  <1> QED  BY <1>7, FS_CardinalityType DEF Total

\* A set of rows counts what a part of it counts and what the rest does.
LEMMA TotalSplits ==
  ASSUME NEW f \in Amounts, NEW es \in SUBSET Episodes, NEW some \in SUBSET es
  PROVE  Total(f, es) = Total(f, some) + Total(f, es \ some)
  <1>1. /\ Units(f, es) = Units(f, some) \cup Units(f, es \ some)
        /\ Units(f, some) \cap Units(f, es \ some) = {}
    BY DEF Units
  <1>2. some \in SUBSET Episodes /\ es \ some \in SUBSET Episodes
    OBVIOUS
  <1>3. /\ IsFiniteSet(Units(f, some)) /\ IsFiniteSet(Units(f, es \ some))
        /\ Total(f, some) \in Nat /\ Total(f, es \ some) \in Nat
    BY <1>2, UnitsFinite
  <1>4. Cardinality(Units(f, some) \cup Units(f, es \ some)) =
          Total(f, some) + Total(f, es \ some)
            - Cardinality(Units(f, some) \cap Units(f, es \ some))
    BY <1>3, FS_Union DEF Total
  <1>5. Cardinality(Units(f, some) \cap Units(f, es \ some)) = 0
    BY <1>1, FS_EmptySet
  <1> QED  BY <1>1, <1>3, <1>4, <1>5 DEF Total

LEMMA TotalOne ==
  ASSUME NEW f \in Amounts, NEW e \in Episodes
  PROVE  Total(f, {e}) = f[e] /\ f[e] \in Nat
  <1>1. f[e] \in Nat
    BY DEF Amounts
  <1>2. Units(f, {e}) = {e} \X (1 .. f[e])
    BY DEF Units
  <1>3. IsFiniteSet(1 .. f[e]) /\ Cardinality(1 .. f[e]) = f[e]
    BY <1>1, UpTo
  <1>4. IsFiniteSet({e}) /\ Cardinality({e}) = 1
    BY FS_Singleton
  <1>5. Cardinality({e} \X (1 .. f[e])) = Cardinality({e}) * Cardinality(1 .. f[e])
    BY <1>3, <1>4, FS_Product
  <1>6. Cardinality({e} \X (1 .. f[e])) = f[e]
    BY <1>1, <1>3, <1>4, <1>5
  <1> QED  BY <1>1, <1>2, <1>6 DEF Total

LEMMA TotalNone ==
  ASSUME NEW f
  PROVE  Total(f, {}) = 0
  BY FS_EmptySet DEF Total, Units

\* A row that counts no more makes a sum no larger.
LEMMA TotalShrinks ==
  ASSUME NEW f \in Amounts, NEW g \in Amounts, NEW es \in SUBSET Episodes,
         \A e \in es : g[e] <= f[e]
  PROVE  Total(g, es) <= Total(f, es)
  <1>1. ASSUME NEW e \in es PROVE {e} \X (1 .. g[e]) \subseteq {e} \X (1 .. f[e])
    <2>1. f[e] \in Nat /\ g[e] \in Nat /\ g[e] <= f[e]
      BY DEF Amounts
    <2> QED  BY <2>1
  <1>2. Units(g, es) \subseteq Units(f, es)
    BY <1>1 DEF Units
  <1>3. IsFiniteSet(Units(f, es))
    BY UnitsFinite
  <1> QED  BY <1>2, <1>3, FS_Subset DEF Total

\* The sum, which takes the rows one by one in any order, counts all units.
LEMMA SumIsTotal ==
  ASSUME NEW f \in Amounts, NEW es \in SUBSET Episodes
  PROVE  SumFunctionOnSet(f, es) = Total(f, es)
  <1> DEFINE first(s) == CHOOSE e \in s : TRUE
             Adds(iter) == iter = [s \in SUBSET es |->
                             IF s = {} THEN 0
                             ELSE f[first(s)] + iter[s \ {first(s)}]]
             sum == CHOOSE iter : Adds(iter)
             totals == [s \in SUBSET es |-> Total(f, s)]
  <1>1. SumFunctionOnSet(f, es) = sum[es]
    BY DEF SumFunctionOnSet, FoldFunctionOnSet, MapThenFoldSet
  <1>2. \A s \in SUBSET es : s # {} =>
          first(s) \in s /\ Total(f, s) = f[first(s)] + Total(f, s \ {first(s)})
    <2> SUFFICES ASSUME NEW s \in SUBSET es, s # {}
                 PROVE  first(s) \in s /\ Total(f, s) = f[first(s)] + Total(f, s \ {first(s)})
      OBVIOUS
    <2>1. first(s) \in s
      OBVIOUS
    <2> HIDE DEF first
    <2>2. Total(f, s) = Total(f, {first(s)}) + Total(f, s \ {first(s)})
      BY <2>1, TotalSplits
    <2>3. Total(f, {first(s)}) = f[first(s)]
      BY <2>1, TotalOne
    <2> QED  BY <2>1, <2>2, <2>3
  <1>3. Total(f, {}) = 0
    BY TotalNone
  <1> HIDE DEF first
  <1>4. Adds(totals)
    BY <1>2, <1>3
  <1>5. Adds(sum)
    <2> HIDE DEF Adds, totals
    <2> QED  BY <1>4
  <1> HIDE DEF sum
  <1> DEFINE wrong == {s \in SUBSET es : sum[s] # Total(f, s)}
             sizes == {Cardinality(s) : s \in wrong}
  <1>6. \A s \in SUBSET es : IsFiniteSet(s) /\ Cardinality(s) \in Nat
    BY DownloadConstants, FS_Subset, FS_CardinalityType
  <1>7. ASSUME wrong # {} PROVE FALSE
    <2>1. sizes \in SUBSET Nat /\ sizes # {}
      BY <1>6, <1>7
    <2>2. PICK n \in sizes : \A m \in sizes : n <= m
      <3> HIDE DEF sizes
      <3> QED  BY <2>1, HasLeast
    <2>3. PICK s \in wrong : Cardinality(s) = n
      OBVIOUS
    <2>4. s \in SUBSET es /\ sum[s] # Total(f, s)
      OBVIOUS
    <2>5. s # {}
      BY <1>3, <1>5, <2>4
    <2> DEFINE t == s \ {first(s)}
    <2>6. first(s) \in s /\ Total(f, s) = f[first(s)] + Total(f, t)
      BY <1>2, <2>4, <2>5
    <2>7. t \in SUBSET es /\ Cardinality(t) = n - 1
      BY <1>6, <2>3, <2>4, <2>6, FS_RemoveElement
    <2>8. sum[s] = f[first(s)] + sum[t]
      BY <1>5, <2>4, <2>5
    <2>9. sum[t] # Total(f, t)
      BY <2>4, <2>6, <2>8
    <2>10. Cardinality(t) \in sizes
      BY <2>7, <2>9
    <2> HIDE DEF sizes, t
    <2> QED  BY <2>1, <2>2, <2>7, <2>10
  <1> QED  BY <1>1, <1>7

\* What rows count, and what they hold of what was promised.
AmountsMean ==
  /\ Counting \in Amounts /\ Granted \in Amounts
  /\ \A e \in Episodes :
       /\ Counted(e) \in Nat /\ Promised(e) \in Nat
       /\ Counting[e] = Counted(e)
       /\ Granted[e] = IF Counted(e) <= Promised(e) THEN Counted(e) ELSE Promised(e)

LEMMA Means == TypeOK => AmountsMean
  <1>1. ASSUME TypeOK, NEW e \in Episodes
        PROVE  Counted(e) \in Nat /\ Promised(e) \in Nat
    <2>1. Counted(e) \in Nat
      BY <1>1 DEF TypeOK, Row, Counted, Is, Bytes
    <2>2. Promised(e) \in Nat
      BY DownloadConstants DEF Promised
    <2> QED  BY <2>1, <2>2
  <1> QED  BY <1>1 DEF AmountsMean, Counting, Granted, Amounts

LEMMA MeansAfter == TypeOK' => AmountsMean'
  BY Means, PTL

\* The sum of all rows: one of them, some others and the rest.
LEMMA TotalParts ==
  ASSUME NEW f \in Amounts, NEW e \in Episodes, NEW gone \in SUBSET (Episodes \ {e})
  PROVE  /\ Total(f, Episodes) =
              f[e] + Total(f, gone) + Total(f, (Episodes \ {e}) \ gone)
         /\ f[e] \in Nat /\ Total(f, gone) \in Nat
         /\ Total(f, (Episodes \ {e}) \ gone) \in Nat
  <1> DEFINE rest == Episodes \ {e}
  <1>1. /\ Episodes \in SUBSET Episodes /\ {e} \in SUBSET Episodes
        /\ rest \in SUBSET Episodes /\ gone \in SUBSET rest
        /\ gone \in SUBSET Episodes /\ rest \ gone \in SUBSET Episodes
    OBVIOUS
  <1>2. Total(f, Episodes) = Total(f, {e}) + Total(f, rest)
    BY <1>1, TotalSplits
  <1> HIDE DEF rest
  <1>3. Total(f, rest) = Total(f, gone) + Total(f, rest \ gone)
    BY <1>1, TotalSplits
  <1>4. Total(f, {e}) = f[e] /\ f[e] \in Nat
    BY TotalOne
  <1>5. Total(f, gone) \in Nat /\ Total(f, rest \ gone) \in Nat
    BY <1>1, UnitsFinite
  <1>6. Total(f, Episodes) = f[e] + Total(f, gone) + Total(f, rest \ gone)
    BY <1>2, <1>3, <1>4, <1>5
  <1> QED  BY <1>4, <1>5, <1>6 DEF rest

\* The rest counts what it counted when one row changes and some are removed.
LEMMA TotalChanges ==
  ASSUME NEW f \in Amounts, NEW g \in Amounts,
         NEW e \in Episodes, NEW gone \in SUBSET (Episodes \ {e}),
         \A o \in gone : g[o] = 0,
         \A o \in Episodes \ (gone \cup {e}) : g[o] = f[o]
  PROVE  /\ Total(g, Episodes) \in Nat
         /\ Total(g, Episodes) <= Total(f, Episodes) - f[e] - Total(f, gone) + g[e]
  <1> DEFINE others == (Episodes \ {e}) \ gone
  <1>1. /\ Total(f, Episodes) = f[e] + Total(f, gone) + Total(f, others)
        /\ f[e] \in Nat /\ Total(f, gone) \in Nat /\ Total(f, others) \in Nat
    BY TotalParts
  <1>2. /\ Total(g, Episodes) = g[e] + Total(g, gone) + Total(g, others)
        /\ g[e] \in Nat /\ Total(g, gone) \in Nat /\ Total(g, others) \in Nat
    BY TotalParts
  <1>3. Total(g, others) = Total(f, others) /\ Total(g, gone) = 0
    <2>1. Units(g, others) = Units(f, others)
      BY DEF Units
    <2>2. \A o \in gone : {o} \X (1 .. g[o]) = {}
      OBVIOUS
    <2>3. Units(g, gone) = {}
      BY <2>2 DEF Units
    <2> QED  BY <2>1, <2>3, FS_EmptySet DEF Total
  <1> HIDE DEF others
  <1> QED  BY <1>1, <1>2, <1>3

\* What is removed to make room makes room.
LEMMA RoomFits ==
  ASSUME TypeOK, NEW used \in Int, NEW n, NEW gone \in Room(used, n)
  PROVE  Fits(used - Total(Counting, gone), n) /\ gone \in SUBSET Episodes
  <1>1. CASE gone \in EvictionPlans(used, n)
    <2>1. gone \in SUBSET Episodes /\ Fits(used - Held(gone), n)
      BY <1>1 DEF EvictionPlans
    <2> QED  BY <2>1, SumIsTotal, Means DEF Held, AmountsMean
  <1>2. CASE gone = {} /\ Fits(used, n)
    BY <1>2, TotalNone DEF Fits
  <1> QED  BY <1>1, <1>2 DEF Room

-----------------------------------------------------------------------------
(* Each step keeps the budget *)

\* What the table and the disk hold of a download whose size was told: a row
\* that does not know it yet has nothing, and a file has a row that knows it.
Known(e) ==
  /\ row[e] # None =>
       /\ row[e].total \in {Declared[e], Size[e]}
       /\ Declared[e] # None => row[e].total # None
       /\ row[e].total = None => e \in Silent \/ row[e].done = 0
  /\ file[e] <= Size[e]
  /\ file[e] > 0 => row[e] # None /\ (row[e].total = None => e \in Silent)

SizesKnown == \A e \in Episodes : Known(e)

GrantsFit == SumFunctionOnSet(Granted, Episodes) <= Budget

BudgetInv == DownloadInv /\ SizesKnown /\ GrantsFit

\* One row changes, and some are removed with their files: the change asks for
\* nothing more of what was promised, or room for it was looked for.
LEMMA RowStepKeeps ==
  ASSUME BudgetInv, DownloadInv', NEW e \in Episodes, NEW gone \in SUBSET (Episodes \ {e}),
         \A f \in gone : row'[f] = None /\ file'[f] = 0,
         \A f \in Episodes \ (gone \cup {e}) : row'[f] = row[f] /\ file'[f] = file[f],
         Known(e)',
         \/ Granted'[e] <= Granted[e]
         \/ Used - Counted(e) - Total(Counting, gone) + Counted(e)' <= Budget
  PROVE  BudgetInv'
  <1>1. AmountsMean /\ AmountsMean'
    BY Means, MeansAfter DEF BudgetInv, DownloadInv
  <1>2. \A f \in gone : Counted(f)' = 0
    BY DEF Counted, Is
  <1>3. \A f \in Episodes \ (gone \cup {e}) : Counted(f)' = Counted(f)
    BY DEF Counted, Is
  <1>4. SizesKnown'
    <2> SUFFICES ASSUME NEW f \in Episodes, f # e PROVE Known(f)'
      BY DEF SizesKnown
    <2>1. CASE f \in gone
      BY <2>1, DownloadConstants DEF Known
    <2>2. CASE f \notin gone
      BY <2>2 DEF BudgetInv, SizesKnown, Known
    <2> QED  BY <2>1, <2>2
  <1>5. Total(Granted, Episodes) <= Budget /\ Budget \in Nat
    BY <1>1, SumIsTotal, DownloadConstants DEF BudgetInv, GrantsFit, AmountsMean
  <1>6. SUFFICES Total(Granted', Episodes) <= Budget
    BY <1>1, <1>4, SumIsTotal DEF BudgetInv, GrantsFit, AmountsMean
  <1>7. CASE Granted'[e] <= Granted[e]
    <2>1. \A f \in Episodes : Granted'[f] <= Granted[f]
      BY <1>1, <1>2, <1>3, <1>7 DEF AmountsMean
    <2>2. Total(Granted', Episodes) <= Total(Granted, Episodes)
      BY <1>1, <2>1, TotalShrinks DEF AmountsMean
    <2>3. Total(Granted', Episodes) \in Nat /\ Total(Granted, Episodes) \in Nat
      BY <1>1, UnitsFinite DEF AmountsMean
    <2> QED  BY <1>5, <2>2, <2>3
  <1>8. CASE Used - Counted(e) - Total(Counting, gone) + Counted(e)' <= Budget
    <2>1. /\ Counting[e] = Counted(e) /\ Counting'[e] = Counted(e)'
          /\ Counting \in Amounts /\ Counting' \in Amounts /\ Granted' \in Amounts
          /\ Used = Total(Counting, Episodes)
      BY <1>1, SumIsTotal DEF AmountsMean, Used, Held
    <2>2. /\ \A f \in gone : Counting'[f] = 0
          /\ \A f \in Episodes \ (gone \cup {e}) : Counting'[f] = Counting[f]
      BY <1>1, <1>2, <1>3 DEF AmountsMean
    <2>3. /\ Total(Counting', Episodes) \in Nat
          /\ Total(Counting', Episodes)
               <= Total(Counting, Episodes) - Counting[e] - Total(Counting, gone) + Counting'[e]
      BY <2>1, <2>2, TotalChanges
    <2>4. \A f \in Episodes : Granted'[f] <= Counting'[f]
      BY <1>1 DEF AmountsMean
    <2>5. Total(Granted', Episodes) <= Total(Counting', Episodes)
      BY <2>1, <2>4, TotalShrinks
    <2>6. /\ Total(Counting, Episodes) \in Nat /\ Total(Counting, gone) \in Nat
          /\ Counted(e) \in Nat /\ Counted(e)' \in Nat /\ Total(Granted', Episodes) \in Nat
      BY <1>1, <2>1, UnitsFinite DEF AmountsMean
    <2> QED  BY <1>5, <1>8, <2>1, <2>3, <2>5, <2>6
  <1> QED  BY <1>7, <1>8

\* One row changes and holds no more of what was promised.
LEMMA SmallerRowKeeps ==
  ASSUME BudgetInv, DownloadInv', NEW e \in Episodes,
         \A f \in Episodes \ {e} : row'[f] = row[f] /\ file'[f] = file[f],
         Known(e)', Granted'[e] <= Granted[e]
  PROVE  BudgetInv'
  <1>1. {} \in SUBSET (Episodes \ {e})
    OBVIOUS
  <1> QED  BY <1>1, RowStepKeeps

\* What counts nothing holds nothing of what was promised.
LEMMA NothingHeld ==
  ASSUME TypeOK, TypeOK', NEW e \in Episodes, Counted(e)' <= Counted(e)
  PROVE  Granted'[e] <= Granted[e]
  BY Means, MeansAfter DEF AmountsMean

\* Rows that count what they did keep the budget, while no file grows.
LEMMA SameBudget ==
  ASSUME BudgetInv, DownloadInv',
         \A e \in Episodes : /\ Counted(e)' = Counted(e) /\ file'[e] <= file[e]
                             /\ row[e] = None => row'[e] = None
                             /\ row[e] # None =>
                                  /\ row'[e] # None /\ row'[e].total = row[e].total
                                  /\ row'[e].done = row[e].done
  PROVE  BudgetInv'
  <1>1. Granted' = Granted
    BY DEF Granted
  <1>2. GrantsFit'
    BY <1>1 DEF BudgetInv, GrantsFit
  <1>3. SizesKnown'
    <2> SUFFICES ASSUME NEW e \in Episodes PROVE Known(e)'
      BY DEF SizesKnown
    <2>1. /\ Known(e) /\ file[e] \in Nat /\ file'[e] \in Nat /\ Size[e] \in Nat
      BY DownloadConstants DEF BudgetInv, DownloadInv, TypeOK, SizesKnown
    <2>2. file'[e] <= Size[e] /\ (file'[e] > 0 => file[e] > 0)
      BY <2>1 DEF Known
    <2> QED  BY <2>1, <2>2 DEF Known
  <1> QED  BY <1>2, <1>3 DEF BudgetInv

LEMMA AskBudget ==
  ASSUME BudgetInv, DownloadInv', NEW e \in Episodes, Ask(e)
  PROVE  BudgetInv'
  <1> DEFINE expected == IF row[e] # None /\ row[e].total # None THEN row[e].total ELSE Declared[e]
  <1>1. TypeOK /\ TypeOK' /\ Known(e)
    BY DEF BudgetInv, DownloadInv, SizesKnown
  <1>2. expected \in {Declared[e], Size[e]} /\ (Declared[e] # None => expected # None)
    BY <1>1, DownloadConstants DEF Known
  <1>3. PICK gone \in Room(Used, expected), m \in BOOLEAN :
          /\ row' = [Without(gone) EXCEPT ![e] =
                       [state |-> "waiting", total |-> expected, done |-> 0, mobile |-> m]]
          /\ file' = Erased(gone)
    BY DEF Ask
  <1>4. row[e] = None \/ Is(e, {"failed"})
    BY DEF Ask
  <1>5. gone \in SUBSET (Episodes \ {e})
    BY <1>4, RoomIsComplete DEF Is
  <1> DEFINE r == [state |-> "waiting", total |-> expected, done |-> 0, mobile |-> m]
  <1>6. r \in Row /\ r.state = "waiting" /\ r.total = expected /\ r.done = 0
    <2>1. expected \in Nat \cup {None}
      BY <1>2, DownloadConstants
    <2> QED  BY <2>1 DEF Row
  <1>7. row[e] # None /\ row[e].total # None => expected # None
    OBVIOUS
  <1> HIDE DEF expected
  <1>8. /\ row'[e] = r
        /\ \A f \in Episodes \ {e} : row'[f] = IF f \in gone THEN None ELSE row[f]
        /\ \A f \in Episodes : file'[f] = IF f \in gone THEN 0 ELSE file[f]
    <2>1. row' = [Without(gone) EXCEPT ![e] = r]
      BY <1>3
    <2> HIDE DEF r
    <2> QED  BY <1>3, <2>1 DEF Without, Erased
  <1> HIDE DEF r
  <1>9. r # None
    BY <1>6, NoneIsNoRow
  <1>10. Counted(e) = 0 /\ Counted(e)' = 0
    BY <1>4, <1>6, <1>8 DEF Counted, Is
  <1>11. Known(e)'
    BY <1>1, <1>2, <1>5, <1>6, <1>7, <1>8, <1>9 DEF Known
  <1>12. Granted'[e] <= Granted[e]
    BY <1>1, <1>10, NothingHeld
  <1> QED  BY <1>5, <1>8, <1>11, <1>12, RowStepKeeps

\* A tick that starts a transfer asked for room for what it counts then, or
\* knows no size: what has come of that one was not promised.
LEMMA TickBudget ==
  ASSUME BudgetInv, DownloadInv', TickAnswered
  PROVE  BudgetInv'
  <1>1. TypeOK /\ TypeOK' /\ Used \in Nat /\ AmountsMean /\ AmountsMean'
    <2>1. AmountsMean /\ AmountsMean'
      BY Means, MeansAfter DEF BudgetInv, DownloadInv
    <2>2. Used \in Nat
      BY <2>1, SumIsTotal, UnitsFinite DEF Used, Held, AmountsMean
    <2> QED  BY <2>1, <2>2 DEF BudgetInv, DownloadInv
  <1>2. CASE UNCHANGED <<row, older, file, running, transfer>>
    <2>1. \A e \in Episodes : Counted(e)' = Counted(e) /\ file'[e] <= file[e]
      BY <1>1, <1>2 DEF Counted, Is, TypeOK
    <2> QED  BY <1>2, <2>1, SameBudget
  <1>3. ASSUME NEW e \in Episodes, e \in Eligible, NEW gone \in RoomToRun(e), Run(e, gone)
        PROVE  BudgetInv'
    <2>1. /\ row[e] \in Row /\ row[e] # None /\ row[e].state \in {"waiting", "paused"}
          /\ Known(e) /\ Is(e, {"waiting", "paused"})
      BY <1>1, <1>3 DEF Eligible, Is, TypeOK, BudgetInv, SizesKnown
    <2>2. gone \in SUBSET (Episodes \ {e})
      BY <1>3, <2>1, RoomToRunIsRoom, RoomIsComplete DEF Is
    <2> DEFINE r == [row[e] EXCEPT !.state = "downloading"]
    <2>3. /\ r \in Row /\ r.state = "downloading"
          /\ r.total = row[e].total /\ r.done = row[e].done
      BY <2>1 DEF Row
    <2>4. row' = [Without(gone) EXCEPT ![e] = r]
      BY <1>3, <2>2 DEF Run, Without
    <2> HIDE DEF r
    <2>5. /\ row'[e] = r
          /\ \A f \in Episodes \ {e} : row'[f] = IF f \in gone THEN None ELSE row[f]
      BY <2>4 DEF Without
    <2>6. PICK left \in {0, file[e]} : file' = [Erased(gone) EXCEPT ![e] = left]
      BY <1>3 DEF Run
    <2>7. /\ file'[e] = left
          /\ \A f \in Episodes \ {e} : file'[f] = IF f \in gone THEN 0 ELSE file[f]
      BY <2>6 DEF Erased
    <2>8. r # None
      BY <2>3, NoneIsNoRow
    <2>9. Known(e)'
      BY <2>1, <2>3, <2>5, <2>6, <2>7, <2>8, DownloadConstants DEF Known
    <2>10. CASE row[e].total # None
      <3>1. Fits(Used - Counted(e) - Total(Counting, gone), row[e].total)
        <4>1. gone \in Room(Used - Counted(e), row[e].total)
          BY <1>3, <2>10 DEF RoomToRun
        <4>2. Used - Counted(e) \in Int
          BY <1>1 DEF AmountsMean
        <4> QED  BY <1>1, <4>1, <4>2, RoomFits
      <3>2. Counted(e)' = Bytes(row[e].total)
        BY <2>3, <2>5, <2>8, <2>10 DEF Counted, Is, Bytes
      <3>3. Used - Counted(e) - Total(Counting, gone) + Counted(e)' <= Budget
        BY <3>1, <3>2 DEF Fits
      <3> QED  BY <2>2, <2>5, <2>7, <2>9, <3>3, RowStepKeeps
    <2>11. CASE row[e].total = None
      <3>1. Counted(e)' = row[e].done
        BY <2>3, <2>5, <2>8, <2>11 DEF Counted, Is
      <3>2. Declared[e] = None /\ (e \in Silent \/ row[e].done = 0)
        BY <2>1, <2>11 DEF Known
      <3>3. Granted'[e] = 0
        <4>1. Promised(e) = 0 \/ Counted(e)' = 0
          BY <3>1, <3>2 DEF Promised
        <4> QED  BY <1>1, <4>1 DEF AmountsMean
      <3>4. Granted'[e] <= Granted[e]
        BY <1>1, <3>3 DEF AmountsMean
      <3> QED  BY <2>2, <2>5, <2>7, <2>9, <3>4, RowStepKeeps
    <2> QED  BY <2>10, <2>11
  <1>4. ASSUME NEW e \in Episodes, e \in Eligible,
               row' = [row EXCEPT ![e].state = "failed"],
               UNCHANGED <<older, file, running, transfer>>
        PROVE  BudgetInv'
    <2>1. row[e] \in Row /\ row[e] # None /\ Known(e)
      BY <1>1, <1>4 DEF Eligible, Is, TypeOK, BudgetInv, SizesKnown
    <2> DEFINE r == [row[e] EXCEPT !.state = "failed"]
    <2>2. /\ r \in Row /\ r.state = "failed" /\ row' = [row EXCEPT ![e] = r]
          /\ r.total = row[e].total /\ r.done = row[e].done
      BY <1>1, <1>4, <2>1 DEF Row, TypeOK
    <2> HIDE DEF r
    <2>3. r # None
      BY <2>2, NoneIsNoRow
    <2>4. row'[e] = r /\ \A f \in Episodes \ {e} : row'[f] = row[f]
      BY <1>1, <2>2 DEF TypeOK
    <2>5. Counted(e)' = 0
      BY <2>2, <2>4 DEF Counted, Is
    <2>6. Known(e)'
      BY <1>4, <2>1, <2>2, <2>3, <2>4 DEF Known
    <2>7. Granted'[e] <= Granted[e]
      BY <1>1, <2>5, NothingHeld DEF AmountsMean
    <2> QED  BY <1>4, <2>4, <2>6, <2>7, SmallerRowKeeps
  <1> QED  BY <1>2, <1>3, <1>4 DEF TickAnswered, Oldest

\* A size that the first bytes tell is counted when it fits, and its file goes
\* when it does not; one that the feed told too small is counted unasked.
LEMMA ProgressBudget ==
  ASSUME BudgetInv, DownloadInv', NEW e \in Episodes, Progress(e)
  PROVE  BudgetInv'
  <1>1. /\ TypeOK /\ TypeOK' /\ AmountsMean /\ AmountsMean' /\ Used \in Nat
    <2>1. AmountsMean /\ AmountsMean'
      BY Means, MeansAfter DEF BudgetInv, DownloadInv
    <2>2. Used \in Nat
      BY <2>1, SumIsTotal, UnitsFinite DEF Used, Held, AmountsMean
    <2> QED  BY <2>1, <2>2 DEF BudgetInv, DownloadInv
  <1>2. /\ row[e] \in Row /\ row[e].state = "downloading" /\ row[e] # None
        /\ Is(e, {"downloading"}) /\ Known(e)
    BY DEF Progress, BudgetInv, DownloadInv, OneTransfer, TypeOK, Is, SizesKnown
  <1>3. /\ file[e] \in Nat /\ file[e] < Size[e] /\ Size[e] \in Nat \ {0} /\ Size[e] # None
        /\ Declared[e] \in Nat \cup {None} /\ row[e].total \in Nat \cup {None}
        /\ Counted(e) = IF row[e].total = None THEN row[e].done ELSE row[e].total
    BY <1>1, <1>2, DownloadConstants DEF Progress, TypeOK, Row, Counted, Is, Bytes
  <1>4. ASSUME NEW known \in {row[e].total, Size[e]},
               NEW state \in {"failed", "downloading"}, NEW done \in Nat,
               row' = [row EXCEPT ![e] = Heard(e, state, known, done)]
        PROVE  /\ row'[e] # None /\ row'[e].total = known /\ row'[e].done = done
               /\ row'[e].state = state
               /\ \A f \in Episodes \ {e} : row'[f] = row[f]
    <2> DEFINE r == Heard(e, state, known, done)
    <2>1. r \in Row /\ r.total = known /\ r.done = done /\ r.state = state
      BY <1>2, <1>3, <1>4 DEF Heard, Row
    <2> HIDE DEF r
    <2>2. row'[e] = r /\ \A f \in Episodes \ {e} : row'[f] = row[f]
      BY <1>1, <1>4 DEF TypeOK, r
    <2> QED  BY <2>1, <2>2, NoneIsNoRow
  <1>5. ASSUME NEW told \in BOOLEAN, NEW known \in {row[e].total, Size[e]},
               told \/ e \in Silent, known = IF told THEN Size[e] ELSE row[e].total,
               row' = [row EXCEPT ![e] = Heard(e, "failed", known, 0)],
               file' = Erased({e})
        PROVE  BudgetInv'
    <2>1. /\ row'[e] # None /\ row'[e].total = known /\ row'[e].done = 0
          /\ row'[e].state = "failed" /\ \A f \in Episodes \ {e} : row'[f] = row[f]
      BY <1>4, <1>5
    <2>2. file'[e] = 0 /\ \A f \in Episodes \ {e} : file'[f] = file[f]
      BY <1>1, <1>5 DEF Erased, TypeOK
    <2>3. Counted(e)' = 0
      BY <2>1 DEF Counted, Is
    <2>4. Known(e)'
      BY <1>2, <1>3, <1>5, <2>1, <2>2 DEF Known
    <2>5. Granted'[e] <= Granted[e]
      BY <1>1, <2>3, NothingHeld DEF AmountsMean
    <2> QED  BY <2>1, <2>2, <2>4, <2>5, SmallerRowKeeps
  <1>6. ASSUME NEW told \in BOOLEAN, NEW known \in {row[e].total, Size[e]},
               told \/ e \in Silent, known = IF told THEN Size[e] ELSE row[e].total,
               told => ~TooBig(e),
               row' = [row EXCEPT ![e] = Heard(e, "downloading", known, file[e] + 1)],
               file' = [file EXCEPT ![e] = file[e] + 1]
        PROVE  BudgetInv'
    <2>1. /\ row'[e] # None /\ row'[e].total = known /\ row'[e].done = file[e] + 1
          /\ row'[e].state = "downloading" /\ \A f \in Episodes \ {e} : row'[f] = row[f]
      <3>1. file[e] + 1 \in Nat
        BY <1>3
      <3> QED  BY <1>4, <1>6, <3>1
    <2>2. file'[e] = file[e] + 1 /\ \A f \in Episodes \ {e} : file'[f] = file[f]
      BY <1>1, <1>6 DEF TypeOK
    <2>3. Counted(e)' = IF known = None THEN file[e] + 1 ELSE known
      BY <2>1 DEF Counted, Is, Bytes
    <2>4. Known(e)'
      <3>1. file'[e] <= Size[e]
        BY <1>3, <2>2
      <3>2. known \in {Declared[e], Size[e]} /\ (Declared[e] # None => known # None)
            /\ (known = None => e \in Silent)
        BY <1>2, <1>3, <1>6 DEF Known
      <3> QED  BY <2>1, <2>2, <3>1, <3>2 DEF Known
    <2>5. CASE told /\ row[e].total = None
      <3>1. Fits(Used - Counted(e), Size[e]) /\ Counted(e)' = Size[e]
        BY <1>3, <1>6, <2>3, <2>5 DEF TooBig
      <3>2. {} \in SUBSET (Episodes \ {e}) /\ Total(Counting, {}) = 0
        BY TotalNone
      <3>3. Used - Counted(e) - Total(Counting, {}) + Counted(e)' <= Budget
        BY <1>1, <1>3, <3>1, <3>2 DEF Fits, Bytes, AmountsMean
      <3> QED  BY <2>1, <2>2, <2>4, <3>2, <3>3, RowStepKeeps
    <2>6. CASE ~(told /\ row[e].total = None)
      <3>1. CASE row[e].total = None
        <4>1. Promised(e) = 0
          BY <1>2, <1>6, <2>6, <3>1 DEF Known, Promised
        <4>2. Granted'[e] <= Granted[e]
          BY <1>1, <4>1 DEF AmountsMean
        <4> QED  BY <2>1, <2>2, <2>4, <4>2, SmallerRowKeeps
      <3>2. CASE row[e].total # None
        <4>1. Counted(e)' = known /\ Counted(e) = row[e].total
          BY <1>3, <1>6, <2>3, <3>2
        <4>2. known = row[e].total \/ Promised(e) <= row[e].total
          BY <1>2, <1>3, <3>2 DEF Known, Promised
        <4>3. Granted'[e] <= Granted[e]
          BY <1>1, <4>1, <4>2 DEF AmountsMean
        <4> QED  BY <2>1, <2>2, <2>4, <4>3, SmallerRowKeeps
      <3> QED  BY <3>1, <3>2
    <2> QED  BY <2>5, <2>6
  <1>7. file[e] + 1 \in Nat
    BY <1>3
  <1> QED  BY <1>5, <1>6, <1>7, ProgressCases DEF BudgetInv

\* A transfer that completes has told its size, or nobody promised one.
LEMMA EndBudget ==
  ASSUME BudgetInv, DownloadInv', NEW e \in Episodes, Complete(e) \/ Break(e)
  PROVE  BudgetInv'
  <1>1. TypeOK /\ TypeOK' /\ AmountsMean /\ AmountsMean'
    BY Means, MeansAfter DEF BudgetInv, DownloadInv
  <1>2. /\ row[e] \in Row /\ row[e].state = "downloading" /\ row[e] # None /\ Known(e)
    BY DEF Complete, Break, BudgetInv, DownloadInv, OneTransfer, TypeOK, Is, SizesKnown
  <1>3. /\ Size[e] \in Nat \ {0} /\ Size[e] # None /\ file' = file /\ file[e] \in Nat
        /\ Declared[e] \in Nat \cup {None} /\ row[e].total \in Nat \cup {None}
        /\ Counted(e) = IF row[e].total = None THEN row[e].done ELSE row[e].total
    BY <1>1, <1>2, DownloadConstants DEF Complete, Break, TypeOK, Row, Counted, Is, Bytes
  <1>4. CASE Break(e)
    <2> DEFINE r == [row[e] EXCEPT !.state = "paused"]
    <2>1. /\ r \in Row /\ r.state = "paused" /\ r.total = row[e].total
          /\ r.done = row[e].done
      BY <1>2 DEF Row
    <2>2. row' = [row EXCEPT ![e] = r]
      BY <1>1, <1>2, <1>4 DEF Break, TypeOK
    <2> HIDE DEF r
    <2>3. r # None /\ row'[e] = r /\ \A f \in Episodes \ {e} : row'[f] = row[f]
      BY <1>1, <2>1, <2>2, NoneIsNoRow DEF TypeOK
    <2>4. Counted(e)' = Counted(e)
      BY <1>3, <2>1, <2>3 DEF Counted, Is, Bytes
    <2>5. Known(e)'
      BY <1>2, <1>3, <2>1, <2>3 DEF Known
    <2>6. Granted'[e] <= Granted[e]
      BY <1>1, <2>4, NothingHeld DEF AmountsMean
    <2> QED  BY <1>3, <2>3, <2>5, <2>6, SmallerRowKeeps
  <1>5. CASE Complete(e)
    <2> DEFINE r == [row[e] EXCEPT !.state = "complete", !.total = Size[e], !.done = Size[e]]
    <2>1. r \in Row /\ r.state = "complete" /\ r.total = Size[e] /\ r.done = Size[e]
      BY <1>2, <1>3 DEF Row
    <2>2. row' = [row EXCEPT ![e] = r]
      BY <1>1, <1>2, <1>5 DEF Complete, TypeOK
    <2> HIDE DEF r
    <2>3. r # None /\ row'[e] = r /\ \A f \in Episodes \ {e} : row'[f] = row[f]
      BY <1>1, <2>1, <2>2, NoneIsNoRow DEF TypeOK
    <2>4. Counted(e)' = Size[e] /\ file[e] = Size[e]
      BY <1>3, <1>5, <2>1, <2>3 DEF Counted, Is, Bytes, Complete
    <2>5. Known(e)'
      BY <1>2, <1>3, <2>1, <2>3, <2>4 DEF Known
    <2>6. Granted'[e] <= Granted[e]
      <3>1. CASE row[e].total = None
        <4>1. Promised(e) = 0
          BY <1>2, <1>3, <2>4, <3>1 DEF Known, Promised
        <4> QED  BY <1>1, <4>1 DEF AmountsMean
      <3>2. CASE row[e].total # None
        <4>1. row[e].total = Size[e] \/ Promised(e) <= row[e].total
          BY <1>2, <1>3, <3>2 DEF Known, Promised
        <4> QED  BY <1>1, <1>3, <2>4, <3>2, <4>1 DEF AmountsMean
      <3> QED  BY <3>1, <3>2
    <2> QED  BY <1>3, <2>3, <2>5, <2>6, SmallerRowKeeps
  <1> QED  BY <1>4, <1>5

\* A row that goes with its file counts nothing.
LEMMA GoneBudget ==
  ASSUME BudgetInv, DownloadInv', NEW e \in Episodes,
         row' = Without({e}), file' = Erased({e}) \/ (file' = file /\ file[e] = 0)
  PROVE  BudgetInv'
  <1>1. TypeOK /\ TypeOK'
    BY DEF BudgetInv, DownloadInv
  <1>2. row'[e] = None /\ \A f \in Episodes \ {e} : row'[f] = row[f]
    BY DEF Without
  <1>3. file'[e] = 0 /\ \A f \in Episodes \ {e} : file'[f] = file[f]
    BY <1>1 DEF Erased, TypeOK
  <1>4. Counted(e)' = 0
    BY <1>2 DEF Counted, Is
  <1>5. Known(e)'
    BY <1>2, <1>3, DownloadConstants DEF Known
  <1>6. Granted'[e] <= Granted[e]
    BY <1>1, <1>4, Means, NothingHeld DEF AmountsMean
  <1> QED  BY <1>2, <1>3, <1>5, <1>6, SmallerRowKeeps

LEMMA BudgetStep ==
  ASSUME BudgetInv, DownloadInv', [Next]_vars
  PROVE  BudgetInv'
  <1>1. TypeOK /\ \A e \in Episodes : file[e] \in Nat /\ file[e] <= file[e]
    BY DEF BudgetInv, DownloadInv, TypeOK
  <1>2. ASSUME UNCHANGED <<row, file>> PROVE BudgetInv'
    BY <1>1, <1>2, SameBudget DEF Counted, Is
  <1>3. ASSUME NEW e \in Episodes, Lost(e) PROVE BudgetInv'
    <2>1. \A f \in Episodes : file'[f] = IF f = e THEN 0 ELSE file[f]
      BY <1>3 DEF Lost, Erased
    <2>2. \A f \in Episodes : file'[f] <= file[f]
      BY <1>1, <2>1
    <2>3. row' = row
      BY <1>3 DEF Lost
    <2> QED  BY <2>2, <2>3, SameBudget DEF Counted, Is
  <1>4. CASE Restart
    <2>1. file' = file
      BY <1>4 DEF Restart
    <2>2. ASSUME NEW e \in Episodes
          PROVE  /\ Counted(e)' = Counted(e)
                 /\ row[e] = None => row'[e] = None
                 /\ row[e] # None => /\ row'[e] # None /\ row'[e].total = row[e].total
                                     /\ row'[e].done = row[e].done
      <3>1. CASE Is(e, {"downloading"})
        <4> DEFINE r == [row[e] EXCEPT !.state = "paused"]
        <4>1. row[e] \in Row /\ row[e] # None /\ row[e].state = "downloading"
          BY <1>1, <3>1 DEF Is, TypeOK
        <4>2. /\ r \in Row /\ r.state = "paused" /\ r.total = row[e].total
              /\ r.done = row[e].done
          BY <4>1 DEF Row
        <4>3. row'[e] = r
          BY <1>4, <3>1 DEF Restart
        <4> HIDE DEF r
        <4>4. r # None
          BY <4>2, NoneIsNoRow
        <4> QED  BY <4>1, <4>2, <4>3, <4>4 DEF Counted, Is
      <3>2. CASE ~Is(e, {"downloading"})
        <4>1. row'[e] = row[e]
          BY <1>4, <3>2 DEF Restart
        <4> QED  BY <4>1 DEF Counted, Is
      <3> QED  BY <3>1, <3>2
    <2> QED  BY <1>1, <2>1, <2>2, SameBudget
  <1>5. ASSUME NEW e \in Episodes,
               Cancel(e) \/ RemoveDownload(e) \/ Verify(e) \/ Play(e)
        PROVE  BudgetInv'
    <2>1. \/ row' = Without({e}) /\ (file' = Erased({e}) \/ (file' = file /\ file[e] = 0))
          \/ UNCHANGED <<row, file>>
      BY <1>5 DEF Cancel, RemoveDownload, Drop, Verify, Play
    <2> QED  BY <2>1, <1>2, GoneBudget
  <1>6. CASE UNCHANGED vars \/ Timer \/ NetworkChanges \/ SetAllowMobile
    BY <1>2, <1>6 DEF vars, Timer, NetworkChanges, SetAllowMobile
  <1> QED  BY <1>3, <1>4, <1>5, <1>6, AskBudget, TickBudget, ProgressBudget, EndBudget
              DEF Next, Fails

LEMMA BudgetInit ==
  ASSUME Init
  PROVE  BudgetInv
  <1>1. DownloadInv /\ AmountsMean
    BY DownloadInit, Means DEF DownloadInv
  <1>2. \A e \in Episodes : Counted(e) = 0 /\ file[e] = 0 /\ row[e] = None
    BY DEF Init, Counted, Is
  <1>3. \A e \in Episodes : Granted[e] = 0
    BY <1>1, <1>2 DEF AmountsMean
  <1>4. Total(Granted, Episodes) = 0
    <2>1. \A e \in Episodes : {e} \X (1 .. Granted[e]) = {}
      BY <1>3
    <2>2. Units(Granted, Episodes) = {}
      BY <2>1 DEF Units
    <2> QED  BY <2>2, FS_EmptySet DEF Total
  <1>5. GrantsFit
    BY <1>1, <1>4, SumIsTotal, DownloadConstants DEF GrantsFit, AmountsMean
  <1>6. SizesKnown
    BY <1>2, DownloadConstants DEF SizesKnown, Known
  <1> QED  BY <1>1, <1>5, <1>6 DEF BudgetInv

\* What is on disk of a download whose size was not told too small is counted.
LEMMA BudgetMeans ==
  ASSUME BudgetInv
  PROVE  WithinBudget
  <1> SUFFICES ASSUME NEW e \in Episodes, Size[e] <= Promised(e), ~Is(e, {"waiting", "failed"})
               PROVE  file[e] <= Counted(e)
    BY DEF BudgetInv, GrantsFit, WithinBudget
  <1>1. /\ Known(e) /\ file[e] \in Nat /\ Size[e] \in Nat \ {0} /\ Size[e] # None
        /\ row[e] \in Row \cup {None} /\ Declared[e] \in Nat \cup {None}
    BY DownloadConstants DEF BudgetInv, DownloadInv, TypeOK, SizesKnown
  <1>2. CASE row[e] = None
    BY <1>1, <1>2 DEF Known, Counted, Is
  <1>3. CASE row[e] # None
    <2>1. /\ row[e].state \in {"downloading", "paused", "complete"}
          /\ row[e].total \in Nat \cup {None} /\ row[e].done \in Nat
      BY <1>1, <1>3 DEF Is, Row
    <2>2. CASE row[e].total = None
      <3>1. Declared[e] = None /\ e \notin Silent
        BY <1>1, <1>3, <2>2 DEF Known, Promised
      <3>2. file[e] = 0
        BY <1>1, <2>2, <3>1 DEF Known
      <3> QED  BY <2>1, <3>2 DEF Counted, Is, Bytes
    <2>3. CASE row[e].total # None
      <3>1. Size[e] <= row[e].total /\ Counted(e) = row[e].total
        BY <1>1, <1>3, <2>1, <2>3 DEF Known, Promised, Counted, Is, Bytes
      <3> QED  BY <1>1, <2>1, <2>3, <3>1 DEF Known
    <2> QED  BY <2>2, <2>3
  <1> QED  BY <1>2, <1>3

-----------------------------------------------------------------------------
(* Theorems *)

THEOREM DownloadInvariant == Spec => []DownloadInv
  BY DownloadInit, DownloadStep, PTL DEF Spec

\* Rows, files and settings keep their shape (the downloads table).
THEOREM TypeCorrect == Spec => []TypeOK
  <1>1. DownloadInv => TypeOK
    BY DEF DownloadInv
  <1> QED  BY <1>1, DownloadInvariant, PTL

\* At most one transfer runs, the one the manager and the table know of, for
\* any number of episodes and of ticks that wait for the network together.
THEOREM OneTransferRuns == Spec => []OneTransfer
  <1>1. DownloadInv => OneTransfer
    BY DEF DownloadInv
  <1> QED  BY <1>1, DownloadInvariant, PTL

\* What was promised of the downloads on the phone fits the limit, for any
\* sizes and whatever feeds and servers say of them, in any order of requests,
\* ticks, cancels, evictions and restarts; and what is on disk of one whose
\* size was not told too small is counted.
THEOREM BudgetHolds == Spec => []WithinBudget
  <1>1. BudgetInv /\ [Next]_vars => BudgetInv'
    BY DownloadStep, BudgetStep DEF BudgetInv
  <1> QED  BY <1>1, BudgetInit, BudgetMeans, PTL DEF Spec

=============================================================================
