-------------------------------- MODULE Player --------------------------------
(***************************************************************************)
(* The player of the phone: the reducer and the runtime of                 *)
(* apps/mobile/src/playback (reducer.ts, store.ts) over the adapter of the *)
(* audio library (expo-audio-adapter.ts), with the queue's advance, the    *)
(* sleep timer, the stored positions and a restart.                        *)
(*                                                                         *)
(* Positions are counted in units of SAVE_EVERY_MS: every tick that moves  *)
(* the place is due for saving.  End is the last unit, within 30 s of the  *)
(* end.  What one event does, the effects it emits and the advance of the  *)
(* queue included, is one function of the app's state; a status of the     *)
(* library is several events, in the adapter's order.                      *)
(***************************************************************************)
EXTENDS Naturals, Sequences, SequencesExt

CONSTANTS
  Episodes,
  Gone,          \* queued episodes whose feed no longer has them
  Queued,        \* the stored queue of the first start
  End,
  None,
  MaxRetries,
  MaxActs,       \* bound: acts of the listener
  MaxTroubles    \* bound: failures, interruptions and restarts

ASSUME PlayerConstants ==
  /\ End \in Nat \ {0} /\ None \notin Episodes
  /\ Queued \in Seq(Episodes) /\ IsInjective(Queued)
  /\ {MaxRetries, MaxActs, MaxTroubles} \subseteq Nat

VARIABLES
  app,      \* what the app holds in memory and on disk
  player,   \* the library's player
  asked,    \* history: the listener asked for sound since the app started
  acts, troubles

vars == <<app, player, asked, acts, troubles>>

Places == 0..End

-----------------------------------------------------------------------------
(* The app *)

States == [kind: {"idle", "loading", "playing", "buffering", "paused",
                  "yielded", "ended", "error"},
           ep: Episodes \cup {None}, pos: Places, intent: {"play", "pause"},
           last: Places,                 \* lastSavedMs, while it plays
           of: Episodes \cup {None}]     \* history: whose place `pos` is

Effects == [kind: {"load", "seeking"}, ep: Episodes, pos: Places]
             \cup [kind: {"seek"}, pos: Places]
             \cup [kind: {"play", "pause", "reassertFocus"}]

Rows == [pos: Places, finished: BOOLEAN, seek: BOOLEAN, of: Episodes \cup {None}]

\* No row is not a row.
ASSUME NoneIsNoRow == None \notin Rows

\* What the runtime and the adapter keep; rows, session, queue, switch and
\* deadline are on disk.
Apps == [rows: [Episodes -> Rows \cup {None}], session: Episodes \cup {None},
         queue: Seq(Episodes), eoe: BOOLEAN, deadline: {"off", "set", "due"},
         st: States, retries: 0..MaxRetries, retry: BOOLEAN, watch: BOOLEAN,
         chain: Seq(Effects), hold: BOOLEAN, restarted: Episodes \cup {None},
         asks: [play: BOOLEAN, pause: BOOLEAN],
         was: [playing: BOOLEAN, buffering: BOOLEAN, loaded: BOOLEAN]]

\* The library's player (external).
Players == [src: Episodes \cup {None}, ready: BOOLEAN, want: BOOLEAN, taken: BOOLEAN,
            pos: Places, buffering: BOOLEAN, finished: BOOLEAN, ended: BOOLEAN,
            offline: BOOLEAN, failed: BOOLEAN, error: BOOLEAN]

Positioned == {"playing", "buffering", "paused", "yielded"}
Sounding == {"playing", "buffering"}

\* A start: the disk's rows, session, queue, switch and deadline, the rest anew.
Fresh(rows, session, queue, eoe, deadline) ==
  [rows |-> rows, session |-> session, queue |-> queue, eoe |-> eoe, deadline |-> deadline,
   st |-> [kind |-> "idle", ep |-> None, pos |-> 0, intent |-> "pause", last |-> 0, of |-> None],
   retries |-> 0, retry |-> FALSE, watch |-> FALSE, chain |-> << >>,
   hold |-> FALSE, restarted |-> None, asks |-> [play |-> FALSE, pause |-> FALSE],
   was |-> [playing |-> FALSE, buffering |-> FALSE, loaded |-> FALSE]]

Emit(a, effects) == [a EXCEPT !.chain = @ \o effects]
To(a, kind) == [a EXCEPT !.st.kind = kind, !.st.last = IF kind \in Sounding THEN @ ELSE 0]

\* withPosition
At(a, p, of) ==
  [a EXCEPT !.st.pos = p, !.st.of = of,
            !.st.last = IF a.st.kind \in Sounding THEN p ELSE 0]

\* Mutant: the first save of a replay is like any other.
SavedPlain(a, reached, explicit) ==
  LET s == a.st  fin == reached \/ s.pos = End
      row == [pos |-> s.pos, finished |-> fin, of |-> s.of, seek |-> explicit]
  IN  [a EXCEPT !.rows[s.ep] = row]

\* savePosition, run: the first save after a restart is the listener's choice.
Saved(a, reached, explicit) ==
  LET s == a.st
      again == a.restarted = s.ep
      fin == reached \/ s.pos = End
      row == [pos |-> s.pos, finished |-> fin, of |-> s.of,
              seek |-> explicit \/ (again /\ ~fin)]
  IN  [a EXCEPT !.rows[s.ep] = row, !.restarted = IF again THEN None ELSE @]

\* Mutant: a load does not wait for the effects before it.
LoadingFirst(a, ep, pos, intent) ==
  [a EXCEPT !.st = [kind |-> "loading", ep |-> ep, pos |-> pos,
                    intent |-> intent, last |-> 0, of |-> ep],
            !.retries = 0,
            !.chain = <<[kind |-> "load", ep |-> ep, pos |-> pos]>> \o @]

Loading(a, ep, pos, intent) ==
  [a EXCEPT !.st = [kind |-> "loading", ep |-> ep, pos |-> pos,
                    intent |-> intent, last |-> 0, of |-> ep],
            !.retries = 0,
            !.chain = Append(@, [kind |-> "load", ep |-> ep, pos |-> pos])]

\* startPositionFor
StartOf(a, ep) ==
  IF a.rows[ep] = None \/ a.rows[ep].finished THEN 0 ELSE a.rows[ep].pos

\* load, of the runtime.
Load(a, ep, intent) ==
  LET cleared == IF a.eoe THEN [a EXCEPT !.eoe = FALSE, !.hold = FALSE] ELSE a
      again == a.rows[ep] # None /\ a.rows[ep].finished
  IN  [Loading(cleared, ep, StartOf(a, ep), intent) EXCEPT
         !.restarted = IF again THEN ep ELSE None, !.session = ep]

\* Mutant: the queue goes on although this episode was to be the last.
AdvancedAlways(a) ==
  LET ready == {i \in DOMAIN a.queue : a.queue[i] \notin Gone}
      first == CHOOSE i \in ready : \A j \in ready : i <= j
  IN  IF ready = {} THEN [a EXCEPT !.queue = << >>]
      ELSE Load([a EXCEPT !.queue = SubSeq(@, first + 1, Len(@)), !.hold = FALSE],
                a.queue[first], "play")

\* advanceQueue: what the feed no longer has leaves the queue with it.
Advanced(a) ==
  LET ready == {i \in DOMAIN a.queue : a.queue[i] \notin Gone}
      first == CHOOSE i \in ready : \A j \in ready : i <= j
  IN  IF a.hold
      THEN IF a.eoe THEN [a EXCEPT !.hold = FALSE, !.eoe = FALSE, !.deadline = "off"]
           ELSE [a EXCEPT !.hold = FALSE]
      ELSE IF ready = {} THEN [a EXCEPT !.queue = << >>]
      ELSE Load([a EXCEPT !.queue = SubSeq(@, first + 1, Len(@))], a.queue[first], "play")

-----------------------------------------------------------------------------
(* The reducer's events and what the runtime does with them *)

Playing(a) == [a EXCEPT !.st.kind = "playing", !.st.intent = "play", !.st.last = a.st.pos]
Play == [kind |-> "play"]
Pause == [kind |-> "pause"]
Seek(p) == [kind |-> "seek", pos |-> p]
Reassert == [kind |-> "reassertFocus"]

OnLoaded(a) ==
  CASE a.st.kind # "loading" -> a
    [] a.st.kind = "loading" /\ a.st.intent = "pause" -> [To(a, "paused") EXCEPT !.retries = 0]
    [] OTHER -> Emit([Playing(a) EXCEPT !.retries = 0], <<Play>>)

OnRetryDue(a) ==
  IF a.st.kind # "loading" THEN a
  ELSE Emit(a, <<[kind |-> "load", ep |-> a.st.ep, pos |-> a.st.pos], Play>>)

OnPlay(a) ==
  CASE a.st.kind = "ended" ->
         Emit([Playing(At(a, 0, a.st.ep)) EXCEPT !.retries = 0, !.restarted = a.st.ep,
                                                 !.session = a.st.ep],
              <<Seek(0), Play>>)
    [] a.st.kind \in {"paused", "yielded"} ->
         Emit([Playing(a) EXCEPT !.retries = 0, !.session = a.st.ep], <<Play>>)
    [] a.st.kind = "error" /\ a.st.ep # None ->
         Emit([Loading(a, a.st.ep, a.st.pos, "play") EXCEPT !.session = a.st.ep], <<Play>>)
    [] OTHER -> a

OnPause(a) ==
  IF a.st.kind \notin Positioned THEN a
  ELSE Emit([Saved(To(a, "paused"), FALSE, FALSE) EXCEPT !.session = a.st.ep], <<Pause>>)

OnTick(a, p, of) ==
  IF a.st.kind \notin Sounding THEN a
  ELSE LET b == [a EXCEPT !.st.pos = p, !.st.of = of]
       IN  IF p > a.st.last THEN Saved([b EXCEPT !.st.last = p], FALSE, FALSE) ELSE b

OnBuffer(a, on) ==
  CASE on /\ a.st.kind = "playing" -> To(a, "buffering")
    [] ~on /\ a.st.kind = "buffering" -> Emit(To(a, "playing"), <<Reassert>>)
    [] OTHER -> a

\* Mutant: the place of the last tick is saved, not where it stopped.
OnExternalPauseLate(a, p, of) ==
  IF a.st.kind \notin Sounding THEN a
  ELSE [At(To(Saved(a, FALSE, FALSE), "yielded"), p, of) EXCEPT !.watch = TRUE]

OnExternalPause(a, p, of) ==
  IF a.st.kind \notin Sounding THEN a
  ELSE [Saved(At(To(a, "yielded"), p, of), FALSE, FALSE) EXCEPT !.watch = TRUE]

OnExternalResume(a) ==
  IF a.st.kind \in {"paused", "yielded"} THEN Emit(Playing(a), <<Reassert>>) ELSE a

OnWatchExpired(a) == IF a.st.kind = "yielded" THEN To(a, "paused") ELSE a

Ended(a) == Advanced(To(a, "ended"))

\* The place stored as finished is the one of the last tick.
OnEnded(a) ==
  IF a.st.kind \notin Sounding THEN a ELSE Ended(Saved(a, TRUE, FALSE))

\* Seeking to the end finishes the episode.
OnSeek(a, p) ==
  IF a.st.kind \notin Positioned THEN a
  ELSE LET b == Saved(At(a, p, a.st.ep), p = End, TRUE)
       IN  IF p = End THEN Ended(Emit(b, <<Seek(p)>>)) ELSE Emit(b, <<Seek(p)>>)

\* fail: only a place that was being played or loaded is kept.
Failed(a) ==
  [To(a, "error") EXCEPT
     !.st.pos = IF a.st.kind \in Positioned \cup {"loading"} THEN @ ELSE 0]

\* Mutant: a failure while loading schedules no retry.
OnErrorUnscheduled(a) ==
  LET saved == IF a.st.kind \in Positioned THEN Saved(a, FALSE, FALSE) ELSE a
      tries == \/ a.st.kind \in Sounding
               \/ a.st.kind = "loading" /\ a.st.intent = "play"
  IN  IF ~tries \/ a.retries >= MaxRetries THEN Failed(saved)
      ELSE [To(saved, "loading") EXCEPT !.retries = @ + 1,
              !.retry = @ \/ a.st.kind \in Sounding]

OnError(a) ==
  LET saved == IF a.st.kind \in Positioned THEN Saved(a, FALSE, FALSE) ELSE a
      tries == \/ a.st.kind \in Sounding
               \/ a.st.kind = "loading" /\ a.st.intent = "play"
  IN  IF ~tries \/ a.retries >= MaxRetries THEN Failed(saved)
      ELSE [To(saved, "loading") EXCEPT !.retries = @ + 1, !.retry = TRUE]

\* fireSleep
FireSleep(a) == [OnPause(a) EXCEPT !.deadline = "off", !.eoe = FALSE, !.hold = FALSE]

-----------------------------------------------------------------------------
(* The adapter *)

SoundsNow(p) == p.ready /\ p.want /\ ~p.taken /\ ~p.finished

\* onStatus: the events one status of the library stands for, in order.
\* A place reported before a load or a seek still to run is nobody's (history).
Observed(a, p) ==
  LET of == IF \E i \in DOMAIN a.chain : a.chain[i].kind \in {"load", "seek"}
            THEN None ELSE p.src
      loads == p.ready /\ ~a.was.loaded
      a1 == IF loads THEN OnLoaded([a EXCEPT !.was.loaded = TRUE]) ELSE a
      a2 == IF p.buffering # a1.was.buffering
            THEN OnBuffer([a1 EXCEPT !.was.buffering = p.buffering], p.buffering) ELSE a1
      plays == SoundsNow(p)
      heard == CASE plays /\ ~a.asks.play -> OnExternalResume(a2)
                 [] ~plays /\ ~a.asks.pause -> OnExternalPause(a2, p.pos, of)
                 [] OTHER -> a2
      a3 == IF plays = a.was.playing THEN a2
            ELSE [heard EXCEPT !.was.playing = plays, !.asks = [play |-> FALSE, pause |-> FALSE]]
  IN  CASE p.error -> OnError(a)
        [] ~p.error /\ p.ended -> OnEnded([a1 EXCEPT !.was.playing = FALSE])
        [] OTHER -> IF ~plays THEN a3
                    ELSE IF a3.deadline = "due" THEN FireSleep(a3)
                    ELSE OnTick(a3, p.pos, of)

Still == [src |-> None, ready |-> FALSE, want |-> FALSE, taken |-> FALSE, pos |-> 0,
          buffering |-> FALSE, finished |-> FALSE, ended |-> FALSE, offline |-> FALSE,
          failed |-> FALSE, error |-> FALSE]

Quiet == UNCHANGED <<asked, acts>>

\* One effect at a time; a load first replaces the source, then waits for
\* its seek, which ends once the source is ready or failed.
Execute ==
  /\ app.chain # << >>
  /\ LET f == Head(app.chain)
         done == [app EXCEPT !.chain = Tail(@)] IN
     \/ /\ f.kind = "load"
        /\ app' = [app EXCEPT !.chain[1].kind = "seeking", !.was.loaded = FALSE]
        /\ player' = [Still EXCEPT !.src = f.ep, !.pos = f.pos, !.want = player.want,
                                   !.taken = player.taken, !.offline = player.offline]
     \/ /\ f.kind = "seeking"
        /\ player.ready \/ player.failed
        /\ app' = done
        /\ UNCHANGED player
     \/ /\ f.kind = "seek"
        /\ app' = done
        /\ player' = [player EXCEPT !.pos = f.pos, !.finished = FALSE, !.ended = FALSE]
     \/ /\ f.kind \in {"play", "reassertFocus"}
        /\ app' = [done EXCEPT !.asks.play = TRUE]
        /\ \E refused \in BOOLEAN :
             player' = [player EXCEPT !.want = TRUE, !.taken = @ /\ refused]
     \/ /\ f.kind = "pause"
        /\ app' = [done EXCEPT !.asks.pause = TRUE]
        /\ player' = [player EXCEPT !.want = FALSE]
  /\ Quiet /\ UNCHANGED troubles

Report ==
  /\ app' = Observed(app, player)
  /\ player' = [player EXCEPT !.ended = FALSE, !.error = FALSE]
  /\ Quiet /\ UNCHANGED troubles

-----------------------------------------------------------------------------
(* The library's player (external) *)

Changes(p) == player' = p /\ UNCHANGED <<app, acts>>

\* A load ends: the source is ready, or fails where there is no network.
PlayerSettles ==
  /\ player.src # None /\ ~player.ready /\ ~player.failed
  /\ Changes(IF player.offline THEN [player EXCEPT !.failed = TRUE, !.error = TRUE]
             ELSE [player EXCEPT !.ready = TRUE])
  /\ UNCHANGED <<asked, troubles>>

PlayerMoves ==
  /\ SoundsNow(player) /\ ~player.buffering
  /\ Changes(IF player.pos < End THEN [player EXCEPT !.pos = @ + 1]
             ELSE [player EXCEPT !.finished = TRUE, !.ended = TRUE])
  /\ UNCHANGED <<asked, troubles>>

\* An outage, which fails what plays or loads, a stall, a call or another
\* app that takes the sound.
PlayerTroubled ==
  /\ troubles < MaxTroubles
  /\ troubles' = troubles + 1
  /\ \/ player.src # None /\ ~player.failed
        /\ Changes([player EXCEPT !.failed = TRUE, !.error = TRUE, !.ready = FALSE,
                                  !.offline = TRUE])
     \/ SoundsNow(player) /\ ~player.buffering /\ Changes([player EXCEPT !.buffering = TRUE])
     \/ SoundsNow(player) /\ Changes([player EXCEPT !.taken = TRUE])
  /\ UNCHANGED asked

\* The stall or the outage ends; the sound comes back, or is not wanted any more.
PlayerRecovers ==
  /\ \/ player.buffering /\ Changes([player EXCEPT !.buffering = FALSE])
     \/ player.offline /\ Changes([player EXCEPT !.offline = FALSE])
     \/ player.taken /\ Changes([player EXCEPT !.taken = FALSE])
     \/ player.taken /\ Changes([player EXCEPT !.taken = FALSE, !.want = FALSE])
  /\ UNCHANGED <<asked, troubles>>

\* The lock screen's and the headset's button go to the player itself.
Button ==
  /\ acts < MaxActs /\ acts' = acts + 1
  /\ player.ready /\ ~player.taken /\ ~player.finished
  /\ player' = [player EXCEPT !.want = ~@]
  /\ asked' = (asked \/ ~player.want)
  /\ UNCHANGED <<app, troubles>>

-----------------------------------------------------------------------------
(* The listener, the timers, the system *)

Act(a, sound) ==
  /\ acts < MaxActs /\ acts' = acts + 1
  /\ app' = a
  /\ asked' = (asked \/ sound)
  /\ UNCHANGED <<player, troubles>>

\* An episode is in the queue once at most: what is queued already moves to
\* the end.
Unqueued(q, e) == IF \E i \in DOMAIN q : q[i] = e
                  THEN RemoveAt(q, CHOOSE i \in DOMAIN q : q[i] = e) ELSE q
Enqueued(q, e) == Append(Unqueued(q, e), e)

Listener ==
  \/ \E e \in Episodes \ Gone : Act(Load(app, e, "play"), TRUE)
  \/ Act(OnPlay(app), TRUE)
  \/ Act(OnPause(app), FALSE)
  \/ \E p \in Places : Act(OnSeek(app, p), p = End)
  \/ \E e \in Episodes : \/ Act([app EXCEPT !.queue = Enqueued(@, e)], FALSE)
                        \/ Act([app EXCEPT !.queue = Unqueued(@, e)], FALSE)
  \/ Act([app EXCEPT !.deadline = "set", !.hold = app.eoe], FALSE)
  \/ \E on \in BOOLEAN : Act([app EXCEPT !.eoe = on, !.hold = on], FALSE)
  \/ Act([app EXCEPT !.deadline = "off", !.eoe = FALSE, !.hold = FALSE], FALSE)

TimeOf(a) == app' = a /\ UNCHANGED <<player, asked, acts, troubles>>

\* APP_BACKGROUND
Background == app.st.kind \in Positioned /\ TimeOf(Saved(app, FALSE, FALSE))

\* A timer goes off once.
RetryDue == app.retry /\ TimeOf(OnRetryDue([app EXCEPT !.retry = FALSE]))
WatchExpires == app.watch /\ TimeOf(OnWatchExpired([app EXCEPT !.watch = FALSE]))
DeadlinePasses == app.deadline = "set" /\ TimeOf([app EXCEPT !.deadline = "due"])
SleepTimeout == app.deadline = "due" /\ TimeOf(FireSleep(app))

\* Mutant: the episode that was on goes on playing.
RestoredPlaying(a) ==
  IF a.session = None THEN a ELSE Load(a, a.session, "play")

\* restore: paused, whatever the listener was doing.
Restored(a) ==
  IF a.session = None THEN a ELSE Load(a, a.session, "pause")

\* The app is killed and started again: a passed deadline is dropped, the
\* switch is read before the load clears it.
Restart ==
  /\ troubles < MaxTroubles
  /\ troubles' = troubles + 1
  /\ app' = [Restored(Fresh(app.rows, app.session, app.queue, app.eoe, app.deadline)) EXCEPT
               !.eoe = app.eoe, !.hold = app.eoe, !.deadline = IF @ = "due" THEN "off" ELSE @]
  /\ player' = [Still EXCEPT !.offline = player.offline]
  /\ asked' = FALSE
  /\ UNCHANGED acts

Init ==
  /\ app = Fresh([e \in Episodes |-> None], None, Queued, FALSE, "off")
  /\ player = Still
  /\ asked = FALSE /\ acts = 0 /\ troubles = 0

Next ==
  \/ Execute \/ Report
  \/ PlayerSettles \/ PlayerMoves \/ PlayerTroubled \/ PlayerRecovers
  \/ Button \/ Listener \/ Background
  \/ RetryDue \/ WatchExpires \/ DeadlinePasses \/ SleepTimeout
  \/ Restart

Spec == Init /\ [][Next]_vars

\* The app's event loop, its timers and the library go on; the listener owes
\* nothing, and what took the sound may keep it.
Fairness ==
  /\ WF_vars(Execute) /\ WF_vars(Report)
  /\ WF_vars(PlayerSettles) /\ WF_vars(RetryDue)

FairSpec == Spec /\ Fairness

-----------------------------------------------------------------------------
(* Properties *)

TypeOK == app \in Apps /\ player \in Players /\ asked \in BOOLEAN

\* After a start nothing sounds before the listener asks: restoring the
\* session and the retries it may meet never play (restore loads with
\* intent 'pause').
SilentUntilAsked == ~asked => ~SoundsNow(player)

\* Where a pause or an interruption left the listener is what is stored, so
\* a restart comes back there; a finished episode comes back at its start.
StopIsStored ==
  app.st.kind \in {"paused", "yielded"} =>
    LET row == app.rows[app.st.ep] IN
    IF row = None \/ row.finished THEN app.st.pos \in {0, End} ELSE row.pos = app.st.pos

\* Once the effects have run, the player holds the episode the screen shows:
\* no retry or late load puts another one under it.
HoldsWhatIsShown ==
  app.chain = << >> /\ app.st.ep # None => player.src = app.st.ep

\* While End of episode is on, the end of one episode starts no other; only
\* the listener's own load, a retry or a restart begin to load.
EndOfEpisodeHolds ==
  [][app.eoe /\ app.st.kind \in Sounding /\ app'.st.kind = "loading" =>
       app'.st.ep = app.st.ep \/ acts' # acts \/ troubles' # troubles]_vars

\* A finished episode turns unfinished only by a save marked as the
\* listener's choice of place, else the server would put the end back (M17);
\* an end stored from a report older than a load or a seek is not counted,
\* nor a replay after a failure (Try again marks nothing).
ReplayIsMarked ==
  [][\A e \in Episodes :
       LET row == app.rows[e]  next == app'.rows[e] IN
       row # None /\ row.finished /\ row.of = e /\ ~next.finished =>
         next.seek \/ troubles > 0]_vars

\* A load that is under way ends: the episode plays, or failed, or is paused,
\* however often the source fails meanwhile.
LoadEnds == app.st.kind = "loading" ~> app.st.kind # "loading"

=============================================================================
