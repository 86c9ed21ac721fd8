----------------------------- MODULE PlayerProofs -----------------------------
(***************************************************************************)
(* Safety of the player, for any episodes, queue, length and number of     *)
(* retries, acts and troubles.                                             *)
(***************************************************************************)
EXTENDS Player, SequenceTheorems, WellFoundedInduction, TLAPS

-----------------------------------------------------------------------------
(* Sequences *)

LEMMA HasLeast ==
  ASSUME NEW S \in SUBSET Nat, S # {}
  PROVE  \E n \in S : \A m \in S : n <= m
  <1> DEFINE Before == {p \in Nat \X Nat : p[1] < p[2]}
  <1>1. Before = OpToRel(<, Nat)
    BY Zenon DEF OpToRel
  <1>2. IsWellFoundedOn(Before, Nat)
    BY <1>1, NatLessThanWellFounded, Zenon
  <1> HIDE DEF Before
  <1>3. PICK n \in S : \A m \in S : <<m, n>> \notin Before
    BY <1>2, WFMin
  <1>4. \A m \in S : ~ (m < n)
    BY <1>3 DEF Before
  <1> QED BY <1>4

LEMMA Rest ==
  ASSUME NEW S, NEW s \in Seq(S), NEW i \in 1..Len(s)
  PROVE  SubSeq(s, i + 1, Len(s)) \in Seq(S)
  <1>1. \A j \in (i + 1)..Len(s) : s[j] \in S
    BY ElementOfSeq
  <1> QED BY <1>1, SubSeqProperties

LEMMA UnqueuedType ==
  ASSUME NEW q \in Seq(Episodes), NEW e
  PROVE  Unqueued(q, e) \in Seq(Episodes)
  <1>1. CASE \E i \in DOMAIN q : q[i] = e
    <2> DEFINE k == CHOOSE i \in DOMAIN q : q[i] = e
    <2>1. k \in 1..Len(q)
      BY <1>1
    <2> HIDE DEF k
    <2>2. SubSeq(q, 1, k - 1) \in Seq(Episodes)
      <3>1. \A j \in 1..(k - 1) : q[j] \in Episodes
        BY <2>1, ElementOfSeq
      <3> QED BY <2>1, <3>1, SubSeqProperties
    <2>3. SubSeq(q, k + 1, Len(q)) \in Seq(Episodes)
      BY <2>1, Rest
    <2>4. Unqueued(q, e) = SubSeq(q, 1, k - 1) \o SubSeq(q, k + 1, Len(q))
      BY <1>1 DEF Unqueued, RemoveAt, k
    <2> QED BY <2>2, <2>3, <2>4, ConcatProperties
  <1>2. CASE ~ \E i \in DOMAIN q : q[i] = e
    BY <1>2 DEF Unqueued
  <1> QED BY <1>1, <1>2

-----------------------------------------------------------------------------
(* The effects still to run *)

\* The last load still to run is of the episode that is shown, or no load
\* is and the player holds it.
ShownBy(c, ep, src) ==
  ep # None =>
    \/ /\ src = ep
       /\ \A i \in DOMAIN c : c[i].kind # "load"
    \/ \E i \in DOMAIN c :
         /\ c[i].kind = "load" /\ c[i].ep = ep
         /\ \A j \in DOMAIN c : j > i => c[j].kind # "load"

Soundless(c) == \A i \in DOMAIN c : c[i].kind \notin {"play", "reassertFocus"}

LEMMA Appended ==
  ASSUME NEW c \in Seq(Effects), NEW f \in Effects, NEW src, NEW ep
  PROVE  /\ Append(c, f) \in Seq(Effects)
         /\ c \o <<f>> = Append(c, f)
         /\ f.kind = "load" => ShownBy(Append(c, f), f.ep, src)
         /\ f.kind # "load" /\ ShownBy(c, ep, src) => ShownBy(Append(c, f), ep, src)
         /\ f.kind \notin {"play", "reassertFocus"} /\ Soundless(c) =>
              Soundless(Append(c, f))
  <1> DEFINE d == Append(c, f)
  <1>1. /\ d \in Seq(Effects) /\ Len(d) = Len(c) + 1
        /\ \A i \in 1..Len(c) : d[i] = c[i]
        /\ d[Len(c) + 1] = f
    BY AppendProperties
  <1>2. DOMAIN c = 1..Len(c) /\ DOMAIN d = 1..(Len(c) + 1) /\ Len(c) \in Nat
    BY <1>1, LenProperties
  <1> HIDE DEF d
  <1>3. f.kind = "load" => ShownBy(d, f.ep, src)
    BY <1>1, <1>2 DEF ShownBy
  <1>4. f.kind # "load" /\ ShownBy(c, ep, src) => ShownBy(d, ep, src)
    BY <1>1, <1>2 DEF ShownBy
  <1>5. f.kind \notin {"play", "reassertFocus"} /\ Soundless(c) => Soundless(d)
    BY <1>1, <1>2 DEF Soundless
  <1>6. c \o <<f>> = d
    BY AppendIsConcat DEF d
  <1> QED BY <1>1, <1>3, <1>4, <1>5, <1>6 DEF d

LEMMA AppendedTwo ==
  ASSUME NEW c \in Seq(Effects), NEW f \in Effects, NEW g \in Effects
  PROVE  c \o <<f, g>> = Append(Append(c, f), g)
  <1>1. <<f, g>> = <<f>> \o <<g>> /\ <<f>> \in Seq(Effects) /\ <<g>> \in Seq(Effects)
    <2>1. <<f>> \in Seq(Effects) /\ <<g>> \in Seq(Effects)
      OBVIOUS
    <2>2. <<f>> \o <<g>> = Append(<<f>>, g)
      BY <2>1, AppendIsConcat
    <2>3. /\ Append(<<f>>, g) \in Seq(Effects) /\ Len(Append(<<f>>, g)) = 2
          /\ Append(<<f>>, g)[1] = f /\ Append(<<f>>, g)[2] = g
      BY <2>1, AppendProperties
    <2>4. <<f, g>> \in Seq(Effects) /\ Len(<<f, g>>) = 2
      OBVIOUS
    <2>5. \A i \in 1..2 : Append(<<f>>, g)[i] = <<f, g>>[i]
      BY <2>3
    <2>6. Append(<<f>>, g) = <<f, g>>
      BY <2>3, <2>4, <2>5, SeqEqual
    <2> QED BY <2>1, <2>2, <2>6
  <1>2. (c \o <<f>>) \o <<g>> = c \o (<<f>> \o <<g>>)
    BY <1>1, ConcatAssociative
  <1>3. c \o <<f>> = Append(c, f) /\ Append(c, f) \in Seq(Effects)
    BY AppendIsConcat, AppendProperties
  <1>4. Append(c, f) \o <<g>> = Append(Append(c, f), g)
    BY <1>3, AppendIsConcat
  <1> QED BY <1>1, <1>2, <1>3, <1>4

LEMMA EffectsOfThePlayer ==
  /\ {Play, Pause, Reassert} \subseteq Effects
  /\ \A p \in Places : Seek(p) \in Effects
  /\ \A e \in Episodes, p \in Places : [kind |-> "load", ep |-> e, pos |-> p] \in Effects
  BY DEF Play, Pause, Reassert, Seek, Effects, Places

-----------------------------------------------------------------------------
(* What holds of the app between its steps *)

\* Where a row and a place agree: a restart comes back to the place.
Kept(row, p) ==
  IF row = None \/ row.finished THEN p \in {0, End} ELSE row.pos = p

\* A state that rests, or loads in order to rest, stands where its row says.
Stored(a) ==
  \/ a.st.kind \in {"paused", "yielded"}
  \/ a.st.kind = "loading" /\ a.st.intent = "pause"
  => Kept(a.rows[a.st.ep], a.st.pos)

Sane(a) ==
  /\ a \in Apps
  /\ a.st.kind \notin {"idle", "error"} => a.st.ep \in Episodes
  /\ a.st.kind \in Sounding => a.st.intent = "play"
  /\ a.eoe => a.hold

\* Nothing is about to sound.
Mute(a) ==
  /\ a.st.kind \notin Sounding
  /\ a.st.kind = "loading" => a.st.intent = "pause"
  /\ ~a.retry
  /\ Soundless(a.chain)

Fit(a, src, heard) ==
  /\ Sane(a)
  /\ ShownBy(a.chain, a.st.ep, src)
  /\ heard \/ Mute(a)

Good(a, src, heard) == Fit(a, src, heard) /\ Stored(a)

LEMMA SavedKeeps ==
  ASSUME NEW a, NEW src, NEW heard \in BOOLEAN, NEW reached \in BOOLEAN,
         NEW explicit \in BOOLEAN, Fit(a, src, heard), a.st.kind \in Positioned,
         reached => a.st.pos = End \/ a.st.kind \in Sounding
  PROVE  LET b == Saved(a, reached, explicit) IN
         /\ Good(b, src, heard)
         /\ b.st = a.st /\ b.eoe = a.eoe /\ b.hold = a.hold
         /\ (reached => a.st.pos = End) => Kept(b.rows[b.st.ep], b.st.pos)
  <1> DEFINE b == Saved(a, reached, explicit)
             fin == reached \/ a.st.pos = End
             r == [pos |-> a.st.pos, finished |-> fin, of |-> a.st.of,
                   seek |-> explicit \/ (a.restarted = a.st.ep /\ ~fin)]
  <1>1. a \in Apps /\ a.st \in States /\ a.st.ep \in Episodes
    BY DEF Good, Fit, Sane, Positioned, Apps
  <1>2. r \in Rows
    BY <1>1 DEF Rows, States
  <1>3. b = [a EXCEPT !.rows[a.st.ep] = r,
                      !.restarted = IF a.restarted = a.st.ep THEN None ELSE @]
    BY DEF Saved
  <1> HIDE DEF b, r
  <1>4. b \in Apps
    BY <1>1, <1>2, <1>3 DEF Apps
  <1>5. /\ b.st = a.st /\ b.eoe = a.eoe /\ b.hold = a.hold
        /\ b.chain = a.chain /\ b.retry = a.retry
        /\ b.rows[a.st.ep] = r
    BY <1>1, <1>3 DEF Apps
  <1>6. (reached => a.st.pos = End) => Kept(r, a.st.pos)
    <2> SUFFICES ASSUME reached => a.st.pos = End PROVE Kept(r, a.st.pos)
      OBVIOUS
    <2>1. r.pos = a.st.pos /\ (r.finished <=> fin)
      BY Zenon DEF r
    <2>2. fin => a.st.pos = End
      OBVIOUS
    <2> HIDE DEF fin
    <2> QED BY <1>2, <2>1, <2>2, NoneIsNoRow DEF Kept
  <1>7. Sane(b) /\ Stored(b)
    BY <1>4, <1>5, <1>6 DEF Good, Fit, Sane, Stored, Positioned, Sounding
  <1>8. ShownBy(b.chain, b.st.ep, src) /\ (heard \/ Mute(b))
    BY <1>5 DEF Fit, Mute
  <1> QED BY <1>5, <1>6, <1>7, <1>8 DEF Good, Fit, b

-----------------------------------------------------------------------------
(* Loads and the queue *)

LEMMA StartIsAPlace ==
  ASSUME NEW a \in Apps, NEW ep \in Episodes
  PROVE  StartOf(a, ep) \in Places /\ Kept(a.rows[ep], StartOf(a, ep))
  <1>1. a.rows[ep] \in Rows \cup {None} /\ 0 \in Places
    BY PlayerConstants DEF Apps, Places
  <1> QED BY <1>1 DEF StartOf, Kept, Rows

LEMMA LoadingKeeps ==
  ASSUME NEW a, NEW src, NEW heard \in BOOLEAN, a \in Apps, a.eoe => a.hold,
         heard \/ Mute(a), NEW ep \in Episodes, NEW p \in Places, NEW intent \in {"play", "pause"},
         intent = "pause" => Kept(a.rows[ep], p),
         heard \/ intent = "pause"
  PROVE  LET b == Loading(a, ep, p, intent) IN
         /\ Good(b, src, heard)
         /\ b.st.kind = "loading" /\ b.st.ep = ep /\ b.eoe = a.eoe
  <1> DEFINE f == [kind |-> "load", ep |-> ep, pos |-> p]
             s == [kind |-> "loading", ep |-> ep, pos |-> p,
                   intent |-> intent, last |-> 0, of |-> ep]
             b == [a EXCEPT !.st = s, !.retries = 0, !.chain = Append(@, f)]
  <1>1. Loading(a, ep, p, intent) = b
    BY DEF Loading
  <1>2. a \in Apps /\ a.chain \in Seq(Effects) /\ f \in Effects
    BY EffectsOfThePlayer DEF Sane, Apps
  <1>3. s \in States
    BY PlayerConstants DEF States, Places
  <1>4. Append(a.chain, f) \in Seq(Effects) /\ ShownBy(Append(a.chain, f), ep, src)
    BY <1>2, Appended
  <1>5. Mute(a) => Soundless(Append(a.chain, f))
    BY <1>2, Appended DEF Mute
  <1> DEFINE c == Append(a.chain, f)
  <1>6. c \in Seq(Effects)
    BY <1>4
  <1>7. b = [a EXCEPT !.st = s, !.retries = 0, !.chain = c]
    OBVIOUS
  <1>8. s.kind = "loading" /\ s.ep = ep /\ s.pos = p /\ s.intent = intent
    OBVIOUS
  <1> HIDE DEF b, c, s, f
  <1>9. /\ b \in Apps
        /\ b.st = s /\ b.chain = c /\ b.rows = a.rows /\ b.retry = a.retry
        /\ b.eoe = a.eoe /\ b.hold = a.hold
    <2>1. 0 \in 0..MaxRetries
      BY PlayerConstants
    <2>2. b \in Apps
      BY <1>2, <1>3, <1>6, <1>7, <2>1 DEF Apps
    <2>3. /\ b.st = s /\ b.chain = c /\ b.rows = a.rows /\ b.retry = a.retry
          /\ b.eoe = a.eoe /\ b.hold = a.hold
      BY <1>2, <1>7 DEF Apps
    <2> QED BY <2>2, <2>3
  <1>10. Sane(b) /\ Stored(b)
    BY <1>8, <1>9 DEF Sane, Stored, Sounding
  <1>11. ShownBy(b.chain, b.st.ep, src)
    BY <1>4, <1>8, <1>9 DEF c
  <1>12. heard \/ Mute(b)
    BY <1>5, <1>8, <1>9 DEF Mute, c, Sounding
  <1> QED BY <1>1, <1>8, <1>9, <1>10, <1>11, <1>12 DEF Good, Fit, Sane

LEMMA LoadKeeps ==
  ASSUME NEW a, NEW src, NEW heard \in BOOLEAN, a \in Apps, heard \/ Mute(a),
         NEW ep \in Episodes, NEW intent \in {"play", "pause"},
         heard \/ intent = "pause"
  PROVE  Good(Load(a, ep, intent), src, heard)
  <1> DEFINE cleared == IF a.eoe THEN [a EXCEPT !.eoe = FALSE, !.hold = FALSE] ELSE a
             again == a.rows[ep] # None /\ a.rows[ep].finished
             l == Loading(cleared, ep, StartOf(a, ep), intent)
             x == IF again THEN ep ELSE None
             b == [l EXCEPT !.restarted = x, !.session = ep]
  <1>1. Load(a, ep, intent) = b
    BY DEF Load
  <1>2. /\ cleared \in Apps /\ (cleared.eoe => cleared.hold) /\ (heard \/ Mute(cleared)) /\ cleared.rows = a.rows
    <2> DEFINE c == [a EXCEPT !.eoe = FALSE, !.hold = FALSE]
    <2>1. c \in Apps
      BY DEF Sane, Apps
    <2>2. /\ c.st = a.st /\ c.rows = a.rows /\ c.chain = a.chain /\ c.retry = a.retry
          /\ c.eoe = FALSE
      BY DEF Sane, Apps
    <2>3. cleared = IF a.eoe THEN c ELSE a
      OBVIOUS
    <2> HIDE DEF c, cleared
    <2> QED BY <2>1, <2>2, <2>3 DEF Sane, Stored, Mute
  <1>3. StartOf(a, ep) \in Places /\ Kept(a.rows[ep], StartOf(a, ep))
    BY StartIsAPlace DEF Sane
  <1> HIDE DEF cleared
  <1>4. Good(l, src, heard)
    BY <1>2, <1>3, LoadingKeeps
  <1>5. x \in Episodes \cup {None}
    OBVIOUS
  <1> HIDE DEF l, x
  <1>6. /\ b \in Apps /\ b.st = l.st /\ b.rows = l.rows /\ b.chain = l.chain
        /\ b.eoe = l.eoe /\ b.hold = l.hold /\ b.retry = l.retry
    BY <1>4, <1>5 DEF Good, Fit, Sane, Apps
  <1>7. Good(b, src, heard)
    BY <1>4, <1>6 DEF Good, Fit, Sane, Stored, Mute
  <1> QED BY <1>1, <1>7

\* Nothing is loaded while the end of the episode holds the queue.
LEMMA AdvancedKeeps ==
  ASSUME NEW a, NEW src, NEW heard \in BOOLEAN, Good(a, src, heard), heard
  PROVE  /\ Good(Advanced(a), src, heard)
         /\ a.hold => Advanced(a).st = a.st
  <1> DEFINE ready == {i \in DOMAIN a.queue : a.queue[i] \notin Gone}
             first == CHOOSE i \in ready : \A j \in ready : i <= j
  <1>1. CASE a.hold /\ a.eoe
    <2> DEFINE b == [a EXCEPT !.hold = FALSE, !.eoe = FALSE, !.deadline = "off"]
    <2>1. Advanced(a) = b
      BY <1>1 DEF Advanced
    <2>2. Good(b, src, heard) /\ b.st = a.st
      BY DEF Good, Fit, Sane, Apps, Stored, Mute
    <2> QED BY <2>1, <2>2
  <1>2. CASE a.hold /\ ~a.eoe
    <2> DEFINE b == [a EXCEPT !.hold = FALSE]
    <2>1. Advanced(a) = b
      BY <1>2 DEF Advanced
    <2>2. b \in Apps
      BY DEF Good, Fit, Sane, Apps
    <2>3. /\ b.st = a.st /\ b.rows = a.rows /\ b.chain = a.chain /\ b.retry = a.retry
          /\ b.eoe = FALSE
      BY <1>2 DEF Good, Fit, Sane, Apps
    <2> HIDE DEF b
    <2>4. Good(b, src, heard)
      BY <2>2, <2>3 DEF Good, Fit, Sane, Stored, Mute
    <2> QED BY <2>1, <2>3, <2>4
  <1>3. CASE ~a.hold /\ ready = {}
    <2> DEFINE none == << >>
               b == [a EXCEPT !.queue = none]
    <2>1. Advanced(a) = b
      BY <1>3 DEF Advanced
    <2>2. b \in Apps
      <3>1. none \in Seq(Episodes)
        OBVIOUS
      <3> HIDE DEF none
      <3> QED BY <3>1 DEF Good, Fit, Sane, Apps
    <2>3. /\ b.st = a.st /\ b.rows = a.rows /\ b.chain = a.chain /\ b.retry = a.retry
          /\ b.eoe = a.eoe /\ b.hold = a.hold
      BY DEF Good, Fit, Sane, Apps
    <2> HIDE DEF b
    <2>4. Good(b, src, heard)
      BY <2>2, <2>3 DEF Good, Fit, Sane, Stored, Mute
    <2> QED BY <1>3, <2>1, <2>4
  <1>4. CASE ~a.hold /\ ready # {}
    <2>1. a.queue \in Seq(Episodes)
      BY DEF Good, Fit, Sane, Apps
    <2>2. ready \in SUBSET Nat /\ ready \subseteq 1..Len(a.queue)
      BY <2>1, LenProperties
    <2>3. first \in ready
      BY <1>4, <2>2, HasLeast
    <2>4. Advanced(a) = Load([a EXCEPT !.queue = SubSeq(@, first + 1, Len(@))],
                             a.queue[first], "play")
      BY <1>4 DEF Advanced
    <2> HIDE DEF first
    <2> DEFINE q == SubSeq(a.queue, first + 1, Len(a.queue))
               b == [a EXCEPT !.queue = q]
    <2>5. q \in Seq(Episodes) /\ a.queue[first] \in Episodes
      BY <2>1, <2>2, <2>3, Rest, ElementOfSeq
    <2> HIDE DEF q
    <2>6. b \in Apps
      BY <2>5 DEF Good, Fit, Sane, Apps
    <2>7. Good(Load(b, a.queue[first], "play"), src, heard)
      BY <2>5, <2>6, LoadKeeps
    <2> QED BY <1>4, <2>4, <2>7 DEF q
  <1> QED BY <1>1, <1>2, <1>3, <1>4 DEF Good, Fit, Sane, Apps

-----------------------------------------------------------------------------
(* What the reducer's cases are made of *)

\* b differs from a in what no invariant reads, or in its state alone.
Beside(b, a) ==
  /\ b \in Apps
  /\ b.rows = a.rows /\ b.chain = a.chain /\ b.retry = a.retry
  /\ b.eoe = a.eoe /\ b.hold = a.hold

Kinds == {"idle", "loading", "playing", "buffering", "paused", "yielded", "ended", "error"}

LEMMA StateChanges ==
  ASSUME NEW a \in Apps, NEW s \in States
  PROVE  Beside([a EXCEPT !.st = s], a) /\ [a EXCEPT !.st = s].st = s
  <1> DEFINE b == [a EXCEPT !.st = s]
  <1>1. b \in Apps
    BY DEF Apps
  <1>2. /\ b.rows = a.rows /\ b.chain = a.chain /\ b.retry = a.retry
        /\ b.eoe = a.eoe /\ b.hold = a.hold /\ b.st = s
    BY DEF Apps
  <1> QED BY <1>1, <1>2 DEF Beside

LEMMA ToChanges ==
  ASSUME NEW a \in Apps, NEW kind \in Kinds
  PROVE  LET b == To(a, kind) IN
         /\ Beside(b, a)
         /\ b.st.kind = kind /\ b.st.ep = a.st.ep
         /\ b.st.pos = a.st.pos /\ b.st.intent = a.st.intent
  <1> DEFINE s == [a.st EXCEPT !.kind = kind, !.last = IF kind \in Sounding THEN @ ELSE 0]
  <1>1. a.st \in States /\ 0 \in Places
    BY PlayerConstants DEF Apps, Places
  <1>2. s \in States
    BY <1>1 DEF States, Kinds
  <1>3. s.kind = kind /\ s.ep = a.st.ep /\ s.pos = a.st.pos /\ s.intent = a.st.intent
    BY <1>1 DEF States
  <1>4. To(a, kind) = [a EXCEPT !.st = s]
    BY DEF To, Apps
  <1> HIDE DEF s
  <1> QED BY <1>2, <1>3, <1>4, StateChanges

LEMMA AtChanges ==
  ASSUME NEW a \in Apps, NEW p \in Places, NEW of \in Episodes \cup {None}
  PROVE  LET b == At(a, p, of) IN
         /\ Beside(b, a)
         /\ b.st.pos = p /\ b.st.kind = a.st.kind
         /\ b.st.ep = a.st.ep /\ b.st.intent = a.st.intent
  <1> DEFINE s == [a.st EXCEPT !.pos = p, !.of = of,
                               !.last = IF a.st.kind \in Sounding THEN p ELSE 0]
  <1>1. a.st \in States /\ 0 \in Places
    BY PlayerConstants DEF Apps, Places
  <1>2. s \in States
    BY <1>1 DEF States
  <1>3. s.kind = a.st.kind /\ s.ep = a.st.ep /\ s.pos = p /\ s.intent = a.st.intent
    BY <1>1 DEF States
  <1>4. At(a, p, of) = [a EXCEPT !.st = s]
    BY DEF At, Apps
  <1> HIDE DEF s
  <1> QED BY <1>2, <1>3, <1>4, StateChanges

LEMMA PlayingChanges ==
  ASSUME NEW a \in Apps
  PROVE  LET b == Playing(a) IN
         /\ Beside(b, a)
         /\ b.st.kind = "playing" /\ b.st.ep = a.st.ep /\ b.st.intent = "play"
  <1> DEFINE s == [a.st EXCEPT !.kind = "playing", !.intent = "play", !.last = a.st.pos]
  <1>1. a.st \in States
    BY DEF Apps
  <1>2. s \in States
    BY <1>1 DEF States
  <1>3. s.kind = "playing" /\ s.ep = a.st.ep /\ s.intent = "play"
    BY <1>1 DEF States
  <1>4. Playing(a) = [a EXCEPT !.st = s]
    BY DEF Playing, Apps
  <1> HIDE DEF s
  <1> QED BY <1>2, <1>3, <1>4, StateChanges

\* An effect that is no load: what is shown stays.
LEMMA EmitKeeps ==
  ASSUME NEW a, NEW src, NEW heard \in BOOLEAN, Good(a, src, heard),
         NEW f \in Effects, f.kind # "load",
         heard \/ f.kind \notin {"play", "reassertFocus"}
  PROVE  LET b == Emit(a, <<f>>) IN
         /\ Good(b, src, heard)
         /\ b.st = a.st /\ b.eoe = a.eoe /\ b.hold = a.hold
  <1> DEFINE c == Append(a.chain, f)
             b == [a EXCEPT !.chain = c]
  <1>1. a \in Apps /\ a.chain \in Seq(Effects)
    BY DEF Good, Fit, Sane, Apps
  <1>2. /\ c \in Seq(Effects) /\ a.chain \o <<f>> = c
        /\ ShownBy(a.chain, a.st.ep, src) => ShownBy(c, a.st.ep, src)
        /\ heard \/ (Soundless(a.chain) => Soundless(c))
    BY <1>1, Appended
  <1>3. Emit(a, <<f>>) = b
    BY <1>1, <1>2 DEF Emit, Apps
  <1> HIDE DEF c
  <1>4. b \in Apps
    BY <1>1, <1>2 DEF Apps
  <1>5. /\ b.st = a.st /\ b.rows = a.rows /\ b.chain = c /\ b.retry = a.retry
        /\ b.eoe = a.eoe /\ b.hold = a.hold
    BY <1>1 DEF Apps
  <1> HIDE DEF b
  <1>6. Good(b, src, heard)
    BY <1>2, <1>4, <1>5 DEF Good, Fit, Sane, Stored, Mute
  <1> QED BY <1>3, <1>5, <1>6

LEMMA EmitTwoKeeps ==
  ASSUME NEW a, NEW src, Good(a, src, TRUE), NEW f \in Effects, NEW g \in Effects,
         f.kind = "load" => f.ep = a.st.ep, g.kind # "load"
  PROVE  LET b == Emit(a, <<f, g>>) IN Good(b, src, TRUE) /\ b.st = a.st
  <1> DEFINE d == Append(a.chain, f)
             c == Append(d, g)
             b == [a EXCEPT !.chain = c]
  <1>1. a \in Apps /\ a.chain \in Seq(Effects)
    BY DEF Good, Fit, Sane, Apps
  <1>2. d \in Seq(Effects) /\ ShownBy(d, a.st.ep, src)
    <2>1. CASE f.kind = "load"
      BY <1>1, <2>1, Appended
    <2>2. CASE f.kind # "load"
      BY <1>1, <2>2, Appended DEF Good, Fit
    <2> QED BY <2>1, <2>2
  <1>3. a.chain \o <<f, g>> = c
    BY <1>1, AppendedTwo
  <1> HIDE DEF d
  <1>4. c \in Seq(Effects) /\ ShownBy(c, a.st.ep, src)
    BY <1>2, Appended
  <1>5. Emit(a, <<f, g>>) = b
    BY <1>1, <1>3 DEF Emit, Apps
  <1> HIDE DEF c
  <1>6. b \in Apps
    BY <1>1, <1>4 DEF Apps
  <1>7. /\ b.st = a.st /\ b.rows = a.rows /\ b.chain = c /\ b.retry = a.retry
        /\ b.eoe = a.eoe /\ b.hold = a.hold
    BY <1>1 DEF Apps
  <1> HIDE DEF b
  <1>8. Good(b, src, TRUE)
    BY <1>4, <1>6, <1>7 DEF Good, Fit, Sane, Stored
  <1> QED BY <1>5, <1>7, <1>8

LEMMA BesideKeeps ==
  ASSUME NEW a, NEW b, NEW src, NEW heard \in BOOLEAN, Good(a, src, heard),
         Beside(b, a), b.st = a.st
  PROVE  Good(b, src, heard)
  BY DEF Good, Fit, Sane, Stored, Mute, Beside

-----------------------------------------------------------------------------
(* The events *)

\* An event that loads no other episode and leaves the switches alone.
Stays(b, a, src, heard) ==
  /\ Good(b, src, heard)
  /\ b.st.ep = a.st.ep /\ b.eoe = a.eoe /\ b.hold = a.hold

LEMMA RetriesReset ==
  ASSUME NEW a \in Apps
  PROVE  LET b == [a EXCEPT !.retries = 0] IN Beside(b, a) /\ b.st = a.st
  <1> DEFINE b == [a EXCEPT !.retries = 0]
  <1>1. 0 \in 0..MaxRetries
    BY PlayerConstants
  <1>2. b \in Apps
    BY <1>1 DEF Apps
  <1>3. /\ b.rows = a.rows /\ b.chain = a.chain /\ b.retry = a.retry
        /\ b.eoe = a.eoe /\ b.hold = a.hold /\ b.st = a.st
    BY DEF Apps
  <1> QED BY <1>2, <1>3 DEF Beside

LEMMA SessionSet ==
  ASSUME NEW a \in Apps, NEW e \in Episodes \cup {None}
  PROVE  LET b == [a EXCEPT !.session = e] IN Beside(b, a) /\ b.st = a.st
  <1> DEFINE b == [a EXCEPT !.session = e]
  <1>1. b \in Apps
    BY DEF Apps
  <1>2. /\ b.rows = a.rows /\ b.chain = a.chain /\ b.retry = a.retry
        /\ b.eoe = a.eoe /\ b.hold = a.hold /\ b.st = a.st
    BY DEF Apps
  <1> QED BY <1>1, <1>2 DEF Beside

LEMMA LoadedKeeps ==
  ASSUME NEW a, NEW src, NEW heard \in BOOLEAN, Good(a, src, heard)
  PROVE  Stays(OnLoaded(a), a, src, heard)
  <1>0. a \in Apps
    BY DEF Good, Fit, Sane
  <1>1. CASE a.st.kind # "loading"
    BY <1>1 DEF OnLoaded, Stays
  <1>2. CASE a.st.kind = "loading" /\ a.st.intent = "pause"
    <2> DEFINE c == To(a, "paused")
               b == [c EXCEPT !.retries = 0]
    <2>1. OnLoaded(a) = b
      BY <1>2 DEF OnLoaded
    <2>2. /\ Beside(c, a) /\ c.st.kind = "paused" /\ c.st.ep = a.st.ep
          /\ c.st.pos = a.st.pos
      BY <1>0, ToChanges DEF Kinds
    <2> HIDE DEF c
    <2>3. Good(c, src, heard)
      BY <1>2, <2>2 DEF Good, Fit, Sane, Stored, Mute, Beside, Sounding
    <2>4. Beside(b, c) /\ b.st = c.st
      BY <2>2, RetriesReset DEF Beside
    <2> HIDE DEF b
    <2> QED BY <2>1, <2>2, <2>3, <2>4, BesideKeeps DEF Stays, Beside
  <1>3. CASE a.st.kind = "loading" /\ a.st.intent # "pause"
    <2> DEFINE c == Playing(a)
               d == [c EXCEPT !.retries = 0]
    <2>1. OnLoaded(a) = Emit(d, <<Play>>)
      BY <1>3 DEF OnLoaded
    <2>2. heard
      BY <1>3 DEF Good, Fit, Mute
    <2>3. Beside(c, a) /\ c.st.kind = "playing" /\ c.st.ep = a.st.ep /\ c.st.intent = "play"
      BY <1>0, PlayingChanges
    <2> HIDE DEF c
    <2>4. Good(c, src, heard)
      BY <1>3, <2>2, <2>3 DEF Good, Fit, Sane, Stored, Beside, Sounding
    <2>5. Beside(d, c) /\ d.st = c.st
      BY <2>3, RetriesReset DEF Beside
    <2> HIDE DEF d
    <2>6. Good(d, src, heard)
      BY <2>4, <2>5, BesideKeeps
    <2>7. Play \in Effects /\ Play.kind # "load"
      BY EffectsOfThePlayer DEF Play
    <2>8. /\ Good(Emit(d, <<Play>>), src, heard) /\ Emit(d, <<Play>>).st = d.st
          /\ Emit(d, <<Play>>).eoe = d.eoe /\ Emit(d, <<Play>>).hold = d.hold
      BY <2>2, <2>6, <2>7, EmitKeeps
    <2> QED BY <2>1, <2>3, <2>5, <2>8 DEF Stays, Beside
  <1> QED BY <1>1, <1>2, <1>3

\* A retry loads what is shown.
LEMMA RetryKeeps ==
  ASSUME NEW a, NEW src, Good(a, src, TRUE)
  PROVE  Good(OnRetryDue(a), src, TRUE) /\ OnRetryDue(a).st = a.st
  <1>1. CASE a.st.kind # "loading"
    BY <1>1 DEF OnRetryDue
  <1>2. CASE a.st.kind = "loading"
    <2> DEFINE f == [kind |-> "load", ep |-> a.st.ep, pos |-> a.st.pos]
    <2>1. OnRetryDue(a) = Emit(a, <<f, Play>>)
      BY <1>2 DEF OnRetryDue
    <2>2. a.st.ep \in Episodes /\ a.st.pos \in Places
      BY <1>2 DEF Good, Fit, Sane, Apps, States
    <2>3. f \in Effects /\ f.ep = a.st.ep
      BY <2>2, EffectsOfThePlayer
    <2>4. Play \in Effects /\ Play.kind # "load"
      BY EffectsOfThePlayer DEF Play
    <2> HIDE DEF f
    <2> QED BY <2>1, <2>3, <2>4, EmitTwoKeeps
  <1> QED BY <1>1, <1>2

LEMMA PlayKeeps ==
  ASSUME NEW a, NEW src, Good(a, src, TRUE)
  PROVE  Good(OnPlay(a), src, TRUE)
  <1>0. a \in Apps /\ a.st \in States
    BY DEF Good, Fit, Sane, Apps
  <1>1. CASE a.st.kind = "ended"
    <2> DEFINE z == At(a, 0, a.st.ep)
               c == Playing(z)
               d == [c EXCEPT !.retries = 0, !.restarted = a.st.ep, !.session = a.st.ep]
    <2>1. OnPlay(a) = Emit(d, <<Seek(0), Play>>)
      BY <1>1 DEF OnPlay
    <2>2. 0 \in Places /\ a.st.ep \in Episodes
      BY <1>1, PlayerConstants DEF Places, Good, Fit, Sane
    <2>3. Beside(z, a) /\ z.st.ep = a.st.ep
      BY <1>0, <2>2, AtChanges
    <2> HIDE DEF z
    <2>4. Beside(c, z) /\ c.st.kind = "playing" /\ c.st.ep = a.st.ep /\ c.st.intent = "play"
      BY <2>3, PlayingChanges DEF Beside
    <2> HIDE DEF c
    <2>5. d \in Apps
      <3>1. 0 \in 0..MaxRetries /\ c \in Apps
        BY <2>4, PlayerConstants DEF Beside
      <3> QED BY <2>2, <3>1 DEF Apps
    <2>6. /\ d.rows = c.rows /\ d.chain = c.chain /\ d.retry = c.retry
          /\ d.eoe = c.eoe /\ d.hold = c.hold /\ d.st = c.st
      BY <2>4 DEF Beside, Apps
    <2> HIDE DEF d
    <2>7. Good(d, src, TRUE)
      BY <2>2, <2>3, <2>4, <2>5, <2>6 DEF Good, Fit, Sane, Stored, Beside, Sounding
    <2>8. /\ Seek(0) \in Effects /\ Play \in Effects
          /\ Seek(0).kind # "load" /\ Play.kind # "load"
      BY <2>2, EffectsOfThePlayer DEF Play, Seek
    <2> QED BY <2>1, <2>7, <2>8, EmitTwoKeeps
  <1>2. CASE a.st.kind \in {"paused", "yielded"}
    <2> DEFINE c == Playing(a)
               d == [c EXCEPT !.retries = 0, !.session = a.st.ep]
    <2>1. OnPlay(a) = Emit(d, <<Play>>)
      BY <1>2 DEF OnPlay
    <2>2. a.st.ep \in Episodes
      BY <1>2 DEF Good, Fit, Sane
    <2>3. Beside(c, a) /\ c.st.kind = "playing" /\ c.st.ep = a.st.ep /\ c.st.intent = "play"
      BY <1>0, PlayingChanges
    <2> HIDE DEF c
    <2>4. d \in Apps
      <3>1. 0 \in 0..MaxRetries /\ c \in Apps
        BY <2>3, PlayerConstants DEF Beside
      <3> QED BY <2>2, <3>1 DEF Apps
    <2>5. /\ d.rows = c.rows /\ d.chain = c.chain /\ d.retry = c.retry
          /\ d.eoe = c.eoe /\ d.hold = c.hold /\ d.st = c.st
      BY <2>3 DEF Beside, Apps
    <2> HIDE DEF d
    <2>6. Good(d, src, TRUE)
      BY <2>2, <2>3, <2>4, <2>5 DEF Good, Fit, Sane, Stored, Beside, Sounding
    <2>7. Play \in Effects /\ Play.kind # "load"
      BY EffectsOfThePlayer DEF Play
    <2> QED BY <2>1, <2>6, <2>7, EmitKeeps
  <1>3. CASE a.st.kind = "error" /\ a.st.ep # None
    <2> DEFINE c == Loading(a, a.st.ep, a.st.pos, "play")
               d == [c EXCEPT !.session = a.st.ep]
    <2>1. OnPlay(a) = Emit(d, <<Play>>)
      BY <1>3 DEF OnPlay
    <2>2. a.st.ep \in Episodes /\ a.st.pos \in Places
      BY <1>0, <1>3 DEF States
    <2>3. Good(c, src, TRUE)
      <3>1. a.eoe => a.hold
        BY DEF Good, Fit, Sane
      <3> QED BY <1>0, <2>2, <3>1, LoadingKeeps
    <2> HIDE DEF c
    <2>4. Beside(d, c) /\ d.st = c.st
      BY <2>2, <2>3, SessionSet DEF Good, Fit, Sane
    <2> HIDE DEF d
    <2>5. Good(d, src, TRUE)
      BY <2>3, <2>4, BesideKeeps
    <2>6. Play \in Effects /\ Play.kind # "load"
      BY EffectsOfThePlayer DEF Play
    <2> QED BY <2>1, <2>5, <2>6, EmitKeeps
  <1>4. CASE a.st.kind \notin {"ended", "paused", "yielded"}
               /\ ~(a.st.kind = "error" /\ a.st.ep # None)
    BY <1>4 DEF OnPlay
  <1> QED BY <1>1, <1>2, <1>3, <1>4

LEMMA PauseKeeps ==
  ASSUME NEW a, NEW src, NEW heard \in BOOLEAN, Good(a, src, heard)
  PROVE  Stays(OnPause(a), a, src, heard)
  <1>1. CASE a.st.kind \notin Positioned
    BY <1>1 DEF OnPause, Stays
  <1>2. CASE a.st.kind \in Positioned
    <2> DEFINE c == To(a, "paused")
               d == Saved(c, FALSE, FALSE)
               e == [d EXCEPT !.session = a.st.ep]
    <2>1. OnPause(a) = Emit(e, <<Pause>>)
      BY <1>2 DEF OnPause
    <2>2. a \in Apps /\ a.st.ep \in Episodes
      BY <1>2 DEF Good, Fit, Sane, Positioned
    <2>3. Beside(c, a) /\ c.st.kind = "paused" /\ c.st.ep = a.st.ep
      BY <2>2, ToChanges DEF Kinds
    <2> HIDE DEF c
    <2>4. Fit(c, src, heard)
      BY <2>2, <2>3 DEF Good, Fit, Sane, Mute, Beside, Sounding
    <2>5. Good(d, src, heard) /\ d.st = c.st /\ d.eoe = c.eoe /\ d.hold = c.hold
      BY <2>3, <2>4, SavedKeeps DEF Positioned
    <2> HIDE DEF d
    <2>6. Beside(e, d) /\ e.st = d.st
      BY <2>2, <2>5, SessionSet DEF Good, Fit, Sane
    <2> HIDE DEF e
    <2>7. Good(e, src, heard)
      BY <2>5, <2>6, BesideKeeps
    <2>8. Pause \in Effects /\ Pause.kind \notin {"load", "play", "reassertFocus"}
      BY EffectsOfThePlayer DEF Pause
    <2>9. /\ Good(Emit(e, <<Pause>>), src, heard) /\ Emit(e, <<Pause>>).st = e.st
          /\ Emit(e, <<Pause>>).eoe = e.eoe /\ Emit(e, <<Pause>>).hold = e.hold
      BY <2>7, <2>8, EmitKeeps
    <2> QED BY <2>1, <2>3, <2>5, <2>6, <2>9 DEF Stays, Beside
  <1> QED BY <1>1, <1>2

LEMMA TickKeeps ==
  ASSUME NEW a, NEW src, NEW p \in Places, NEW of \in Episodes \cup {None},
         Good(a, src, TRUE)
  PROVE  Stays(OnTick(a, p, of), a, src, TRUE)
  <1>1. CASE a.st.kind \notin Sounding
    BY <1>1 DEF OnTick, Stays
  <1>2. CASE a.st.kind \in Sounding
    <2> DEFINE s == [a.st EXCEPT !.pos = p, !.of = of]
               b == [a EXCEPT !.st.pos = p, !.st.of = of]
               z == [s EXCEPT !.last = p]
               c == [b EXCEPT !.st.last = p]
    <2>1. a \in Apps /\ a.st \in States
      BY DEF Good, Fit, Sane, Apps
    <2>2. b = [a EXCEPT !.st = s]
      BY <2>1 DEF Apps, States
    <2>3. OnTick(a, p, of) = IF p > a.st.last THEN Saved(c, FALSE, FALSE) ELSE b
      BY <1>2 DEF OnTick
    <2>4. /\ s \in States /\ z \in States
          /\ s.kind = a.st.kind /\ s.ep = a.st.ep /\ s.intent = a.st.intent
          /\ z.kind = a.st.kind /\ z.ep = a.st.ep /\ z.intent = a.st.intent
      BY <2>1 DEF States
    <2> HIDE DEF s, z
    <2>5. Beside(b, a) /\ b.st = s
      BY <2>1, <2>2, <2>4, StateChanges
    <2> HIDE DEF b
    <2>6. Beside(c, b) /\ c.st = z
      <3>1. c = [b EXCEPT !.st = z]
        BY <2>5 DEF Beside, Apps, z
      <3> HIDE DEF c
      <3> QED BY <2>4, <2>5, <3>1, StateChanges DEF Beside
    <2> HIDE DEF c
    <2>7. Good(b, src, TRUE)
      BY <1>2, <2>4, <2>5 DEF Good, Fit, Sane, Stored, Beside, Sounding
    <2>8. Fit(c, src, TRUE)
      BY <1>2, <2>4, <2>5, <2>6 DEF Good, Fit, Sane, Beside, Sounding
    <2>9. /\ Good(Saved(c, FALSE, FALSE), src, TRUE)
          /\ Saved(c, FALSE, FALSE).st = c.st
          /\ Saved(c, FALSE, FALSE).eoe = c.eoe /\ Saved(c, FALSE, FALSE).hold = c.hold
      BY <1>2, <2>4, <2>6, <2>8, SavedKeeps DEF Positioned, Sounding
    <2> QED BY <2>4, <2>5, <2>3, <2>6, <2>7, <2>9 DEF Stays, Beside
  <1> QED BY <1>1, <1>2

LEMMA BufferKeeps ==
  ASSUME NEW a, NEW src, NEW heard \in BOOLEAN, NEW on \in BOOLEAN, Good(a, src, heard)
  PROVE  Stays(OnBuffer(a, on), a, src, heard)
  <1>0. a \in Apps
    BY DEF Good, Fit, Sane
  <1>1. CASE on /\ a.st.kind = "playing"
    <2> DEFINE b == To(a, "buffering")
    <2>1. OnBuffer(a, on) = b
      BY <1>1 DEF OnBuffer
    <2>2. /\ Beside(b, a) /\ b.st.kind = "buffering" /\ b.st.ep = a.st.ep
          /\ b.st.intent = a.st.intent
      BY <1>0, ToChanges DEF Kinds
    <2> HIDE DEF b
    <2>3. Good(b, src, heard)
      BY <1>1, <2>2 DEF Good, Fit, Sane, Stored, Mute, Beside, Sounding
    <2> QED BY <2>1, <2>2, <2>3 DEF Stays, Beside
  <1>2. CASE ~on /\ a.st.kind = "buffering"
    <2> DEFINE b == To(a, "playing")
    <2>1. OnBuffer(a, on) = Emit(b, <<Reassert>>)
      BY <1>2 DEF OnBuffer
    <2>2. /\ Beside(b, a) /\ b.st.kind = "playing" /\ b.st.ep = a.st.ep
          /\ b.st.intent = a.st.intent
      BY <1>0, ToChanges DEF Kinds
    <2> HIDE DEF b
    <2>3. heard
      BY <1>2 DEF Good, Fit, Mute, Sounding
    <2>4. Good(b, src, heard)
      BY <1>2, <2>2, <2>3 DEF Good, Fit, Sane, Stored, Beside, Sounding
    <2>5. Reassert \in Effects /\ Reassert.kind # "load"
      BY EffectsOfThePlayer DEF Reassert
    <2>6. /\ Good(Emit(b, <<Reassert>>), src, heard) /\ Emit(b, <<Reassert>>).st = b.st
          /\ Emit(b, <<Reassert>>).eoe = b.eoe /\ Emit(b, <<Reassert>>).hold = b.hold
      BY <2>3, <2>4, <2>5, EmitKeeps
    <2> QED BY <2>1, <2>2, <2>6 DEF Stays, Beside
  <1>3. CASE ~(on /\ a.st.kind = "playing") /\ ~(~on /\ a.st.kind = "buffering")
    BY <1>3 DEF OnBuffer, Stays
  <1> QED BY <1>1, <1>2, <1>3

\* The sound is taken: where it stopped is what the row says.
LEMMA ExternalPauseKeeps ==
  ASSUME NEW a, NEW src, NEW heard \in BOOLEAN, NEW p \in Places,
         NEW of \in Episodes \cup {None}, Good(a, src, heard)
  PROVE  Stays(OnExternalPause(a, p, of), a, src, heard)
  <1>1. CASE a.st.kind \notin Sounding
    BY <1>1 DEF OnExternalPause, Stays
  <1>2. CASE a.st.kind \in Sounding
    <2> DEFINE c == To(a, "yielded")
               d == At(c, p, of)
               e == Saved(d, FALSE, FALSE)
               f == [e EXCEPT !.watch = TRUE]
    <2>1. OnExternalPause(a, p, of) = f
      BY <1>2 DEF OnExternalPause
    <2>2. a \in Apps /\ a.st.ep \in Episodes
      BY <1>2 DEF Good, Fit, Sane, Sounding
    <2>3. Beside(c, a) /\ c.st.kind = "yielded" /\ c.st.ep = a.st.ep
      BY <2>2, ToChanges DEF Kinds
    <2> HIDE DEF c
    <2>4. Beside(d, c) /\ d.st.kind = "yielded" /\ d.st.ep = a.st.ep
      BY <2>3, AtChanges DEF Beside
    <2> HIDE DEF d
    <2>5. Fit(d, src, heard)
      BY <2>2, <2>3, <2>4 DEF Good, Fit, Sane, Mute, Beside, Sounding
    <2>6. Good(e, src, heard) /\ e.st = d.st /\ e.eoe = d.eoe /\ e.hold = d.hold
      BY <2>4, <2>5, SavedKeeps DEF Positioned
    <2> HIDE DEF e
    <2>7. Beside(f, e) /\ f.st = e.st
      <3>1. f \in Apps
        BY <2>6 DEF Good, Fit, Sane, Apps
      <3>2. /\ f.rows = e.rows /\ f.chain = e.chain /\ f.retry = e.retry
            /\ f.eoe = e.eoe /\ f.hold = e.hold /\ f.st = e.st
        BY <2>6 DEF Good, Fit, Sane, Apps
      <3> QED BY <3>1, <3>2 DEF Beside
    <2> HIDE DEF f
    <2>8. Good(f, src, heard)
      BY <2>6, <2>7, BesideKeeps
    <2> QED BY <2>1, <2>3, <2>4, <2>6, <2>7, <2>8 DEF Stays, Beside
  <1> QED BY <1>1, <1>2

LEMMA ExternalResumeKeeps ==
  ASSUME NEW a, NEW src, Good(a, src, TRUE)
  PROVE  Stays(OnExternalResume(a), a, src, TRUE)
  <1>1. CASE a.st.kind \notin {"paused", "yielded"}
    BY <1>1 DEF OnExternalResume, Stays
  <1>2. CASE a.st.kind \in {"paused", "yielded"}
    <2> DEFINE b == Playing(a)
    <2>1. OnExternalResume(a) = Emit(b, <<Reassert>>)
      BY <1>2 DEF OnExternalResume
    <2>2. /\ Beside(b, a) /\ b.st.kind = "playing" /\ b.st.ep = a.st.ep
          /\ b.st.intent = "play"
      BY PlayingChanges DEF Good, Fit, Sane
    <2> HIDE DEF b
    <2>3. Good(b, src, TRUE)
      BY <1>2, <2>2 DEF Good, Fit, Sane, Stored, Beside, Sounding
    <2>4. Reassert \in Effects /\ Reassert.kind # "load"
      BY EffectsOfThePlayer DEF Reassert
    <2>5. /\ Good(Emit(b, <<Reassert>>), src, TRUE) /\ Emit(b, <<Reassert>>).st = b.st
          /\ Emit(b, <<Reassert>>).eoe = b.eoe /\ Emit(b, <<Reassert>>).hold = b.hold
      BY <2>3, <2>4, EmitKeeps
    <2> QED BY <2>1, <2>2, <2>5 DEF Stays, Beside
  <1> QED BY <1>1, <1>2

LEMMA WatchKeeps ==
  ASSUME NEW a, NEW src, NEW heard \in BOOLEAN, Good(a, src, heard)
  PROVE  Stays(OnWatchExpired(a), a, src, heard)
  <1>1. CASE a.st.kind # "yielded"
    BY <1>1 DEF OnWatchExpired, Stays
  <1>2. CASE a.st.kind = "yielded"
    <2> DEFINE b == To(a, "paused")
    <2>1. OnWatchExpired(a) = b
      BY <1>2 DEF OnWatchExpired
    <2>2. /\ Beside(b, a) /\ b.st.kind = "paused" /\ b.st.ep = a.st.ep
          /\ b.st.pos = a.st.pos
      BY ToChanges DEF Good, Fit, Sane, Kinds
    <2> HIDE DEF b
    <2>3. Good(b, src, heard)
      BY <1>2, <2>2 DEF Good, Fit, Sane, Stored, Mute, Beside, Sounding
    <2> QED BY <2>1, <2>2, <2>3 DEF Stays, Beside
  <1> QED BY <1>1, <1>2

LEMMA EndedKeeps ==
  ASSUME NEW a, NEW src, Fit(a, src, TRUE), a.st.ep \in Episodes
  PROVE  Good(Ended(a), src, TRUE) /\ (a.hold => Ended(a).st.ep = a.st.ep)
  <1> DEFINE b == To(a, "ended")
  <1>1. Beside(b, a) /\ b.st.kind = "ended" /\ b.st.ep = a.st.ep
    BY ToChanges DEF Fit, Sane, Kinds
  <1>2. Ended(a) = Advanced(b)
    BY DEF Ended
  <1> HIDE DEF b
  <1>3. Good(b, src, TRUE)
    BY <1>1 DEF Good, Fit, Sane, Stored, Beside, Sounding
  <1>4. Good(Advanced(b), src, TRUE) /\ (b.hold => Advanced(b).st = b.st)
    BY <1>3, AdvancedKeeps
  <1> QED BY <1>1, <1>2, <1>4 DEF Beside

\* While the end of the episode holds the queue, nothing else is loaded.
LEMMA OnEndedKeeps ==
  ASSUME NEW a, NEW src, NEW heard \in BOOLEAN, Good(a, src, heard)
  PROVE  Good(OnEnded(a), src, heard) /\ (a.hold => OnEnded(a).st.ep = a.st.ep)
  <1>1. CASE a.st.kind \notin Sounding
    BY <1>1 DEF OnEnded
  <1>2. CASE a.st.kind \in Sounding
    <2> DEFINE c == Saved(a, TRUE, FALSE)
    <2>1. OnEnded(a) = Ended(c)
      BY <1>2 DEF OnEnded
    <2>2. heard /\ a.st.ep \in Episodes /\ Fit(a, src, TRUE)
      BY <1>2 DEF Good, Fit, Sane, Mute, Sounding
    <2>3. Good(c, src, TRUE) /\ c.st = a.st /\ c.hold = a.hold
      BY <1>2, <2>2, SavedKeeps DEF Positioned, Sounding
    <2> HIDE DEF c
    <2>4. Good(Ended(c), src, TRUE) /\ (c.hold => Ended(c).st.ep = c.st.ep)
      BY <2>2, <2>3, EndedKeeps DEF Good
    <2> QED BY <2>1, <2>2, <2>3, <2>4
  <1> QED BY <1>1, <1>2

LEMMA SeekKeeps ==
  ASSUME NEW a, NEW src, NEW heard \in BOOLEAN, NEW p \in Places,
         Good(a, src, heard), p = End => heard
  PROVE  Good(OnSeek(a, p), src, heard)
  <1>1. CASE a.st.kind \notin Positioned
    BY <1>1 DEF OnSeek
  <1>2. CASE a.st.kind \in Positioned
    <2> DEFINE c == At(a, p, a.st.ep)
               b == Saved(c, p = End, TRUE)
               d == Emit(b, <<Seek(p)>>)
    <2>1. OnSeek(a, p) = IF p = End THEN Ended(d) ELSE d
      BY <1>2 DEF OnSeek
    <2>2. a \in Apps /\ a.st.ep \in Episodes
      BY <1>2 DEF Good, Fit, Sane, Positioned
    <2>3. /\ Beside(c, a) /\ c.st.pos = p /\ c.st.kind = a.st.kind
          /\ c.st.ep = a.st.ep /\ c.st.intent = a.st.intent
      BY <2>2, AtChanges
    <2> HIDE DEF c
    <2>4. Fit(c, src, heard)
      BY <2>3 DEF Good, Fit, Sane, Mute, Beside
    <2>5. (p = End) \in BOOLEAN
      OBVIOUS
    <2>6. Good(b, src, heard) /\ b.st = c.st
      BY <1>2, <2>3, <2>4, <2>5, SavedKeeps
    <2> HIDE DEF b
    <2>7. Seek(p) \in Effects /\ Seek(p).kind \notin {"load", "play", "reassertFocus"}
      BY EffectsOfThePlayer DEF Seek
    <2>8. Good(d, src, heard) /\ d.st = b.st
      BY <2>6, <2>7, EmitKeeps
    <2> HIDE DEF d
    <2>9. CASE p = End
      <3>1. Good(Ended(d), src, TRUE)
        BY <2>2, <2>3, <2>6, <2>8, <2>9, EndedKeeps DEF Good
      <3> QED BY <2>1, <2>9, <3>1
    <2>10. CASE p # End
      BY <2>1, <2>8, <2>10
    <2> QED BY <2>9, <2>10
  <1> QED BY <1>1, <1>2

LEMMA FailedKeeps ==
  ASSUME NEW a, NEW src, NEW heard \in BOOLEAN, Good(a, src, heard)
  PROVE  Stays(Failed(a), a, src, heard)
  <1> DEFINE c == To(a, "error")
             p == IF a.st.kind \in Positioned \cup {"loading"} THEN c.st.pos ELSE 0
             s == [c.st EXCEPT !.pos = p]
             b == [c EXCEPT !.st = s]
  <1>1. Beside(c, a) /\ c.st.kind = "error" /\ c.st.ep = a.st.ep
    BY ToChanges DEF Good, Fit, Sane, Kinds
  <1>2. Failed(a) = [c EXCEPT !.st.pos = p]
    BY DEF Failed
  <1> HIDE DEF c
  <1>3. c \in Apps /\ c.st \in States /\ 0 \in Places
    BY <1>1, PlayerConstants DEF Beside, Apps, Places
  <1>4. p \in Places
    BY <1>3 DEF States
  <1> HIDE DEF p
  <1>5. [c EXCEPT !.st.pos = p] = b
    BY <1>3 DEF Apps
  <1>6. s \in States /\ s.kind = "error" /\ s.ep = a.st.ep
    BY <1>1, <1>3, <1>4 DEF States
  <1> HIDE DEF s
  <1>7. Beside(b, c) /\ b.st = s
    BY <1>3, <1>6, StateChanges
  <1> HIDE DEF b
  <1>8. Good(b, src, heard)
    BY <1>1, <1>6, <1>7 DEF Good, Fit, Sane, Stored, Mute, Beside, Sounding
  <1> QED BY <1>1, <1>2, <1>5, <1>6, <1>7, <1>8 DEF Stays, Beside

\* Only what sounds, or loads in order to sound, is tried again.
LEMMA ErrorKeeps ==
  ASSUME NEW a, NEW src, NEW heard \in BOOLEAN, Good(a, src, heard)
  PROVE  Stays(OnError(a), a, src, heard)
  <1> DEFINE v == IF a.st.kind \in Positioned THEN Saved(a, FALSE, FALSE) ELSE a
             tries == \/ a.st.kind \in Sounding
                      \/ a.st.kind = "loading" /\ a.st.intent = "play"
             c == To(v, "loading")
             b == [c EXCEPT !.retries = c.retries + 1, !.retry = TRUE]
  <1>1. Good(v, src, heard) /\ v.st = a.st /\ v.eoe = a.eoe /\ v.hold = a.hold
    BY SavedKeeps DEF Good
  <1>2. v.retries = a.retries
    BY DEF Saved, Good, Fit, Sane, Apps
  <1>3. CASE ~tries \/ a.retries >= MaxRetries
    <2>1. OnError(a) = Failed(v)
      BY <1>3 DEF OnError
    <2> HIDE DEF v
    <2> QED BY <1>1, <2>1, FailedKeeps DEF Stays
  <1>4. CASE tries /\ ~(a.retries >= MaxRetries)
    <2>1. OnError(a) = b
      BY <1>4 DEF OnError
    <2> HIDE DEF v
    <2>2. v \in Apps
      BY <1>1 DEF Good, Fit, Sane
    <2>3. /\ Beside(c, v) /\ c.st.kind = "loading" /\ c.st.ep = a.st.ep
          /\ c.st.intent = a.st.intent
      BY <1>1, <2>2, ToChanges DEF Kinds
    <2>4. c.retries = v.retries
      BY <2>2 DEF To, Apps
    <2>5. heard /\ a.st.intent = "play"
      BY <1>4 DEF Good, Fit, Sane, Mute
    <2>6. c.retries + 1 \in 0..MaxRetries
      BY <1>2, <1>4, <2>2, <2>4, PlayerConstants DEF Apps
    <2> HIDE DEF c
    <2>7. b \in Apps
      BY <2>3, <2>6 DEF Beside, Apps
    <2>8. /\ b.st = c.st /\ b.rows = c.rows /\ b.chain = c.chain
          /\ b.eoe = c.eoe /\ b.hold = c.hold
      BY <2>3 DEF Beside, Apps
    <2> HIDE DEF b
    <2>9. a.st.ep \in Episodes
      BY <1>4 DEF Good, Fit, Sane, Sounding
    <2>10. Good(b, src, heard)
      BY <1>1, <2>3, <2>5, <2>7, <2>8, <2>9 DEF Good, Fit, Sane, Stored, Beside, Sounding
    <2> QED BY <1>1, <2>1, <2>3, <2>8, <2>10 DEF Stays, Beside
  <1> QED BY <1>3, <1>4

LEMMA SleepKeeps ==
  ASSUME NEW a, NEW src, NEW heard \in BOOLEAN, Good(a, src, heard)
  PROVE  Good(FireSleep(a), src, heard) /\ FireSleep(a).st.ep = a.st.ep
  <1> DEFINE c == OnPause(a)
             b == [c EXCEPT !.deadline = "off", !.eoe = FALSE, !.hold = FALSE]
  <1>1. Stays(c, a, src, heard)
    BY PauseKeeps
  <1>2. FireSleep(a) = b
    BY DEF FireSleep
  <1> HIDE DEF c
  <1>3. b \in Apps
    BY <1>1 DEF Stays, Good, Fit, Sane, Apps
  <1>4. /\ b.st = c.st /\ b.rows = c.rows /\ b.chain = c.chain /\ b.retry = c.retry
        /\ b.eoe = FALSE
    BY <1>1 DEF Stays, Good, Fit, Sane, Apps
  <1> HIDE DEF b
  <1>5. Good(b, src, heard)
    BY <1>1, <1>3, <1>4 DEF Stays, Good, Fit, Sane, Stored, Mute
  <1> QED BY <1>1, <1>2, <1>4, <1>5 DEF Stays

-----------------------------------------------------------------------------
(* A status of the library *)

LEMMA ObservedKeeps ==
  ASSUME NEW a, NEW src, NEW heard \in BOOLEAN, Good(a, src, heard),
         NEW p \in Players, heard \/ ~p.want
  PROVE  /\ Good(Observed(a, p), src, heard)
         /\ a.eoe => Observed(a, p).st.ep = a.st.ep
  <1> DEFINE of == IF \E i \in DOMAIN a.chain : a.chain[i].kind \in {"load", "seek"}
                   THEN None ELSE p.src
             loads == p.ready /\ ~a.was.loaded
             l == [a EXCEPT !.was.loaded = TRUE]
             a1 == IF loads THEN OnLoaded(l) ELSE a
             m == [a1 EXCEPT !.was.buffering = p.buffering]
             a2 == IF p.buffering # a1.was.buffering THEN OnBuffer(m, p.buffering) ELSE a1
             plays == SoundsNow(p)
             told == CASE plays /\ ~a.asks.play -> OnExternalResume(a2)
                       [] ~plays /\ ~a.asks.pause -> OnExternalPause(a2, p.pos, of)
                       [] OTHER -> a2
             n == [told EXCEPT !.was.playing = plays,
                               !.asks = [play |-> FALSE, pause |-> FALSE]]
             a3 == IF plays = a.was.playing THEN a2 ELSE n
             z == [a1 EXCEPT !.was.playing = FALSE]
  <1>1. Observed(a, p) = CASE p.error -> OnError(a)
                           [] ~p.error /\ p.ended -> OnEnded(z)
                           [] OTHER -> IF ~plays THEN a3
                                       ELSE IF a3.deadline = "due" THEN FireSleep(a3)
                                       ELSE OnTick(a3, p.pos, of)
    BY DEF Observed
  <1>2. /\ of \in Episodes \cup {None} /\ p.pos \in Places /\ plays \in BOOLEAN
        /\ p.buffering \in BOOLEAN
        /\ plays => heard
    BY DEF Players, SoundsNow
  <1>3. Stays(l, a, src, heard)
    <2>1. l \in Apps
      BY DEF Good, Fit, Sane, Apps
    <2>2. /\ l.rows = a.rows /\ l.chain = a.chain /\ l.retry = a.retry
          /\ l.eoe = a.eoe /\ l.hold = a.hold /\ l.st = a.st
      BY DEF Good, Fit, Sane, Apps
    <2> HIDE DEF l
    <2> QED BY <2>1, <2>2, BesideKeeps DEF Stays, Beside
  <1> HIDE DEF l, of
  <1>4. Stays(a1, a, src, heard)
    <2>1. Stays(OnLoaded(l), l, src, heard)
      BY <1>3, LoadedKeeps DEF Stays
    <2> QED BY <1>3, <2>1 DEF Stays
  <1> HIDE DEF a1
  <1>5. Stays(m, a, src, heard)
    <2>1. m \in Apps
      BY <1>2, <1>4 DEF Stays, Good, Fit, Sane, Apps
    <2>2. /\ m.rows = a1.rows /\ m.chain = a1.chain /\ m.retry = a1.retry
          /\ m.eoe = a1.eoe /\ m.hold = a1.hold /\ m.st = a1.st
      BY <1>4 DEF Stays, Good, Fit, Sane, Apps
    <2> HIDE DEF m
    <2> QED BY <1>4, <2>1, <2>2, BesideKeeps DEF Stays, Beside
  <1> HIDE DEF m
  <1>6. Stays(a2, a, src, heard)
    <2>1. Stays(OnBuffer(m, p.buffering), m, src, heard)
      BY <1>2, <1>5, BufferKeeps DEF Stays
    <2> QED BY <1>4, <1>5, <2>1 DEF Stays
  <1> HIDE DEF a2, plays
  <1>7. Stays(told, a, src, heard)
    <2>1. CASE plays /\ ~a.asks.play
      <3>1. Stays(OnExternalResume(a2), a2, src, heard)
        BY <1>2, <1>6, <2>1, ExternalResumeKeeps DEF Stays
      <3> QED BY <1>6, <2>1, <3>1 DEF Stays
    <2>2. CASE ~plays /\ ~a.asks.pause
      <3>1. Stays(OnExternalPause(a2, p.pos, of), a2, src, heard)
        BY <1>2, <1>6, ExternalPauseKeeps DEF Stays
      <3> QED BY <1>6, <2>2, <3>1 DEF Stays
    <2>3. CASE ~(plays /\ ~a.asks.play) /\ ~(~plays /\ ~a.asks.pause)
      BY <1>6, <2>3
    <2> QED BY <2>1, <2>2, <2>3
  <1> HIDE DEF told
  <1>8. Stays(n, a, src, heard)
    <2>1. n \in Apps
      BY <1>2, <1>7 DEF Stays, Good, Fit, Sane, Apps
    <2>2. /\ n.rows = told.rows /\ n.chain = told.chain /\ n.retry = told.retry
          /\ n.eoe = told.eoe /\ n.hold = told.hold /\ n.st = told.st
      BY <1>7 DEF Stays, Good, Fit, Sane, Apps
    <2> HIDE DEF n
    <2> QED BY <1>7, <2>1, <2>2, BesideKeeps DEF Stays, Beside
  <1> HIDE DEF n
  <1>9. Stays(a3, a, src, heard)
    BY <1>6, <1>8
  <1> HIDE DEF a3
  <1>10. CASE p.error
    <2>1. Stays(OnError(a), a, src, heard)
      BY ErrorKeeps
    <2> QED BY <1>1, <1>10, <2>1 DEF Stays
  <1>11. CASE ~p.error /\ p.ended
    <2>1. Stays(z, a, src, heard)
      <3>1. z \in Apps
        BY <1>4 DEF Stays, Good, Fit, Sane, Apps
      <3>2. /\ z.rows = a1.rows /\ z.chain = a1.chain /\ z.retry = a1.retry
            /\ z.eoe = a1.eoe /\ z.hold = a1.hold /\ z.st = a1.st
        BY <1>4 DEF Stays, Good, Fit, Sane, Apps
      <3> HIDE DEF z
      <3> QED BY <1>4, <3>1, <3>2, BesideKeeps DEF Stays, Beside
    <2> HIDE DEF z
    <2>2. Good(OnEnded(z), src, heard) /\ (z.hold => OnEnded(z).st.ep = z.st.ep)
      BY <2>1, OnEndedKeeps DEF Stays
    <2>3. a.eoe => a.hold
      BY DEF Good, Fit, Sane
    <2> QED BY <1>1, <1>11, <2>1, <2>2, <2>3 DEF Stays
  <1>12. CASE ~p.error /\ ~p.ended
    <2>1. CASE ~plays
      BY <1>1, <1>9, <1>12, <2>1 DEF Stays
    <2>2. CASE plays /\ a3.deadline = "due"
      <3>1. Good(FireSleep(a3), src, heard) /\ FireSleep(a3).st.ep = a3.st.ep
        BY <1>9, SleepKeeps DEF Stays
      <3> QED BY <1>1, <1>9, <1>12, <2>2, <3>1 DEF Stays
    <2>3. CASE plays /\ a3.deadline # "due"
      <3>1. Stays(OnTick(a3, p.pos, of), a3, src, heard)
        BY <1>2, <1>9, <2>3, TickKeeps DEF Stays
      <3> QED BY <1>1, <1>9, <1>12, <2>3, <3>1 DEF Stays
    <2> QED BY <2>1, <2>2, <2>3
  <1> QED BY <1>10, <1>11, <1>12

-----------------------------------------------------------------------------
(* The steps *)

PlayerInv ==
  /\ player \in Players /\ asked \in BOOLEAN
  /\ acts \in Nat /\ troubles \in Nat
  /\ Good(app, player.src, asked)
  /\ asked \/ ~player.want

\* A start: nothing is shown, nothing is about to run.
Started(a, session) ==
  /\ a \in Apps /\ a.session = session /\ a.st.ep = None /\ a.st.kind = "idle"
  /\ a.chain = << >> /\ Mute(a)

LEMMA FreshKeeps ==
  ASSUME NEW rows \in [Episodes -> Rows \cup {None}], NEW session \in Episodes \cup {None},
         NEW queue \in Seq(Episodes), NEW eoe \in BOOLEAN,
         NEW deadline \in {"off", "set", "due"}
  PROVE  Started(Fresh(rows, session, queue, eoe, deadline), session)
  <1> DEFINE none == << >>
             s == [kind |-> "idle", ep |-> None, pos |-> 0, intent |-> "pause",
                   last |-> 0, of |-> None]
             asks == [play |-> FALSE, pause |-> FALSE]
             was == [playing |-> FALSE, buffering |-> FALSE, loaded |-> FALSE]
             b == [rows |-> rows, session |-> session, queue |-> queue, eoe |-> eoe,
                   deadline |-> deadline, st |-> s, retries |-> 0, retry |-> FALSE,
                   watch |-> FALSE, chain |-> none, hold |-> FALSE, restarted |-> None,
                   asks |-> asks, was |-> was]
  <1>1. Fresh(rows, session, queue, eoe, deadline) = b
    BY DEF Fresh
  <1>2. none \in Seq(Effects) /\ Len(none) = 0
    OBVIOUS
  <1>3. s \in States /\ s.ep = None /\ s.kind = "idle"
    BY PlayerConstants DEF States, Places
  <1>4. asks \in [play: BOOLEAN, pause: BOOLEAN]
    OBVIOUS
  <1>5. was \in [playing: BOOLEAN, buffering: BOOLEAN, loaded: BOOLEAN]
    OBVIOUS
  <1>6. 0 \in 0..MaxRetries
    BY PlayerConstants
  <1>7. Soundless(none)
    BY <1>2 DEF Soundless
  <1> HIDE DEF none, s, asks, was
  <1>8. b \in Apps
    BY <1>2, <1>3, <1>4, <1>5, <1>6 DEF Apps
  <1>9. b.session = session /\ b.st = s /\ b.chain = none /\ b.retry = FALSE
    OBVIOUS
  <1> HIDE DEF b
  <1>10. Mute(b)
    BY <1>3, <1>7, <1>9 DEF Mute, Sounding
  <1> QED BY <1>1, <1>3, <1>8, <1>9, <1>10 DEF none, Started

LEMMA InitHolds ==
  Init => PlayerInv
  <1> SUFFICES ASSUME Init PROVE PlayerInv
    OBVIOUS
  <1> DEFINE none == [e \in Episodes |-> None]
  <1>1. /\ app = Fresh(none, None, Queued, FALSE, "off") /\ player = Still
        /\ asked = FALSE /\ acts = 0 /\ troubles = 0
    BY DEF Init
  <1>2. Started(app, None)
    <2>1. none \in [Episodes -> Rows \cup {None}]
      OBVIOUS
    <2>2. Queued \in Seq(Episodes)
      BY PlayerConstants
    <2>3. None \in Episodes \cup {None} /\ FALSE \in BOOLEAN
      OBVIOUS
    <2>4. "off" \in {"off", "set", "due"}
      OBVIOUS
    <2> HIDE DEF none
    <2> QED BY <1>1, <2>1, <2>2, <2>3, <2>4, FreshKeeps, Zenon
  <1>3. app.eoe = FALSE
    BY <1>1 DEF Fresh
  <1>4. Good(app, None, FALSE)
    BY <1>2, <1>3 DEF Started, Good, Fit, Sane, Stored, ShownBy, Sounding
  <1>5. Still \in Players /\ Still.src = None /\ Still.want = FALSE
    BY PlayerConstants DEF Still, Players, Places
  <1> HIDE DEF none
  <1> QED BY <1>1, <1>4, <1>5 DEF PlayerInv

\* An effect that is no load has run.
LEMMA RunKeeps ==
  ASSUME NEW a, NEW src, NEW heard \in BOOLEAN, Good(a, src, heard),
         a.chain # << >>, Head(a.chain).kind # "load"
  PROVE  LET b == [a EXCEPT !.chain = Tail(@)] IN
         Good(b, src, heard) /\ b.st = a.st
  <1> DEFINE c == Tail(a.chain)
             b == [a EXCEPT !.chain = c]
  <1>1. a \in Apps /\ a.chain \in Seq(Effects)
    BY DEF Good, Fit, Sane, Apps
  <1>2. /\ c \in Seq(Effects) /\ Len(c) = Len(a.chain) - 1
        /\ \A i \in 1..Len(c) : c[i] = a.chain[i + 1]
    BY <1>1, HeadTailProperties
  <1>3. /\ DOMAIN c = 1..Len(c) /\ DOMAIN a.chain = 1..Len(a.chain)
        /\ Len(c) \in Nat /\ Len(a.chain) \in Nat /\ Head(a.chain) = a.chain[1]
    BY <1>1, <1>2, LenProperties
  <1> HIDE DEF c
  <1>4. ShownBy(c, a.st.ep, src)
    <2>1. CASE \A i \in DOMAIN a.chain : a.chain[i].kind # "load"
      <3>1. a.st.ep # None => src = a.st.ep
        BY <2>1 DEF Good, Fit, ShownBy
      <3>2. ASSUME NEW i \in DOMAIN c PROVE c[i].kind # "load"
        <4>1. i + 1 \in DOMAIN a.chain /\ c[i] = a.chain[i + 1]
          BY <1>2, <1>3
        <4> QED BY <2>1, <4>1
      <3> QED BY <3>1, <3>2 DEF ShownBy
    <2>2. CASE \E i \in DOMAIN a.chain : a.chain[i].kind = "load"
      <3> SUFFICES ASSUME a.st.ep # None PROVE ShownBy(c, a.st.ep, src)
        BY DEF ShownBy
      <3>1. PICK i \in DOMAIN a.chain :
              /\ a.chain[i].kind = "load" /\ a.chain[i].ep = a.st.ep
              /\ \A j \in DOMAIN a.chain : j > i => a.chain[j].kind # "load"
        BY <2>2 DEF Good, Fit, ShownBy
      <3>2. i # 1
        BY <1>3, <3>1
      <3>3. i - 1 \in DOMAIN c /\ c[i - 1] = a.chain[i]
        BY <1>2, <1>3, <3>1, <3>2
      <3>4. ASSUME NEW j \in DOMAIN c, j > i - 1 PROVE c[j].kind # "load"
        <4>1. j + 1 \in DOMAIN a.chain /\ j + 1 > i /\ c[j] = a.chain[j + 1]
          BY <1>2, <1>3, <3>4
        <4> QED BY <3>1, <4>1
      <3> QED BY <3>1, <3>3, <3>4 DEF ShownBy
    <2> QED BY <2>1, <2>2
  <1>5. Soundless(a.chain) => Soundless(c)
    BY <1>2, <1>3 DEF Soundless
  <1>6. b \in Apps
    BY <1>1, <1>2 DEF Apps
  <1>7. /\ b.st = a.st /\ b.rows = a.rows /\ b.chain = c /\ b.retry = a.retry
        /\ b.eoe = a.eoe /\ b.hold = a.hold
    BY <1>1 DEF Apps
  <1>8. [a EXCEPT !.chain = Tail(@)] = b
    BY DEF c
  <1> HIDE DEF b
  <1>9. Good(b, src, heard)
    BY <1>4, <1>5, <1>6, <1>7 DEF Good, Fit, Sane, Stored, Mute
  <1> QED BY <1>7, <1>8, <1>9

\* A load has replaced the source: it is the one that is shown, unless
\* another load follows.
LEMMA ReplaceKeeps ==
  ASSUME NEW a, NEW src, NEW heard \in BOOLEAN, Good(a, src, heard),
         a.chain # << >>, Head(a.chain).kind = "load"
  PROVE  LET b == [a EXCEPT !.chain[1].kind = "seeking", !.was.loaded = FALSE] IN
         Good(b, Head(a.chain).ep, heard) /\ b.st = a.st
  <1> DEFINE f == Head(a.chain)
             g == [f EXCEPT !.kind = "seeking"]
             c == [a.chain EXCEPT ![1] = g]
             w == [a.was EXCEPT !.loaded = FALSE]
             b == [a EXCEPT !.chain = c, !.was = w]
  <1>1. a \in Apps /\ a.chain \in Seq(Effects)
    BY DEF Good, Fit, Sane, Apps
  <1>2. /\ DOMAIN a.chain = 1..Len(a.chain) /\ Len(a.chain) \in Nat \ {0}
        /\ f = a.chain[1] /\ f \in Effects
    BY <1>1, LenProperties, EmptySeq, HeadTailProperties
  <1>3. f.kind = "load" /\ g \in Effects /\ g.kind = "seeking"
    BY <1>2 DEF Effects
  <1>4. [a EXCEPT !.chain[1].kind = "seeking", !.was.loaded = FALSE] = b
    BY <1>1, <1>2 DEF Apps
  <1>5. w \in [playing: BOOLEAN, buffering: BOOLEAN, loaded: BOOLEAN]
    BY <1>1 DEF Apps
  <1> HIDE DEF f, g, w
  <1>6. /\ c \in Seq(Effects) /\ Len(c) = Len(a.chain)
        /\ \A j \in 1..Len(a.chain) : c[j] = IF j = 1 THEN g ELSE a.chain[j]
    BY <1>1, <1>2, <1>3, ExceptSeq
  <1> HIDE DEF c
  <1>7. DOMAIN c = DOMAIN a.chain
    BY <1>2, <1>6, LenProperties
  <1>8. ShownBy(c, a.st.ep, f.ep)
    <2> SUFFICES ASSUME a.st.ep # None PROVE ShownBy(c, a.st.ep, f.ep)
      BY DEF ShownBy
    <2>1. PICK i \in DOMAIN a.chain :
            /\ a.chain[i].kind = "load" /\ a.chain[i].ep = a.st.ep
            /\ \A j \in DOMAIN a.chain : j > i => a.chain[j].kind # "load"
      BY <1>2, <1>3 DEF Good, Fit, ShownBy
    <2>2. CASE i = 1
      <3>1. f.ep = a.st.ep
        BY <1>2, <2>1, <2>2
      <3>2. \A j \in DOMAIN c : c[j].kind # "load"
        BY <1>2, <1>3, <1>6, <1>7, <2>1, <2>2
      <3> QED BY <3>1, <3>2 DEF ShownBy
    <2>3. CASE i # 1
      <3>1. c[i] = a.chain[i]
        BY <1>2, <1>6, <2>3
      <3>2. \A j \in DOMAIN c : j > i => c[j].kind # "load"
        BY <1>2, <1>6, <1>7, <2>1
      <3> QED BY <1>7, <2>1, <3>1, <3>2 DEF ShownBy
    <2> QED BY <2>2, <2>3
  <1>9. Soundless(a.chain) => Soundless(c)
    BY <1>2, <1>3, <1>6, <1>7 DEF Soundless
  <1>10. b \in Apps
    BY <1>1, <1>5, <1>6 DEF Apps
  <1>11. /\ b.st = a.st /\ b.rows = a.rows /\ b.chain = c /\ b.retry = a.retry
         /\ b.eoe = a.eoe /\ b.hold = a.hold
    BY <1>1 DEF Apps
  <1> HIDE DEF b
  <1>12. Good(b, f.ep, heard)
    BY <1>8, <1>9, <1>10, <1>11 DEF Good, Fit, Sane, Stored, Mute
  <1> QED BY <1>4, <1>11, <1>12 DEF f

\* A step loads another episode, while this one is to be the last, only
\* where the listener or the system acted.
Steady ==
  app.eoe => \/ app'.st.ep = app.st.ep
             \/ acts' # acts \/ troubles' # troubles

LEMMA ExecuteKeeps ==
  PlayerInv /\ Execute => PlayerInv' /\ Steady
  <1> SUFFICES ASSUME PlayerInv, Execute PROVE PlayerInv' /\ Steady
    OBVIOUS
  <1> DEFINE f == Head(app.chain)
             done == [app EXCEPT !.chain = Tail(@)]
  <1>1. /\ app \in Apps /\ player \in Players /\ asked \in BOOLEAN
        /\ Good(app, player.src, asked) /\ app.chain # << >>
    BY DEF PlayerInv, Good, Fit, Sane, Execute
  <1>2. app.chain \in Seq(Effects) /\ f \in Effects /\ f = app.chain[1]
        /\ 1 \in DOMAIN app.chain
    BY <1>1, HeadTailProperties, EmptySeq, LenProperties DEF Apps
  <1>3. /\ asked' = asked /\ acts' = acts /\ troubles' = troubles
    BY DEF Execute, Quiet
  <1>4. CASE f.kind = "load"
    <2>1. /\ app' = [app EXCEPT !.chain[1].kind = "seeking", !.was.loaded = FALSE]
          /\ player' = [Still EXCEPT !.src = f.ep, !.pos = f.pos, !.want = player.want,
                                     !.taken = player.taken, !.offline = player.offline]
      BY <1>4 DEF Execute
    <2>2. Good(app', f.ep, asked) /\ app'.st = app.st
      BY <1>1, <1>4, <2>1, ReplaceKeeps
    <2>3. f.ep \in Episodes /\ f.pos \in Places
      BY <1>2, <1>4 DEF Effects
    <2> HIDE DEF f
    <2>4. player' \in Players /\ player'.src = f.ep /\ player'.want = player.want
      BY <1>1, <2>1, <2>3, PlayerConstants DEF Players, Still, Places
    <2> QED BY <1>1, <1>3, <2>2, <2>4 DEF PlayerInv, Steady
  <1>5. ASSUME f.kind # "load"
        PROVE  /\ Good(done, player.src, asked) /\ done.st = app.st
               /\ done \in Apps
    BY <1>1, <1>5, RunKeeps DEF Good, Fit, Sane
  <1>6. CASE f.kind = "seeking"
    <2>1. app' = done /\ player' = player
      BY <1>6 DEF Execute
    <2> QED BY <1>1, <1>3, <1>5, <1>6, <2>1 DEF PlayerInv, Steady
  <1>7. CASE f.kind = "seek"
    <2>1. /\ app' = done
          /\ player' = [player EXCEPT !.pos = f.pos, !.finished = FALSE, !.ended = FALSE]
      BY <1>7 DEF Execute
    <2>2. f.pos \in Places
      BY <1>2, <1>7 DEF Effects
    <2> HIDE DEF f
    <2>3. player' \in Players /\ player'.src = player.src /\ player'.want = player.want
      BY <1>1, <2>1, <2>2 DEF Players
    <2> QED BY <1>1, <1>3, <1>5, <1>7, <2>1, <2>3 DEF PlayerInv, Steady
  <1>8. CASE f.kind \in {"play", "reassertFocus"}
    <2>1. asked
      BY <1>1, <1>2, <1>8 DEF Good, Fit, Mute, Soundless
    <2>2. app' = [done EXCEPT !.asks.play = TRUE]
      BY <1>8 DEF Execute
    <2>3. PICK t \in BOOLEAN : player' = [player EXCEPT !.want = TRUE, !.taken = t]
      <3>1. PICK refused \in BOOLEAN :
              player' = [player EXCEPT !.want = TRUE, !.taken = @ /\ refused]
        BY <1>8 DEF Execute
      <3>2. (player.taken /\ refused) \in BOOLEAN
        OBVIOUS
      <3> QED BY <3>1, <3>2
    <2>4. player' \in Players /\ player'.src = player.src
      BY <1>1, <2>3 DEF Players
    <2> HIDE DEF done, f
    <2>5. Beside(app', done) /\ app'.st = done.st
      BY <1>5, <1>8, <2>2 DEF Apps, Beside
    <2>6. Good(app', player.src, asked)
      BY <1>1, <1>5, <1>8, <2>5, BesideKeeps
    <2> QED BY <1>1, <1>3, <1>5, <1>8, <2>1, <2>4, <2>5, <2>6 DEF PlayerInv, Steady
  <1>9. CASE f.kind = "pause"
    <2>1. /\ app' = [done EXCEPT !.asks.pause = TRUE]
          /\ player' = [player EXCEPT !.want = FALSE]
      BY <1>9 DEF Execute
    <2>2. player' \in Players /\ player'.src = player.src /\ player'.want = FALSE
      BY <1>1, <2>1 DEF Players
    <2> HIDE DEF done, f
    <2>3. Beside(app', done) /\ app'.st = done.st
      BY <1>5, <1>9, <2>1 DEF Apps, Beside
    <2>4. Good(app', player.src, asked)
      BY <1>1, <1>5, <1>9, <2>3, BesideKeeps
    <2> QED BY <1>1, <1>3, <1>5, <1>9, <2>2, <2>3, <2>4 DEF PlayerInv, Steady
  <1>10. f.kind \in {"load", "seeking", "seek", "play", "pause", "reassertFocus"}
    BY <1>2 DEF Effects
  <1> QED BY <1>4, <1>6, <1>7, <1>8, <1>9, <1>10

LEMMA ReportKeeps ==
  PlayerInv /\ Report => PlayerInv' /\ Steady
  <1> SUFFICES ASSUME PlayerInv, Report PROVE PlayerInv' /\ Steady
    OBVIOUS
  <1>1. /\ player \in Players /\ asked \in BOOLEAN /\ Good(app, player.src, asked)
        /\ asked \/ ~player.want
    BY DEF PlayerInv
  <1>2. /\ Good(Observed(app, player), player.src, asked)
        /\ app.eoe => Observed(app, player).st.ep = app.st.ep
    BY <1>1, ObservedKeeps
  <1>3. /\ app' = Observed(app, player)
        /\ player' = [player EXCEPT !.ended = FALSE, !.error = FALSE]
        /\ asked' = asked /\ acts' = acts /\ troubles' = troubles
    BY DEF Report, Quiet
  <1>4. player' \in Players /\ player'.src = player.src /\ player'.want = player.want
    BY <1>1, <1>3 DEF Players
  <1> QED BY <1>1, <1>2, <1>3, <1>4 DEF PlayerInv, Steady

\* What the library does on its own.
LEMMA LibraryKeeps ==
  ASSUME PlayerInv, PlayerSettles \/ PlayerMoves \/ PlayerTroubled \/ PlayerRecovers
  PROVE  PlayerInv' /\ Steady
  <1>1. /\ player \in Players /\ asked \in BOOLEAN /\ Good(app, player.src, asked)
        /\ acts \in Nat /\ troubles \in Nat /\ (asked \/ ~player.want)
    BY DEF PlayerInv
  <1>2. /\ app' = app /\ acts' = acts /\ asked' = asked
        /\ troubles' \in {troubles, troubles + 1}
    BY DEF PlayerSettles, PlayerMoves, PlayerTroubled, PlayerRecovers, Changes
  <1>3. /\ player' \in Players /\ player'.src = player.src
        /\ player'.want => player.want
    <2>1. CASE PlayerSettles
      BY <1>1, <2>1 DEF PlayerSettles, Changes, Players
    <2>2. CASE PlayerMoves
      <3>1. player.pos < End => player.pos + 1 \in Places
        BY <1>1, PlayerConstants DEF Players, Places
      <3> QED BY <1>1, <2>2, <3>1 DEF PlayerMoves, Changes, Players
    <2>3. CASE PlayerTroubled
      BY <1>1, <2>3 DEF PlayerTroubled, Changes, Players
    <2>4. CASE PlayerRecovers
      BY <1>1, <2>4 DEF PlayerRecovers, Changes, Players
    <2> QED BY <2>1, <2>2, <2>3, <2>4
  <1> QED BY <1>1, <1>2, <1>3 DEF PlayerInv, Steady

LEMMA GoodWhenHeard ==
  ASSUME NEW a, NEW src, NEW heard, Good(a, src, heard), NEW now, now
  PROVE  Good(a, src, now)
  BY DEF Good, Fit

LEMMA ButtonKeeps ==
  PlayerInv /\ Button => PlayerInv' /\ Steady
  <1> SUFFICES ASSUME PlayerInv, Button PROVE PlayerInv' /\ Steady
    OBVIOUS
  <1>1. /\ player \in Players /\ asked \in BOOLEAN /\ Good(app, player.src, asked)
        /\ acts \in Nat /\ troubles \in Nat /\ (asked \/ ~player.want)
    BY DEF PlayerInv
  <1>2. /\ app' = app /\ acts' = acts + 1 /\ troubles' = troubles
        /\ player' = [player EXCEPT !.want = ~@]
    BY DEF Button
  <1>3. asked' /\ asked' \in BOOLEAN
    <2>1. asked' = (asked \/ ~player.want)
      BY DEF Button
    <2> QED BY <1>1, <2>1
  <1>4. player' \in Players /\ player'.src = player.src
    BY <1>1, <1>2 DEF Players
  <1>5. Good(app, player.src, asked')
    BY <1>1, <1>3, GoodWhenHeard
  <1>6. acts' \in Nat /\ troubles' \in Nat /\ acts' # acts
    BY <1>1, <1>2
  <1>7. Good(app', player'.src, asked')
    BY <1>2, <1>4, <1>5
  <1> QED BY <1>3, <1>4, <1>6, <1>7 DEF PlayerInv, Steady

\* An act of the listener keeps the invariant if what it makes of the app
\* is fit for what was asked.
LEMMA ActKeeps ==
  ASSUME PlayerInv, NEW a, NEW sound \in BOOLEAN, Act(a, sound),
         \A heard \in BOOLEAN :
           Good(app, player.src, heard) /\ (sound => heard) => Good(a, player.src, heard)
  PROVE  PlayerInv' /\ Steady
  <1>1. /\ player \in Players /\ asked \in BOOLEAN /\ Good(app, player.src, asked)
        /\ acts \in Nat /\ troubles \in Nat /\ (asked \/ ~player.want)
    BY DEF PlayerInv
  <1>2. /\ app' = a /\ acts' = acts + 1 /\ player' = player /\ troubles' = troubles
        /\ asked' = (asked \/ sound)
    BY DEF Act
  <1>3. asked' \in BOOLEAN /\ (sound => asked') /\ (asked => asked')
    BY <1>1, <1>2
  <1>4. Good(app, player.src, asked')
    <2>1. CASE asked'
      BY <1>1, <2>1, GoodWhenHeard
    <2>2. CASE ~asked'
      BY <1>1, <1>2, <2>2
    <2> QED BY <1>3, <2>1, <2>2
  <1>5. Good(a, player.src, asked')
    BY <1>3, <1>4
  <1> QED BY <1>1, <1>2, <1>3, <1>5 DEF PlayerInv, Steady

LEMMA QueueChanges ==
  ASSUME NEW a \in Apps, NEW q \in Seq(Episodes)
  PROVE  LET b == [a EXCEPT !.queue = q] IN Beside(b, a) /\ b.st = a.st
  <1> DEFINE b == [a EXCEPT !.queue = q]
  <1>1. b \in Apps
    BY DEF Apps
  <1>2. /\ b.rows = a.rows /\ b.chain = a.chain /\ b.retry = a.retry
        /\ b.eoe = a.eoe /\ b.hold = a.hold /\ b.st = a.st
    BY DEF Apps
  <1> QED BY <1>1, <1>2 DEF Beside

\* The switches: End of episode holds the queue.
Switched(a, d, eoe, hold) == [a EXCEPT !.deadline = d, !.eoe = eoe, !.hold = hold]

LEMMA SwitchesKeep ==
  ASSUME NEW a, NEW src, NEW heard \in BOOLEAN, Good(a, src, heard),
         NEW d \in {"off", "set", "due"}, NEW eoe \in BOOLEAN, NEW hold \in BOOLEAN,
         eoe => hold
  PROVE  Good(Switched(a, d, eoe, hold), src, heard)
  <1> DEFINE b == [a EXCEPT !.deadline = d, !.eoe = eoe, !.hold = hold]
  <1>1. a \in Apps
    BY DEF Good, Fit, Sane
  <1>2. b \in Apps
    BY <1>1 DEF Apps
  <1>3. /\ b.rows = a.rows /\ b.chain = a.chain /\ b.retry = a.retry /\ b.st = a.st
        /\ (b.eoe => b.hold)
    BY <1>1 DEF Apps
  <1> HIDE DEF b
  <1>4. Good(b, src, heard)
    BY <1>2, <1>3 DEF Good, Fit, Sane, Stored, Mute
  <1> QED BY <1>4 DEF b, Switched

LEMMA ListenerKeeps ==
  PlayerInv /\ Listener => PlayerInv' /\ Steady
  <1> SUFFICES ASSUME PlayerInv, Listener PROVE PlayerInv' /\ Steady
    OBVIOUS
  <1>0. app \in Apps /\ app.eoe \in BOOLEAN /\ app.deadline \in {"off", "set", "due"}
        /\ app.queue \in Seq(Episodes)
    BY DEF PlayerInv, Good, Fit, Sane, Apps
  <1>1. ASSUME NEW e \in Episodes \ Gone, Act(Load(app, e, "play"), TRUE)
        PROVE  PlayerInv' /\ Steady
    <2>1. ASSUME NEW heard \in BOOLEAN, heard
          PROVE  Good(Load(app, e, "play"), player.src, heard)
      BY <1>0, <2>1, LoadKeeps
    <2> QED BY <1>1, <2>1, ActKeeps
  <1>2. CASE Act(OnPlay(app), TRUE)
    <2>1. Good(app, player.src, TRUE) => Good(OnPlay(app), player.src, TRUE)
      BY PlayKeeps
    <2>2. \A heard \in BOOLEAN : Good(app, player.src, heard) /\ heard =>
            Good(OnPlay(app), player.src, heard)
      BY <2>1
    <2> QED BY <1>2, <2>2, ActKeeps
  <1>3. CASE Act(OnPause(app), FALSE)
    <2>1. \A heard \in BOOLEAN : Good(app, player.src, heard) =>
            Good(OnPause(app), player.src, heard)
      BY PauseKeeps DEF Stays
    <2> QED BY <1>3, <2>1, ActKeeps
  <1>4. ASSUME NEW p \in Places, Act(OnSeek(app, p), p = End)
        PROVE  PlayerInv' /\ Steady
    <2>1. \A heard \in BOOLEAN : Good(app, player.src, heard) /\ (p = End => heard) =>
            Good(OnSeek(app, p), player.src, heard)
      BY SeekKeeps
    <2>2. (p = End) \in BOOLEAN
      OBVIOUS
    <2> QED BY <1>4, <2>1, <2>2, ActKeeps
  <1>5. ASSUME NEW q \in Seq(Episodes), Act([app EXCEPT !.queue = q], FALSE)
        PROVE  PlayerInv' /\ Steady
    <2>1. \A heard \in BOOLEAN : Good(app, player.src, heard) =>
            Good([app EXCEPT !.queue = q], player.src, heard)
      BY <1>0, QueueChanges, BesideKeeps
    <2> QED BY <1>5, <2>1, ActKeeps
  <1>6. ASSUME NEW e \in Episodes
        PROVE  Unqueued(app.queue, e) \in Seq(Episodes) /\ Enqueued(app.queue, e) \in Seq(Episodes)
    BY <1>0, UnqueuedType, AppendProperties DEF Enqueued
  <1>7. ASSUME NEW d \in {"off", "set", "due"}, NEW eoe \in BOOLEAN, NEW hold \in BOOLEAN,
               eoe => hold, Act(Switched(app, d, eoe, hold), FALSE)
        PROVE  PlayerInv' /\ Steady
    <2>1. \A heard \in BOOLEAN : Good(app, player.src, heard) =>
            Good(Switched(app, d, eoe, hold), player.src, heard)
      BY <1>7, SwitchesKeep, Zenon
    <2>2. FALSE \in BOOLEAN
      OBVIOUS
    <2> QED BY <1>7, <2>1, <2>2, ActKeeps, Zenon
  <1>8. CASE Act([app EXCEPT !.deadline = "set", !.hold = app.eoe], FALSE)
    <2>1. [app EXCEPT !.deadline = "set", !.hold = app.eoe]
            = Switched(app, "set", app.eoe, app.eoe)
      BY <1>0 DEF Apps, Switched
    <2>2. "set" \in {"off", "set", "due"}
      OBVIOUS
    <2> QED BY <1>0, <1>7, <1>8, <2>1, <2>2, Zenon
  <1>9. ASSUME NEW on \in BOOLEAN, Act([app EXCEPT !.eoe = on, !.hold = on], FALSE)
        PROVE  PlayerInv' /\ Steady
    <2>1. [app EXCEPT !.eoe = on, !.hold = on] = Switched(app, app.deadline, on, on)
      BY <1>0 DEF Apps, Switched
    <2> QED BY <1>0, <1>7, <1>9, <2>1, Zenon
  <1>10. CASE Act([app EXCEPT !.deadline = "off", !.eoe = FALSE, !.hold = FALSE], FALSE)
    <2>1. "off" \in {"off", "set", "due"} /\ FALSE \in BOOLEAN
      OBVIOUS
    <2>2. Act(Switched(app, "off", FALSE, FALSE), FALSE)
      BY <1>10 DEF Switched
    <2> QED BY <1>7, <2>1, <2>2, Zenon
  <1>11. ASSUME NEW e \in Episodes,
                \/ Act([app EXCEPT !.queue = Enqueued(@, e)], FALSE)
                \/ Act([app EXCEPT !.queue = Unqueued(@, e)], FALSE)
         PROVE  PlayerInv' /\ Steady
    BY <1>5, <1>6, <1>11
  <1> QED BY <1>1, <1>2, <1>3, <1>4, <1>8, <1>9, <1>10, <1>11 DEF Listener

-----------------------------------------------------------------------------
(* The timers, the system and the restart *)

LEMMA TimeKeeps ==
  ASSUME PlayerInv, NEW a, TimeOf(a), Good(a, player.src, asked),
         app.eoe => a.st.ep = app.st.ep
  PROVE  PlayerInv' /\ Steady
  <1>1. /\ app' = a /\ player' = player /\ asked' = asked
        /\ acts' = acts /\ troubles' = troubles
    BY DEF TimeOf
  <1> QED BY <1>1 DEF PlayerInv, Steady

LEMMA WatchDropped ==
  ASSUME NEW a \in Apps
  PROVE  LET b == [a EXCEPT !.watch = FALSE] IN Beside(b, a) /\ b.st = a.st
  <1> DEFINE b == [a EXCEPT !.watch = FALSE]
  <1>1. b \in Apps
    BY DEF Apps
  <1>2. /\ b.rows = a.rows /\ b.chain = a.chain /\ b.retry = a.retry
        /\ b.eoe = a.eoe /\ b.hold = a.hold /\ b.st = a.st
    BY DEF Apps
  <1> QED BY <1>1, <1>2 DEF Beside

LEMMA RetryDropped ==
  ASSUME NEW a, NEW src, NEW heard \in BOOLEAN, Good(a, src, heard)
  PROVE  LET b == [a EXCEPT !.retry = FALSE] IN Good(b, src, heard) /\ b.st = a.st
  <1> DEFINE b == [a EXCEPT !.retry = FALSE]
  <1>1. a \in Apps
    BY DEF Good, Fit, Sane
  <1>2. b \in Apps
    BY <1>1 DEF Apps
  <1>3. /\ b.rows = a.rows /\ b.chain = a.chain /\ b.retry = FALSE
        /\ b.eoe = a.eoe /\ b.hold = a.hold /\ b.st = a.st
    BY <1>1 DEF Apps
  <1> HIDE DEF b
  <1>4. Good(b, src, heard)
    BY <1>2, <1>3 DEF Good, Fit, Sane, Stored, Mute
  <1> QED BY <1>3, <1>4 DEF b

LEMMA TimersKeep ==
  ASSUME PlayerInv,
         Background \/ RetryDue \/ WatchExpires \/ DeadlinePasses \/ SleepTimeout
  PROVE  PlayerInv' /\ Steady
  <1>1. /\ asked \in BOOLEAN /\ Good(app, player.src, asked) /\ app \in Apps
    BY DEF PlayerInv, Good, Fit, Sane
  <1>2. CASE Background
    <2>1. app.st.kind \in Positioned /\ TimeOf(Saved(app, FALSE, FALSE))
      BY <1>2 DEF Background
    <2>2. /\ Good(Saved(app, FALSE, FALSE), player.src, asked)
          /\ Saved(app, FALSE, FALSE).st = app.st
      BY <1>1, <2>1, SavedKeeps DEF Good
    <2> QED BY <2>1, <2>2, TimeKeeps
  <1>3. CASE RetryDue
    <2> DEFINE b == [app EXCEPT !.retry = FALSE]
    <2>1. app.retry /\ TimeOf(OnRetryDue(b))
      BY <1>3 DEF RetryDue
    <2>2. asked = TRUE
      BY <1>1, <2>1 DEF Good, Fit, Mute
    <2>3. Good(b, player.src, TRUE) /\ b.st = app.st
      BY <1>1, <2>2, RetryDropped
    <2> HIDE DEF b
    <2>4. Good(OnRetryDue(b), player.src, asked) /\ OnRetryDue(b).st = b.st
      BY <2>2, <2>3, RetryKeeps
    <2> QED BY <2>1, <2>3, <2>4, TimeKeeps
  <1>4. CASE WatchExpires
    <2> DEFINE b == [app EXCEPT !.watch = FALSE]
    <2>1. TimeOf(OnWatchExpired(b))
      BY <1>4 DEF WatchExpires
    <2>2. Beside(b, app) /\ b.st = app.st
      BY <1>1, WatchDropped
    <2> HIDE DEF b
    <2>3. Good(b, player.src, asked)
      BY <1>1, <2>2, BesideKeeps
    <2>4. Stays(OnWatchExpired(b), b, player.src, asked)
      BY <1>1, <2>3, WatchKeeps
    <2> QED BY <2>1, <2>2, <2>4, TimeKeeps DEF Stays
  <1>5. CASE DeadlinePasses
    <2> DEFINE b == [app EXCEPT !.deadline = "due"]
    <2>1. TimeOf(b)
      BY <1>5 DEF DeadlinePasses
    <2>2. b.st = app.st
      BY <1>1 DEF Apps
    <2>3. b = Switched(app, "due", app.eoe, app.hold)
      BY <1>1 DEF Switched, Apps
    <2>4. app.eoe \in BOOLEAN /\ app.hold \in BOOLEAN /\ (app.eoe => app.hold)
      BY <1>1 DEF Good, Fit, Sane, Apps
    <2>5. "due" \in {"off", "set", "due"}
      OBVIOUS
    <2> HIDE DEF b
    <2>6. Good(b, player.src, asked)
      BY <1>1, <2>3, <2>4, <2>5, SwitchesKeep, Zenon
    <2> QED BY <2>1, <2>2, <2>6, TimeKeeps
  <1>6. CASE SleepTimeout
    <2>1. TimeOf(FireSleep(app))
      BY <1>6 DEF SleepTimeout
    <2>2. Good(FireSleep(app), player.src, asked) /\ FireSleep(app).st.ep = app.st.ep
      BY <1>1, SleepKeeps
    <2> QED BY <2>1, <2>2, TimeKeeps
  <1> QED BY <1>2, <1>3, <1>4, <1>5, <1>6

\* A start restores the session paused, where its row stands.
LEMMA RestartKeeps ==
  PlayerInv /\ Restart => PlayerInv' /\ Steady
  <1> SUFFICES ASSUME PlayerInv, Restart PROVE PlayerInv' /\ Steady
    OBVIOUS
  <1> DEFINE a == Fresh(app.rows, app.session, app.queue, app.eoe, app.deadline)
             r == Restored(a)
             d == IF r.deadline = "due" THEN "off" ELSE r.deadline
             x == [r EXCEPT !.deadline = d, !.eoe = app.eoe, !.hold = app.eoe]
  <1>1. /\ acts \in Nat /\ troubles \in Nat /\ app \in Apps /\ player \in Players
    BY DEF PlayerInv, Good, Fit, Sane
  <1>2. /\ app.rows \in [Episodes -> Rows \cup {None}] /\ app.session \in Episodes \cup {None}
        /\ app.queue \in Seq(Episodes) /\ app.eoe \in BOOLEAN
        /\ app.deadline \in {"off", "set", "due"}
    BY <1>1 DEF Apps
  <1>3. Started(a, app.session)
    BY <1>2, FreshKeeps, Zenon
  <1>4. /\ app' = [r EXCEPT !.eoe = app.eoe, !.hold = app.eoe,
                            !.deadline = IF @ = "due" THEN "off" ELSE @]
        /\ player' = [Still EXCEPT !.offline = player.offline]
        /\ asked' = FALSE /\ acts' = acts /\ troubles' = troubles + 1
    BY DEF Restart
  <1>5. player' \in Players /\ player'.src = None /\ ~player'.want
    <2>1. Still \in Players /\ Still.src = None /\ Still.want = FALSE
      BY PlayerConstants DEF Still, Players, Places
    <2>2. player.offline \in BOOLEAN
      BY <1>1 DEF Players
    <2> QED BY <1>4, <2>1, <2>2 DEF Players
  <1> HIDE DEF a
  <1>6. r \in Apps /\ (r.st.ep = None \/ r.st.ep \in Episodes)
        /\ ShownBy(r.chain, r.st.ep, None) /\ Mute(r) /\ Stored(r)
        /\ (r.st.kind \notin {"idle", "error"} => r.st.ep \in Episodes)
        /\ (r.st.kind \in Sounding => r.st.intent = "play")
    <2>1. CASE a.session = None
      BY <1>3, <2>1 DEF Started, Restored, ShownBy, Stored, Sounding
    <2>2. CASE a.session # None
      <3>1. a.session \in Episodes
        BY <1>2, <1>3, <2>2 DEF Started
      <3> DEFINE no == FALSE  pause == "pause"
      <3>2. no \in BOOLEAN /\ pause \in {"play", "pause"} /\ (no \/ pause = "pause")
        OBVIOUS
      <3>3. r = Load(a, a.session, pause) /\ ~no
        BY <2>2 DEF Restored
      <3> HIDE DEF no, pause
      <3>4. Good(r, None, no)
        BY <1>3, <3>1, <3>2, <3>3, LoadKeeps DEF Started
      <3> QED BY <3>3, <3>4 DEF Good, Fit, Sane, Apps, States
    <2> QED BY <2>1, <2>2
  <1> HIDE DEF r
  <1>7. d \in {"off", "set", "due"}
    BY <1>6 DEF Apps
  <1>8. app' = x
    BY <1>4, <1>6 DEF Apps
  <1> HIDE DEF d
  <1>9. x \in Apps
    BY <1>2, <1>6, <1>7 DEF Apps
  <1>10. /\ x.rows = r.rows /\ x.chain = r.chain /\ x.retry = r.retry /\ x.st = r.st
         /\ (x.eoe => x.hold)
    BY <1>6 DEF Apps
  <1> HIDE DEF x
  <1>11. Good(x, None, asked')
    BY <1>6, <1>9, <1>10 DEF Good, Fit, Sane, Stored, Mute
  <1>12. acts' \in Nat /\ troubles' \in Nat /\ troubles' # troubles
    BY <1>1, <1>4
  <1>13. asked' \in BOOLEAN
    BY <1>4, Zenon
  <1> QED BY <1>5, <1>8, <1>11, <1>12, <1>13 DEF PlayerInv, Steady

LEMMA StepKeeps ==
  PlayerInv /\ [Next]_vars => PlayerInv' /\ (Steady \/ UNCHANGED vars)
  <1> SUFFICES ASSUME PlayerInv, [Next]_vars
               PROVE  PlayerInv' /\ (Steady \/ UNCHANGED vars)
    OBVIOUS
  <1>1. CASE UNCHANGED vars
    BY <1>1 DEF vars, PlayerInv
  <1>2. CASE Execute
    BY <1>2, ExecuteKeeps
  <1>3. CASE Report
    BY <1>3, ReportKeeps
  <1>4. CASE PlayerSettles \/ PlayerMoves \/ PlayerTroubled \/ PlayerRecovers
    BY <1>4, LibraryKeeps
  <1>5. CASE Button
    BY <1>5, ButtonKeeps
  <1>6. CASE Listener
    BY <1>6, ListenerKeeps
  <1>7. CASE Background \/ RetryDue \/ WatchExpires \/ DeadlinePasses \/ SleepTimeout
    BY <1>7, TimersKeep
  <1>8. CASE Restart
    BY <1>8, RestartKeeps
  <1> QED BY <1>1, <1>2, <1>3, <1>4, <1>5, <1>6, <1>7, <1>8 DEF Next

-----------------------------------------------------------------------------
(* Replays are marked *)

\* No load and no seek is still to run: what the player reports is the
\* place of the episode it holds.
Quietly(c) == \A i \in DOMAIN c : c[i].kind \notin {"load", "seek"}
Whose(a, p) == IF Quietly(a.chain) THEN p.src ELSE None

\* An end is only ever stored as finished.
EndsFinish(rows) ==
  \A e \in Episodes : rows[e] # None /\ rows[e].pos = End => rows[e].finished

\* The episode was heard to its end, and not through another's report.
Heard(row, e) == row # None /\ row.finished /\ row.of = e

\* The state shows the end of its own episode.
Arrived(a) == a.st.kind \in Positioned /\ a.st.pos = End /\ a.st.of = a.st.ep

\* Without a failure: what is shown at its end is at its end, until a load or
\* a seek; and an episode heard to its end is either there or replayed by the
\* listener.
Replays(a, p) ==
  /\ a.st.kind # "error"
  /\ EndsFinish(a.rows)
  /\ a.st.kind = "loading" => a.st.pos # End
  /\ Arrived(a) => p.src = a.st.ep /\ p.pos = End /\ Quietly(a.chain)
  /\ a.st.kind \in Positioned \cup {"loading"} /\ Heard(a.rows[a.st.ep], a.st.ep) =>
       a.restarted = a.st.ep \/ Arrived(a)

Marked(b, a) ==
  \A e \in Episodes :
    Heard(a.rows[e], e) /\ ~b.rows[e].finished => b.rows[e].seek

\* b shows the place a shows; it may have gone on from loading to playing.
Turns(b, a) ==
  /\ b.rows = a.rows /\ b.restarted = a.restarted
  /\ Quietly(b.chain) <=> Quietly(a.chain)
  /\ b.st.ep = a.st.ep /\ b.st.pos = a.st.pos /\ b.st.of = a.st.of
  /\ \/ b.st.kind = a.st.kind
     \/ b.st.kind \in Positioned /\ a.st.kind \in Positioned \cup {"loading"}

Same(b, a) ==
  b.st = a.st /\ b.rows = a.rows /\ b.restarted = a.restarted /\ b.chain = a.chain

LEMMA TurnsKeeps ==
  ASSUME NEW a, NEW b, NEW p, Replays(a, p), Turns(b, a)
  PROVE  Replays(b, p) /\ Marked(b, a) /\ Whose(b, p) = Whose(a, p)
  <1>1. Marked(b, a)
    BY DEF Turns, Marked, Heard
  <1>2. Whose(b, p) = Whose(a, p)
    BY DEF Turns, Whose
  <1>3. Arrived(b) => Arrived(a)
    BY DEF Turns, Replays, Arrived, Positioned
  <1>4. Arrived(a) => Arrived(b)
    BY DEF Turns, Arrived, Positioned
  <1>5. b.st.kind # "error" /\ (b.st.kind = "loading" => a.st.kind = "loading")
        /\ (b.st.kind \in Positioned \cup {"loading"} => a.st.kind \in Positioned \cup {"loading"})
    BY DEF Turns, Replays, Positioned
  <1>6. Replays(b, p)
    BY <1>3, <1>4, <1>5 DEF Turns, Replays
  <1> QED BY <1>1, <1>2, <1>6

LEMMA SameTurns ==
  ASSUME NEW a, NEW b, Same(b, a)
  PROVE  Turns(b, a)
  BY DEF Same, Turns

LEMMA TurnsTwice ==
  ASSUME NEW a, NEW b, NEW c, Turns(b, a), Turns(c, b)
  PROVE  Turns(c, a)
  BY DEF Turns, Positioned

LEMMA StateAlone ==
  ASSUME NEW a \in Apps, NEW s
  PROVE  LET b == [a EXCEPT !.st = s] IN
         b.st = s /\ b.rows = a.rows /\ b.restarted = a.restarted /\ b.chain = a.chain
  BY DEF Apps

LEMMA ToTurns ==
  ASSUME NEW a \in Apps, NEW kind \in Kinds
  PROVE  LET b == To(a, kind) IN
         /\ b.rows = a.rows /\ b.restarted = a.restarted /\ b.chain = a.chain
         /\ b.st.kind = kind /\ b.st.ep = a.st.ep /\ b.st.pos = a.st.pos /\ b.st.of = a.st.of
  <1> DEFINE s == [a.st EXCEPT !.kind = kind, !.last = IF kind \in Sounding THEN @ ELSE 0]
  <1>1. a.st \in States
    BY DEF Apps
  <1>2. s.kind = kind /\ s.ep = a.st.ep /\ s.pos = a.st.pos /\ s.of = a.st.of
    BY <1>1 DEF States
  <1>3. To(a, kind) = [a EXCEPT !.st = s]
    BY DEF To, Apps
  <1> HIDE DEF s
  <1> QED BY <1>2, <1>3, StateAlone

LEMMA AtTurns ==
  ASSUME NEW a \in Apps, NEW p, NEW of
  PROVE  LET b == At(a, p, of) IN
         /\ b.rows = a.rows /\ b.restarted = a.restarted /\ b.chain = a.chain
         /\ b.st.kind = a.st.kind /\ b.st.ep = a.st.ep /\ b.st.pos = p /\ b.st.of = of
  <1> DEFINE s == [a.st EXCEPT !.pos = p, !.of = of,
                               !.last = IF a.st.kind \in Sounding THEN p ELSE 0]
  <1>1. a.st \in States
    BY DEF Apps
  <1>2. s.kind = a.st.kind /\ s.ep = a.st.ep /\ s.pos = p /\ s.of = of
    BY <1>1 DEF States
  <1>3. At(a, p, of) = [a EXCEPT !.st = s]
    BY DEF At, Apps
  <1> HIDE DEF s
  <1> QED BY <1>2, <1>3, StateAlone

LEMMA PlayingTurns ==
  ASSUME NEW a \in Apps
  PROVE  LET b == Playing(a) IN
         /\ b.rows = a.rows /\ b.restarted = a.restarted /\ b.chain = a.chain
         /\ b.st.kind = "playing" /\ b.st.ep = a.st.ep /\ b.st.pos = a.st.pos
         /\ b.st.of = a.st.of
  <1> DEFINE s == [a.st EXCEPT !.kind = "playing", !.intent = "play", !.last = a.st.pos]
  <1>1. a.st \in States
    BY DEF Apps
  <1>2. s.kind = "playing" /\ s.ep = a.st.ep /\ s.pos = a.st.pos /\ s.of = a.st.of
    BY <1>1 DEF States
  <1>3. Playing(a) = [a EXCEPT !.st = s]
    BY DEF Playing, Apps
  <1> HIDE DEF s
  <1> QED BY <1>2, <1>3, StateAlone

LEMMA EmitLeaves ==
  ASSUME NEW a \in Apps, NEW effects
  PROVE  LET b == Emit(a, effects) IN
         b.st = a.st /\ b.rows = a.rows /\ b.restarted = a.restarted
  BY DEF Emit, Apps

LEMMA EmitTurns ==
  ASSUME NEW a \in Apps, NEW f \in Effects, f.kind \notin {"load", "seek"}
  PROVE  Turns(Emit(a, <<f>>), a)
  <1> DEFINE c == Append(a.chain, f)
  <1>1. a.chain \in Seq(Effects)
    BY DEF Apps
  <1>2. /\ c \in Seq(Effects) /\ Len(c) = Len(a.chain) + 1
        /\ \A i \in 1..Len(a.chain) : c[i] = a.chain[i]
        /\ c[Len(a.chain) + 1] = f /\ a.chain \o <<f>> = c
    BY <1>1, AppendProperties, Appended
  <1>3. DOMAIN a.chain = 1..Len(a.chain) /\ DOMAIN c = 1..(Len(a.chain) + 1)
        /\ Len(a.chain) \in Nat
    BY <1>1, <1>2, LenProperties
  <1>4. Emit(a, <<f>>).chain = c
    BY <1>2 DEF Emit, Apps
  <1> HIDE DEF c
  <1>5. Quietly(c) <=> Quietly(a.chain)
    <2>1. \A i \in DOMAIN c : i \in DOMAIN a.chain \/ c[i] = f
      BY <1>2, <1>3
    <2>2. \A i \in DOMAIN a.chain : i \in DOMAIN c /\ c[i] = a.chain[i]
      BY <1>2, <1>3
    <2> QED BY <2>1, <2>2 DEF Quietly
  <1> QED BY <1>4, <1>5, EmitLeaves DEF Turns

\* A save stores an end as finished; what it replaces was heard to its end
\* only where the save is marked, or says so again.
LEMMA SaveMarks ==
  ASSUME NEW a \in Apps, a.st.ep \in Episodes, EndsFinish(a.rows),
         NEW reached \in BOOLEAN, NEW explicit \in BOOLEAN
  PROVE  LET b == Saved(a, reached, explicit)  e == a.st.ep IN
         /\ b.st = a.st /\ b.chain = a.chain
         /\ EndsFinish(b.rows)
         /\ (Heard(a.rows[e], e) =>
               a.restarted = e \/ a.st.pos = End \/ explicit \/ reached) => Marked(b, a)
         /\ Heard(b.rows[e], e) => (a.st.pos = End \/ reached) /\ a.st.of = e
  <1> DEFINE e == a.st.ep
             fin == reached \/ a.st.pos = End
             again == a.restarted = e
             r == [pos |-> a.st.pos, finished |-> fin, of |-> a.st.of,
                   seek |-> explicit \/ (again /\ ~fin)]
             b == Saved(a, reached, explicit)
  <1>1. b = [a EXCEPT !.rows[e] = r, !.restarted = IF again THEN None ELSE @]
    BY DEF Saved
  <1>2. /\ r.pos = a.st.pos /\ r.of = a.st.of /\ (r.finished <=> fin)
        /\ (r.seek <=> (explicit \/ (again /\ ~fin)))
    BY Zenon
  <1> HIDE DEF b, r
  <1>3. b.st = a.st /\ b.chain = a.chain
    BY <1>1 DEF Apps
  <1>4. b.rows[e] = r /\ \A x \in Episodes \ {e} : b.rows[x] = a.rows[x]
    BY <1>1 DEF Apps
  <1>5. EndsFinish(b.rows)
    BY <1>2, <1>4 DEF EndsFinish
  <1>6. ASSUME Heard(a.rows[e], e) => again \/ a.st.pos = End \/ explicit \/ reached
        PROVE  Marked(b, a)
    BY <1>2, <1>4, <1>6 DEF Marked, Heard
  <1>7. Heard(b.rows[e], e) => fin /\ a.st.of = e
    BY <1>2, <1>4 DEF Heard
  <1> QED BY <1>3, <1>5, <1>6, <1>7 DEF b

\* A save where the state stands.
LEMMA SaveReplays ==
  ASSUME NEW a \in Apps, a.st.ep \in Episodes, NEW p, EndsFinish(a.rows),
         a.st.kind \in Positioned,
         Arrived(a) => p.src = a.st.ep /\ p.pos = End /\ Quietly(a.chain),
         NEW explicit \in BOOLEAN
  PROVE  Replays(Saved(a, FALSE, explicit), p)
  <1> DEFINE b == Saved(a, FALSE, explicit)
  <1>1. /\ b.st = a.st /\ b.chain = a.chain /\ EndsFinish(b.rows)
        /\ Heard(b.rows[a.st.ep], a.st.ep) => a.st.pos = End /\ a.st.of = a.st.ep
    <2>1. FALSE \in BOOLEAN
      OBVIOUS
    <2> HIDE DEF b
    <2> QED BY <2>1, SaveMarks DEF b
  <1> HIDE DEF b
  <1>2. Replays(b, p)
    BY <1>1 DEF Replays, Arrived, Positioned
  <1> QED BY <1>2 DEF b

-----------------------------------------------------------------------------
(* Loads, and the events that save nothing *)

LEMMA LoadReplays ==
  ASSUME NEW a \in Apps, EndsFinish(a.rows), NEW ep \in Episodes, NEW intent, NEW p
  PROVE  Replays(Load(a, ep, intent), p) /\ Load(a, ep, intent).rows = a.rows
  <1> DEFINE cleared == IF a.eoe THEN [a EXCEPT !.eoe = FALSE, !.hold = FALSE] ELSE a
             again == a.rows[ep] # None /\ a.rows[ep].finished
             l == Loading(cleared, ep, StartOf(a, ep), intent)
             x == IF again THEN ep ELSE None
             b == [l EXCEPT !.restarted = x, !.session = ep]
             s == [kind |-> "loading", ep |-> ep, pos |-> StartOf(a, ep),
                   intent |-> intent, last |-> 0, of |-> ep]
  <1>1. Load(a, ep, intent) = b
    BY DEF Load
  <1>2. cleared \in Apps /\ cleared.rows = a.rows
    BY DEF Apps
  <1> HIDE DEF cleared
  <1>3. l.rows = a.rows /\ l.st = s /\ DOMAIN l = DOMAIN cleared
    BY <1>2 DEF Loading, Apps
  <1>4. s.kind = "loading" /\ s.ep = ep /\ s.pos = StartOf(a, ep)
    OBVIOUS
  <1> HIDE DEF l, s, x
  <1>5. {"rows", "st", "restarted"} \subseteq DOMAIN l
    BY <1>2, <1>3 DEF Apps
  <1>6. b.rows = l.rows /\ b.st = l.st /\ b.restarted = x
    BY <1>5
  <1> HIDE DEF b
  <1>7. StartOf(a, ep) # End
    BY PlayerConstants DEF StartOf, EndsFinish
  <1>8. Heard(a.rows[ep], ep) => x = ep
    BY DEF Heard, x
  <1>9. Replays(b, p)
    BY <1>3, <1>4, <1>6, <1>7, <1>8 DEF Replays, Arrived, Positioned
  <1> QED BY <1>1, <1>3, <1>6, <1>9

LEMMA EndedReplays ==
  ASSUME NEW a \in Apps, EndsFinish(a.rows), NEW p
  PROVE  Replays(Ended(a), p) /\ Ended(a).rows = a.rows
  <1> DEFINE b == To(a, "ended")
  <1>1. b.rows = a.rows /\ b.st.kind = "ended"
    BY ToTurns DEF Kinds
  <1>2. b \in Apps
    BY ToChanges DEF Kinds, Beside
  <1>3. Ended(a) = Advanced(b)
    BY DEF Ended
  <1> HIDE DEF b
  <1>4. ASSUME NEW c, c.st = b.st, c.rows = b.rows
        PROVE  Replays(c, p) /\ c.rows = a.rows
    BY <1>1, <1>4 DEF Replays, Arrived, Positioned
  <1> DEFINE ready == {i \in DOMAIN b.queue : b.queue[i] \notin Gone}
             first == CHOOSE i \in ready : \A j \in ready : i <= j
  <1>5. CASE b.hold /\ b.eoe
    <2> DEFINE c == [b EXCEPT !.hold = FALSE, !.eoe = FALSE, !.deadline = "off"]
    <2>1. Advanced(b) = c
      BY <1>5 DEF Advanced
    <2>2. c.st = b.st /\ c.rows = b.rows
      BY <1>2 DEF Apps
    <2> QED BY <1>3, <1>4, <2>1, <2>2
  <1>6. CASE b.hold /\ ~b.eoe
    <2> DEFINE c == [b EXCEPT !.hold = FALSE]
    <2>1. Advanced(b) = c
      BY <1>6 DEF Advanced
    <2>2. c.st = b.st /\ c.rows = b.rows
      BY <1>2 DEF Apps
    <2> QED BY <1>3, <1>4, <2>1, <2>2
  <1>7. CASE ~b.hold /\ ready = {}
    <2> DEFINE c == [b EXCEPT !.queue = << >>]
    <2>1. Advanced(b) = c
      BY <1>7 DEF Advanced
    <2>2. c.st = b.st /\ c.rows = b.rows
      BY <1>2 DEF Apps
    <2> QED BY <1>3, <1>4, <2>1, <2>2
  <1>8. CASE ~b.hold /\ ready # {}
    <2>1. b.queue \in Seq(Episodes)
      BY <1>2 DEF Apps
    <2>2. ready \in SUBSET Nat /\ ready \subseteq 1..Len(b.queue)
      BY <2>1, LenProperties
    <2>3. first \in ready
      BY <1>8, <2>2, HasLeast
    <2>4. Advanced(b) = Load([b EXCEPT !.queue = SubSeq(@, first + 1, Len(@))],
                             b.queue[first], "play")
      BY <1>8 DEF Advanced
    <2> HIDE DEF first
    <2> DEFINE q == SubSeq(b.queue, first + 1, Len(b.queue))
               c == [b EXCEPT !.queue = q]
    <2>5. q \in Seq(Episodes) /\ b.queue[first] \in Episodes
      BY <2>1, <2>2, <2>3, Rest, ElementOfSeq
    <2> HIDE DEF q
    <2>6. c \in Apps /\ c.rows = b.rows
      BY <1>2, <2>5 DEF Apps
    <2> HIDE DEF c
    <2>7. Replays(Load(c, b.queue[first], "play"), p)
          /\ Load(c, b.queue[first], "play").rows = c.rows
      BY <1>1, <2>5, <2>6, LoadReplays
    <2> QED BY <1>1, <1>3, <2>4, <2>6, <2>7 DEF c, q
  <1> QED BY <1>5, <1>6, <1>7, <1>8, <1>2 DEF Apps

LEMMA LoadedTurns ==
  ASSUME NEW a \in Apps
  PROVE  Turns(OnLoaded(a), a)
  <1>1. CASE a.st.kind # "loading"
    BY <1>1 DEF OnLoaded, Turns
  <1>2. CASE a.st.kind = "loading" /\ a.st.intent = "pause"
    <2> DEFINE c == To(a, "paused")
               b == [c EXCEPT !.retries = 0]
    <2>1. OnLoaded(a) = b
      BY <1>2 DEF OnLoaded
    <2>2. c \in Apps
      BY ToChanges DEF Kinds, Beside
    <2>3. Turns(c, a)
      BY <1>2, ToTurns DEF Turns, Kinds, Positioned
    <2> HIDE DEF c
    <2>4. Same(b, c)
      BY <2>2 DEF Same, Apps
    <2> HIDE DEF b
    <2> QED BY <2>1, <2>3, <2>4, SameTurns, TurnsTwice
  <1>3. CASE a.st.kind = "loading" /\ a.st.intent # "pause"
    <2> DEFINE c == Playing(a)
               d == [c EXCEPT !.retries = 0]
    <2>1. OnLoaded(a) = Emit(d, <<Play>>)
      BY <1>3 DEF OnLoaded
    <2>2. c \in Apps
      BY PlayingChanges DEF Beside
    <2>3. Turns(c, a)
      BY <1>3, PlayingTurns DEF Turns, Positioned
    <2> HIDE DEF c
    <2>4. Same(d, c) /\ d \in Apps
      <3>1. d \in Apps
        BY <2>2, RetriesReset DEF Beside
      <3>2. Same(d, c)
        BY <2>2 DEF Same, Apps
      <3> QED BY <3>1, <3>2
    <2> HIDE DEF d
    <2>5. Play \in Effects /\ Play.kind \notin {"load", "seek"}
      BY EffectsOfThePlayer DEF Play
    <2>6. Turns(Emit(d, <<Play>>), d)
      BY <2>4, <2>5, EmitTurns
    <2>7. Turns(d, a)
      BY <2>3, <2>4, SameTurns, TurnsTwice
    <2> QED BY <2>1, <2>6, <2>7, TurnsTwice
  <1> QED BY <1>1, <1>2, <1>3

LEMMA BufferTurns ==
  ASSUME NEW a \in Apps, NEW on \in BOOLEAN
  PROVE  Turns(OnBuffer(a, on), a)
  <1>1. CASE on /\ a.st.kind = "playing"
    <2> DEFINE b == To(a, "buffering")
    <2>1. OnBuffer(a, on) = b
      BY <1>1 DEF OnBuffer
    <2>2. /\ b.rows = a.rows /\ b.restarted = a.restarted /\ b.chain = a.chain
          /\ b.st.kind = "buffering" /\ b.st.ep = a.st.ep /\ b.st.pos = a.st.pos
          /\ b.st.of = a.st.of
      BY ToTurns DEF Kinds
    <2> HIDE DEF b
    <2> QED BY <1>1, <2>1, <2>2 DEF Turns, Positioned
  <1>2. CASE ~on /\ a.st.kind = "buffering"
    <2> DEFINE b == To(a, "playing")
    <2>1. OnBuffer(a, on) = Emit(b, <<Reassert>>)
      BY <1>2 DEF OnBuffer
    <2>2. b \in Apps
      BY ToChanges DEF Kinds, Beside
    <2>3. Turns(b, a)
      BY <1>2, ToTurns DEF Turns, Kinds, Positioned
    <2> HIDE DEF b
    <2>4. Reassert \in Effects /\ Reassert.kind \notin {"load", "seek"}
      BY EffectsOfThePlayer DEF Reassert
    <2>5. Turns(Emit(b, <<Reassert>>), b)
      BY <2>2, <2>4, EmitTurns
    <2> QED BY <2>1, <2>3, <2>5, TurnsTwice
  <1>3. CASE ~(on /\ a.st.kind = "playing") /\ ~(~on /\ a.st.kind = "buffering")
    BY <1>3 DEF OnBuffer, Turns
  <1> QED BY <1>1, <1>2, <1>3

LEMMA ExternalResumeTurns ==
  ASSUME NEW a \in Apps
  PROVE  Turns(OnExternalResume(a), a)
  <1>1. CASE a.st.kind \notin {"paused", "yielded"}
    BY <1>1 DEF OnExternalResume, Turns
  <1>2. CASE a.st.kind \in {"paused", "yielded"}
    <2> DEFINE b == Playing(a)
    <2>1. OnExternalResume(a) = Emit(b, <<Reassert>>)
      BY <1>2 DEF OnExternalResume
    <2>2. b \in Apps
      BY PlayingChanges DEF Beside
    <2>3. Turns(b, a)
      BY <1>2, PlayingTurns DEF Turns, Positioned
    <2> HIDE DEF b
    <2>4. Reassert \in Effects /\ Reassert.kind \notin {"load", "seek"}
      BY EffectsOfThePlayer DEF Reassert
    <2>5. Turns(Emit(b, <<Reassert>>), b)
      BY <2>2, <2>4, EmitTurns
    <2> QED BY <2>1, <2>3, <2>5, TurnsTwice
  <1> QED BY <1>1, <1>2

LEMMA WatchTurns ==
  ASSUME NEW a \in Apps
  PROVE  Turns(OnWatchExpired(a), a)
  <1>1. CASE a.st.kind # "yielded"
    BY <1>1 DEF OnWatchExpired, Turns
  <1>2. CASE a.st.kind = "yielded"
    <2>1. OnWatchExpired(a) = To(a, "paused")
      BY <1>2 DEF OnWatchExpired
    <2> QED BY <1>2, <2>1, ToTurns DEF Turns, Kinds, Positioned
  <1> QED BY <1>1, <1>2

\* A replay of what has ended starts at 0, and is the listener's.
LEMMA PlayReplays ==
  ASSUME NEW a \in Apps, NEW p, Replays(a, p)
  PROVE  Replays(OnPlay(a), p) /\ Marked(OnPlay(a), a)
  <1>1. CASE a.st.kind = "ended"
    <2> DEFINE z == At(a, 0, a.st.ep)
               c == Playing(z)
               d == [c EXCEPT !.retries = 0, !.restarted = a.st.ep, !.session = a.st.ep]
               b == Emit(d, <<Seek(0), Play>>)
    <2>1. OnPlay(a) = b
      BY <1>1 DEF OnPlay
    <2>2. 0 \in Places /\ a.st.ep \in Episodes \cup {None} /\ End # 0
      BY PlayerConstants DEF Places, Apps, States
    <2>3. /\ z \in Apps /\ z.rows = a.rows /\ z.st.ep = a.st.ep /\ z.st.pos = 0
      BY <2>2, AtChanges, AtTurns DEF Beside
    <2> HIDE DEF z
    <2>4. /\ c \in Apps /\ c.rows = a.rows /\ c.st.kind = "playing" /\ c.st.ep = a.st.ep
          /\ c.st.pos = 0
      BY <2>3, PlayingChanges, PlayingTurns DEF Beside
    <2> HIDE DEF c
    <2>5. d.st = c.st /\ d.rows = c.rows /\ d.restarted = a.st.ep
      BY <2>4 DEF Apps
    <2>6. d \in Apps
      <3>1. 0 \in 0..MaxRetries
        BY PlayerConstants
      <3> QED BY <2>2, <2>4, <3>1 DEF Apps
    <2> HIDE DEF d
    <2>7. b.st = c.st /\ b.rows = a.rows /\ b.restarted = a.st.ep
      BY <2>4, <2>5, <2>6, EmitLeaves
    <2> HIDE DEF b
    <2>8. Replays(b, p)
      BY <2>2, <2>4, <2>7 DEF Replays, Arrived, Positioned
    <2>9. Marked(b, a)
      BY <2>7 DEF Marked, Heard
    <2> QED BY <2>1, <2>8, <2>9
  <1>2. CASE a.st.kind \in {"paused", "yielded"}
    <2> DEFINE c == Playing(a)
               d == [c EXCEPT !.retries = 0, !.session = a.st.ep]
    <2>1. OnPlay(a) = Emit(d, <<Play>>)
      BY <1>2 DEF OnPlay
    <2>2. c \in Apps /\ a.st.ep \in Episodes \cup {None}
      BY PlayingChanges DEF Beside, Apps, States
    <2>3. Turns(c, a)
      BY <1>2, PlayingTurns DEF Turns, Positioned
    <2> HIDE DEF c
    <2>4. Same(d, c)
      BY <2>2 DEF Same, Apps
    <2>5. d \in Apps
      <3>1. 0 \in 0..MaxRetries
        BY PlayerConstants
      <3> QED BY <2>2, <3>1 DEF Apps
    <2> HIDE DEF d
    <2>6. Play \in Effects /\ Play.kind \notin {"load", "seek"}
      BY EffectsOfThePlayer DEF Play
    <2>7. Turns(Emit(d, <<Play>>), d)
      BY <2>5, <2>6, EmitTurns
    <2>8. Turns(Emit(d, <<Play>>), a)
      BY <2>3, <2>4, <2>7, SameTurns, TurnsTwice
    <2> QED BY <2>1, <2>8, TurnsKeeps
  <1>3. CASE a.st.kind \notin {"ended", "paused", "yielded"}
    <2>1. OnPlay(a) = a
      BY <1>3 DEF OnPlay, Replays
    <2> QED BY <2>1 DEF Marked, Heard
  <1> QED BY <1>1, <1>2, <1>3

\* A retry loads again what is being loaded.
LEMMA RetryReplays ==
  ASSUME NEW a \in Apps, NEW p, Replays(a, p)
  PROVE  Replays(OnRetryDue(a), p) /\ Marked(OnRetryDue(a), a)
  <1>1. CASE a.st.kind # "loading"
    <2>1. OnRetryDue(a) = a
      BY <1>1 DEF OnRetryDue
    <2> QED BY <2>1 DEF Marked, Heard
  <1>2. CASE a.st.kind = "loading"
    <2> DEFINE b == OnRetryDue(a)
    <2>1. b.st = a.st /\ b.rows = a.rows /\ b.restarted = a.restarted
      BY <1>2, EmitLeaves DEF OnRetryDue
    <2> HIDE DEF b
    <2>2. Replays(b, p)
      BY <1>2, <2>1 DEF Replays, Arrived, Positioned
    <2>3. Marked(b, a)
      BY <2>1 DEF Marked, Heard
    <2> QED BY <2>2, <2>3 DEF b
  <1> QED BY <1>1, <1>2

-----------------------------------------------------------------------------
(* The events that save *)

\* A save where the state stands, by whatever moved it there without moving
\* the place.
LEMMA RestingSave ==
  ASSUME NEW a \in Apps, NEW p, Replays(a, p), NEW b \in Apps, Turns(b, a),
         b.st.ep \in Episodes, b.st.kind \in Positioned, a.st.kind \in Positioned
  PROVE  Replays(Saved(b, FALSE, FALSE), p) /\ Marked(Saved(b, FALSE, FALSE), a)
  <1>1. Replays(b, p)
    BY TurnsKeeps
  <1>2. FALSE \in BOOLEAN
    OBVIOUS
  <1>3. Replays(Saved(b, FALSE, FALSE), p)
    BY <1>1, <1>2, SaveReplays DEF Replays
  <1>4. Marked(Saved(b, FALSE, FALSE), b)
    <2>1. Heard(b.rows[b.st.ep], b.st.ep) => b.restarted = b.st.ep \/ b.st.pos = End
      BY <1>1 DEF Replays, Arrived
    <2>2. EndsFinish(b.rows)
      BY <1>1 DEF Replays
    <2> QED BY <1>2, <2>1, <2>2, SaveMarks
  <1>5. Marked(Saved(b, FALSE, FALSE), a)
    BY <1>4 DEF Marked, Turns
  <1> QED BY <1>3, <1>5

LEMMA PauseReplays ==
  ASSUME NEW a, NEW p, NEW heard \in BOOLEAN, Good(a, p.src, heard), Replays(a, p)
  PROVE  Replays(OnPause(a), p) /\ Marked(OnPause(a), a)
  <1>1. CASE a.st.kind \notin Positioned
    <2>1. OnPause(a) = a
      BY <1>1 DEF OnPause
    <2> QED BY <2>1 DEF Marked, Heard
  <1>2. CASE a.st.kind \in Positioned
    <2> DEFINE c == To(a, "paused")
               d == Saved(c, FALSE, FALSE)
               e == [d EXCEPT !.session = a.st.ep]
    <2>1. OnPause(a) = Emit(e, <<Pause>>)
      BY <1>2 DEF OnPause
    <2>2. a \in Apps /\ a.st.ep \in Episodes
      BY <1>2 DEF Good, Fit, Sane, Positioned
    <2>3. Beside(c, a) /\ c.st.kind = "paused" /\ c.st.ep = a.st.ep
      BY <2>2, ToChanges DEF Kinds
    <2>4. Turns(c, a)
      BY <1>2, <2>2, ToTurns DEF Turns, Kinds, Positioned
    <2> HIDE DEF c
    <2>5. Fit(c, p.src, heard)
      BY <2>2, <2>3 DEF Good, Fit, Sane, Mute, Beside, Sounding
    <2>6. d \in Apps
      <3>1. Good(d, p.src, heard)
        BY <2>3, <2>5, SavedKeeps DEF Positioned
      <3> QED BY <3>1 DEF Good, Fit, Sane
    <2>7. Replays(d, p) /\ Marked(d, a)
      BY <1>2, <2>2, <2>3, <2>4, RestingSave DEF Beside, Positioned
    <2> HIDE DEF d
    <2>8. Same(e, d) /\ e \in Apps
      <3>1. e \in Apps
        BY <2>2, <2>6, SessionSet DEF Beside
      <3>2. Same(e, d)
        BY <2>6 DEF Same, Apps
      <3> QED BY <3>1, <3>2
    <2> HIDE DEF e
    <2>9. Pause \in Effects /\ Pause.kind \notin {"load", "seek"}
      BY EffectsOfThePlayer DEF Pause
    <2>10. Turns(Emit(e, <<Pause>>), d)
      BY <2>8, <2>9, EmitTurns, SameTurns, TurnsTwice
    <2>11. Replays(Emit(e, <<Pause>>), p)
      BY <2>7, <2>10, TurnsKeeps
    <2>12. Marked(Emit(e, <<Pause>>), a)
      BY <2>7, <2>10 DEF Marked, Turns
    <2> QED BY <2>1, <2>11, <2>12
  <1> QED BY <1>1, <1>2

LEMMA SleepReplays ==
  ASSUME NEW a, NEW p, NEW heard \in BOOLEAN, Good(a, p.src, heard), Replays(a, p)
  PROVE  Replays(FireSleep(a), p) /\ Marked(FireSleep(a), a)
  <1> DEFINE c == OnPause(a)
             b == [c EXCEPT !.deadline = "off", !.eoe = FALSE, !.hold = FALSE]
  <1>1. Replays(c, p) /\ Marked(c, a)
    BY PauseReplays
  <1>2. c \in Apps
    BY PauseKeeps DEF Stays, Good, Fit, Sane
  <1>3. FireSleep(a) = b
    BY DEF FireSleep
  <1> HIDE DEF c
  <1>4. Same(b, c)
    BY <1>2 DEF Same, Apps
  <1> HIDE DEF b
  <1>5. Replays(b, p)
    BY <1>1, <1>4, SameTurns, TurnsKeeps
  <1>6. Marked(b, a)
    BY <1>1, <1>4 DEF Marked, Same
  <1> QED BY <1>3, <1>5, <1>6

\* A place the player reports is saved: what was heard to its end is still
\* there, or replayed.
LEMMA ReportedSave ==
  ASSUME NEW a \in Apps, NEW p, Replays(a, p), a.st.kind \in Positioned, None \notin Episodes,
         NEW b \in Apps, b.rows = a.rows, b.restarted = a.restarted, b.chain = a.chain,
         b.st.kind \in Positioned, b.st.ep = a.st.ep, b.st.ep \in Episodes,
         b.st.pos = p.pos, b.st.of = Whose(a, p)
  PROVE  /\ Replays(b, p)
         /\ Replays(Saved(b, FALSE, FALSE), p) /\ Marked(Saved(b, FALSE, FALSE), a)
  <1>1. FALSE \in BOOLEAN
    OBVIOUS
  <1>2. EndsFinish(b.rows)
    BY DEF Replays
  <1>3. Arrived(b) => p.src = b.st.ep /\ p.pos = End /\ Quietly(b.chain)
    BY DEF Arrived, Whose
  <1>4. Arrived(a) => Arrived(b)
    BY DEF Replays, Arrived, Whose
  <1>5. Replays(Saved(b, FALSE, FALSE), p)
    BY <1>1, <1>2, <1>3, SaveReplays
  <1>6. Heard(b.rows[b.st.ep], b.st.ep) => b.restarted = b.st.ep \/ Arrived(b)
    BY <1>4 DEF Replays
  <1>7. Marked(Saved(b, FALSE, FALSE), b)
    BY <1>1, <1>2, <1>6, SaveMarks DEF Arrived
  <1>8. Marked(Saved(b, FALSE, FALSE), a)
    BY <1>7 DEF Marked
  <1>9. Replays(b, p)
    BY <1>2, <1>3, <1>6 DEF Replays, Positioned
  <1> QED BY <1>5, <1>8, <1>9

LEMMA TickReplays ==
  ASSUME NEW a, NEW p \in Players, Good(a, p.src, TRUE), Replays(a, p)
  PROVE  LET b == OnTick(a, p.pos, Whose(a, p)) IN Replays(b, p) /\ Marked(b, a)
  <1>1. CASE a.st.kind \notin Sounding
    <2>1. OnTick(a, p.pos, Whose(a, p)) = a
      BY <1>1 DEF OnTick
    <2> QED BY <2>1 DEF Marked, Heard
  <1>2. CASE a.st.kind \in Sounding
    <2> DEFINE of == Whose(a, p)
               s == [a.st EXCEPT !.pos = p.pos, !.of = of]
               b == [a EXCEPT !.st.pos = p.pos, !.st.of = of]
               z == [s EXCEPT !.last = p.pos]
               c == [b EXCEPT !.st.last = p.pos]
    <2>1. a \in Apps /\ a.st \in States /\ a.st.ep \in Episodes
      BY <1>2 DEF Good, Fit, Sane, Apps, Sounding
    <2>2. of \in Episodes \cup {None} /\ p.pos \in Places
      BY DEF Whose, Players
    <2>3. OnTick(a, p.pos, of) = IF p.pos > a.st.last THEN Saved(c, FALSE, FALSE) ELSE b
      BY <1>2 DEF OnTick
    <2> HIDE DEF of
    <2>4. b = [a EXCEPT !.st = s]
      BY <2>1 DEF Apps, States
    <2>5. /\ s \in States /\ z \in States
          /\ s.kind = a.st.kind /\ s.ep = a.st.ep /\ s.pos = p.pos /\ s.of = of
          /\ z.kind = a.st.kind /\ z.ep = a.st.ep /\ z.pos = p.pos /\ z.of = of
      BY <2>1, <2>2 DEF States
    <2> HIDE DEF s, z
    <2> HIDE DEF b
    <2>6. /\ b \in Apps /\ b.st = s /\ b.rows = a.rows /\ b.restarted = a.restarted
          /\ b.chain = a.chain
      <3>1. Beside(b, a)
        BY <2>1, <2>4, <2>5, StateChanges
      <3>2. /\ b.st = s /\ b.rows = a.rows /\ b.restarted = a.restarted
            /\ b.chain = a.chain
        BY <2>1, <2>4, StateAlone
      <3> QED BY <3>1, <3>2 DEF Beside
    <2>7. /\ c \in Apps /\ c.st = z /\ c.rows = a.rows /\ c.restarted = a.restarted
          /\ c.chain = a.chain
      <3>1. c = [b EXCEPT !.st = z]
        BY <2>6 DEF Apps, z
      <3> HIDE DEF c
      <3>2. Beside(c, b)
        BY <2>5, <2>6, <3>1, StateChanges
      <3>3. c.st = z /\ c.rows = b.rows /\ c.restarted = b.restarted /\ c.chain = b.chain
        BY <2>6, <3>1, StateAlone
      <3> QED BY <2>6, <3>2, <3>3 DEF Beside
    <2> HIDE DEF c
    <2>8. a.st.kind \in Positioned
      BY <1>2 DEF Sounding, Positioned
    <2>9. Replays(b, p)
      BY <2>1, <2>5, <2>6, <2>8, PlayerConstants, ReportedSave DEF of
    <2>10. Marked(b, a)
      BY <2>6 DEF Marked, Heard
    <2>11. Replays(Saved(c, FALSE, FALSE), p) /\ Marked(Saved(c, FALSE, FALSE), a)
      BY <2>1, <2>5, <2>7, <2>8, PlayerConstants, ReportedSave DEF of
    <2> QED BY <2>3, <2>9, <2>10, <2>11 DEF of
  <1> QED BY <1>1, <1>2

LEMMA ExternalPauseReplays ==
  ASSUME NEW a, NEW heard \in BOOLEAN, NEW p \in Players, Good(a, p.src, heard), Replays(a, p)
  PROVE  LET b == OnExternalPause(a, p.pos, Whose(a, p)) IN Replays(b, p) /\ Marked(b, a)
  <1>1. CASE a.st.kind \notin Sounding
    <2>1. OnExternalPause(a, p.pos, Whose(a, p)) = a
      BY <1>1 DEF OnExternalPause
    <2> QED BY <2>1 DEF Marked, Heard
  <1>2. CASE a.st.kind \in Sounding
    <2> DEFINE of == Whose(a, p)
               c == To(a, "yielded")
               d == At(c, p.pos, of)
               e == Saved(d, FALSE, FALSE)
               f == [e EXCEPT !.watch = TRUE]
    <2>1. OnExternalPause(a, p.pos, of) = f
      BY <1>2 DEF OnExternalPause
    <2>2. a \in Apps /\ a.st.ep \in Episodes /\ a.st.kind \in Positioned
      BY <1>2 DEF Good, Fit, Sane, Sounding, Positioned
    <2>3. of \in Episodes \cup {None} /\ p.pos \in Places
      BY DEF Whose, Players
    <2> HIDE DEF of
    <2>4. Beside(c, a) /\ c.st.kind = "yielded" /\ c.st.ep = a.st.ep
          /\ c.restarted = a.restarted
      BY <2>2, ToChanges, ToTurns DEF Kinds
    <2> HIDE DEF c
    <2>5. /\ Beside(d, c) /\ d.st.kind = "yielded" /\ d.st.ep = a.st.ep
          /\ d.st.pos = p.pos /\ d.st.of = of /\ d.restarted = a.restarted
      BY <2>3, <2>4, AtChanges, AtTurns DEF Beside
    <2> HIDE DEF d
    <2>6. d \in Apps /\ d.rows = a.rows /\ d.chain = a.chain
      BY <2>4, <2>5 DEF Beside
    <2>7. Replays(e, p) /\ Marked(e, a)
      BY <2>2, <2>5, <2>6, PlayerConstants, ReportedSave DEF of, Positioned
    <2>8. Fit(d, p.src, heard)
      BY <2>2, <2>4, <2>5 DEF Good, Fit, Sane, Mute, Beside, Sounding
    <2>9. e \in Apps
      <3>1. Good(e, p.src, heard)
        BY <2>5, <2>8, SavedKeeps DEF Positioned
      <3> QED BY <3>1 DEF Good, Fit, Sane
    <2> HIDE DEF e
    <2>10. Same(f, e)
      BY <2>9 DEF Same, Apps
    <2> HIDE DEF f
    <2>11. Replays(f, p)
      BY <2>7, <2>10, SameTurns, TurnsKeeps
    <2>12. Marked(f, a)
      BY <2>7, <2>10 DEF Marked, Same
    <2> QED BY <2>1, <2>11, <2>12 DEF of
  <1> QED BY <1>1, <1>2

LEMMA OnEndedReplays ==
  ASSUME NEW a, NEW heard \in BOOLEAN, NEW p, Good(a, p.src, heard), Replays(a, p)
  PROVE  Replays(OnEnded(a), p) /\ Marked(OnEnded(a), a)
  <1>1. CASE a.st.kind \notin Sounding
    <2>1. OnEnded(a) = a
      BY <1>1 DEF OnEnded
    <2> QED BY <2>1 DEF Marked, Heard
  <1>2. CASE a.st.kind \in Sounding
    <2> DEFINE c == Saved(a, TRUE, FALSE)
    <2>1. OnEnded(a) = Ended(c)
      BY <1>2 DEF OnEnded
    <2>2. heard /\ a \in Apps /\ a.st.ep \in Episodes /\ Fit(a, p.src, TRUE)
      BY <1>2 DEF Good, Fit, Sane, Mute, Sounding
    <2>3. c \in Apps
      <3>1. Good(c, p.src, TRUE)
        BY <1>2, <2>2, SavedKeeps DEF Positioned, Sounding
      <3> QED BY <3>1 DEF Good, Fit, Sane
    <2>4. EndsFinish(c.rows) /\ Marked(c, a)
      <3>1. TRUE \in BOOLEAN /\ FALSE \in BOOLEAN /\ EndsFinish(a.rows)
        BY DEF Replays
      <3> QED BY <2>2, <3>1, SaveMarks
    <2> HIDE DEF c
    <2>5. Replays(Ended(c), p) /\ Ended(c).rows = c.rows
      BY <2>3, <2>4, EndedReplays
    <2>6. Marked(Ended(c), a)
      BY <2>4, <2>5 DEF Marked
    <2> QED BY <2>1, <2>5, <2>6
  <1> QED BY <1>1, <1>2

LEMMA SeekReplays ==
  ASSUME NEW a, NEW heard \in BOOLEAN, NEW p, Good(a, p.src, heard), Replays(a, p),
         NEW place \in Places
  PROVE  Replays(OnSeek(a, place), p) /\ Marked(OnSeek(a, place), a)
  <1>1. CASE a.st.kind \notin Positioned
    <2>1. OnSeek(a, place) = a
      BY <1>1 DEF OnSeek
    <2> QED BY <2>1 DEF Marked, Heard
  <1>2. CASE a.st.kind \in Positioned
    <2> DEFINE c == At(a, place, a.st.ep)
               b == Saved(c, place = End, TRUE)
               d == Emit(b, <<Seek(place)>>)
    <2>1. OnSeek(a, place) = IF place = End THEN Ended(d) ELSE d
      BY <1>2 DEF OnSeek
    <2>2. a \in Apps /\ a.st.ep \in Episodes
      BY <1>2 DEF Good, Fit, Sane, Positioned
    <2>3. /\ Beside(c, a) /\ c.st.pos = place /\ c.st.kind = a.st.kind
          /\ c.st.ep = a.st.ep /\ c.st.intent = a.st.intent
      BY <2>2, AtChanges
    <2> HIDE DEF c
    <2>4. Fit(c, p.src, heard)
      BY <2>3 DEF Good, Fit, Sane, Mute, Beside
    <2>5. (place = End) \in BOOLEAN /\ TRUE \in BOOLEAN
      OBVIOUS
    <2>6. b \in Apps
      <3>1. Good(b, p.src, heard)
        BY <1>2, <2>3, <2>4, <2>5, SavedKeeps
      <3> QED BY <3>1 DEF Good, Fit, Sane
    <2>7. /\ b.st = c.st /\ EndsFinish(b.rows) /\ Marked(b, c)
          /\ Heard(b.rows[c.st.ep], c.st.ep) => place = End
      <3>1. c \in Apps /\ c.st.ep \in Episodes /\ EndsFinish(c.rows)
        BY <2>2, <2>3 DEF Beside, Replays
      <3> QED BY <2>3, <2>5, <3>1, SaveMarks
    <2> HIDE DEF b
    <2>8. d.st = c.st /\ d.rows = b.rows
      BY <2>6, <2>7, EmitLeaves
    <2>9. d \in Apps
      <3>1. Seek(place) \in Effects
        BY EffectsOfThePlayer
      <3>2. b.chain \o <<Seek(place)>> \in Seq(Effects)
        BY <2>6, <3>1, Appended DEF Apps
      <3> HIDE DEF d
      <3> DEFINE q == b.chain \o <<Seek(place)>>
      <3>3. d = [b EXCEPT !.chain = q]
        BY <2>6 DEF d, Emit, Apps
      <3> HIDE DEF q
      <3> QED BY <2>6, <3>2, <3>3 DEF Apps, q
    <2> HIDE DEF d
    <2>10. Marked(d, a)
      BY <2>3, <2>7, <2>8 DEF Marked, Beside
    <2>11. CASE place = End
      <3>1. Replays(Ended(d), p) /\ Ended(d).rows = d.rows
        BY <2>7, <2>8, <2>9, EndedReplays
      <3>2. Marked(Ended(d), a)
        BY <2>10, <3>1 DEF Marked
      <3> QED BY <2>1, <2>11, <3>1, <3>2
    <2>12. CASE place # End
      <3>1. Replays(d, p)
        BY <1>2, <2>3, <2>7, <2>8, <2>12 DEF Replays, Arrived, Positioned
      <3> QED BY <2>1, <2>10, <2>12, <3>1
    <2> QED BY <2>11, <2>12
  <1> QED BY <1>1, <1>2


-----------------------------------------------------------------------------
(* A status without a failure *)

\* An event that leaves the place, the rows and the switches alone.
Goes(b, a, src, heard) == Stays(b, a, src, heard) /\ Turns(b, a)

LEMMA GoesOn ==
  ASSUME NEW a, NEW b, NEW c, NEW src, NEW heard, Goes(b, a, src, heard),
         Goes(c, b, src, heard)
  PROVE  Goes(c, a, src, heard)
  BY TurnsTwice DEF Goes, Stays

LEMMA GoesBeside ==
  ASSUME NEW a, NEW src, NEW heard \in BOOLEAN, Good(a, src, heard), NEW b,
         Beside(b, a), b.st = a.st, b.restarted = a.restarted
  PROVE  Goes(b, a, src, heard)
  <1>1. Stays(b, a, src, heard)
    BY BesideKeeps DEF Stays, Beside
  <1>2. Same(b, a)
    BY DEF Same, Beside
  <1> QED BY <1>1, <1>2, SameTurns DEF Goes

\* What an event makes of the app after others that left the rows alone.
LEMMA AfterTurns ==
  ASSUME NEW a, NEW b, NEW c, NEW p, Turns(b, a), Replays(c, p) /\ Marked(c, b)
  PROVE  Replays(c, p) /\ Marked(c, a)
  BY DEF Turns, Marked

LEMMA ObservedReplays ==
  ASSUME NEW a, NEW heard \in BOOLEAN, NEW p \in Players, Good(a, p.src, heard),
         heard \/ ~p.want, ~p.error, Replays(a, p)
  PROVE  Replays(Observed(a, p), p) /\ Marked(Observed(a, p), a)
  <1> DEFINE of == IF \E i \in DOMAIN a.chain : a.chain[i].kind \in {"load", "seek"}
                   THEN None ELSE p.src
             loads == p.ready /\ ~a.was.loaded
             l == [a EXCEPT !.was.loaded = TRUE]
             a1 == IF loads THEN OnLoaded(l) ELSE a
             m == [a1 EXCEPT !.was.buffering = p.buffering]
             a2 == IF p.buffering # a1.was.buffering THEN OnBuffer(m, p.buffering) ELSE a1
             plays == SoundsNow(p)
             told == CASE plays /\ ~a.asks.play -> OnExternalResume(a2)
                       [] ~plays /\ ~a.asks.pause -> OnExternalPause(a2, p.pos, of)
                       [] OTHER -> a2
             n == [told EXCEPT !.was.playing = plays,
                               !.asks = [play |-> FALSE, pause |-> FALSE]]
             a3 == IF plays = a.was.playing THEN a2 ELSE n
             z == [a1 EXCEPT !.was.playing = FALSE]
  <1>1. Observed(a, p) = IF p.ended THEN OnEnded(z)
                         ELSE IF ~plays THEN a3
                         ELSE IF a3.deadline = "due" THEN FireSleep(a3)
                         ELSE OnTick(a3, p.pos, of)
    BY DEF Observed
  <1>2. /\ of = Whose(a, p) /\ of \in Episodes \cup {None} /\ p.pos \in Places
        /\ plays \in BOOLEAN /\ p.buffering \in BOOLEAN
        /\ plays => heard
    <2>1. of = Whose(a, p)
      BY DEF Whose, Quietly
    <2> QED BY <2>1 DEF Players, SoundsNow
  <1> HIDE DEF of, plays
  <1>3. Goes(a, a, p.src, heard)
    BY DEF Goes, Stays, Turns
  <1>4. Goes(l, a, p.src, heard)
    <2>1. l \in Apps
      BY DEF Good, Fit, Sane, Apps
    <2>2. /\ l.rows = a.rows /\ l.chain = a.chain /\ l.retry = a.retry
          /\ l.eoe = a.eoe /\ l.hold = a.hold /\ l.st = a.st /\ l.restarted = a.restarted
      BY DEF Good, Fit, Sane, Apps
    <2> HIDE DEF l
    <2> QED BY <2>1, <2>2, GoesBeside DEF Beside
  <1> HIDE DEF l
  <1>5. Goes(a1, a, p.src, heard)
    <2>1. l \in Apps /\ Good(l, p.src, heard)
      BY <1>4 DEF Goes, Stays, Good, Fit, Sane
    <2>2. Goes(OnLoaded(l), l, p.src, heard)
      BY <2>1, LoadedKeeps, LoadedTurns DEF Goes
    <2>3. Goes(OnLoaded(l), a, p.src, heard)
      BY <1>4, <2>2, GoesOn
    <2> QED BY <1>3, <2>3
  <1> HIDE DEF a1
  <1>6. a1 \in Apps /\ Good(a1, p.src, heard)
    BY <1>5 DEF Goes, Stays, Good, Fit, Sane
  <1>7. Goes(m, a1, p.src, heard)
    <2>1. m \in Apps
      BY <1>2, <1>6 DEF Apps
    <2>2. /\ m.rows = a1.rows /\ m.chain = a1.chain /\ m.retry = a1.retry
          /\ m.eoe = a1.eoe /\ m.hold = a1.hold /\ m.st = a1.st
          /\ m.restarted = a1.restarted
      BY <1>6 DEF Apps
    <2> HIDE DEF m
    <2> QED BY <1>6, <2>1, <2>2, GoesBeside DEF Beside
  <1> HIDE DEF m
  <1>8. Goes(a2, a, p.src, heard)
    <2>1. m \in Apps /\ Good(m, p.src, heard)
      BY <1>7 DEF Goes, Stays, Good, Fit, Sane
    <2>2. Goes(OnBuffer(m, p.buffering), m, p.src, heard)
      BY <1>2, <2>1, BufferKeeps, BufferTurns DEF Goes
    <2>3. Goes(OnBuffer(m, p.buffering), a, p.src, heard)
      BY <1>5, <1>7, <2>2, GoesOn
    <2> QED BY <1>5, <2>3
  <1> HIDE DEF a2
  <1>9. /\ a2 \in Apps /\ Good(a2, p.src, heard) /\ Turns(a2, a) /\ Replays(a2, p)
        /\ Whose(a2, p) = of /\ Marked(a2, a)
    <2>1. Turns(a2, a)
      BY <1>8 DEF Goes
    <2>2. Replays(a2, p) /\ Marked(a2, a) /\ Whose(a2, p) = Whose(a, p)
      BY <2>1, TurnsKeeps
    <2>3. a2 \in Apps /\ Good(a2, p.src, heard)
      BY <1>8 DEF Goes, Stays, Good, Fit, Sane
    <2> QED BY <1>2, <2>1, <2>2, <2>3
  <1>10. CASE p.ended
    <2>1. z \in Apps
      BY <1>6 DEF Apps
    <2>2. /\ z.rows = a1.rows /\ z.chain = a1.chain /\ z.retry = a1.retry
          /\ z.eoe = a1.eoe /\ z.hold = a1.hold /\ z.st = a1.st
          /\ z.restarted = a1.restarted
      BY <1>6 DEF Apps
    <2>3. Observed(a, p) = OnEnded(z)
      BY <1>1, <1>10
    <2> HIDE DEF z
    <2>4. Goes(z, a, p.src, heard)
      BY <1>5, <1>6, <2>1, <2>2, GoesBeside, GoesOn DEF Beside
    <2>5. Good(z, p.src, heard) /\ Turns(z, a) /\ Replays(z, p)
      BY <2>4, TurnsKeeps DEF Goes, Stays
    <2>6. Replays(OnEnded(z), p) /\ Marked(OnEnded(z), z)
      BY <2>5, OnEndedReplays
    <2> QED BY <2>3, <2>5, <2>6, AfterTurns
  <1>11. CASE ~p.ended /\ plays
    <2>1. told = IF ~a.asks.play THEN OnExternalResume(a2) ELSE a2
      BY <1>11
    <2> HIDE DEF told
    <2>2. Goes(told, a, p.src, heard)
      <3>1. Goes(OnExternalResume(a2), a2, p.src, heard)
        BY <1>2, <1>9, <1>11, ExternalResumeKeeps, ExternalResumeTurns DEF Goes
      <3> QED BY <1>8, <2>1, <3>1, GoesOn
    <2>3. told \in Apps /\ Good(told, p.src, heard)
      BY <2>2 DEF Goes, Stays, Good, Fit, Sane
    <2>4. Goes(n, told, p.src, heard)
      <3>1. n \in Apps
        BY <1>2, <2>3 DEF Apps
      <3>2. /\ n.rows = told.rows /\ n.chain = told.chain /\ n.retry = told.retry
            /\ n.eoe = told.eoe /\ n.hold = told.hold /\ n.st = told.st
            /\ n.restarted = told.restarted
        BY <2>3 DEF Apps
      <3> HIDE DEF n
      <3> QED BY <2>3, <3>1, <3>2, GoesBeside DEF Beside
    <2> HIDE DEF n
    <2>5. Goes(a3, a, p.src, heard)
      BY <1>8, <2>2, <2>4, GoesOn
    <2>6. Observed(a, p) = IF a3.deadline = "due" THEN FireSleep(a3)
                           ELSE OnTick(a3, p.pos, of)
      BY <1>1, <1>11
    <2> HIDE DEF a3
    <2>7. /\ Good(a3, p.src, heard) /\ Turns(a3, a) /\ Replays(a3, p)
          /\ Whose(a3, p) = of
      BY <1>2, <2>5, TurnsKeeps DEF Goes, Stays
    <2>8. Replays(FireSleep(a3), p) /\ Marked(FireSleep(a3), a3)
      BY <2>7, SleepReplays
    <2>9. Replays(OnTick(a3, p.pos, of), p) /\ Marked(OnTick(a3, p.pos, of), a3)
      <3>1. Good(a3, p.src, TRUE)
        BY <1>2, <1>11, <2>7
      <3> QED BY <2>7, <3>1, TickReplays
    <2> QED BY <2>6, <2>7, <2>8, <2>9, AfterTurns
  <1>12. CASE ~p.ended /\ ~plays
    <2>1. told = IF ~a.asks.pause THEN OnExternalPause(a2, p.pos, of) ELSE a2
      BY <1>12
    <2> HIDE DEF told
    <2>2. Good(told, p.src, heard) /\ Replays(told, p) /\ Marked(told, a)
      <3>1. Replays(OnExternalPause(a2, p.pos, of), p)
            /\ Marked(OnExternalPause(a2, p.pos, of), a2)
        BY <1>9, ExternalPauseReplays
      <3>2. Good(OnExternalPause(a2, p.pos, of), p.src, heard)
        BY <1>2, <1>9, ExternalPauseKeeps DEF Stays
      <3>3. Marked(OnExternalPause(a2, p.pos, of), a)
        BY <1>9, <3>1, AfterTurns
      <3> QED BY <1>9, <2>1, <3>1, <3>2, <3>3
    <2>3. told \in Apps
      BY <2>2 DEF Good, Fit, Sane
    <2>4. Same(n, told)
      BY <2>3 DEF Same, Apps
    <2> HIDE DEF n
    <2>5. Replays(n, p)
      BY <2>2, <2>4, SameTurns, TurnsKeeps
    <2>6. Marked(n, a)
      BY <2>2, <2>4 DEF Marked, Same
    <2>7. Observed(a, p) = a3
      BY <1>1, <1>12
    <2> QED BY <1>9, <2>5, <2>6, <2>7
  <1> QED BY <1>10, <1>11, <1>12

-----------------------------------------------------------------------------
(* The steps *)

\* The library reports no failure.
Calm(p) == ~p.error /\ ~p.failed /\ ~p.offline

ReplayInv == troubles = 0 => Replays(app, player) /\ Calm(player)

\* What a step leaves behind.
ReplayKept == ReplayInv' /\ (troubles = 0 => Marked(app', app))

LEMMA UntroubledStep ==
  ASSUME troubles' = troubles,
         troubles = 0 => Replays(app', player') /\ Calm(player') /\ Marked(app', app)
  PROVE  ReplayKept
  BY DEF ReplayKept, ReplayInv

\* The state and the rows stay; the player too, where the state is arrived.
LEMMA ReplaysOn ==
  ASSUME NEW a, NEW b, NEW p, NEW q, Replays(a, p),
         b.st = a.st, b.rows = a.rows, b.restarted = a.restarted,
         Arrived(a) => q.src = p.src /\ q.pos = p.pos /\ Quietly(b.chain)
  PROVE  Replays(b, q) /\ Marked(b, a)
  <1>1. Replays(b, q)
    BY DEF Replays, Arrived
  <1>2. Marked(b, a)
    BY DEF Marked, Heard
  <1> QED BY <1>1, <1>2

LEMMA ExecuteReplays ==
  ASSUME PlayerInv, ReplayInv, Execute
  PROVE  ReplayKept
  <1> SUFFICES ASSUME troubles = 0
               PROVE  Replays(app', player') /\ Calm(player') /\ Marked(app', app)
    BY UntroubledStep DEF Execute
  <1> DEFINE f == Head(app.chain)
             c == Tail(app.chain)
             done == [app EXCEPT !.chain = Tail(@)]
  <1>1. app \in Apps /\ player \in Players /\ app.chain # << >>
    BY DEF PlayerInv, Good, Fit, Sane, Execute
  <1>2. Replays(app, player) /\ Calm(player)
    BY DEF ReplayInv
  <1>3. /\ f \in Effects /\ f = app.chain[1] /\ 1 \in DOMAIN app.chain
        /\ c \in Seq(Effects) /\ Len(c) = Len(app.chain) - 1 /\ Len(app.chain) \in Nat
        /\ DOMAIN c = 1..Len(c) /\ DOMAIN app.chain = 1..Len(app.chain)
        /\ \A i \in 1..Len(c) : c[i] = app.chain[i + 1]
    <2>1. app.chain \in Seq(Effects)
      BY <1>1 DEF Apps
    <2> QED BY <1>1, <2>1, HeadTailProperties, EmptySeq, LenProperties
  <1>4. Quietly(app.chain) => Quietly(c) /\ f.kind \notin {"load", "seek"}
    <2> SUFFICES ASSUME Quietly(app.chain)
                 PROVE  Quietly(c) /\ f.kind \notin {"load", "seek"}
      OBVIOUS
    <2>1. ASSUME NEW i \in DOMAIN c PROVE c[i].kind \notin {"load", "seek"}
      <3>1. i + 1 \in DOMAIN app.chain /\ c[i] = app.chain[i + 1]
        BY <1>3
      <3> QED BY <3>1 DEF Quietly
    <2> QED BY <1>3, <2>1 DEF Quietly
  <1>5. Arrived(app) => Quietly(c) /\ f.kind \notin {"load", "seek"}
    BY <1>2, <1>4 DEF Replays
  <1>6. /\ done \in Apps /\ done.st = app.st /\ done.rows = app.rows
        /\ done.restarted = app.restarted /\ done.chain = c
    <2>1. done = [app EXCEPT !.chain = c]
      OBVIOUS
    <2> HIDE DEF c, done
    <2> QED BY <1>1, <1>3, <2>1 DEF Apps
  <1> HIDE DEF c
  <1>7. CASE f.kind = "load"
    <2>1. /\ app' = [app EXCEPT !.chain[1].kind = "seeking", !.was.loaded = FALSE]
          /\ player' = [Still EXCEPT !.src = f.ep, !.pos = f.pos, !.want = player.want,
                                     !.taken = player.taken, !.offline = player.offline]
      BY <1>7 DEF Execute
    <2>2. app'.st = app.st /\ app'.rows = app.rows /\ app'.restarted = app.restarted
      BY <1>1, <2>1 DEF Apps
    <2>3. Calm(player')
      BY <1>2, <2>1 DEF Calm, Still
    <2> QED BY <1>2, <1>5, <1>7, <2>2, <2>3, ReplaysOn
  <1>8. CASE f.kind = "seeking"
    <2>1. app' = done /\ player' = player
      BY <1>8 DEF Execute
    <2> HIDE DEF done
    <2> QED BY <1>2, <1>5, <1>6, <2>1, ReplaysOn
  <1>9. CASE f.kind = "seek"
    <2>1. /\ app' = done
          /\ player' = [player EXCEPT !.pos = f.pos, !.finished = FALSE, !.ended = FALSE]
      BY <1>9 DEF Execute
    <2>2. Calm(player')
      BY <1>1, <1>2, <2>1 DEF Calm, Players
    <2> HIDE DEF done
    <2> QED BY <1>2, <1>5, <1>6, <1>9, <2>1, <2>2, ReplaysOn
  <1>10. ASSUME app'.st = done.st /\ app'.rows = done.rows /\ app'.restarted = done.restarted
                /\ app'.chain = done.chain,
                player'.src = player.src /\ player'.pos = player.pos, Calm(player')
         PROVE  Replays(app', player') /\ Calm(player') /\ Marked(app', app)
    <2> HIDE DEF done, f
    <2> QED BY <1>2, <1>5, <1>6, <1>10, ReplaysOn
  <1>11. CASE f.kind \in {"play", "reassertFocus"}
    <2>1. app' = [done EXCEPT !.asks.play = TRUE]
      BY <1>11 DEF Execute
    <2>2. PICK refused \in BOOLEAN :
            player' = [player EXCEPT !.want = TRUE, !.taken = @ /\ refused]
      BY <1>11 DEF Execute
    <2> HIDE DEF done, f
    <2>3. player'.src = player.src /\ player'.pos = player.pos /\ Calm(player')
      BY <1>1, <1>2, <2>2 DEF Calm, Players
    <2>4. app'.st = done.st /\ app'.rows = done.rows /\ app'.restarted = done.restarted
          /\ app'.chain = done.chain
      BY <1>6, <2>1 DEF Apps
    <2> QED BY <1>10, <2>3, <2>4
  <1>12. CASE f.kind = "pause"
    <2>1. app' = [done EXCEPT !.asks.pause = TRUE]
          /\ player' = [player EXCEPT !.want = FALSE]
      BY <1>12 DEF Execute
    <2> HIDE DEF done, f
    <2>2. player'.src = player.src /\ player'.pos = player.pos /\ Calm(player')
      BY <1>1, <1>2, <2>1 DEF Calm, Players
    <2>3. app'.st = done.st /\ app'.rows = done.rows /\ app'.restarted = done.restarted
          /\ app'.chain = done.chain
      BY <1>6, <2>1 DEF Apps
    <2> QED BY <1>10, <2>2, <2>3
  <1>13. f.kind \in {"load", "seeking", "seek", "play", "pause", "reassertFocus"}
    BY <1>3 DEF Effects
  <1> QED BY <1>7, <1>8, <1>9, <1>11, <1>12, <1>13

LEMMA ReportReplays ==
  ASSUME PlayerInv, ReplayInv, Report
  PROVE  ReplayKept
  <1> SUFFICES ASSUME troubles = 0
               PROVE  Replays(app', player') /\ Calm(player') /\ Marked(app', app)
    BY UntroubledStep DEF Report
  <1>1. /\ player \in Players /\ asked \in BOOLEAN /\ Good(app, player.src, asked)
        /\ asked \/ ~player.want
    BY DEF PlayerInv
  <1>2. Replays(app, player) /\ Calm(player)
    BY DEF ReplayInv
  <1>3. Replays(Observed(app, player), player) /\ Marked(Observed(app, player), app)
    BY <1>1, <1>2, ObservedReplays DEF Calm
  <1>4. /\ app' = Observed(app, player)
        /\ player' = [player EXCEPT !.ended = FALSE, !.error = FALSE]
    BY DEF Report
  <1>5. player'.src = player.src /\ player'.pos = player.pos /\ Calm(player')
    BY <1>1, <1>2, <1>4 DEF Players, Calm
  <1>6. Replays(app', player')
    <2>1. Arrived(app') => Quietly(app'.chain)
      BY <1>3, <1>4 DEF Replays
    <2> QED BY <1>3, <1>4, <1>5, <2>1, ReplaysOn
  <1> QED BY <1>3, <1>4, <1>5, <1>6

\* A place at the end does not move.
LEMMA LibraryReplays ==
  ASSUME PlayerInv, ReplayInv,
         PlayerSettles \/ PlayerMoves \/ PlayerTroubled \/ PlayerRecovers \/ Button
  PROVE  ReplayKept
  <1>1. player \in Players /\ troubles \in Nat /\ app' = app
    BY DEF PlayerInv, PlayerSettles, PlayerMoves, PlayerTroubled, PlayerRecovers, Button,
           Changes
  <1>2. Marked(app', app)
    BY <1>1 DEF Marked, Heard
  <1>3. ASSUME troubles' = troubles,
               troubles = 0 => /\ player'.src = player.src /\ Calm(player')
                               /\ player.pos = End => player'.pos = player.pos
        PROVE  ReplayKept
    <2> SUFFICES ASSUME troubles = 0
                 PROVE  Replays(app', player') /\ Calm(player') /\ Marked(app', app)
      BY <1>3, UntroubledStep
    <2>1. Replays(app, player)
      BY DEF ReplayInv
    <2>2. Arrived(app) => player'.src = player.src /\ player'.pos = player.pos
                          /\ Quietly(app'.chain)
      BY <1>1, <1>3, <2>1 DEF Replays
    <2> QED BY <1>1, <1>2, <1>3, <2>1, <2>2, ReplaysOn
  <1>4. troubles = 0 => Calm(player)
    BY DEF ReplayInv
  <1>5. CASE PlayerSettles
    <2>1. troubles' = troubles
      BY <1>5 DEF PlayerSettles
    <2>2. ASSUME troubles = 0
          PROVE  player'.src = player.src /\ Calm(player') /\ player'.pos = player.pos
      <3>1. player' = [player EXCEPT !.ready = TRUE]
        BY <1>4, <1>5, <2>2 DEF PlayerSettles, Changes, Calm
      <3> QED BY <1>1, <1>4, <2>2, <3>1 DEF Players, Calm
    <2> QED BY <1>3, <2>1, <2>2
  <1>6. CASE PlayerMoves
    <2>1. troubles' = troubles
      BY <1>6 DEF PlayerMoves
    <2>2. player' = IF player.pos < End THEN [player EXCEPT !.pos = @ + 1]
                    ELSE [player EXCEPT !.finished = TRUE, !.ended = TRUE]
      BY <1>6 DEF PlayerMoves, Changes
    <2>3. /\ player'.src = player.src /\ player'.error = player.error
          /\ player'.failed = player.failed /\ player'.offline = player.offline
          /\ player.pos = End => player'.pos = player.pos
      <3>1. player.pos = End => ~(player.pos < End)
        BY PlayerConstants
      <3> QED BY <1>1, <2>2, <3>1 DEF Players
    <2>4. troubles = 0 => Calm(player')
      BY <1>4, <2>3 DEF Calm
    <2> QED BY <1>3, <2>1, <2>3, <2>4
  <1>7. CASE PlayerTroubled
    <2>1. troubles' = troubles + 1
      BY <1>7 DEF PlayerTroubled
    <2>2. troubles' # 0
      BY <1>1, <2>1
    <2> QED BY <1>2, <2>2 DEF ReplayKept, ReplayInv
  <1>8. CASE PlayerRecovers
    <2>1. troubles' = troubles
      BY <1>8 DEF PlayerRecovers
    <2>2. /\ player'.src = player.src /\ player'.pos = player.pos
          /\ player'.error = player.error /\ player'.failed = player.failed
          /\ (player.offline = FALSE => player'.offline = FALSE)
      BY <1>1, <1>8 DEF PlayerRecovers, Changes, Players
    <2>3. troubles = 0 => Calm(player')
      <3>1. player.offline \in BOOLEAN
        BY <1>1 DEF Players
      <3> QED BY <1>4, <2>2, <3>1 DEF Calm
    <2> QED BY <1>3, <2>1, <2>2, <2>3
  <1>9. CASE Button
    <2>1. troubles' = troubles
      BY <1>9 DEF Button
    <2>2. player' = [player EXCEPT !.want = ~@]
      BY <1>9 DEF Button
    <2>3. /\ player'.src = player.src /\ player'.pos = player.pos
          /\ player'.error = player.error /\ player'.failed = player.failed
          /\ player'.offline = player.offline
      BY <1>1, <2>2 DEF Players
    <2>4. troubles = 0 => Calm(player')
      BY <1>4, <2>3 DEF Calm
    <2> QED BY <1>3, <2>1, <2>3, <2>4
  <1> QED BY <1>5, <1>6, <1>7, <1>8, <1>9

\* A step of the app: the player stays as it is.
LEMMA AppStep ==
  ASSUME ReplayInv, troubles' = troubles, player' = player,
         Replays(app, player) => Replays(app', player) /\ Marked(app', app)
  PROVE  ReplayKept
  BY UntroubledStep DEF ReplayInv

LEMMA SameMarks ==
  ASSUME NEW a, NEW b, NEW p, Same(b, a)
  PROVE  Replays(a, p) => Replays(b, p) /\ Marked(b, a)
  BY SameTurns, TurnsKeeps

LEMMA ListenerReplays ==
  ASSUME PlayerInv, ReplayInv, Listener
  PROVE  ReplayKept
  <1>1. /\ app \in Apps /\ asked \in BOOLEAN /\ Good(app, player.src, asked)
    BY DEF PlayerInv, Good, Fit, Sane
  <1>2. ASSUME NEW a, NEW sound, Act(a, sound),
               Replays(app, player) => Replays(a, player) /\ Marked(a, app)
        PROVE  ReplayKept
    BY <1>2, AppStep DEF Act
  <1>3. ASSUME NEW e \in Episodes \ Gone, Act(Load(app, e, "play"), TRUE)
        PROVE  ReplayKept
    <2>1. ASSUME Replays(app, player)
          PROVE  Replays(Load(app, e, "play"), player) /\ Marked(Load(app, e, "play"), app)
      <3>1. /\ Replays(Load(app, e, "play"), player)
            /\ Load(app, e, "play").rows = app.rows
        BY <1>1, <2>1, LoadReplays DEF Replays
      <3> QED BY <3>1 DEF Marked, Heard
    <2> QED BY <1>2, <1>3, <2>1
  <1>4. CASE Act(OnPlay(app), TRUE)
    BY <1>1, <1>2, <1>4, PlayReplays
  <1>5. CASE Act(OnPause(app), FALSE)
    BY <1>1, <1>2, <1>5, PauseReplays
  <1>6. ASSUME NEW p \in Places, Act(OnSeek(app, p), p = End)
        PROVE  ReplayKept
    BY <1>1, <1>2, <1>6, SeekReplays
  <1>7. ASSUME NEW q, Act([app EXCEPT !.queue = q], FALSE)
        PROVE  ReplayKept
    <2> DEFINE b == [app EXCEPT !.queue = q]
    <2>1. Same(b, app)
      BY <1>1 DEF Same, Apps
    <2> HIDE DEF b
    <2>2. Replays(app, player) => Replays(b, player) /\ Marked(b, app)
      BY <2>1, SameMarks
    <2> QED BY <1>2, <1>7, <2>2 DEF b
  <1>8. ASSUME NEW d, NEW eoe, NEW hold, Act(Switched(app, d, eoe, hold), FALSE)
        PROVE  ReplayKept
    <2> DEFINE b == Switched(app, d, eoe, hold)
    <2>1. Same(b, app)
      BY <1>1 DEF Same, Apps, Switched
    <2> HIDE DEF b
    <2>2. Replays(app, player) => Replays(b, player) /\ Marked(b, app)
      BY <2>1, SameMarks
    <2> QED BY <1>2, <1>8, <2>2 DEF b
  <1>9. CASE Act([app EXCEPT !.deadline = "set", !.hold = app.eoe], FALSE)
    <2>1. [app EXCEPT !.deadline = "set", !.hold = app.eoe]
            = Switched(app, "set", app.eoe, app.eoe)
      BY <1>1 DEF Apps, Switched
    <2>2. Act(Switched(app, "set", app.eoe, app.eoe), FALSE)
      BY <1>9, <2>1
    <2> QED BY <1>8, <2>2
  <1>10. ASSUME NEW on, Act([app EXCEPT !.eoe = on, !.hold = on], FALSE)
         PROVE  ReplayKept
    <2>1. [app EXCEPT !.eoe = on, !.hold = on] = Switched(app, app.deadline, on, on)
      BY <1>1 DEF Apps, Switched
    <2>2. Act(Switched(app, app.deadline, on, on), FALSE)
      BY <1>10, <2>1
    <2> QED BY <1>8, <2>2
  <1>11. CASE Act([app EXCEPT !.deadline = "off", !.eoe = FALSE, !.hold = FALSE], FALSE)
    <2>1. Act(Switched(app, "off", FALSE, FALSE), FALSE)
      BY <1>11 DEF Switched
    <2> QED BY <1>8, <2>1, Zenon
  <1>12. ASSUME NEW e,
                \/ Act([app EXCEPT !.queue = Enqueued(@, e)], FALSE)
                \/ Act([app EXCEPT !.queue = Unqueued(@, e)], FALSE)
         PROVE  ReplayKept
    BY <1>7, <1>12
  <1> QED BY <1>3, <1>4, <1>5, <1>6, <1>9, <1>10, <1>11, <1>12 DEF Listener

LEMMA TimersReplay ==
  ASSUME PlayerInv, ReplayInv,
         Background \/ RetryDue \/ WatchExpires \/ DeadlinePasses \/ SleepTimeout
  PROVE  ReplayKept
  <1>1. /\ app \in Apps /\ asked \in BOOLEAN /\ Good(app, player.src, asked)
    BY DEF PlayerInv, Good, Fit, Sane
  <1>2. ASSUME NEW a, TimeOf(a),
               Replays(app, player) => Replays(a, player) /\ Marked(a, app)
        PROVE  ReplayKept
    BY <1>2, AppStep DEF TimeOf
  <1>3. CASE Background
    <2>1. app.st.kind \in Positioned /\ TimeOf(Saved(app, FALSE, FALSE))
      BY <1>3 DEF Background
    <2>2. app.st.ep \in Episodes
      BY <1>1, <2>1 DEF Good, Fit, Sane, Positioned
    <2>3. Turns(app, app)
      BY DEF Turns
    <2> QED BY <1>1, <1>2, <2>1, <2>2, <2>3, RestingSave
  <1>4. CASE RetryDue
    <2> DEFINE b == [app EXCEPT !.retry = FALSE]
    <2>1. TimeOf(OnRetryDue(b))
      BY <1>4 DEF RetryDue
    <2>2. Same(b, app) /\ b \in Apps
      <3>1. b \in Apps
        BY <1>1 DEF Apps
      <3> QED BY <1>1, <3>1 DEF Same, Apps
    <2> HIDE DEF b
    <2>3. ASSUME Replays(app, player)
          PROVE  Replays(OnRetryDue(b), player) /\ Marked(OnRetryDue(b), app)
      <3>1. Replays(b, player)
        BY <2>2, <2>3, SameMarks
      <3> QED BY <2>2, <3>1, RetryReplays, SameTurns, AfterTurns
    <2> QED BY <1>2, <2>1, <2>3
  <1>5. CASE WatchExpires
    <2> DEFINE b == [app EXCEPT !.watch = FALSE]
    <2>1. TimeOf(OnWatchExpired(b))
      BY <1>5 DEF WatchExpires
    <2>2. Same(b, app) /\ b \in Apps
      <3>1. b \in Apps
        BY <1>1 DEF Apps
      <3> QED BY <1>1, <3>1 DEF Same, Apps
    <2> HIDE DEF b
    <2>3. Turns(OnWatchExpired(b), app)
      BY <2>2, SameTurns, WatchTurns, TurnsTwice
    <2>4. Replays(app, player) =>
            Replays(OnWatchExpired(b), player) /\ Marked(OnWatchExpired(b), app)
      BY <2>3, TurnsKeeps
    <2> QED BY <1>2, <2>1, <2>4
  <1>6. CASE DeadlinePasses
    <2> DEFINE b == [app EXCEPT !.deadline = "due"]
    <2>1. TimeOf(b)
      BY <1>6 DEF DeadlinePasses
    <2>2. Same(b, app)
      BY <1>1 DEF Same, Apps
    <2> HIDE DEF b
    <2> QED BY <1>2, <2>1, <2>2, SameMarks
  <1>7. CASE SleepTimeout
    <2>1. TimeOf(FireSleep(app))
      BY <1>7 DEF SleepTimeout
    <2> QED BY <1>1, <1>2, <2>1, SleepReplays
  <1> QED BY <1>3, <1>4, <1>5, <1>6, <1>7

\* A start leaves the rows as the disk has them.
LEMMA RestartMarks ==
  ASSUME PlayerInv, ReplayInv, Restart
  PROVE  ReplayKept
  <1> DEFINE a == Fresh(app.rows, app.session, app.queue, app.eoe, app.deadline)
             r == Restored(a)
  <1>1. troubles \in Nat /\ app \in Apps
    BY DEF PlayerInv, Good, Fit, Sane
  <1>2. /\ app' = [r EXCEPT !.eoe = app.eoe, !.hold = app.eoe,
                            !.deadline = IF @ = "due" THEN "off" ELSE @]
        /\ troubles' = troubles + 1
    BY DEF Restart
  <1>3. troubles' # 0
    BY <1>1, <1>2
  <1>4. ASSUME troubles = 0 PROVE Marked(app', app)
    <2>1. EndsFinish(app.rows)
      BY <1>4 DEF ReplayInv, Replays
    <2>2. Started(a, app.session) /\ a.rows = app.rows
      <3>1. /\ app.rows \in [Episodes -> Rows \cup {None}]
            /\ app.session \in Episodes \cup {None}
            /\ app.queue \in Seq(Episodes) /\ app.eoe \in BOOLEAN
            /\ app.deadline \in {"off", "set", "due"}
        BY <1>1 DEF Apps
      <3>2. Started(a, app.session)
        BY <3>1, FreshKeeps, Zenon
      <3>3. a.rows = app.rows
        BY DEF Fresh
      <3> QED BY <3>2, <3>3
    <2>3. app.session \in Episodes \cup {None}
      BY <1>1 DEF Apps
    <2> HIDE DEF a
    <2>4. r.rows = app.rows
      <3>1. CASE a.session = None
        BY <2>2, <3>1 DEF Restored
      <3>2. CASE a.session # None
        <4>1. r = Load(a, a.session, "pause") /\ a.session \in Episodes
          BY <2>2, <2>3, <3>2 DEF Restored, Started
        <4> QED BY <2>1, <2>2, <4>1, LoadReplays DEF Started
      <3> QED BY <3>1, <3>2
    <2>5. "rows" \in DOMAIN r => app'.rows = r.rows
      BY <1>2
    <2>6. "rows" \in DOMAIN r
      <3>1. CASE a.session = None
        BY <2>2, <3>1 DEF Restored, Started, Apps
      <3>2. CASE a.session # None
        <4> DEFINE no == FALSE
        <4>1. r = Load(a, a.session, "pause") /\ a.session \in Episodes /\ no \in BOOLEAN
          BY <2>2, <2>3, <3>2 DEF Restored, Started
        <4> HIDE DEF no
        <4>2. Good(r, None, no)
          BY <2>2, <4>1, LoadKeeps DEF Started
        <4> QED BY <4>2 DEF Good, Fit, Sane, Apps
      <3> QED BY <3>1, <3>2
    <2> QED BY <2>4, <2>5, <2>6 DEF Marked, Heard
  <1> QED BY <1>3, <1>4 DEF ReplayKept, ReplayInv

LEMMA StepReplays ==
  PlayerInv /\ ReplayInv /\ [Next]_vars => ReplayKept
  <1> SUFFICES ASSUME PlayerInv, ReplayInv, [Next]_vars PROVE ReplayKept
    OBVIOUS
  <1>1. CASE UNCHANGED vars
    <2>1. app' = app /\ player' = player /\ troubles' = troubles
      BY <1>1 DEF vars
    <2> QED BY <2>1, UntroubledStep DEF ReplayInv, Marked, Heard
  <1>2. CASE Execute
    BY <1>2, ExecuteReplays
  <1>3. CASE Report
    BY <1>3, ReportReplays
  <1>4. CASE PlayerSettles \/ PlayerMoves \/ PlayerTroubled \/ PlayerRecovers \/ Button
    BY <1>4, LibraryReplays
  <1>5. CASE Listener
    BY <1>5, ListenerReplays
  <1>6. CASE Background \/ RetryDue \/ WatchExpires \/ DeadlinePasses \/ SleepTimeout
    BY <1>6, TimersReplay
  <1>7. CASE Restart
    BY <1>7, RestartMarks
  <1> QED BY <1>1, <1>2, <1>3, <1>4, <1>5, <1>6, <1>7 DEF Next

LEMMA InitReplays ==
  Init => ReplayInv
  <1> SUFFICES ASSUME Init PROVE Replays(app, player) /\ Calm(player)
    BY DEF ReplayInv
  <1> DEFINE none == [e \in Episodes |-> None]
  <1>1. app = Fresh(none, None, Queued, FALSE, "off") /\ player = Still
    BY DEF Init
  <1>2. app.rows = none /\ app.st.kind = "idle"
    BY <1>1 DEF Fresh
  <1>3. EndsFinish(app.rows)
    BY <1>2 DEF EndsFinish
  <1>4. Calm(player)
    BY <1>1 DEF Calm, Still
  <1> QED BY <1>2, <1>3, <1>4 DEF Replays, Arrived, Positioned

-----------------------------------------------------------------------------
(* Loads are awaited *)

HasLoad(c) == \E i \in DOMAIN c : c[i].kind = "load"

\* An event leaves no load behind: it ends the load, or a retry or a load is
\* still to come, or all stands as it did.
Works(b, a) ==
  /\ b.was.loaded = a.was.loaded
  /\ b.st.kind = "loading" =>
       \/ b.retry \/ HasLoad(b.chain)
       \/ a.st.kind = "loading" /\ b.retry = a.retry /\ b.chain = a.chain

LEMMA WorksTwice ==
  ASSUME NEW a, NEW b, NEW c, Works(b, a), Works(c, b)
  PROVE  Works(c, a)
  BY DEF Works

LEMMA WorksBeside ==
  ASSUME NEW a, NEW b, b.st.kind = a.st.kind, b.retry = a.retry, b.chain = a.chain,
         b.was.loaded = a.was.loaded
  PROVE  Works(b, a)
  BY DEF Works

LEMMA SavedWas ==
  ASSUME NEW a \in Apps, NEW reached, NEW explicit
  PROVE  Saved(a, reached, explicit).was = a.was
  <1> DEFINE r == [pos |-> a.st.pos, finished |-> reached \/ a.st.pos = End, of |-> a.st.of,
                   seek |-> explicit \/ (a.restarted = a.st.ep /\ ~(reached \/ a.st.pos = End))]
             x == IF a.restarted = a.st.ep THEN None ELSE a.restarted
  <1>1. Saved(a, reached, explicit) = [a EXCEPT !.rows[a.st.ep] = r, !.restarted = x]
    BY DEF Saved, Apps
  <1> HIDE DEF r, x
  <1> QED BY <1>1 DEF Apps

LEMMA WasKept ==
  ASSUME NEW a \in Apps
  PROVE  /\ \A kind : To(a, kind).was = a.was
         /\ \A p, of : At(a, p, of).was = a.was
         /\ Playing(a).was = a.was
         /\ \A reached, explicit : Saved(a, reached, explicit).was = a.was
         /\ \A effects : Emit(a, effects).was = a.was
  <1>1. \A kind : To(a, kind).was = a.was
    BY DEF To, Apps
  <1>2. \A p, of : At(a, p, of).was = a.was
    BY DEF At, Apps
  <1>3. Playing(a).was = a.was
    BY DEF Playing, Apps
  <1>4. \A reached, explicit : Saved(a, reached, explicit).was = a.was
    BY SavedWas
  <1>5. \A effects : Emit(a, effects).was = a.was
    BY DEF Emit, Apps
  <1> QED BY <1>1, <1>2, <1>3, <1>4, <1>5

LEMMA AppendedLoad ==
  ASSUME NEW c \in Seq(Effects), NEW f \in Effects
  PROVE  HasLoad(c) \/ f.kind = "load" => HasLoad(Append(c, f))
  <1> DEFINE d == Append(c, f)
  <1>1. /\ \A i \in 1..Len(c) : d[i] = c[i]
        /\ d[Len(c) + 1] = f /\ d \in Seq(Effects) /\ Len(d) = Len(c) + 1
    BY AppendProperties
  <1>2. DOMAIN c = 1..Len(c) /\ DOMAIN d = 1..(Len(c) + 1) /\ Len(c) \in Nat
    BY <1>1, LenProperties
  <1> HIDE DEF d
  <1>3. HasLoad(c) \/ f.kind = "load" => HasLoad(d)
    BY <1>1, <1>2 DEF HasLoad
  <1> QED BY <1>3 DEF d

LEMMA LoadingWorks ==
  ASSUME NEW a \in Apps, NEW ep \in Episodes, NEW p \in Places, NEW intent \in {"play", "pause"}
  PROVE  LET b == Loading(a, ep, p, intent) IN
         b \in Apps /\ b.was = a.was /\ HasLoad(b.chain)
  <1> DEFINE f == [kind |-> "load", ep |-> ep, pos |-> p]
             s == [kind |-> "loading", ep |-> ep, pos |-> p,
                   intent |-> intent, last |-> 0, of |-> ep]
             c == Append(a.chain, f)
             b == [a EXCEPT !.st = s, !.retries = 0, !.chain = c]
  <1>1. Loading(a, ep, p, intent) = b
    BY DEF Loading
  <1>2. a.chain \in Seq(Effects) /\ f \in Effects /\ f.kind = "load"
    BY EffectsOfThePlayer DEF Apps
  <1>3. s \in States
    BY PlayerConstants DEF States, Places
  <1>4. c \in Seq(Effects) /\ HasLoad(c)
    BY <1>2, AppendProperties, AppendedLoad
  <1>5. 0 \in 0..MaxRetries
    BY PlayerConstants
  <1> HIDE DEF c, s, f
  <1>6. b \in Apps
    BY <1>3, <1>4, <1>5 DEF Apps
  <1>7. b.was = a.was /\ b.chain = c
    BY DEF Apps
  <1> QED BY <1>1, <1>4, <1>6, <1>7

LEMMA LoadWorks ==
  ASSUME NEW a \in Apps, NEW ep \in Episodes, NEW intent \in {"play", "pause"}
  PROVE  Load(a, ep, intent).was = a.was /\ HasLoad(Load(a, ep, intent).chain)
  <1> DEFINE cleared == IF a.eoe THEN [a EXCEPT !.eoe = FALSE, !.hold = FALSE] ELSE a
             again == a.rows[ep] # None /\ a.rows[ep].finished
             l == Loading(cleared, ep, StartOf(a, ep), intent)
             x == IF again THEN ep ELSE None
             b == [l EXCEPT !.restarted = x, !.session = ep]
  <1>1. Load(a, ep, intent) = b
    BY DEF Load
  <1>2. cleared \in Apps /\ cleared.was = a.was
    <2> DEFINE z == [a EXCEPT !.eoe = FALSE, !.hold = FALSE]
    <2>1. z \in Apps
      BY DEF Apps
    <2>2. z.was = a.was
      BY DEF Apps
    <2> HIDE DEF z
    <2> QED BY <2>1, <2>2 DEF z
  <1>3. StartOf(a, ep) \in Places
    BY StartIsAPlace
  <1> HIDE DEF cleared
  <1>4. l \in Apps /\ l.was = a.was /\ HasLoad(l.chain)
    BY <1>2, <1>3, LoadingWorks
  <1> HIDE DEF l, x
  <1>5. b.was = l.was /\ b.chain = l.chain
    BY <1>4 DEF Apps
  <1> QED BY <1>1, <1>4, <1>5

LEMMA EndedWorks ==
  ASSUME NEW a \in Apps
  PROVE  Works(Ended(a), a)
  <1> DEFINE b == To(a, "ended")
  <1>1. b.st.kind = "ended" /\ b.was = a.was
    BY ToTurns, WasKept DEF Kinds
  <1>2. b \in Apps
    BY ToChanges DEF Kinds, Beside
  <1>3. Ended(a) = Advanced(b)
    BY DEF Ended
  <1> HIDE DEF b
  <1>4. ASSUME NEW c, c.st = b.st, c.was = b.was
        PROVE  Works(c, a)
    BY <1>1, <1>4 DEF Works
  <1> DEFINE ready == {i \in DOMAIN b.queue : b.queue[i] \notin Gone}
             first == CHOOSE i \in ready : \A j \in ready : i <= j
  <1>5. CASE b.hold /\ b.eoe
    <2> DEFINE c == [b EXCEPT !.hold = FALSE, !.eoe = FALSE, !.deadline = "off"]
    <2>1. Advanced(b) = c
      BY <1>5 DEF Advanced
    <2>2. c.st = b.st /\ c.was = b.was
      BY <1>2 DEF Apps
    <2> HIDE DEF c
    <2> QED BY <1>3, <1>4, <2>1, <2>2
  <1>6. CASE b.hold /\ ~b.eoe
    <2> DEFINE c == [b EXCEPT !.hold = FALSE]
    <2>1. Advanced(b) = c
      BY <1>6 DEF Advanced
    <2>2. c.st = b.st /\ c.was = b.was
      BY <1>2 DEF Apps
    <2> HIDE DEF c
    <2> QED BY <1>3, <1>4, <2>1, <2>2
  <1>7. CASE ~b.hold /\ ready = {}
    <2> DEFINE c == [b EXCEPT !.queue = << >>]
    <2>1. Advanced(b) = c
      BY <1>7 DEF Advanced
    <2>2. c.st = b.st /\ c.was = b.was
      BY <1>2 DEF Apps
    <2> HIDE DEF c
    <2> QED BY <1>3, <1>4, <2>1, <2>2
  <1>8. CASE ~b.hold /\ ready # {}
    <2>1. b.queue \in Seq(Episodes)
      BY <1>2 DEF Apps
    <2>2. ready \in SUBSET Nat /\ ready \subseteq 1..Len(b.queue)
      BY <2>1, LenProperties
    <2>3. first \in ready
      BY <1>8, <2>2, HasLeast
    <2>4. Advanced(b) = Load([b EXCEPT !.queue = SubSeq(@, first + 1, Len(@))],
                             b.queue[first], "play")
      BY <1>8 DEF Advanced
    <2> HIDE DEF first
    <2> DEFINE q == SubSeq(b.queue, first + 1, Len(b.queue))
               c == [b EXCEPT !.queue = q]
    <2>5. q \in Seq(Episodes) /\ b.queue[first] \in Episodes
      BY <2>1, <2>2, <2>3, Rest, ElementOfSeq
    <2>6. Advanced(b) = Load(c, b.queue[first], "play")
      BY <2>4
    <2> HIDE DEF q
    <2>7. c \in Apps /\ c.was = b.was
      BY <1>2, <2>5 DEF Apps
    <2> HIDE DEF c
    <2>8. /\ Load(c, b.queue[first], "play").was = c.was
          /\ HasLoad(Load(c, b.queue[first], "play").chain)
      BY <2>5, <2>7, LoadWorks
    <2> QED BY <1>1, <1>3, <2>6, <2>7, <2>8 DEF Works
  <1> QED BY <1>5, <1>6, <1>7, <1>8, <1>2 DEF Apps

LEMMA PlayWorks ==
  ASSUME NEW a, NEW src, Good(a, src, TRUE)
  PROVE  Works(OnPlay(a), a)
  <1>0. a \in Apps /\ a.st \in States
    BY DEF Good, Fit, Sane, Apps
  <1>1. CASE a.st.kind = "ended"
    <2> DEFINE z == At(a, 0, a.st.ep)
               c == Playing(z)
               d == [c EXCEPT !.retries = 0, !.restarted = a.st.ep, !.session = a.st.ep]
               b == Emit(d, <<Seek(0), Play>>)
    <2>1. OnPlay(a) = b
      BY <1>1 DEF OnPlay
    <2>2. 0 \in Places /\ a.st.ep \in Episodes \cup {None} /\ 0 \in 0..MaxRetries
      BY PlayerConstants DEF Places, Apps, Good, Fit, Sane, States
    <2>3. z \in Apps /\ z.was = a.was
      BY <1>0, <2>2, AtChanges, WasKept DEF Beside
    <2> HIDE DEF z
    <2>4. c \in Apps /\ c.was = a.was /\ c.st.kind = "playing"
      BY <2>3, PlayingChanges, WasKept DEF Beside
    <2> HIDE DEF c
    <2>5. d \in Apps /\ d.was = a.was /\ d.st = c.st
      <3>1. d \in Apps
        BY <2>2, <2>4 DEF Apps
      <3>2. d.was = c.was /\ d.st = c.st
        BY <2>4 DEF Apps
      <3> QED BY <2>4, <3>1, <3>2
    <2> HIDE DEF d
    <2>6. b.was = a.was /\ b.st.kind = "playing"
      BY <2>4, <2>5, EmitLeaves, WasKept
    <2> HIDE DEF b
    <2> QED BY <2>1, <2>6 DEF Works
  <1>2. CASE a.st.kind \in {"paused", "yielded"}
    <2> DEFINE c == Playing(a)
               d == [c EXCEPT !.retries = 0, !.session = a.st.ep]
               b == Emit(d, <<Play>>)
    <2>1. OnPlay(a) = b
      BY <1>2 DEF OnPlay
    <2>2. a.st.ep \in Episodes \cup {None} /\ 0 \in 0..MaxRetries
      BY PlayerConstants DEF Apps, Good, Fit, Sane, States
    <2>3. c \in Apps /\ c.was = a.was /\ c.st.kind = "playing"
      BY <1>0, PlayingChanges, WasKept DEF Beside
    <2> HIDE DEF c
    <2>4. d \in Apps /\ d.was = a.was /\ d.st = c.st
      <3>1. d \in Apps
        BY <2>2, <2>3 DEF Apps
      <3>2. d.was = c.was /\ d.st = c.st
        BY <2>3 DEF Apps
      <3> QED BY <2>3, <3>1, <3>2
    <2> HIDE DEF d
    <2>5. b.was = a.was /\ b.st.kind = "playing"
      BY <2>3, <2>4, EmitLeaves, WasKept
    <2> HIDE DEF b
    <2> QED BY <2>1, <2>5 DEF Works
  <1>3. CASE a.st.kind = "error" /\ a.st.ep # None
    <2> DEFINE c == Loading(a, a.st.ep, a.st.pos, "play")
               d == [c EXCEPT !.session = a.st.ep]
               b == Emit(d, <<Play>>)
    <2>1. OnPlay(a) = b
      BY <1>3 DEF OnPlay
    <2>2. a.st.ep \in Episodes /\ a.st.pos \in Places
      BY <1>0, <1>3 DEF States
    <2>3. c \in Apps /\ c.was = a.was /\ HasLoad(c.chain)
      BY <1>0, <2>2, LoadingWorks
    <2> HIDE DEF c
    <2>4. d \in Apps /\ d.was = a.was /\ d.chain = c.chain
      <3>1. d \in Apps
        BY <2>2, <2>3 DEF Apps
      <3>2. d.was = c.was /\ d.chain = c.chain
        BY <2>3 DEF Apps
      <3> QED BY <2>3, <3>1, <3>2
    <2> HIDE DEF d
    <2>5. b.was = a.was /\ HasLoad(b.chain)
      <3>1. d.chain \in Seq(Effects) /\ Play \in Effects
        BY <2>4, EffectsOfThePlayer DEF Apps
      <3>2. b.chain = Append(d.chain, Play)
        <4>1. b.chain = d.chain \o <<Play>>
          BY <2>4 DEF Emit, Apps
        <4> QED BY <3>1, <4>1, Appended
      <3> QED BY <2>3, <2>4, <3>1, <3>2, AppendedLoad, WasKept
    <2> HIDE DEF b
    <2> QED BY <2>1, <2>5 DEF Works
  <1>4. CASE a.st.kind \notin {"ended", "paused", "yielded"}
               /\ ~(a.st.kind = "error" /\ a.st.ep # None)
    BY <1>4 DEF OnPlay, Works
  <1> QED BY <1>1, <1>2, <1>3, <1>4

LEMMA PauseWorks ==
  ASSUME NEW a, NEW src, NEW heard \in BOOLEAN, Good(a, src, heard)
  PROVE  Works(OnPause(a), a)
  <1>1. CASE a.st.kind \notin Positioned
    BY <1>1 DEF OnPause, Works
  <1>2. CASE a.st.kind \in Positioned
    <2> DEFINE c == To(a, "paused")
               d == Saved(c, FALSE, FALSE)
               e == [d EXCEPT !.session = a.st.ep]
               b == Emit(e, <<Pause>>)
    <2>1. OnPause(a) = b
      BY <1>2 DEF OnPause
    <2>2. a \in Apps /\ a.st.ep \in Episodes
      BY <1>2 DEF Good, Fit, Sane, Positioned
    <2>3. Beside(c, a) /\ c.st.kind = "paused" /\ c.st.ep = a.st.ep /\ c.was = a.was
      BY <2>2, ToChanges, WasKept DEF Kinds
    <2> HIDE DEF c
    <2>4. Fit(c, src, heard)
      BY <2>2, <2>3 DEF Good, Fit, Sane, Mute, Beside, Sounding
    <2>5. d \in Apps /\ d.st = c.st
      BY <2>3, <2>4, SavedKeeps DEF Positioned, Good, Fit, Sane
    <2>6. d.was = a.was
      <3>1. c \in Apps
        BY <2>3 DEF Beside
      <3>2. d.was = c.was
        BY <3>1, SavedWas DEF d
      <3> QED BY <2>3, <3>2
    <2> HIDE DEF d
    <2>7. e \in Apps /\ e.st = d.st /\ e.was = d.was
      <3>1. e \in Apps /\ e.st = d.st
        BY <2>2, <2>5, SessionSet DEF Beside
      <3>2. e.was = d.was
        BY <2>5 DEF Apps
      <3> QED BY <3>1, <3>2
    <2> HIDE DEF e
    <2>8. b.was = a.was /\ b.st.kind = "paused"
      BY <2>3, <2>5, <2>6, <2>7, EmitLeaves, WasKept
    <2> HIDE DEF b
    <2> QED BY <2>1, <2>8 DEF Works
  <1> QED BY <1>1, <1>2

LEMMA SleepWorks ==
  ASSUME NEW a, NEW src, NEW heard \in BOOLEAN, Good(a, src, heard)
  PROVE  Works(FireSleep(a), a)
  <1> DEFINE c == OnPause(a)
             b == [c EXCEPT !.deadline = "off", !.eoe = FALSE, !.hold = FALSE]
  <1>1. Works(c, a) /\ c \in Apps
    BY PauseKeeps, PauseWorks DEF Stays, Good, Fit, Sane
  <1>2. FireSleep(a) = b
    BY DEF FireSleep
  <1> HIDE DEF c
  <1>3. b.st = c.st /\ b.retry = c.retry /\ b.chain = c.chain /\ b.was = c.was
    BY <1>1 DEF Apps
  <1> HIDE DEF b
  <1> QED BY <1>1, <1>2, <1>3, WorksBeside, WorksTwice

LEMMA SeekWorks ==
  ASSUME NEW a, NEW src, NEW heard \in BOOLEAN, NEW p \in Places, Good(a, src, heard)
  PROVE  Works(OnSeek(a, p), a)
  <1>1. CASE a.st.kind \notin Positioned
    BY <1>1 DEF OnSeek, Works
  <1>2. CASE a.st.kind \in Positioned
    <2> DEFINE c == At(a, p, a.st.ep)
               b == Saved(c, p = End, TRUE)
               d == Emit(b, <<Seek(p)>>)
    <2>1. OnSeek(a, p) = IF p = End THEN Ended(d) ELSE d
      BY <1>2 DEF OnSeek
    <2>2. a \in Apps /\ a.st.ep \in Episodes
      BY <1>2 DEF Good, Fit, Sane, Positioned
    <2>3. /\ Beside(c, a) /\ c.st.pos = p /\ c.st.kind = a.st.kind
          /\ c.st.ep = a.st.ep /\ c.st.intent = a.st.intent /\ c.was = a.was
      BY <2>2, AtChanges, WasKept
    <2> HIDE DEF c
    <2>4. Fit(c, src, heard)
      BY <2>3 DEF Good, Fit, Sane, Mute, Beside
    <2>5. (p = End) \in BOOLEAN
      OBVIOUS
    <2>6. Good(b, src, heard) /\ b.st = c.st /\ b.was = a.was
      <3>1. Good(b, src, heard) /\ b.st = c.st
        BY <1>2, <2>3, <2>4, <2>5, SavedKeeps
      <3>2. c \in Apps
        BY <2>3 DEF Beside
      <3>3. b.was = c.was
        <4> DEFINE reached == p = End  explicit == TRUE
        <4>1. b = Saved(c, reached, explicit)
          OBVIOUS
        <4> HIDE DEF b, reached, explicit
        <4> QED BY <3>2, <4>1, SavedWas
      <3> QED BY <2>3, <3>1, <3>3
    <2> HIDE DEF b
    <2>7. Seek(p) \in Effects /\ Seek(p).kind \notin {"load", "play", "reassertFocus"}
      BY EffectsOfThePlayer DEF Seek
    <2>8. d \in Apps /\ d.st = b.st /\ d.was = a.was
      <3>1. Good(d, src, heard) /\ d.st = b.st
        BY <2>6, <2>7, EmitKeeps
      <3>2. d.was = b.was
        BY <2>6, WasKept DEF Good, Fit, Sane
      <3> QED BY <2>6, <3>1, <3>2 DEF Good, Fit, Sane
    <2> HIDE DEF d
    <2>9. Works(d, a)
      BY <1>2, <2>3, <2>6, <2>8 DEF Works, Positioned
    <2>10. Works(Ended(d), a)
      BY <2>8, <2>9, EndedWorks, WorksTwice
    <2> QED BY <2>1, <2>9, <2>10
  <1> QED BY <1>1, <1>2

LEMMA EmittedType ==
  ASSUME NEW a \in Apps, NEW f \in Effects
  PROVE  Emit(a, <<f>>) \in Apps
  <1> DEFINE c == Append(a.chain, f)
  <1>1. a.chain \in Seq(Effects)
    BY DEF Apps
  <1>2. c \in Seq(Effects) /\ a.chain \o <<f>> = c
    BY <1>1, Appended
  <1>3. Emit(a, <<f>>) = [a EXCEPT !.chain = c]
    BY <1>2 DEF Emit
  <1> HIDE DEF c
  <1> QED BY <1>2, <1>3 DEF Apps

LEMMA LoadedWorks ==
  ASSUME NEW a \in Apps
  PROVE  OnLoaded(a) \in Apps /\ OnLoaded(a).was = a.was /\ OnLoaded(a).st.kind # "loading"
  <1>1. CASE a.st.kind # "loading"
    BY <1>1 DEF OnLoaded
  <1>2. CASE a.st.kind = "loading" /\ a.st.intent = "pause"
    <2> DEFINE c == To(a, "paused")
               b == [c EXCEPT !.retries = 0]
    <2>1. OnLoaded(a) = b
      BY <1>2 DEF OnLoaded
    <2>2. c \in Apps /\ c.st.kind = "paused" /\ c.was = a.was
      BY ToChanges, WasKept DEF Kinds, Beside
    <2> HIDE DEF c
    <2>3. b \in Apps /\ b.st = c.st
      BY <2>2, RetriesReset DEF Beside
    <2>4. b.was = c.was
      BY <2>2 DEF Apps
    <2> HIDE DEF b
    <2> QED BY <2>1, <2>2, <2>3, <2>4
  <1>3. CASE a.st.kind = "loading" /\ a.st.intent # "pause"
    <2> DEFINE c == Playing(a)
               d == [c EXCEPT !.retries = 0]
               b == Emit(d, <<Play>>)
    <2>1. OnLoaded(a) = b
      BY <1>3 DEF OnLoaded
    <2>2. c \in Apps /\ c.st.kind = "playing" /\ c.was = a.was
      BY PlayingChanges, WasKept DEF Beside
    <2> HIDE DEF c
    <2>3. d \in Apps /\ d.st = c.st
      BY <2>2, RetriesReset DEF Beside
    <2>4. d.was = c.was
      BY <2>2 DEF Apps
    <2> HIDE DEF d
    <2>5. b \in Apps /\ b.st = d.st /\ b.was = d.was
      <3>1. b.st = d.st /\ b.was = d.was
        BY <2>3, EmitLeaves, WasKept
      <3>2. Play \in Effects
        BY EffectsOfThePlayer DEF Play
      <3> QED BY <2>3, <3>1, <3>2, EmittedType
    <2> HIDE DEF b
    <2> QED BY <2>1, <2>2, <2>3, <2>4, <2>5
  <1> QED BY <1>1, <1>2, <1>3

LEMMA BufferWorks ==
  ASSUME NEW a \in Apps, NEW on \in BOOLEAN
  PROVE  Works(OnBuffer(a, on), a)
  <1>1. CASE on /\ a.st.kind = "playing"
    <2> DEFINE b == To(a, "buffering")
    <2>1. OnBuffer(a, on) = b
      BY <1>1 DEF OnBuffer
    <2>2. b.st.kind = "buffering" /\ b.was = a.was
      BY ToChanges, WasKept DEF Kinds
    <2> HIDE DEF b
    <2> QED BY <2>1, <2>2 DEF Works
  <1>2. CASE ~on /\ a.st.kind = "buffering"
    <2> DEFINE c == To(a, "playing")
               b == Emit(c, <<Reassert>>)
    <2>1. OnBuffer(a, on) = b
      BY <1>2 DEF OnBuffer
    <2>2. c \in Apps /\ c.st.kind = "playing" /\ c.was = a.was
      BY ToChanges, WasKept DEF Kinds, Beside
    <2> HIDE DEF c
    <2>3. b.st.kind = "playing" /\ b.was = a.was
      BY <2>2, EmitLeaves, WasKept
    <2> HIDE DEF b
    <2> QED BY <2>1, <2>3 DEF Works
  <1>3. CASE ~(on /\ a.st.kind = "playing") /\ ~(~on /\ a.st.kind = "buffering")
    BY <1>3 DEF OnBuffer, Works
  <1> QED BY <1>1, <1>2, <1>3

LEMMA ExternalResumeWorks ==
  ASSUME NEW a \in Apps
  PROVE  Works(OnExternalResume(a), a)
  <1>1. CASE a.st.kind \notin {"paused", "yielded"}
    BY <1>1 DEF OnExternalResume, Works
  <1>2. CASE a.st.kind \in {"paused", "yielded"}
    <2> DEFINE c == Playing(a)
               b == Emit(c, <<Reassert>>)
    <2>1. OnExternalResume(a) = b
      BY <1>2 DEF OnExternalResume
    <2>2. c \in Apps /\ c.st.kind = "playing" /\ c.was = a.was
      BY PlayingChanges, WasKept DEF Beside
    <2> HIDE DEF c
    <2>3. b.st.kind = "playing" /\ b.was = a.was
      BY <2>2, EmitLeaves, WasKept
    <2> HIDE DEF b
    <2> QED BY <2>1, <2>3 DEF Works
  <1> QED BY <1>1, <1>2

LEMMA WatchWorks ==
  ASSUME NEW a \in Apps
  PROVE  Works(OnWatchExpired(a), a)
  <1>1. CASE a.st.kind # "yielded"
    BY <1>1 DEF OnWatchExpired, Works
  <1>2. CASE a.st.kind = "yielded"
    <2> DEFINE b == To(a, "paused")
    <2>1. OnWatchExpired(a) = b
      BY <1>2 DEF OnWatchExpired
    <2>2. b.st.kind = "paused" /\ b.was = a.was
      BY ToChanges, WasKept DEF Kinds
    <2> HIDE DEF b
    <2> QED BY <2>1, <2>2 DEF Works
  <1> QED BY <1>1, <1>2

\* A save of what is not loading.
LEMMA SaveWorks ==
  ASSUME NEW a, NEW src, NEW heard \in BOOLEAN, Fit(a, src, heard), a.st.kind \in Positioned,
         NEW reached \in BOOLEAN, reached => a.st.pos = End \/ a.st.kind \in Sounding
  PROVE  LET b == Saved(a, reached, FALSE) IN
         b \in Apps /\ b.st = a.st /\ b.was = a.was
  <1> DEFINE explicit == FALSE
             b == Saved(a, reached, explicit)
  <1>1. a \in Apps /\ explicit \in BOOLEAN
    BY DEF Fit, Sane
  <1> HIDE DEF explicit
  <1>2. Good(b, src, heard) /\ b.st = a.st
    BY <1>1, SavedKeeps
  <1>3. b.was = a.was
    BY <1>1, WasKept
  <1> HIDE DEF b
  <1>4. b \in Apps /\ b.st = a.st /\ b.was = a.was
    BY <1>2, <1>3 DEF Good, Fit, Sane
  <1> QED BY <1>4 DEF b, explicit

LEMMA ExternalPauseWorks ==
  ASSUME NEW a, NEW src, NEW heard \in BOOLEAN, NEW p \in Places,
         NEW of \in Episodes \cup {None}, Good(a, src, heard)
  PROVE  Works(OnExternalPause(a, p, of), a)
  <1>1. CASE a.st.kind \notin Sounding
    BY <1>1 DEF OnExternalPause, Works
  <1>2. CASE a.st.kind \in Sounding
    <2> DEFINE c == To(a, "yielded")
               d == At(c, p, of)
               e == Saved(d, FALSE, FALSE)
               f == [e EXCEPT !.watch = TRUE]
    <2>1. OnExternalPause(a, p, of) = f
      BY <1>2 DEF OnExternalPause
    <2>2. a \in Apps /\ a.st.ep \in Episodes
      BY <1>2 DEF Good, Fit, Sane, Sounding
    <2>3. Beside(c, a) /\ c.st.kind = "yielded" /\ c.st.ep = a.st.ep /\ c.was = a.was
      BY <2>2, ToChanges, WasKept DEF Kinds
    <2> HIDE DEF c
    <2>4. Beside(d, c) /\ d.st.kind = "yielded" /\ d.st.ep = a.st.ep /\ d.was = c.was
      BY <2>3, AtChanges, WasKept DEF Beside
    <2> HIDE DEF d
    <2>5. Fit(d, src, heard)
      BY <2>2, <2>3, <2>4 DEF Good, Fit, Sane, Mute, Beside, Sounding
    <2>6. e \in Apps /\ e.st = d.st /\ e.was = d.was
      BY <2>4, <2>5, SaveWorks DEF Positioned
    <2> HIDE DEF e
    <2>7. f.st = e.st /\ f.was = e.was
      BY <2>6 DEF Apps
    <2> HIDE DEF f
    <2> QED BY <2>1, <2>3, <2>4, <2>6, <2>7 DEF Works
  <1> QED BY <1>1, <1>2

LEMMA TickWorks ==
  ASSUME NEW a, NEW src, NEW p \in Places, NEW of \in Episodes \cup {None},
         Good(a, src, TRUE)
  PROVE  Works(OnTick(a, p, of), a)
  <1>1. CASE a.st.kind \notin Sounding
    BY <1>1 DEF OnTick, Works
  <1>2. CASE a.st.kind \in Sounding
    <2> DEFINE s == [a.st EXCEPT !.pos = p, !.of = of]
               b == [a EXCEPT !.st.pos = p, !.st.of = of]
               z == [s EXCEPT !.last = p]
               c == [b EXCEPT !.st.last = p]
    <2>1. a \in Apps /\ a.st \in States
      BY DEF Good, Fit, Sane, Apps
    <2>2. b = [a EXCEPT !.st = s]
      BY <2>1 DEF Apps, States
    <2>3. OnTick(a, p, of) = IF p > a.st.last THEN Saved(c, FALSE, FALSE) ELSE b
      BY <1>2 DEF OnTick
    <2>4. /\ s \in States /\ z \in States
          /\ s.kind = a.st.kind /\ s.ep = a.st.ep /\ s.intent = a.st.intent
          /\ z.kind = a.st.kind /\ z.ep = a.st.ep /\ z.intent = a.st.intent
      BY <2>1 DEF States
    <2> HIDE DEF s, z
    <2>5. Beside(b, a) /\ b.st = s /\ b.was = a.was
      <3>1. Beside(b, a) /\ b.st = s
        BY <2>1, <2>2, <2>4, StateChanges
      <3>2. b.was = a.was
        BY <2>1, <2>2 DEF Apps
      <3> QED BY <3>1, <3>2
    <2> HIDE DEF b
    <2>6. Beside(c, b) /\ c.st = z /\ c.was = b.was
      <3>1. c = [b EXCEPT !.st = z]
        BY <2>5 DEF Beside, Apps, z
      <3> HIDE DEF c
      <3>2. Beside(c, b) /\ c.st = z
        BY <2>4, <2>5, <3>1, StateChanges DEF Beside
      <3>3. c.was = b.was
        BY <2>5, <3>1 DEF Beside, Apps
      <3> QED BY <3>2, <3>3
    <2> HIDE DEF c
    <2>7. Fit(c, src, TRUE)
      BY <1>2, <2>4, <2>5, <2>6 DEF Good, Fit, Sane, Beside, Sounding
    <2>8. /\ Saved(c, FALSE, FALSE).st = c.st
          /\ Saved(c, FALSE, FALSE).was = c.was
      BY <1>2, <2>4, <2>6, <2>7, SaveWorks DEF Positioned, Sounding
    <2>9. Works(b, a)
      BY <1>2, <2>4, <2>5 DEF Works, Sounding
    <2>10. Works(Saved(c, FALSE, FALSE), a)
      BY <1>2, <2>4, <2>5, <2>6, <2>8 DEF Works, Sounding
    <2> QED BY <2>3, <2>9, <2>10
  <1> QED BY <1>1, <1>2

LEMMA OnEndedWorks ==
  ASSUME NEW a, NEW src, NEW heard \in BOOLEAN, Good(a, src, heard)
  PROVE  Works(OnEnded(a), a)
  <1>1. CASE a.st.kind \notin Sounding
    BY <1>1 DEF OnEnded, Works
  <1>2. CASE a.st.kind \in Sounding
    <2> DEFINE c == Saved(a, TRUE, FALSE)
    <2>1. OnEnded(a) = Ended(c)
      BY <1>2 DEF OnEnded
    <2>2. c \in Apps /\ c.st = a.st /\ c.was = a.was
      BY <1>2, SaveWorks DEF Good, Positioned, Sounding
    <2> HIDE DEF c
    <2>3. c.st.ep \in Episodes /\ Works(c, a)
      BY <1>2, <2>2 DEF Works, Good, Fit, Sane, Sounding
    <2>4. Works(Ended(c), a)
      BY <2>2, <2>3, EndedWorks, WorksTwice
    <2> QED BY <2>1, <2>4
  <1> QED BY <1>1, <1>2

\* What fails is tried again at the retry's time, or the error is shown.
LEMMA ErrorWorks ==
  ASSUME NEW a, NEW src, NEW heard \in BOOLEAN, Good(a, src, heard)
  PROVE  LET b == OnError(a) IN
         b.was = a.was /\ (b.st.kind = "loading" => b.retry)
  <1> DEFINE v == IF a.st.kind \in Positioned THEN Saved(a, FALSE, FALSE) ELSE a
             tries == \/ a.st.kind \in Sounding
                      \/ a.st.kind = "loading" /\ a.st.intent = "play"
  <1>1. v \in Apps /\ v.was = a.was
    BY SaveWorks DEF Good, Fit, Sane
  <1>2. OnError(a) = IF ~tries \/ a.retries >= MaxRetries THEN Failed(v)
                     ELSE [To(v, "loading") EXCEPT !.retries = @ + 1, !.retry = TRUE]
    BY DEF OnError
  <1> HIDE DEF v, tries
  <1>3. /\ Failed(v).was = v.was /\ Failed(v).st.kind = "error"
    <2> DEFINE c == To(v, "error")
               p == IF v.st.kind \in Positioned \cup {"loading"} THEN c.st.pos ELSE 0
    <2>1. c \in Apps /\ c.st.kind = "error" /\ c.was = v.was
      BY <1>1, ToChanges, WasKept DEF Kinds, Beside
    <2>2. Failed(v) = [c EXCEPT !.st.pos = p]
      BY DEF Failed
    <2> HIDE DEF c, p
    <2> QED BY <2>1, <2>2 DEF Apps, States
  <1>4. LET b == [To(v, "loading") EXCEPT !.retries = @ + 1, !.retry = TRUE] IN
        b.was = v.was /\ b.retry = TRUE
    <2> DEFINE c == To(v, "loading")
    <2>1. c \in Apps /\ c.was = v.was
      BY <1>1, ToChanges, WasKept DEF Kinds, Beside
    <2> HIDE DEF c
    <2>2. [c EXCEPT !.retries = @ + 1, !.retry = TRUE].was = c.was
      BY <2>1 DEF Apps
    <2>3. [c EXCEPT !.retries = @ + 1, !.retry = TRUE].retry = TRUE
      BY <2>1 DEF Apps
    <2> QED BY <2>1, <2>2, <2>3 DEF c
  <1> QED BY <1>1, <1>2, <1>3, <1>4

\* What a load under way rests on: a retry, a load or a report is to come.
Awaits(a, p) ==
  /\ a.was.loaded => p.ready \/ p.failed
  /\ a.st.kind = "loading" =>
       \/ a.retry \/ HasLoad(a.chain)
       \/ (p.failed => p.error) /\ (p.ready => ~a.was.loaded)

LEMMA WorksAwaits ==
  ASSUME NEW a, NEW b, NEW p, Works(b, a), Awaits(a, p)
  PROVE  Awaits(b, p)
  BY DEF Works, Awaits

\* A status without a failure leaves no load behind, or it is the one that
\* reports the source ready.
LEMMA ObservedWorks ==
  ASSUME NEW a, NEW src, NEW heard \in BOOLEAN, Good(a, src, heard),
         NEW p \in Players, heard \/ ~p.want, ~p.error
  PROVE  LET b == Observed(a, p) IN
         \/ Works(b, a)
         \/ /\ p.ready /\ b.was.loaded
            /\ b.st.kind = "loading" => b.retry \/ HasLoad(b.chain)
  <1> DEFINE of == IF \E i \in DOMAIN a.chain : a.chain[i].kind \in {"load", "seek"}
                   THEN None ELSE p.src
             loads == p.ready /\ ~a.was.loaded
             l == [a EXCEPT !.was.loaded = TRUE]
             a1 == IF loads THEN OnLoaded(l) ELSE a
             m == [a1 EXCEPT !.was.buffering = p.buffering]
             a2 == IF p.buffering # a1.was.buffering THEN OnBuffer(m, p.buffering) ELSE a1
             plays == SoundsNow(p)
             told == CASE plays /\ ~a.asks.play -> OnExternalResume(a2)
                       [] ~plays /\ ~a.asks.pause -> OnExternalPause(a2, p.pos, of)
                       [] OTHER -> a2
             n == [told EXCEPT !.was.playing = plays,
                               !.asks = [play |-> FALSE, pause |-> FALSE]]
             a3 == IF plays = a.was.playing THEN a2 ELSE n
             z == [a1 EXCEPT !.was.playing = FALSE]
             b == Observed(a, p)
  <1>1. b = IF p.ended THEN OnEnded(z)
            ELSE IF ~plays THEN a3
            ELSE IF a3.deadline = "due" THEN FireSleep(a3)
            ELSE OnTick(a3, p.pos, of)
    BY DEF Observed
  <1>2. /\ of \in Episodes \cup {None} /\ p.pos \in Places
        /\ plays \in BOOLEAN /\ p.buffering \in BOOLEAN
        /\ plays => heard
    BY DEF Players, SoundsNow
  <1> HIDE DEF of, plays, b
  <1>3. Good(l, src, heard) /\ l \in Apps /\ l.was.loaded = TRUE
    <2>1. l \in Apps
      BY DEF Good, Fit, Sane, Apps
    <2>2. /\ l.rows = a.rows /\ l.chain = a.chain /\ l.retry = a.retry
          /\ l.eoe = a.eoe /\ l.hold = a.hold /\ l.st = a.st
      BY DEF Good, Fit, Sane, Apps
    <2>3. l.was.loaded = TRUE
      BY DEF Good, Fit, Sane, Apps
    <2> HIDE DEF l
    <2> QED BY <2>1, <2>2, <2>3, BesideKeeps DEF Beside
  <1> HIDE DEF l
  <1>4. Good(a1, src, heard) /\ a1 \in Apps
    BY <1>3, LoadedKeeps DEF Stays, Good, Fit, Sane
  <1>5. \/ a1 = a
        \/ p.ready /\ a1.was.loaded /\ a1.st.kind # "loading"
    BY <1>3, LoadedWorks
  <1> HIDE DEF a1, loads
  <1>6. Good(m, src, heard) /\ m \in Apps /\ Works(m, a1)
    <2>1. m \in Apps
      BY <1>2, <1>4 DEF Apps
    <2>2. /\ m.rows = a1.rows /\ m.chain = a1.chain /\ m.retry = a1.retry
          /\ m.eoe = a1.eoe /\ m.hold = a1.hold /\ m.st = a1.st
      BY <1>4 DEF Apps
    <2>3. m.was.loaded = a1.was.loaded
      BY <1>4 DEF Apps
    <2> HIDE DEF m
    <2> QED BY <1>4, <2>1, <2>2, <2>3, BesideKeeps, WorksBeside DEF Beside
  <1> HIDE DEF m
  <1>7. Good(a2, src, heard) /\ a2 \in Apps /\ Works(a2, a1)
    <2>1. Good(OnBuffer(m, p.buffering), src, heard) /\ Works(OnBuffer(m, p.buffering), m)
      BY <1>2, <1>6, BufferKeeps, BufferWorks DEF Stays
    <2>2. Works(OnBuffer(m, p.buffering), a1)
      BY <1>6, <2>1, WorksTwice
    <2>3. Works(a1, a1)
      BY DEF Works
    <2> QED BY <1>4, <2>1, <2>2, <2>3 DEF Good, Fit, Sane
  <1> HIDE DEF a2
  <1>8. Good(told, src, heard) /\ told \in Apps /\ Works(told, a2)
    <2>1. CASE plays /\ ~a.asks.play
      <3>1. Good(OnExternalResume(a2), src, heard)
        BY <1>2, <1>7, <2>1, ExternalResumeKeeps DEF Stays
      <3>2. Works(OnExternalResume(a2), a2)
        BY <1>7, ExternalResumeWorks
      <3> QED BY <2>1, <3>1, <3>2 DEF Good, Fit, Sane
    <2>2. CASE ~plays /\ ~a.asks.pause
      <3>1. Good(OnExternalPause(a2, p.pos, of), src, heard)
        BY <1>2, <1>7, ExternalPauseKeeps DEF Stays
      <3>2. Works(OnExternalPause(a2, p.pos, of), a2)
        BY <1>2, <1>7, ExternalPauseWorks
      <3> QED BY <2>2, <3>1, <3>2 DEF Good, Fit, Sane
    <2>3. CASE ~(plays /\ ~a.asks.play) /\ ~(~plays /\ ~a.asks.pause)
      <3>1. told = a2
        BY <2>3
      <3> HIDE DEF told
      <3> QED BY <1>7, <3>1 DEF Works
    <2> QED BY <2>1, <2>2, <2>3
  <1> HIDE DEF told
  <1>9. Good(n, src, heard) /\ Works(n, told)
    <2>1. n \in Apps
      BY <1>2, <1>8 DEF Apps
    <2>2. /\ n.rows = told.rows /\ n.chain = told.chain /\ n.retry = told.retry
          /\ n.eoe = told.eoe /\ n.hold = told.hold /\ n.st = told.st
      BY <1>8 DEF Apps
    <2>3. n.was.loaded = told.was.loaded
      BY <1>8 DEF Apps
    <2> HIDE DEF n
    <2> QED BY <1>8, <2>1, <2>2, <2>3, BesideKeeps, WorksBeside DEF Beside
  <1> HIDE DEF n
  <1>10. Good(a3, src, heard) /\ Works(a3, a1)
    <2>1. Works(n, a1)
      BY <1>7, <1>8, <1>9, WorksTwice
    <2> QED BY <1>7, <1>9, <2>1
  <1> HIDE DEF a3
  <1>11. Works(b, a1)
    <2>1. CASE p.ended
      <3>1. z \in Apps
        BY <1>4 DEF Apps
      <3>2. /\ z.rows = a1.rows /\ z.chain = a1.chain /\ z.retry = a1.retry
            /\ z.eoe = a1.eoe /\ z.hold = a1.hold /\ z.st = a1.st
        BY <1>4 DEF Apps
      <3>3. z.was.loaded = a1.was.loaded
        BY <1>4 DEF Apps
      <3>4. b = OnEnded(z)
        BY <1>1, <2>1
      <3> HIDE DEF z
      <3>5. Good(z, src, heard) /\ Works(z, a1)
        BY <1>4, <3>1, <3>2, <3>3, BesideKeeps, WorksBeside DEF Beside
      <3> QED BY <3>4, <3>5, OnEndedWorks, WorksTwice
    <2>2. CASE ~p.ended /\ ~plays
      BY <1>1, <1>10, <2>2
    <2>3. CASE ~p.ended /\ plays /\ a3.deadline = "due"
      <3>1. b = FireSleep(a3)
        BY <1>1, <2>3
      <3> QED BY <1>10, <3>1, SleepWorks, WorksTwice
    <2>4. CASE ~p.ended /\ plays /\ a3.deadline # "due"
      <3>1. b = OnTick(a3, p.pos, of)
        BY <1>1, <2>4
      <3>2. Good(a3, src, TRUE)
        BY <1>2, <1>10, <2>4, GoodWhenHeard
      <3> QED BY <1>2, <1>10, <3>1, <3>2, TickWorks, WorksTwice
    <2> QED BY <1>2, <2>1, <2>2, <2>3, <2>4
  <1>12. \/ Works(b, a)
         \/ /\ p.ready /\ b.was.loaded
            /\ b.st.kind = "loading" => b.retry \/ HasLoad(b.chain)
    BY <1>5, <1>11 DEF Works
  <1> QED BY <1>12 DEF b

-----------------------------------------------------------------------------
(* The steps *)

WaitInv ==
  /\ player.error => player.failed
  /\ ~(player.failed /\ player.ready)
  /\ Awaits(app, player)

LEMMA RunLoad ==
  ASSUME NEW c \in Seq(Effects), c # << >>, Head(c).kind # "load", HasLoad(c)
  PROVE  HasLoad(Tail(c))
  <1> DEFINE d == Tail(c)
  <1>1. /\ d \in Seq(Effects) /\ Len(d) = Len(c) - 1 /\ Head(c) = c[1]
        /\ \A i \in 1..Len(d) : d[i] = c[i + 1]
    BY HeadTailProperties
  <1>2. DOMAIN c = 1..Len(c) /\ DOMAIN d = 1..Len(d) /\ Len(c) \in Nat
    BY <1>1, LenProperties
  <1> HIDE DEF d
  <1>3. PICK i \in DOMAIN c : c[i].kind = "load"
    BY DEF HasLoad
  <1>4. i # 1
    BY <1>1, <1>3
  <1>5. i - 1 \in DOMAIN d /\ d[i - 1] = c[i]
    BY <1>1, <1>2, <1>4
  <1>6. HasLoad(d)
    BY <1>3, <1>5 DEF HasLoad
  <1> QED BY <1>6 DEF d

LEMMA ExecuteWaits ==
  PlayerInv /\ WaitInv /\ Execute => WaitInv'
  <1> SUFFICES ASSUME PlayerInv, WaitInv, Execute PROVE WaitInv'
    OBVIOUS
  <1> DEFINE f == Head(app.chain)
             done == [app EXCEPT !.chain = Tail(@)]
  <1>1. /\ app \in Apps /\ player \in Players /\ app.chain # << >>
    BY DEF PlayerInv, Good, Fit, Sane, Execute
  <1>2. /\ app.chain \in Seq(Effects) /\ f \in Effects
        /\ DOMAIN app.chain = 1..Len(app.chain) /\ 1 \in DOMAIN app.chain
    BY <1>1, HeadTailProperties, EmptySeq, LenProperties DEF Apps
  <1>3. CASE f.kind = "load"
    <2> DEFINE c == [app.chain EXCEPT ![1].kind = "seeking"]
               w == [app.was EXCEPT !.loaded = FALSE]
    <2>1. /\ app' = [app EXCEPT !.chain[1].kind = "seeking", !.was.loaded = FALSE]
          /\ player' = [Still EXCEPT !.src = f.ep, !.pos = f.pos, !.want = player.want,
                                     !.taken = player.taken, !.offline = player.offline]
      BY <1>3 DEF Execute
    <2>2. app' = [app EXCEPT !.chain = c, !.was = w]
      BY <1>1, <2>1 DEF Apps
    <2>3. w.loaded = FALSE
      BY <1>1 DEF Apps
    <2> HIDE DEF c, w, f
    <2>4. app'.was = w
      BY <1>1, <2>2 DEF Apps
    <2>5. ~player'.ready /\ ~player'.failed /\ ~player'.error
      BY <2>1 DEF Still
    <2> QED BY <2>3, <2>4, <2>5 DEF WaitInv, Awaits
  <1>4. ASSUME f.kind # "load", NEW b, b.chain = done.chain, b.was.loaded = app.was.loaded,
               b.st = app.st, b.retry = app.retry, app' = b,
               player'.ready = player.ready, player'.failed = player.failed,
               player'.error = player.error
        PROVE  WaitInv'
    <2>1. done.chain = Tail(app.chain)
      BY <1>1 DEF Apps
    <2> HIDE DEF done
    <2>2. HasLoad(app.chain) => HasLoad(b.chain)
      BY <1>1, <1>2, <1>4, <2>1, RunLoad
    <2> QED BY <1>4, <2>2 DEF WaitInv, Awaits
  <1>5. /\ done.was.loaded = app.was.loaded /\ done.st = app.st /\ done.retry = app.retry
        /\ done \in Apps
    <2> DEFINE c == Tail(app.chain)
    <2>1. c \in Seq(Effects)
      BY <1>1, <1>2, HeadTailProperties
    <2> HIDE DEF c
    <2>2. [app EXCEPT !.chain = c] \in Apps
      BY <1>1, <2>1 DEF Apps
    <2>3. LET d == [app EXCEPT !.chain = c] IN
          d.was.loaded = app.was.loaded /\ d.st = app.st /\ d.retry = app.retry
      BY <1>1 DEF Apps
    <2> QED BY <2>2, <2>3 DEF c
  <1> HIDE DEF done
  <1>6. CASE f.kind = "seeking"
    <2>1. app' = done /\ player' = player
      BY <1>6 DEF Execute, done
    <2> QED BY <1>4, <1>5, <1>6, <2>1
  <1>7. CASE f.kind = "seek"
    <2>1. /\ app' = done
          /\ player' = [player EXCEPT !.pos = f.pos, !.finished = FALSE, !.ended = FALSE]
      BY <1>7 DEF Execute, done
    <2> HIDE DEF f
    <2>2. /\ player'.ready = player.ready /\ player'.failed = player.failed
          /\ player'.error = player.error
      BY <1>1, <2>1 DEF Players
    <2> QED BY <1>4, <1>5, <1>7, <2>1, <2>2
  <1>8. CASE f.kind \in {"play", "reassertFocus"}
    <2>1. app' = [done EXCEPT !.asks.play = TRUE]
      BY <1>8 DEF Execute, done
    <2>2. PICK refused \in BOOLEAN :
            player' = [player EXCEPT !.want = TRUE, !.taken = @ /\ refused]
      BY <1>8 DEF Execute
    <2> HIDE DEF f
    <2>3. /\ player'.ready = player.ready /\ player'.failed = player.failed
          /\ player'.error = player.error
      BY <1>1, <2>2 DEF Players
    <2>4. app'.chain = done.chain /\ app'.was = done.was /\ app'.st = done.st
          /\ app'.retry = done.retry
      BY <1>5, <2>1 DEF Apps
    <2> QED BY <1>4, <1>5, <1>8, <2>3, <2>4
  <1>9. CASE f.kind = "pause"
    <2>1. /\ app' = [done EXCEPT !.asks.pause = TRUE]
          /\ player' = [player EXCEPT !.want = FALSE]
      BY <1>9 DEF Execute, done
    <2> HIDE DEF f
    <2>2. /\ player'.ready = player.ready /\ player'.failed = player.failed
          /\ player'.error = player.error
      BY <1>1, <2>1 DEF Players
    <2>3. app'.chain = done.chain /\ app'.was = done.was /\ app'.st = done.st
          /\ app'.retry = done.retry
      BY <1>5, <2>1 DEF Apps
    <2> QED BY <1>4, <1>5, <1>9, <2>2, <2>3
  <1>10. f.kind \in {"load", "seeking", "seek", "play", "pause", "reassertFocus"}
    BY <1>2 DEF Effects
  <1> QED BY <1>3, <1>6, <1>7, <1>8, <1>9, <1>10

LEMMA ReportWaits ==
  PlayerInv /\ WaitInv /\ Report => WaitInv'
  <1> SUFFICES ASSUME PlayerInv, WaitInv, Report PROVE WaitInv'
    OBVIOUS
  <1>1. /\ app' = Observed(app, player)
        /\ player' = [player EXCEPT !.ended = FALSE, !.error = FALSE]
    BY DEF Report
  <1>2. /\ asked \in BOOLEAN /\ Good(app, player.src, asked) /\ player \in Players
        /\ asked \/ ~player.want
    BY DEF PlayerInv
  <1>3. /\ player'.ready = player.ready /\ player'.failed = player.failed
        /\ player'.error = FALSE
    BY <1>1, <1>2 DEF Players
  <1>4. CASE player.error
    <2>1. app' = OnError(app)
      BY <1>1, <1>4 DEF Observed
    <2>2. app'.was = app.was /\ (app'.st.kind = "loading" => app'.retry)
      BY <1>2, <2>1, ErrorWorks
    <2> QED BY <1>3, <2>2 DEF WaitInv, Awaits
  <1>5. CASE ~player.error
    <2>1. \/ Works(app', app)
          \/ /\ player.ready /\ app'.was.loaded
             /\ app'.st.kind = "loading" => app'.retry \/ HasLoad(app'.chain)
      BY <1>1, <1>2, <1>5, ObservedWorks
    <2>2. CASE Works(app', app)
      <3>1. Awaits(app', player)
        BY <2>2, WorksAwaits DEF WaitInv
      <3> QED BY <1>3, <1>5, <3>1 DEF WaitInv, Awaits
    <2>3. CASE /\ player.ready /\ app'.was.loaded
               /\ app'.st.kind = "loading" => app'.retry \/ HasLoad(app'.chain)
      BY <1>3, <2>3 DEF WaitInv, Awaits
    <2> QED BY <2>1, <2>2, <2>3
  <1> QED BY <1>4, <1>5

LEMMA LibraryWaits ==
  ASSUME PlayerInv, WaitInv,
         PlayerSettles \/ PlayerMoves \/ PlayerTroubled \/ PlayerRecovers \/ Button
  PROVE  WaitInv'
  <1>1. player \in Players /\ app' = app
    BY DEF PlayerInv, PlayerSettles, PlayerMoves, PlayerTroubled, PlayerRecovers,
           Changes, Button
  <1>2. ASSUME player'.ready = player.ready, player'.failed = player.failed,
               player'.error = player.error
        PROVE  WaitInv'
    BY <1>1, <1>2 DEF WaitInv, Awaits
  <1>3. CASE PlayerSettles
    <2>1. ~player.ready /\ ~player.failed
      BY <1>3 DEF PlayerSettles
    <2>2. \/ player' = [player EXCEPT !.failed = TRUE, !.error = TRUE]
          \/ player' = [player EXCEPT !.ready = TRUE]
      BY <1>3 DEF PlayerSettles, Changes
    <2>3. \/ player'.failed /\ player'.error /\ ~player'.ready
          \/ player'.ready /\ ~player'.failed /\ ~player'.error
      BY <1>1, <2>1, <2>2 DEF Players, WaitInv
    <2> QED BY <1>1, <2>1, <2>3 DEF WaitInv, Awaits
  <1>4. CASE PlayerMoves
    <2>1. \/ player' = [player EXCEPT !.pos = @ + 1]
          \/ player' = [player EXCEPT !.finished = TRUE, !.ended = TRUE]
      BY <1>4 DEF PlayerMoves, Changes
    <2> QED BY <1>1, <1>2, <2>1 DEF Players
  <1>5. CASE PlayerTroubled
    <2>1. \/ player' = [player EXCEPT !.failed = TRUE, !.error = TRUE, !.ready = FALSE,
                                      !.offline = TRUE]
          \/ player' = [player EXCEPT !.buffering = TRUE]
          \/ player' = [player EXCEPT !.taken = TRUE]
      BY <1>5 DEF PlayerTroubled, Changes
    <2>2. CASE player' = [player EXCEPT !.failed = TRUE, !.error = TRUE, !.ready = FALSE,
                                        !.offline = TRUE]
      <3>1. player'.failed /\ player'.error /\ ~player'.ready
        BY <1>1, <2>2 DEF Players
      <3> QED BY <1>1, <3>1 DEF WaitInv, Awaits
    <2> QED BY <1>1, <1>2, <2>1, <2>2 DEF Players
  <1>6. CASE PlayerRecovers
    <2>1. \/ player' = [player EXCEPT !.buffering = FALSE]
          \/ player' = [player EXCEPT !.offline = FALSE]
          \/ player' = [player EXCEPT !.taken = FALSE]
          \/ player' = [player EXCEPT !.taken = FALSE, !.want = FALSE]
      BY <1>6 DEF PlayerRecovers, Changes
    <2> QED BY <1>1, <1>2, <2>1 DEF Players
  <1>7. CASE Button
    <2>1. player' = [player EXCEPT !.want = ~@]
      BY <1>7 DEF Button
    <2> QED BY <1>1, <1>2, <2>1 DEF Players
  <1> QED BY <1>3, <1>4, <1>5, <1>6, <1>7

\* A step of the app: the player stays as it is.
LEMMA AppWaits ==
  ASSUME WaitInv, player' = player, Works(app', app) \/ Awaits(app', player)
  PROVE  WaitInv'
  <1>1. Awaits(app', player)
    BY WorksAwaits DEF WaitInv
  <1> QED BY <1>1 DEF WaitInv, Awaits

LEMMA ListenerWaits ==
  ASSUME PlayerInv, WaitInv, Listener
  PROVE  WaitInv'
  <1>1. /\ app \in Apps /\ asked \in BOOLEAN /\ Good(app, player.src, asked)
        /\ Good(app, player.src, TRUE)
    BY GoodWhenHeard DEF PlayerInv, Good, Fit, Sane
  <1>2. ASSUME NEW a, NEW sound, Act(a, sound), Works(a, app) \/ Awaits(a, player)
        PROVE  WaitInv'
    BY <1>2, AppWaits DEF Act
  <1>3. ASSUME NEW e \in Episodes \ Gone, Act(Load(app, e, "play"), TRUE)
        PROVE  WaitInv'
    <2>1. Load(app, e, "play").was = app.was /\ HasLoad(Load(app, e, "play").chain)
      BY <1>1, LoadWorks
    <2>2. Awaits(Load(app, e, "play"), player)
      BY <2>1 DEF WaitInv, Awaits
    <2> QED BY <1>2, <1>3, <2>2
  <1>4. CASE Act(OnPlay(app), TRUE)
    BY <1>1, <1>2, <1>4, PlayWorks
  <1>5. CASE Act(OnPause(app), FALSE)
    BY <1>1, <1>2, <1>5, PauseWorks
  <1>6. ASSUME NEW p \in Places, Act(OnSeek(app, p), p = End)
        PROVE  WaitInv'
    BY <1>1, <1>2, <1>6, SeekWorks
  <1>7. ASSUME NEW q, Act([app EXCEPT !.queue = q], FALSE)
        PROVE  WaitInv'
    <2> DEFINE b == [app EXCEPT !.queue = q]
    <2>1. b.st = app.st /\ b.retry = app.retry /\ b.chain = app.chain /\ b.was = app.was
      BY <1>1 DEF Apps
    <2> HIDE DEF b
    <2>2. Works(b, app)
      BY <2>1, WorksBeside
    <2> QED BY <1>2, <1>7, <2>2 DEF b
  <1>8. ASSUME NEW d, NEW eoe, NEW hold, Act(Switched(app, d, eoe, hold), FALSE)
        PROVE  WaitInv'
    <2> DEFINE b == Switched(app, d, eoe, hold)
    <2>1. b.st = app.st /\ b.retry = app.retry /\ b.chain = app.chain /\ b.was = app.was
      BY <1>1 DEF Apps, Switched
    <2> HIDE DEF b
    <2>2. Works(b, app)
      BY <2>1, WorksBeside
    <2> QED BY <1>2, <1>8, <2>2 DEF b
  <1>9. CASE Act([app EXCEPT !.deadline = "set", !.hold = app.eoe], FALSE)
    <2>1. [app EXCEPT !.deadline = "set", !.hold = app.eoe]
            = Switched(app, "set", app.eoe, app.eoe)
      BY <1>1 DEF Apps, Switched
    <2>2. Act(Switched(app, "set", app.eoe, app.eoe), FALSE)
      BY <1>9, <2>1
    <2> QED BY <1>8, <2>2
  <1>10. ASSUME NEW on, Act([app EXCEPT !.eoe = on, !.hold = on], FALSE)
         PROVE  WaitInv'
    <2>1. [app EXCEPT !.eoe = on, !.hold = on] = Switched(app, app.deadline, on, on)
      BY <1>1 DEF Apps, Switched
    <2>2. Act(Switched(app, app.deadline, on, on), FALSE)
      BY <1>10, <2>1
    <2> QED BY <1>8, <2>2
  <1>11. CASE Act([app EXCEPT !.deadline = "off", !.eoe = FALSE, !.hold = FALSE], FALSE)
    <2>1. Act(Switched(app, "off", FALSE, FALSE), FALSE)
      BY <1>11 DEF Switched
    <2> QED BY <1>8, <2>1, Zenon
  <1>12. ASSUME NEW e,
                \/ Act([app EXCEPT !.queue = Enqueued(@, e)], FALSE)
                \/ Act([app EXCEPT !.queue = Unqueued(@, e)], FALSE)
         PROVE  WaitInv'
    BY <1>7, <1>12
  <1> QED BY <1>3, <1>4, <1>5, <1>6, <1>9, <1>10, <1>11, <1>12 DEF Listener

\* The retry's time: the load starts over.
LEMMA RetryWorks ==
  ASSUME NEW a \in Apps, a.st.kind = "loading" => a.st.ep \in Episodes
  PROVE  LET b == OnRetryDue(a) IN
         b.was = a.was /\ (b.st.kind = "loading" => HasLoad(b.chain))
  <1>1. CASE a.st.kind # "loading"
    BY <1>1 DEF OnRetryDue
  <1>2. CASE a.st.kind = "loading"
    <2> DEFINE f == [kind |-> "load", ep |-> a.st.ep, pos |-> a.st.pos]
               c == Append(a.chain, f)
               d == Append(c, Play)
    <2>1. OnRetryDue(a) = Emit(a, <<f, Play>>)
      BY <1>2 DEF OnRetryDue
    <2>2. a.chain \in Seq(Effects) /\ a.st.pos \in Places
      BY DEF Apps, States
    <2>3. f \in Effects /\ f.kind = "load" /\ Play \in Effects
      BY <1>2, <2>2, EffectsOfThePlayer DEF Play
    <2>4. a.chain \o <<f, Play>> = d
      BY <2>2, <2>3, AppendedTwo
    <2>5. c \in Seq(Effects) /\ HasLoad(c)
      BY <2>2, <2>3, AppendedLoad, AppendProperties
    <2> HIDE DEF f, c
    <2>6. HasLoad(d)
      BY <2>3, <2>5, AppendedLoad
    <2>7. Emit(a, <<f, Play>>).chain = d /\ Emit(a, <<f, Play>>).was = a.was
      BY <2>4 DEF Emit, Apps
    <2> QED BY <2>1, <2>6, <2>7
  <1> QED BY <1>1, <1>2

LEMMA TimersWait ==
  ASSUME PlayerInv, WaitInv,
         Background \/ RetryDue \/ WatchExpires \/ DeadlinePasses \/ SleepTimeout
  PROVE  WaitInv'
  <1>1. /\ app \in Apps /\ asked \in BOOLEAN /\ Good(app, player.src, asked)
        /\ (app.st.kind = "loading" => app.st.ep \in Episodes)
    BY DEF PlayerInv, Good, Fit, Sane
  <1>2. ASSUME NEW a, TimeOf(a), Works(a, app) \/ Awaits(a, player)
        PROVE  WaitInv'
    BY <1>2, AppWaits DEF TimeOf
  <1>3. CASE Background
    <2>1. app.st.kind \in Positioned /\ TimeOf(Saved(app, FALSE, FALSE))
      BY <1>3 DEF Background
    <2>2. Saved(app, FALSE, FALSE).st = app.st /\ Saved(app, FALSE, FALSE).was = app.was
      BY <1>1, <2>1, SaveWorks DEF Good
    <2>3. Works(Saved(app, FALSE, FALSE), app)
      BY <2>1, <2>2 DEF Works, Positioned
    <2> QED BY <1>2, <2>1, <2>3
  <1>4. CASE RetryDue
    <2> DEFINE b == [app EXCEPT !.retry = FALSE]
    <2>1. TimeOf(OnRetryDue(b))
      BY <1>4 DEF RetryDue
    <2>2. b \in Apps /\ b.st = app.st /\ b.was = app.was
      <3>1. b \in Apps
        BY <1>1 DEF Apps
      <3>2. b.st = app.st /\ b.was = app.was
        BY <1>1 DEF Apps
      <3> QED BY <3>1, <3>2
    <2> HIDE DEF b
    <2>3. /\ OnRetryDue(b).was = b.was
          /\ OnRetryDue(b).st.kind = "loading" => HasLoad(OnRetryDue(b).chain)
      BY <1>1, <2>2, RetryWorks
    <2>4. Awaits(OnRetryDue(b), player)
      BY <2>2, <2>3 DEF WaitInv, Awaits
    <2> QED BY <1>2, <2>1, <2>4
  <1>5. CASE WatchExpires
    <2> DEFINE b == [app EXCEPT !.watch = FALSE]
    <2>1. TimeOf(OnWatchExpired(b))
      BY <1>5 DEF WatchExpires
    <2>2. b \in Apps /\ Works(b, app)
      <3>1. b \in Apps
        BY <1>1 DEF Apps
      <3>2. b.st = app.st /\ b.retry = app.retry /\ b.chain = app.chain /\ b.was = app.was
        BY <1>1 DEF Apps
      <3> HIDE DEF b
      <3> QED BY <3>1, <3>2, WorksBeside
    <2> HIDE DEF b
    <2>3. Works(OnWatchExpired(b), app)
      BY <2>2, WatchWorks, WorksTwice
    <2> QED BY <1>2, <2>1, <2>3
  <1>6. CASE DeadlinePasses
    <2> DEFINE b == [app EXCEPT !.deadline = "due"]
    <2>1. TimeOf(b)
      BY <1>6 DEF DeadlinePasses
    <2>2. b.st = app.st /\ b.retry = app.retry /\ b.chain = app.chain /\ b.was = app.was
      BY <1>1 DEF Apps
    <2> HIDE DEF b
    <2>3. Works(b, app)
      BY <2>2, WorksBeside
    <2> QED BY <1>2, <2>1, <2>3
  <1>7. CASE SleepTimeout
    <2>1. TimeOf(FireSleep(app))
      BY <1>7 DEF SleepTimeout
    <2> QED BY <1>1, <1>2, <2>1, SleepWorks
  <1> QED BY <1>3, <1>4, <1>5, <1>6, <1>7

\* A start loads the session, or has nothing to load.
LEMMA RestartWaits ==
  ASSUME PlayerInv, Restart
  PROVE  WaitInv'
  <1> DEFINE a == Fresh(app.rows, app.session, app.queue, app.eoe, app.deadline)
             r == Restored(a)
             d == IF r.deadline = "due" THEN "off" ELSE r.deadline
  <1>1. app \in Apps /\ player \in Players
    BY DEF PlayerInv, Good, Fit, Sane
  <1>2. /\ app' = [r EXCEPT !.deadline = d, !.eoe = app.eoe, !.hold = app.eoe]
        /\ player' = [Still EXCEPT !.offline = player.offline]
    <2>1. /\ app' = [r EXCEPT !.eoe = app.eoe, !.hold = app.eoe,
                              !.deadline = IF @ = "due" THEN "off" ELSE @]
          /\ player' = [Still EXCEPT !.offline = player.offline]
      BY DEF Restart
    <2> HIDE DEF r
    <2> QED BY <2>1
  <1>3. ~player'.ready /\ ~player'.failed /\ ~player'.error
    BY <1>2 DEF Still
  <1>4. a.was.loaded = FALSE /\ a.st.kind = "idle"
    BY DEF Fresh
  <1>5. a \in Apps /\ app.session \in Episodes \cup {None} /\ a.session = app.session
    <2>1. /\ app.rows \in [Episodes -> Rows \cup {None}]
          /\ app.session \in Episodes \cup {None}
          /\ app.queue \in Seq(Episodes) /\ app.eoe \in BOOLEAN
          /\ app.deadline \in {"off", "set", "due"}
      BY <1>1 DEF Apps
    <2>2. Started(a, app.session)
      BY <2>1, FreshKeeps, Zenon
    <2> HIDE DEF a
    <2> QED BY <2>1, <2>2 DEF Started
  <1> HIDE DEF a
  <1>6. /\ r.was.loaded = FALSE /\ "was" \in DOMAIN r
        /\ r.st.kind = "loading" => HasLoad(r.chain)
        /\ "st" \in DOMAIN r /\ "chain" \in DOMAIN r
    <2>1. CASE a.session = None
      BY <1>4, <1>5, <2>1 DEF Restored, Apps
    <2>2. CASE a.session # None
      <3> DEFINE yes == TRUE  pause == "pause"
      <3>1. r = Load(a, a.session, pause) /\ a.session \in Episodes
        BY <1>5, <2>2 DEF Restored
      <3>2. yes /\ yes \in BOOLEAN /\ pause \in {"play", "pause"}
        OBVIOUS
      <3> HIDE DEF yes, pause, r
      <3>3. r.was = a.was /\ HasLoad(r.chain)
        BY <1>5, <3>1, <3>2, LoadWorks
      <3>4. Good(r, None, yes)
        BY <1>5, <3>1, <3>2, LoadKeeps
      <3>5. r \in Apps
        BY <3>4 DEF Good, Fit, Sane
      <3> QED BY <1>4, <3>3, <3>5 DEF Apps
    <2> QED BY <2>1, <2>2
  <1> HIDE DEF r, d
  <1>7. app'.was = r.was /\ app'.st = r.st /\ app'.chain = r.chain
    BY <1>2, <1>6
  <1> QED BY <1>3, <1>6, <1>7 DEF WaitInv, Awaits

LEMMA InitWaits ==
  Init => WaitInv
  <1> SUFFICES ASSUME Init PROVE WaitInv
    OBVIOUS
  <1>1. player = Still /\ app.st.kind = "idle" /\ app.was.loaded = FALSE
    BY DEF Init, Fresh
  <1> QED BY <1>1 DEF WaitInv, Awaits, Still

LEMMA StepWaits ==
  PlayerInv /\ WaitInv /\ [Next]_vars => WaitInv'
  <1> SUFFICES ASSUME PlayerInv, WaitInv, [Next]_vars PROVE WaitInv'
    OBVIOUS
  <1>1. CASE UNCHANGED vars
    BY <1>1 DEF vars, WaitInv, Awaits
  <1>2. CASE Execute
    BY <1>2, ExecuteWaits
  <1>3. CASE Report
    BY <1>3, ReportWaits
  <1>4. CASE PlayerSettles \/ PlayerMoves \/ PlayerTroubled \/ PlayerRecovers \/ Button
    BY <1>4, LibraryWaits
  <1>5. CASE Listener
    BY <1>5, ListenerWaits
  <1>6. CASE Background \/ RetryDue \/ WatchExpires \/ DeadlinePasses \/ SleepTimeout
    BY <1>6, TimersWait
  <1>7. CASE Restart
    BY <1>7, RestartWaits
  <1> QED BY <1>1, <1>2, <1>3, <1>4, <1>5, <1>6, <1>7 DEF Next

-----------------------------------------------------------------------------
(* The theorems *)

THEOREM PlayerInvariant == Spec => []PlayerInv
  <1>1. PlayerInv /\ [Next]_vars => PlayerInv'
    BY StepKeeps
  <1> QED BY InitHolds, <1>1, PTL DEF Spec

\* The app and the library's player keep their types: apps/mobile/src/playback.
THEOREM TypeCorrect == Spec => []TypeOK
  <1>1. PlayerInv => TypeOK
    BY DEF PlayerInv, TypeOK, Good, Fit, Sane
  <1> QED BY <1>1, PlayerInvariant, PTL

\* Nothing sounds after a start before the listener asks (restore, store.ts).
THEOREM SilenceHolds == Spec => []SilentUntilAsked
  <1>1. PlayerInv => SilentUntilAsked
    BY DEF PlayerInv, SilentUntilAsked, SoundsNow
  <1> QED BY <1>1, PlayerInvariant, PTL

\* A pause or an interruption stores the place it left (savePosition).
THEOREM StopIsKept == Spec => []StopIsStored
  <1>1. PlayerInv => StopIsStored
    BY DEF PlayerInv, StopIsStored, Good, Stored, Kept
  <1> QED BY <1>1, PlayerInvariant, PTL

\* Once the chain has run, the player holds what is shown (runLoad).
THEOREM ShownIsHeld == Spec => []HoldsWhatIsShown
  <1>1. PlayerInv => HoldsWhatIsShown
    <2> SUFFICES ASSUME PlayerInv, app.chain = << >>, app.st.ep # None
                 PROVE  player.src = app.st.ep
      BY DEF HoldsWhatIsShown
    <2>1. ShownBy(app.chain, app.st.ep, player.src)
      BY DEF PlayerInv, Good, Fit
    <2>2. ~ \E i \in DOMAIN app.chain : TRUE
      BY LenProperties, EmptySeq
    <2> QED BY <2>1, <2>2 DEF ShownBy
  <1> QED BY <1>1, PlayerInvariant, PTL

\* End of episode: the end of one episode starts no other (advanceQueue).
THEOREM EndHoldsTheQueue == Spec => EndOfEpisodeHolds
  <1> DEFINE A == app.eoe /\ app.st.kind \in Sounding /\ app'.st.kind = "loading" =>
                    app'.st.ep = app.st.ep \/ acts' # acts \/ troubles' # troubles
  <1>1. PlayerInv /\ [Next]_vars => [A]_vars
    BY StepKeeps DEF Steady
  <1>2. Spec => [][A]_vars
    BY <1>1, PlayerInvariant, PTL DEF Spec
  <1> QED BY <1>2 DEF EndOfEpisodeHolds

\* Without failures, interruptions and restarts: an episode heard to its end
\* turns unfinished only by a save marked as the listener's (savePosition, M17).
THEOREM ReplaysAreMarked == Spec => ReplayIsMarked
  <1> DEFINE A == \A e \in Episodes :
                    LET row == app.rows[e]  next == app'.rows[e] IN
                    row # None /\ row.finished /\ row.of = e /\ ~next.finished =>
                      next.seek \/ troubles > 0
  <1>1. PlayerInv /\ ReplayInv /\ [Next]_vars => ReplayInv' /\ [A]_vars
    <2> SUFFICES ASSUME PlayerInv, ReplayInv, [Next]_vars PROVE ReplayInv' /\ A
      OBVIOUS
    <2>1. ReplayInv' /\ (troubles = 0 => Marked(app', app))
      BY StepReplays DEF ReplayKept
    <2>2. troubles = 0 \/ troubles > 0
      BY DEF PlayerInv
    <2> QED BY <2>1, <2>2 DEF Marked, Heard
  <1>2. Spec => [][A]_vars
    <2>1. PlayerInv /\ ReplayInv /\ [Next]_vars => ReplayInv' /\ [A]_vars
      BY <1>1
    <2> QED BY <2>1, InitReplays, PlayerInvariant, PTL DEF Spec
  <1> QED BY <1>2 DEF ReplayIsMarked

\* While a load is shown, what ends it or starts it over is still to come: the
\* retry's timer, a load in the chain, or a status of the player (onStatus)
\* that has not been reported yet.
LoadIsAwaited ==
  app.st.kind = "loading" =>
    \/ app.retry
    \/ \E i \in DOMAIN app.chain : app.chain[i].kind = "load"
    \/ /\ player.src = app.st.ep
       /\ player.failed => player.error
       /\ player.ready => ~app.was.loaded

\* No load is left behind: what LoadEnds, which TLC checks, rests on.
THEOREM LoadsAreAwaited == Spec => []LoadIsAwaited
  <1>1. PlayerInv /\ WaitInv => LoadIsAwaited
    <2> SUFFICES ASSUME PlayerInv, WaitInv, app.st.kind = "loading", ~HasLoad(app.chain)
                 PROVE  \/ app.retry
                        \/ /\ player.src = app.st.ep
                           /\ player.failed => player.error
                           /\ player.ready => ~app.was.loaded
      BY DEF LoadIsAwaited, HasLoad
    <2>1. app.st.ep # None
      BY PlayerConstants DEF PlayerInv, Good, Fit, Sane
    <2>2. player.src = app.st.ep
      BY <2>1 DEF PlayerInv, Good, Fit, ShownBy, HasLoad
    <2> QED BY <2>2 DEF WaitInv, Awaits
  <1>2. PlayerInv /\ WaitInv /\ [Next]_vars => WaitInv'
    BY StepWaits
  <1> QED BY <1>1, <1>2, InitWaits, PlayerInvariant, PTL DEF Spec

=============================================================================
