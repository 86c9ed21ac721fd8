--------------------------- MODULE PositionSyncProofs ---------------------------
(***************************************************************************)
(* Theorems about mergePosition and about position sync.                   *)
(***************************************************************************)
EXTENDS PositionSync, TLAPS

-----------------------------------------------------------------------------
(* The merge *)

\* A merge gives an observation.
LEMMA MergedType ==
  ASSUME NEW stored \in Observation \cup {None}, NEW incoming \in Observation
  PROVE  Merged(stored, incoming) \in Observation
  BY NoneIsNoObservation DEF Merged, NewerSeek, Further, Observation

\* merge.ts: "progress never goes backwards", finished is sticky, and only a
\* seek that is newer moves either back.
LEMMA MergedKeeps ==
  ASSUME NEW stored \in Observation, NEW incoming \in Observation,
         Merged(stored, incoming) # stored
  PROVE  LET winner == Merged(stored, incoming) IN
         \/ winner.offset >= stored.offset
              /\ (stored.finished => winner.finished)
         \/ winner.seek /\ winner.at > stored.at
  BY MergeConstants, NoneIsNoObservation
     DEF Merged, NewerSeek, Further, Observation

\* merge.ts: "For two non-seek observations this is symmetric".
THEOREM MergeIsSymmetric ==
  ASSUME NEW a \in Observation, NEW b \in Observation, ~a.seek, ~b.seek
  PROVE  Merged(a, b) = Merged(b, a)
  BY MergeConstants, NoneIsNoObservation
     DEF Merged, NewerSeek, Further, Observation

\* Without seeks a merge is the further of the two, finished if either is.
LEMMA MergedWithoutSeeks ==
  ASSUME NEW a \in Observation, NEW b \in Observation, ~a.seek, ~b.seek
  PROVE  /\ Further(a, b) \in {a, b}
         /\ Merged(a, b) = [offset |-> Further(a, b).offset,
                            finished |-> a.finished \/ b.finished,
                            seek |-> FALSE,
                            seq |-> Further(a, b).seq,
                            at |-> Further(a, b).at]
  BY MergeConstants, NoneIsNoObservation
     DEF Merged, NewerSeek, Further, Observation

\* Of listening without seeks, the order in which uploads arrive decides
\* nothing: mergePosition is associative.
THEOREM MergeIsAssociative ==
  ASSUME NEW a \in Observation, NEW b \in Observation, NEW c \in Observation,
         ~a.seek, ~b.seek, ~c.seek
  PROVE  Merged(Merged(a, b), c) = Merged(a, Merged(b, c))
  <1> DEFINE ab == Merged(a, b)
             bc == Merged(b, c)
  <1>1. ab \in Observation /\ bc \in Observation
    BY MergedType
  <1>2. /\ ab = [offset |-> Further(a, b).offset,
                 finished |-> a.finished \/ b.finished, seek |-> FALSE,
                 seq |-> Further(a, b).seq, at |-> Further(a, b).at]
        /\ bc = [offset |-> Further(b, c).offset,
                 finished |-> b.finished \/ c.finished, seek |-> FALSE,
                 seq |-> Further(b, c).seq, at |-> Further(b, c).at]
        /\ Further(a, b) \in {a, b} /\ Further(b, c) \in {b, c}
    BY MergedWithoutSeeks
  <1> HIDE DEF ab, bc
  <1>3. ~ab.seek /\ ~bc.seek
    BY <1>2
  <1>4. /\ Merged(ab, c) = [offset |-> Further(ab, c).offset,
                 finished |-> ab.finished \/ c.finished, seek |-> FALSE,
                 seq |-> Further(ab, c).seq, at |-> Further(ab, c).at]
        /\ Merged(a, bc) = [offset |-> Further(a, bc).offset,
                 finished |-> a.finished \/ bc.finished, seek |-> FALSE,
                 seq |-> Further(a, bc).seq, at |-> Further(a, bc).at]
    BY <1>1, <1>3, MergedWithoutSeeks
  <1>5. (ab.finished \/ c.finished) = (a.finished \/ bc.finished)
    <2>1. ab.finished = (a.finished \/ b.finished)
      BY <1>2
    <2>2. bc.finished = (b.finished \/ c.finished)
      BY <1>2
    <2> QED  BY <2>1, <2>2 DEF Observation
  <1>6. \A o \in {a, b, c, ab, bc} :
          o.offset \in Nat /\ o.seq \in Nat /\ o.at \in Nat
    BY <1>1, MergeConstants DEF Observation
  <1>7. /\ ab.offset = Further(a, b).offset /\ ab.seq = Further(a, b).seq
        /\ ab.at = Further(a, b).at
        /\ bc.offset = Further(b, c).offset /\ bc.seq = Further(b, c).seq
        /\ bc.at = Further(b, c).at
    BY <1>2
  <1>8. /\ Further(ab, c).offset = Further(a, bc).offset
        /\ Further(ab, c).seq = Further(a, bc).seq
        /\ Further(ab, c).at = Further(a, bc).at
    BY <1>6, <1>7 DEF Further
  <1> QED  BY <1>4, <1>5, <1>8 DEF ab, bc

\* A retry of an upload the server has merged already, received later, moves
\* nothing: unless a seek is among them.
THEOREM RetryMovesNothing ==
  ASSUME NEW a \in Observation, NEW b \in Observation,
         NEW again \in Observation, ~a.seek, ~b.seek, ~again.seek,
         again.offset = b.offset, again.finished = b.finished,
         again.seq = b.seq, again.at >= b.at
  PROVE  /\ Merged(Merged(a, b), again).offset = Merged(a, b).offset
         /\ Merged(Merged(a, b), again).finished = Merged(a, b).finished
  <1> DEFINE ab == Merged(a, b)
  <1>1. ab \in Observation
    BY MergedType
  <1>2. /\ ab = [offset |-> Further(a, b).offset,
                 finished |-> a.finished \/ b.finished, seek |-> FALSE,
                 seq |-> Further(a, b).seq, at |-> Further(a, b).at]
        /\ Further(a, b) \in {a, b}
    BY MergedWithoutSeeks
  <1> HIDE DEF ab
  <1>3. Merged(ab, again) = [offset |-> Further(ab, again).offset,
                 finished |-> ab.finished \/ again.finished, seek |-> FALSE,
                 seq |-> Further(ab, again).seq, at |-> Further(ab, again).at]
    <2>1. ~ab.seek
      BY <1>2
    <2> QED  BY <1>1, <2>1, MergedWithoutSeeks
  <1>4. (ab.finished \/ again.finished) = ab.finished
    <2>1. ab.finished = (a.finished \/ b.finished)
      BY <1>2
    <2> QED  BY <2>1 DEF Observation
  <1>5. \A o \in {a, b, again, ab} :
          o.offset \in Nat /\ o.seq \in Nat /\ o.at \in Nat
    BY <1>1, MergeConstants DEF Observation
  <1>6. ab.offset = Further(a, b).offset
    BY <1>2
  <1>7. Further(ab, again).offset = ab.offset
    BY <1>5, <1>6 DEF Further
  <1> QED  BY <1>3, <1>4, <1>7 DEF ab

-----------------------------------------------------------------------------
(* The phone's row *)

\* What has the fields of a row is one, within the bound.
LEMMA RowIsSome ==
  ASSUME NEW r \in [offset: Offsets, finished: BOOLEAN, seek: BOOLEAN,
                    seq: Nat, synced: Nat],
         r.synced <= r.seq, Counted(r)
  PROVE  r # None /\ (r.synced \in Seqs => r \in Row)
  <1>1. r # None
    BY PositionConstants
  <1>2. r.seq \in Seqs
    BY <1>1 DEF Counted
  <1> QED  BY <1>1, <1>2 DEF Row

LEMMA RowFields ==
  ASSUME NEW r \in Row
  PROVE  /\ r.offset \in Offsets /\ r.finished \in BOOLEAN
         /\ r.seek \in BOOLEAN /\ r.seq \in Seqs /\ r.synced \in Seqs
         /\ r.seq \in Nat /\ r.synced \in Nat /\ r.synced <= r.seq
         /\ r # None
  BY MergeConstants, PositionConstants DEF Row

\* A save gives a row, and what it counts is not synced.
LEMMA SavedRow ==
  ASSUME NEW r \in Row \cup {None}, NEW p \in Place, Counted(Saved(r, p))
  PROVE  /\ Saved(r, p) \in Row /\ Saved(r, p) # None
         /\ Saved(r, p).synced < Saved(r, p).seq
         /\ Saved(r, p).seq > 0
         /\ r # None => Saved(r, p).seq = r.seq + 1
         /\ r # None => Saved(r, p).synced = r.synced
         /\ p.seek \/ (r # None /\ r.seek /\ r.synced < r.seq)
              => Saved(r, p).seek
  <1> DEFINE s == Saved(r, p)
             q == IF r = None THEN 1 ELSE r.seq + 1
             y == IF r = None THEN 0 ELSE r.synced
             k == p.seek \/ (Unsynced(r) /\ r.seek)
  <1>1. /\ q \in Nat /\ y \in Nat /\ y \in Seqs /\ y < q /\ q > 0
        /\ r # None => q = r.seq + 1 /\ y = r.synced
    BY PositionConstants, RowFields
  <1>2. /\ k \in BOOLEAN
        /\ p.seek \/ (r # None /\ r.seek /\ r.synced < r.seq) => k
    BY DEF Unsynced
  <1>3. p.offset \in Offsets /\ p.finished \in BOOLEAN
    BY DEF Place
  <1>4. s = [offset |-> p.offset, finished |-> p.finished, seek |-> k,
             seq |-> q, synced |-> y]
    BY DEF Saved
  <1>5. Counted(s)
    OBVIOUS
  <1> HIDE DEF s, q, y, k
  <1>6. s \in [offset: Offsets, finished: BOOLEAN, seek: BOOLEAN,
               seq: Nat, synced: Nat]
    BY <1>1, <1>2, <1>3, <1>4
  <1>7. s.seq = q /\ s.synced = y /\ s.seek = k
    BY <1>4
  <1>8. s # None /\ s \in Row
    BY <1>1, <1>5, <1>6, <1>7, RowIsSome
  <1>9. /\ s \in Row /\ s # None /\ s.synced < s.seq /\ s.seq > 0
        /\ r # None => s.seq = r.seq + 1
        /\ r # None => s.synced = r.synced
        /\ p.seek \/ (r # None /\ r.seek /\ r.synced < r.seq) => s.seek
    BY <1>1, <1>2, <1>7, <1>8
  <1> QED  BY <1>9 DEF s

\* markSynced for a count the row has reached gives a row, otherwise the same.
LEMMA MarkedRow ==
  ASSUME NEW r \in Row, NEW seq \in Seqs, seq <= r.seq
  PROVE  LET m == MarkedSynced(r, seq) IN
         /\ m \in Row /\ m.offset = r.offset /\ m.finished = r.finished
         /\ m.seek = r.seek /\ m.seq = r.seq
         /\ m.synced = r.synced \/ m.synced = seq
  BY MergeConstants DEF MarkedSynced, Row

\* applyRemote gives a row with nothing left to upload.
LEMMA RemoteRow ==
  ASSUME NEW r \in Row \cup {None}, NEW a \in Observation,
         Counted(Remote(r, a))
  PROVE  Remote(r, a) \in Row
  <1> DEFINE same == r # None /\ r.offset = a.offset /\ r.finished = a.finished
             q == IF r = None THEN 1 ELSE IF same THEN r.seq ELSE r.seq + 1
             s == Remote(r, a)
  <1>1. q \in Nat
    BY RowFields
  <1>2. s = [offset |-> a.offset, finished |-> a.finished, seek |-> a.seek,
             seq |-> q, synced |-> q]
    BY DEF Remote
  <1>3. Counted(s)
    OBVIOUS
  <1> HIDE DEF q, s
  <1>4. /\ s \in [offset: Offsets, finished: BOOLEAN, seek: BOOLEAN,
                  seq: Nat, synced: Nat]
        /\ s.seq = q /\ s.synced = q
    BY <1>1, <1>2 DEF Observation
  <1>5. s # None
    BY <1>3, <1>4, <1>1, RowIsSome
  <1>6. q \in Seqs
    BY <1>3, <1>4, <1>5 DEF Counted
  <1>7. s \in Row
    BY <1>1, <1>3, <1>4, <1>6, RowIsSome
  <1> QED  BY <1>7 DEF s

\* applyServerRows gives a row, the same one if it counts more than is known.
LEMMA AppliedRow ==
  ASSUME NEW r \in Row \cup {None}, NEW a \in Observation, NEW known,
         Counted(Applied(r, a, known))
  PROVE  /\ Applied(r, a, known) \in Row
         /\ r # None /\ r.seq > known => Applied(r, a, known) = r
         /\ r # None => r.seq <= Applied(r, a, known).seq
  <1>1. r # None => r.seq \in Nat
    BY RowFields
  <1>2. r # None => r.seq <= Remote(r, a).seq
    BY <1>1 DEF Remote
  <1> QED  BY <1>1, <1>2, RemoteRow DEF Applied

-----------------------------------------------------------------------------
(* The inductive invariant *)

\* A request whose item was read holds what stands, if the version is the same.
Fresh ==
  \A p \in puts : p.stage = "merging" =>
    p.version <= version /\ (p.version = version => p.cur = pos)

\* What was answered has been merged.
Heeded ==
  \A p \in puts : p.stage = "done" =>
    p.cur # None /\ p.obs.seq <= heard[p.dev]

\* What was sent is a count the phone's row has reached.
Sent ==
  \A p \in puts : row[p.dev] # None /\ p.obs.seq <= row[p.dev].seq

\* What the server has not heard of the listener is not counted as synced.
Unheard ==
  \A d \in Devices :
    /\ own[d] > 0 => row[d] # None /\ own[d] <= row[d].seq
    /\ own[d] > heard[d] => row[d].synced < own[d]
    /\ sought[d] <= own[d]

PutsInv == Fresh /\ Heeded /\ Sent
PositionInv == TypeOK /\ PutsInv /\ Unheard /\ SeekNotForgotten

-----------------------------------------------------------------------------
(* Requests *)

NewPut(q, d, r) ==
  /\ q \in Put /\ q.stage = "sent" /\ q.dev = d
  /\ r # None /\ q.obs.seq = r.seq

SamePut(q, p) ==
  /\ q \in Put /\ q.dev = p.dev /\ q.obs = p.obs /\ q.stage = p.stage
  /\ q.cur = p.cur /\ q.version = p.version

LEMMA RequestNew ==
  ASSUME NEW d \in Devices, NEW r \in Row
  PROVE  NewPut(Request(d, r), d, r)
  BY RowFields, PositionConstants DEF NewPut, Request, Put, Observation

LEMMA AttemptedPuts ==
  ASSUME NEW d \in Devices, NEW r \in Row \cup {None}, NEW requests,
         NEW q \in Attempted(d, r, requests)
  PROVE  q \in requests \/ NewPut(q, d, r)
  BY RequestNew DEF Attempted, Unsynced

LEMMA ConcludedPuts ==
  ASSUME NEW d \in Devices, NEW r \in Row \cup {None}, NEW requests,
         NEW q \in Concluded(d, r, requests)
  PROVE  q \in requests \/ NewPut(q, d, r)
  BY AttemptedPuts DEF Concluded

LEMMA GivenUpPuts ==
  ASSUME NEW p \in Put, NEW left \in GivenUp(p), NEW q \in left
  PROVE  SamePut(q, p)
  <1>1. q = [p EXCEPT !.awaited = FALSE]
    BY Zenon DEF GivenUp
  <1> QED  BY <1>1 DEF SamePut, Put

LEMMA PutFields ==
  ASSUME NEW p \in Put
  PROVE  /\ p.dev \in Devices /\ p.obs \in Observation
         /\ p.cur \in Observation \cup {None} /\ p.version \in Nat
         /\ p.obs.seq \in Nat /\ p.obs.seq \in Seqs
         /\ SamePut(p, p)
  BY MergeConstants DEF Put, Observation, SamePut

\* A row that only counts on, and requests that are old or new, keep PutsInv.
LEMMA PutsKept ==
  ASSUME TypeOK, PutsInv, NEW d \in Devices,
         pos' = pos, version' = version, heard' = heard,
         row' \in [Devices -> Row \cup {None}],
         \A e \in Devices : row[e] # None =>
            row'[e] # None /\ row[e].seq <= row'[e].seq,
         \A q \in puts' : NewPut(q, d, row'[d]) \/ \E p \in puts : SamePut(q, p)
  PROVE  puts' \subseteq Put /\ PutsInv'
  <1>1. puts' \subseteq Put
    BY DEF NewPut, SamePut
  <1>2. Fresh'
    BY DEF PutsInv, Fresh, NewPut, SamePut
  <1>3. Heeded'
    BY DEF PutsInv, Heeded, NewPut, SamePut
  <1>4. ASSUME NEW q \in puts'
        PROVE  row'[q.dev] # None /\ q.obs.seq <= row'[q.dev].seq
    <2>1. CASE NewPut(q, d, row'[d])
      <3>1. row'[d] \in Row
        BY <2>1 DEF NewPut
      <3>2. row'[d].seq \in Nat
        BY <3>1, RowFields
      <3> QED  BY <2>1, <3>2 DEF NewPut
    <2>2. CASE \E p \in puts : SamePut(q, p)
      <3>1. PICK p \in puts : SamePut(q, p)
        BY <2>2
      <3>2. p \in Put /\ p.dev \in Devices /\ p.obs.seq \in Nat
        BY PutFields DEF TypeOK
      <3>3. row[p.dev] # None /\ p.obs.seq <= row[p.dev].seq
        BY DEF PutsInv, Sent
      <3>4. row[p.dev] \in Row /\ row'[p.dev] \in Row
        BY <3>2, <3>3 DEF TypeOK
      <3>5. row[p.dev].seq \in Nat /\ row'[p.dev].seq \in Nat
        BY <3>4, RowFields
      <3>6. row'[p.dev] # None /\ row[p.dev].seq <= row'[p.dev].seq
        BY <3>2, <3>3
      <3>7. p.obs.seq <= row'[p.dev].seq
        BY <3>2, <3>3, <3>5, <3>6
      <3> QED  BY <3>1, <3>6, <3>7 DEF SamePut
    <2> QED  BY <2>1, <2>2
  <1> QED  BY <1>1, <1>2, <1>3, <1>4 DEF PutsInv, Sent

-----------------------------------------------------------------------------
(* The steps that the listener and the phone take *)

Monotone ==
  \A e \in Devices : row[e] # None =>
    row'[e] # None /\ row[e].seq <= row'[e].seq

LEMMA SameRows ==
  ASSUME TypeOK, row' = row
  PROVE  row' \in [Devices -> Row \cup {None}] /\ Monotone
  <1>1. row \in [Devices -> Row \cup {None}]
    BY DEF TypeOK
  <1>2. ASSUME NEW e \in Devices, row[e] # None  PROVE  row[e].seq \in Nat
    BY <1>1, <1>2, RowFields
  <1> QED  BY <1>1, <1>2 DEF Monotone

LEMMA AttemptStep ==
  ASSUME TypeOK, PutsInv, NEW d \in Devices, Attempt(d, row'[d]),
         pos' = pos, version' = version, heard' = heard,
         row' \in [Devices -> Row \cup {None}], Monotone
  PROVE  puts' \subseteq Put /\ dirty' \in [Devices -> BOOLEAN] /\ PutsInv'
  <1>1. \A q \in puts' : q \in puts \/ NewPut(q, d, row'[d])
    BY AttemptedPuts DEF Attempt
  <1>2. \A q \in puts' :
          NewPut(q, d, row'[d]) \/ \E p \in puts : SamePut(q, p)
    BY <1>1, PutFields DEF TypeOK
  <1>3. puts' \subseteq Put /\ PutsInv'
    BY <1>2, PutsKept DEF Monotone
  <1>4. dirty' \in [Devices -> BOOLEAN]
    <2> DEFINE w == dirty[d] \/ Waiting(d, puts)
    <2>1. w \in BOOLEAN
      BY DEF TypeOK, Waiting
    <2>2. dirty' = [dirty EXCEPT ![d] = w]
      BY DEF Attempt
    <2> HIDE DEF w
    <2> QED  BY <2>1, <2>2 DEF TypeOK
  <1> QED  BY <1>3, <1>4

LEMMA ConcludeStep ==
  ASSUME TypeOK, PutsInv, NEW d \in Devices, NEW requests,
         Conclude(d, row'[d], requests),
         \A q \in requests : \E p \in puts : SamePut(q, p),
         pos' = pos, version' = version, heard' = heard,
         row' \in [Devices -> Row \cup {None}], Monotone
  PROVE  /\ puts' \subseteq Put /\ dirty' \in [Devices -> BOOLEAN]
         /\ pull' \in [Devices -> Pulls] /\ PutsInv'
  <1>1. \A q \in puts' : q \in requests \/ NewPut(q, d, row'[d])
    BY ConcludedPuts DEF Conclude
  <1>2. puts' \subseteq Put /\ PutsInv'
    BY <1>1, PutsKept DEF Monotone
  <1>3. dirty' \in [Devices -> BOOLEAN]
    BY DEF Conclude, TypeOK
  <1>4. pull' \in [Devices -> Pulls]
    <2> DEFINE w == IF pull[d].stage = "push" THEN [stage |-> "ask"] ELSE pull[d]
    <2>1. w \in Pulls
      BY DEF TypeOK, Pulls
    <2>2. pull' = [pull EXCEPT ![d] = w]
      BY DEF Conclude
    <2> HIDE DEF w
    <2> QED  BY <2>1, <2>2 DEF TypeOK
  <1> QED  BY <1>2, <1>3, <1>4

LEMMA SaveStep ==
  ASSUME PositionInv, NEW d \in Devices, NEW p \in Place, Save(d, p)
  PROVE  /\ row' \in [Devices -> Row \cup {None}] /\ Monotone
         /\ row'[d] \in Row
         /\ own' \in [Devices -> Seqs] /\ sought' \in [Devices -> Seqs]
         /\ saves' \in 0 .. MaxSaves
         /\ Unheard' /\ SeekNotForgotten'
  <1> DEFINE s == Saved(row[d], p)
  <1>1. /\ row \in [Devices -> Row \cup {None}]
        /\ own \in [Devices -> Seqs] /\ sought \in [Devices -> Seqs]
        /\ heard \in [Devices -> Seqs] /\ saves \in 0 .. MaxSaves
    BY DEF PositionInv, TypeOK
  <1>2. row' = [row EXCEPT ![d] = s] /\ row'[d] = s /\ Counted(s)
    BY <1>1 DEF Save
  <1>3. /\ s \in Row /\ s # None /\ s.synced < s.seq /\ s.seq > 0
        /\ row[d] # None => s.seq = row[d].seq + 1 /\ s.synced = row[d].synced
        /\ p.seek \/ (row[d] # None /\ row[d].seek /\ row[d].synced < row[d].seq)
             => s.seek
    BY <1>1, <1>2, SavedRow
  <1> HIDE DEF s
  <1>4. s.seq \in Seqs /\ s.seq \in Nat /\ s.synced \in Nat
    BY <1>3, RowFields
  <1>5. \A e \in Devices : e # d => row'[e] = row[e]
    BY <1>1, <1>2
  <1>6. \A e \in Devices : row[e] # None => row[e].seq \in Nat
    BY <1>1, RowFields
  <1>7. row' \in [Devices -> Row \cup {None}]
    BY <1>1, <1>2, <1>3
  <1>8. Monotone
    BY <1>2, <1>3, <1>4, <1>5, <1>6 DEF Monotone
  <1>9. /\ own' = [own EXCEPT ![d] = s.seq]
        /\ sought' = [sought EXCEPT ![d] = IF p.seek THEN s.seq ELSE @]
        /\ heard' = heard /\ saves < MaxSaves /\ saves' = saves + 1
    BY <1>2 DEF Save
  <1>10. /\ own' \in [Devices -> Seqs] /\ sought' \in [Devices -> Seqs]
         /\ own'[d] = s.seq
         /\ sought'[d] = IF p.seek THEN s.seq ELSE sought[d]
         /\ \A e \in Devices : e # d => own'[e] = own[e] /\ sought'[e] = sought[e]
    BY <1>1, <1>4, <1>9
  <1>11. saves' \in 0 .. MaxSaves
    BY <1>1, <1>9, PositionConstants
  <1>12. /\ own[d] \in Nat /\ sought[d] \in Nat /\ heard[d] \in Nat
         /\ own[d] > 0 => row[d] # None /\ own[d] <= row[d].seq
         /\ own[d] > heard[d] => row[d].synced < own[d]
         /\ sought[d] <= own[d]
    BY <1>1, MergeConstants DEF PositionInv, Unheard
  <1>13. own[d] <= s.seq
    BY <1>3, <1>4, <1>6, <1>12
  <1>14. Unheard'
    <2>1. ASSUME NEW e \in Devices, e # d
          PROVE  /\ own'[e] > 0 => row'[e] # None /\ own'[e] <= row'[e].seq
                 /\ own'[e] > heard'[e] => row'[e].synced < own'[e]
                 /\ sought'[e] <= own'[e]
      BY <2>1, <1>5, <1>9, <1>10 DEF PositionInv, Unheard
    <2>2. /\ own'[d] > 0 => row'[d] # None /\ own'[d] <= row'[d].seq
          /\ own'[d] > heard'[d] => row'[d].synced < own'[d]
          /\ sought'[d] <= own'[d]
      BY <1>2, <1>3, <1>4, <1>10, <1>12, <1>13
    <2> QED  BY <2>1, <2>2 DEF Unheard
  <1>15. SeekNotForgotten'
    <2>1. ASSUME NEW e \in Devices, e # d
          PROVE  sought'[e] > heard'[e] => row'[e].seek
      BY <2>1, <1>5, <1>9, <1>10 DEF PositionInv, SeekNotForgotten
    <2>2. CASE p.seek
      BY <2>1, <2>2, <1>2, <1>3 DEF SeekNotForgotten
    <2>3. CASE ~p.seek
      <3>1. ASSUME sought[d] > heard[d]  PROVE  s.seek
        <4>1. own[d] > heard[d] /\ own[d] > 0
          BY <1>12, <3>1
        <4>2. row[d] # None /\ row[d].synced < own[d] /\ own[d] <= row[d].seq
          BY <1>12, <4>1
        <4>3. row[d].synced \in Nat /\ row[d].seq \in Nat
          BY <1>1, <4>2, RowFields
        <4>4. row[d].synced < row[d].seq
          BY <4>2, <4>3, <1>12
        <4>5. row[d].seek
          BY <3>1 DEF PositionInv, SeekNotForgotten
        <4> QED  BY <4>2, <4>4, <4>5, <1>3
      <3>2. sought'[d] > heard'[d] => row'[d].seek
        BY <2>3, <3>1, <1>2, <1>9, <1>10
      <3> QED  BY <2>1, <3>2 DEF SeekNotForgotten
    <2> QED  BY <2>2, <2>3
  <1> QED  BY <1>2, <1>3, <1>7, <1>8, <1>10, <1>11, <1>14, <1>15

\* An answer applied to a row: what the listener did there, and the server has
\* not heard, stays.
LEMMA RowStep ==
  ASSUME PositionInv, NEW d \in Devices, NEW r \in Row \cup {None},
         row' = [row EXCEPT ![d] = r],
         row[d] # None => r # None /\ row[d].seq <= r.seq,
         own[d] > heard[d] => r.seek = row[d].seek /\ r.synced < own[d],
         own' = own, sought' = sought, heard' = heard
  PROVE  /\ row' \in [Devices -> Row \cup {None}] /\ Monotone
         /\ Unheard' /\ SeekNotForgotten'
  <1>1. /\ row \in [Devices -> Row \cup {None}]
        /\ own \in [Devices -> Seqs] /\ sought \in [Devices -> Seqs]
        /\ heard \in [Devices -> Seqs]
    BY DEF PositionInv, TypeOK
  <1>2. row' \in [Devices -> Row \cup {None}] /\ row'[d] = r
        /\ \A e \in Devices : e # d => row'[e] = row[e]
    BY <1>1
  <1>3. \A e \in Devices : row[e] # None => row[e].seq \in Nat
    BY <1>1, RowFields
  <1>4. Monotone
    BY <1>2, <1>3 DEF Monotone
  <1>5. /\ own[d] \in Nat /\ sought[d] \in Nat /\ heard[d] \in Nat
        /\ own[d] > 0 => row[d] # None /\ own[d] <= row[d].seq
        /\ own[d] > heard[d] => row[d].synced < own[d]
        /\ sought[d] <= own[d]
    BY <1>1, MergeConstants DEF PositionInv, Unheard
  <1>6. own[d] > 0 => r # None /\ own[d] <= r.seq
    <2> SUFFICES ASSUME own[d] > 0  PROVE  r # None /\ own[d] <= r.seq
      OBVIOUS
    <2>1. row[d] # None /\ own[d] <= row[d].seq /\ r # None
          /\ row[d].seq <= r.seq
      BY <1>5
    <2>2. row[d].seq \in Nat /\ r.seq \in Nat
      BY <2>1, <1>3, RowFields
    <2> QED  BY <2>1, <2>2, <1>5
  <1>7. own[d] > heard[d] => r.synced < own[d] /\ r.seek = row[d].seek
    BY <1>5
  <1>8. sought[d] > heard[d] => own[d] > heard[d]
    BY <1>5
  <1>9. Unheard'
    BY <1>2, <1>5, <1>6, <1>7 DEF PositionInv, Unheard
  <1>10. SeekNotForgotten'
    BY <1>2, <1>7, <1>8 DEF PositionInv, SeekNotForgotten
  <1> QED  BY <1>2, <1>4, <1>9, <1>10

\* What an answer to a PUT leaves in the row.
LEMMA PutAnsweredRow ==
  ASSUME PositionInv, NEW p \in puts, PutAnswered(p)
  PROVE  LET d == p.dev
             r == Applied(MarkedSynced(row[d], p.obs.seq), p.cur, p.obs.seq)
         IN /\ r \in Row
            /\ row' = [row EXCEPT ![d] = r] /\ row'[d] = r
            /\ row[d] # None /\ row[d].seq <= r.seq
            /\ own[d] > heard[d] =>
                  r.seek = row[d].seek /\ r.synced < own[d]
                    /\ r.offset = row[d].offset /\ r.finished = row[d].finished
  <1> DEFINE d == p.dev
             m == MarkedSynced(row[d], p.obs.seq)
             r == Applied(m, p.cur, p.obs.seq)
  <1>1. /\ p \in Put /\ d \in Devices /\ p.obs.seq \in Nat /\ p.obs.seq \in Seqs
        /\ row \in [Devices -> Row \cup {None}]
        /\ own[d] \in Nat /\ heard[d] \in Nat
    BY PutFields, MergeConstants DEF PositionInv, TypeOK
  <1>2. p.cur \in Observation /\ p.obs.seq <= heard[d]
    BY <1>1, PutFields DEF PutAnswered, PositionInv, PutsInv, Heeded
  <1>3. row[d] # None /\ row[d] \in Row /\ p.obs.seq <= row[d].seq
    BY <1>1 DEF PositionInv, PutsInv, Sent
  <1>4. /\ m \in Row /\ m # None /\ m.offset = row[d].offset
        /\ m.finished = row[d].finished /\ m.seek = row[d].seek
        /\ m.seq = row[d].seq
        /\ m.synced = row[d].synced \/ m.synced = p.obs.seq
    <2>1. m # None
      BY <1>1, <1>3, MarkedRow, RowFields
    <2> QED  BY <2>1, <1>1, <1>3, MarkedRow
  <1>5. row' = [row EXCEPT ![d] = r] /\ row'[d] = r /\ Counted(r)
    BY <1>1 DEF PutAnswered
  <1> HIDE DEF m
  <1>6. /\ r \in Row
        /\ m.seq > p.obs.seq => r = m
        /\ m.seq <= r.seq
    BY <1>2, <1>4, <1>5, AppliedRow
  <1>7. ASSUME own[d] > heard[d]
        PROVE  r = m /\ m.synced < own[d]
    <2>1. own[d] <= row[d].seq /\ row[d].synced < own[d]
      BY <1>1, <1>7 DEF PositionInv, Unheard
    <2>2. row[d].seq \in Nat
      BY <1>3, RowFields
    <2>3. m.seq > p.obs.seq /\ p.obs.seq < own[d]
      BY <2>1, <2>2, <1>1, <1>2, <1>4, <1>7
    <2> QED  BY <2>1, <2>3, <1>4, <1>6
  <1> HIDE DEF r
  <1>8. /\ r \in Row /\ row' = [row EXCEPT ![d] = r] /\ row'[d] = r
        /\ row[d] # None /\ row[d].seq <= r.seq
        /\ own[d] > heard[d] =>
             r.seek = row[d].seek /\ r.synced < own[d]
               /\ r.offset = row[d].offset /\ r.finished = row[d].finished
    BY <1>3, <1>4, <1>5, <1>6, <1>7
  <1> QED  BY <1>8 DEF r, m

\* What an answer to GET leaves in the row.
LEMMA PullAnsweredRow ==
  ASSUME PositionInv, NEW d \in Devices, PullAnswered(d)
  PROVE  \E r \in Row \cup {None} :
           /\ row' = [row EXCEPT ![d] = r] /\ row'[d] = r
           /\ row[d] # None => r # None /\ row[d].seq <= r.seq
           /\ own[d] > heard[d] => r = row[d]
  <1> DEFINE a == pull[d].item
             known == IF row[d] = None THEN 0 ELSE row[d].synced
             r == IF a = None THEN row[d] ELSE Applied(row[d], a, known)
  <1>1. row \in [Devices -> Row \cup {None}] /\ pull[d] \in Pulls
        /\ own[d] \in Nat /\ heard[d] \in Nat
    BY MergeConstants DEF PositionInv, TypeOK
  <1>2. a \in Observation \cup {None}
    BY <1>1 DEF PullAnswered, Pulls
  <1>3. row' = [row EXCEPT ![d] = r] /\ row'[d] = r /\ Counted(r)
    BY <1>1 DEF PullAnswered
  <1>4. row[d] # None => row[d] \in Row /\ row[d].seq \in Nat
    BY <1>1, RowFields
  <1> HIDE DEF a
  <1>5. CASE a = None
    <2>1. r = row[d]
      BY <1>5
    <2> HIDE DEF r
    <2>2. /\ r \in Row \cup {None}
          /\ row[d] # None => r # None /\ row[d].seq <= r.seq
      BY <2>1, <1>1, <1>4
    <2> QED  BY <2>1, <2>2, <1>3
  <1>6. CASE a # None
    <2>1. r = Applied(row[d], a, known)
      BY <1>6
    <2> HIDE DEF known
    <2>2. /\ r \in Row
          /\ row[d] # None /\ row[d].seq > known => r = row[d]
          /\ row[d] # None => row[d].seq <= r.seq
      BY <2>1, <1>1, <1>2, <1>3, <1>6, AppliedRow
    <2>3. r # None
      BY <2>2, RowFields
    <2>4. ASSUME own[d] > heard[d]  PROVE  row[d] # None /\ row[d].seq > known
      <3>1. own[d] > 0
        BY <2>4, <1>1
      <3>2. row[d] # None /\ own[d] <= row[d].seq /\ row[d].synced < own[d]
        BY <2>4, <3>1 DEF PositionInv, Unheard
      <3>3. row[d].synced \in Nat
        BY <3>2, <1>1, RowFields
      <3> QED  BY <3>2, <3>3, <1>1, <1>4 DEF known
    <2> HIDE DEF r
    <2> QED  BY <1>3, <2>2, <2>3, <2>4
  <1> QED  BY <1>5, <1>6

-----------------------------------------------------------------------------
(* The steps that the server takes *)

\* A request that is replaced by what became of it.
LEMMA ReplacedPut ==
  ASSUME TypeOK, PutsInv, NEW p \in puts, NEW q \in Put,
         puts' = (puts \ {p}) \cup {q} \/ puts' = puts \ {p},
         row' = row, version' \in Nat,
         heard' \in [Devices -> Seqs],
         \A d \in Devices : heard[d] <= heard'[d],
         \/ version' = version /\ pos' = pos
         \/ version' = version + 1,
         q.dev = p.dev, q.obs.seq = p.obs.seq,
         q.stage = "merging" => q.version = version' /\ q.cur = pos',
         q.stage = "done" => q.cur # None /\ q.obs.seq <= heard'[q.dev]
  PROVE  puts' \subseteq Put /\ PutsInv'
  <1>1. puts \subseteq Put /\ version \in Nat /\ heard \in [Devices -> Seqs]
    BY DEF TypeOK
  <1>2. puts' \subseteq Put
    BY <1>1
  <1>3. Fresh'
    <2> SUFFICES ASSUME NEW x \in puts', x.stage = "merging"
                 PROVE  x.version <= version' /\ (x.version = version' => x.cur = pos')
      BY DEF Fresh
    <2>1. CASE x = q
      BY <2>1
    <2>2. CASE x \in puts
      <3>1. x.version \in Nat
        BY <2>2, <1>1, PutFields
      <3>2. x.version <= version /\ (x.version = version => x.cur = pos)
        BY <2>2 DEF PutsInv, Fresh
      <3> QED  BY <3>1, <3>2, <1>1
    <2> QED  BY <2>1, <2>2
  <1>4. Heeded'
    <2> SUFFICES ASSUME NEW x \in puts', x.stage = "done"
                 PROVE  x.cur # None /\ x.obs.seq <= heard'[x.dev]
      BY DEF Heeded
    <2>1. CASE x = q
      BY <2>1
    <2>2. CASE x \in puts
      <3>1. x.obs.seq \in Nat /\ x.dev \in Devices
        BY <2>2, <1>1, PutFields
      <3>2. heard[x.dev] \in Nat /\ heard'[x.dev] \in Nat
        BY <3>1, <1>1, MergeConstants
      <3>3. x.cur # None /\ x.obs.seq <= heard[x.dev]
        BY <2>2 DEF PutsInv, Heeded
      <3> QED  BY <3>1, <3>2, <3>3
    <2> QED  BY <2>1, <2>2
  <1>5. Sent'
    BY DEF PutsInv, Sent
  <1> QED  BY <1>2, <1>3, <1>4, <1>5 DEF PutsInv

\* The server hears more, and nothing else of a phone changes.
LEMMA HeardStep ==
  ASSUME PositionInv, heard' \in [Devices -> Seqs],
         \A d \in Devices : heard[d] <= heard'[d],
         row' = row, own' = own, sought' = sought
  PROVE  Unheard' /\ SeekNotForgotten'
  <1>1. ASSUME NEW d \in Devices
        PROVE  own[d] \in Nat /\ sought[d] \in Nat /\ heard[d] \in Nat
                 /\ heard'[d] \in Nat /\ heard[d] <= heard'[d]
    BY MergeConstants DEF PositionInv, TypeOK
  <1>2. Unheard'
    BY <1>1 DEF PositionInv, Unheard
  <1>3. SeekNotForgotten'
    BY <1>1 DEF PositionInv, SeekNotForgotten
  <1> QED  BY <1>2, <1>3

LEMMA SettleStep ==
  ASSUME PositionInv, NEW p \in puts, p.stage = "merging",
         NEW item \in Observation, NEW v \in Nat, Settle(p, item, v),
         version' \in Nat,
         \/ version' = version /\ pos' = pos
         \/ version' = version + 1
  PROVE  /\ puts' \subseteq Put /\ PutsInv'
         /\ heard' \in [Devices -> Seqs] /\ Unheard' /\ SeekNotForgotten'
  <1> DEFINE h == IF p.obs.seq > heard[p.dev] THEN p.obs.seq ELSE heard[p.dev]
             q == [p EXCEPT !.stage = "done", !.cur = item, !.version = v]
  <1>1. /\ TypeOK /\ PutsInv /\ p \in Put /\ p.dev \in Devices
        /\ p.obs.seq \in Nat /\ p.obs.seq \in Seqs
        /\ heard \in [Devices -> Seqs] /\ puts \subseteq Put
    BY PutFields DEF PositionInv, TypeOK
  <1>2. \A d \in Devices : heard[d] \in Nat
    BY <1>1, MergeConstants
  <1>3. h \in Seqs /\ h \in Nat /\ p.obs.seq <= h /\ heard[p.dev] <= h
    BY <1>1, <1>2
  <1>4. heard' = [heard EXCEPT ![p.dev] = h]
    BY DEF Settle
  <1> HIDE DEF h
  <1>5. /\ heard' \in [Devices -> Seqs]
        /\ \A d \in Devices : heard[d] <= heard'[d]
        /\ heard'[p.dev] = h
    BY <1>1, <1>2, <1>3, <1>4
  <1>6. item # None
    BY NoneIsNoObservation
  <1>7. /\ q \in Put /\ q.dev = p.dev /\ q.obs = p.obs /\ q.stage = "done"
        /\ q.cur = item
    BY <1>1 DEF Put
  <1>8. puts' = (puts \ {p}) \cup {q} \/ puts' = puts \ {p}
    BY Zenon DEF Settle, Answer
  <1> HIDE DEF q
  <1>9. row' = row /\ own' = own /\ sought' = sought
    BY DEF Settle, asked
  <1>10. puts' \subseteq Put /\ PutsInv'
    BY <1>1, <1>3, <1>5, <1>6, <1>7, <1>8, <1>9, ReplacedPut
  <1> QED  BY <1>5, <1>9, <1>10, HeardStep

LEMMA KeepStep ==
  ASSUME PositionInv, NEW p \in puts, Keep(p)
  PROVE  /\ puts' \subseteq Put /\ PutsInv'
         /\ heard' \in [Devices -> Seqs] /\ Unheard' /\ SeekNotForgotten'
  <1>1. /\ p \in Put /\ p.obs \in Observation
        /\ p.cur \in Observation \cup {None} /\ p.version \in Nat
        /\ version \in Nat
    BY PutFields DEF PositionInv, TypeOK
  <1>2. p.cur \in Observation
    BY <1>1 DEF Keep, Left
  <1> QED  BY <1>1, <1>2, SettleStep DEF Keep

LEMMA WriteStep ==
  ASSUME PositionInv, NEW p \in puts, Write(p)
  PROVE  /\ puts' \subseteq Put /\ PutsInv'
         /\ pos' \in Observation /\ version' \in Nat
         /\ heard' \in [Devices -> Seqs] /\ Unheard' /\ SeekNotForgotten'
         /\ p.cur = pos /\ p.obs \in Observation
         /\ pos' = Merged(pos, p.obs)
  <1>1. /\ p \in Put /\ p.obs \in Observation
        /\ p.cur \in Observation \cup {None} /\ p.version \in Nat
        /\ version \in Nat
    BY PutFields DEF PositionInv, TypeOK
  <1>2. Outcome(p) \in Observation
    BY <1>1, MergedType DEF Outcome
  <1>3. pos' = Outcome(p) /\ version' = version + 1 /\ p.stage = "merging"
        /\ p.version = version /\ Settle(p, pos', version')
    BY DEF Write, Unwritten
  <1>4. p.cur = pos
    BY <1>3 DEF PositionInv, PutsInv, Fresh
  <1>5. pos' \in Observation /\ version' \in Nat
    BY <1>1, <1>2, <1>3
  <1>6. /\ puts' \subseteq Put /\ PutsInv'
        /\ heard' \in [Devices -> Seqs] /\ Unheard' /\ SeekNotForgotten'
    BY <1>3, <1>5, SettleStep
  <1> QED  BY <1>1, <1>3, <1>4, <1>5, <1>6 DEF Outcome

LEMMA ArriveStep ==
  ASSUME PositionInv, NEW p \in puts, Arrive(p)
  PROVE  puts' \subseteq Put /\ PutsInv' /\ Unheard' /\ SeekNotForgotten'
  <1> DEFINE o == [p.obs EXCEPT !.at = clock']
             q == [p EXCEPT !.stage = "stamped", !.obs = o]
  <1>1. /\ TypeOK /\ PutsInv /\ p \in Put /\ p.dev \in Devices
        /\ p.obs \in Observation /\ version \in Nat
        /\ heard \in [Devices -> Seqs] /\ clock' \in Stamps
    BY PutFields DEF PositionInv, TypeOK, Arrive
  <1>2. o \in Observation /\ o.seq = p.obs.seq
    BY <1>1 DEF Observation
  <1>3. puts' = (puts \ {p}) \cup {q}
    BY DEF Arrive
  <1> HIDE DEF o
  <1>4. /\ q \in Put /\ q.dev = p.dev /\ q.obs.seq = p.obs.seq
        /\ q.stage = "stamped"
    BY <1>1, <1>2 DEF Put
  <1> HIDE DEF q
  <1>5. /\ row' = row /\ own' = own /\ sought' = sought /\ heard' = heard
        /\ pos' = pos /\ version' = version
    BY DEF Arrive, asked
  <1>6. \A d \in Devices : heard[d] \in Nat
    BY <1>1, MergeConstants
  <1>7. puts' \subseteq Put /\ PutsInv'
    BY <1>1, <1>3, <1>4, <1>5, <1>6, ReplacedPut
  <1>8. Unheard' /\ SeekNotForgotten'
    BY <1>1, <1>5, <1>6, HeardStep
  <1> QED  BY <1>7, <1>8

LEMMA RereadStep ==
  ASSUME PositionInv, NEW p \in puts, Reread(p)
  PROVE  puts' \subseteq Put /\ PutsInv' /\ Unheard' /\ SeekNotForgotten'
  <1> DEFINE q == [p EXCEPT !.stage = "merging", !.cur = pos,
                            !.version = version]
  <1>1. /\ TypeOK /\ PutsInv /\ p \in Put /\ p.dev \in Devices
        /\ version \in Nat /\ pos \in Observation \cup {None}
        /\ heard \in [Devices -> Seqs]
    BY PutFields DEF PositionInv, TypeOK
  <1>2. /\ q \in Put /\ q.dev = p.dev /\ q.obs.seq = p.obs.seq
        /\ q.stage = "merging" /\ q.version = version /\ q.cur = pos
    BY <1>1 DEF Put
  <1>3. puts' = (puts \ {p}) \cup {q}
    BY DEF Reread
  <1> HIDE DEF q
  <1>4. /\ row' = row /\ own' = own /\ sought' = sought /\ heard' = heard
        /\ pos' = pos /\ version' = version
    BY DEF Reread, server, asked
  <1>5. \A d \in Devices : heard[d] \in Nat
    BY <1>1, MergeConstants
  <1>6. puts' \subseteq Put /\ PutsInv'
    BY <1>1, <1>2, <1>3, <1>4, <1>5, ReplacedPut
  <1>7. Unheard' /\ SeekNotForgotten'
    BY <1>1, <1>4, <1>5, HeardStep
  <1> QED  BY <1>6, <1>7

-----------------------------------------------------------------------------
(* The invariant *)

LEMMA PositionInit == Init => PositionInv
  <1> SUFFICES ASSUME Init  PROVE  PositionInv
    OBVIOUS
  <1>1. TypeOK
    BY PositionConstants DEF Init, TypeOK, Idle, Pulls
  <1>2. PutsInv
    BY DEF Init, PutsInv, Fresh, Heeded, Sent
  <1>3. Unheard /\ SeekNotForgotten
    BY DEF Init, Unheard, SeekNotForgotten
  <1> QED  BY <1>1, <1>2, <1>3 DEF PositionInv

\* Where no row, no count and nothing heard changes.
LEMMA QuietStep ==
  ASSUME PositionInv, row' = row, own' = own, sought' = sought, heard' = heard
  PROVE  Unheard' /\ SeekNotForgotten'
  BY DEF PositionInv, Unheard, SeekNotForgotten

LEMMA ListenerStep ==
  ASSUME PositionInv, NEW d \in Devices, Listener(d)
  PROVE  PositionInv'
  <1>1. PICK p \in Place : SaveQuietly(d, p) \/ SaveAtOnce(d, p)
    BY DEF Listener
  <1>2. Save(d, p)
    BY <1>1 DEF SaveQuietly, SaveAtOnce
  <1>3. TypeOK /\ PutsInv
    BY DEF PositionInv
  <1>4. /\ row' \in [Devices -> Row \cup {None}] /\ Monotone
        /\ row'[d] \in Row
        /\ own' \in [Devices -> Seqs] /\ sought' \in [Devices -> Seqs]
        /\ saves' \in 0 .. MaxSaves /\ Unheard' /\ SeekNotForgotten'
    BY <1>2, SaveStep
  <1>5. UNCHANGED <<pos, version, clock, on, retry, pull, failures, heard>>
    BY <1>2 DEF Save, server
  <1>6. /\ puts' \subseteq Put /\ dirty' \in [Devices -> BOOLEAN] /\ PutsInv'
        /\ urgent' \in [Devices -> Seqs]
    <2>1. CASE SaveQuietly(d, p)
      <3>1. puts' = puts /\ dirty' = dirty /\ urgent' = urgent
        BY <2>1 DEF SaveQuietly
      <3>2. \A q \in puts' :
              NewPut(q, d, row'[d]) \/ \E x \in puts : SamePut(q, x)
        BY <3>1, <1>3, PutFields DEF TypeOK
      <3>3. puts' \subseteq Put /\ PutsInv'
        BY <3>2, <1>3, <1>4, <1>5, PutsKept DEF Monotone
      <3> QED  BY <3>1, <3>3, <1>3 DEF TypeOK
    <2>2. CASE SaveAtOnce(d, p)
      <3>1. Attempt(d, row'[d]) /\ urgent' = [urgent EXCEPT ![d] = row'[d].seq]
        BY <2>2 DEF SaveAtOnce
      <3>2. urgent' \in [Devices -> Seqs]
        BY <3>1, <1>3, <1>4, RowFields DEF TypeOK
      <3> QED  BY <3>1, <3>2, <1>3, <1>4, <1>5, AttemptStep
    <2> QED  BY <1>1, <2>1, <2>2
  <1>7. TypeOK'
    BY <1>3, <1>4, <1>5, <1>6 DEF TypeOK
  <1> QED  BY <1>4, <1>6, <1>7 DEF PositionInv

LEMMA PhoneStep ==
  ASSUME PositionInv, NEW d \in Devices, Phone(d)
  PROVE  PositionInv'
  <1>1. TypeOK /\ PutsInv
    BY DEF PositionInv
  <1>2. CASE Timer(d) \/ RetryFires(d) \/ Start(d)
    <2>1. /\ Attempt(d, row'[d])
          /\ UNCHANGED <<server, row, bounds, asked, heard>>
      BY <1>2 DEF Timer, RetryFires, Start
    <2>2. row' \in [Devices -> Row \cup {None}] /\ Monotone
      BY <2>1, <1>1, SameRows
    <2>3. puts' \subseteq Put /\ dirty' \in [Devices -> BOOLEAN] /\ PutsInv'
      BY <2>1, <2>2, <1>1, AttemptStep DEF server
    <2>4. /\ on' \in [Devices -> BOOLEAN] /\ retry' \in [Devices -> BOOLEAN]
          /\ pull' \in [Devices -> Pulls]
      <3>1. CASE Timer(d) \/ RetryFires(d)
        BY <3>1, <1>1 DEF Timer, RetryFires, TypeOK
      <3>2. CASE Start(d)
        <4> DEFINE w == [stage |-> IF Unsynced(row[d]) THEN "push" ELSE "ask"]
        <4>1. w \in Pulls
          BY DEF Pulls
        <4>2. pull' = [pull EXCEPT ![d] = w] /\ retry' = retry
              /\ on' = [on EXCEPT ![d] = TRUE]
          BY <3>2 DEF Start
        <4> HIDE DEF w
        <4> QED  BY <4>1, <4>2, <1>1 DEF TypeOK
      <3> QED  BY <1>2, <3>1, <3>2
    <2>5. TypeOK'
      BY <2>1, <2>2, <2>3, <2>4, <1>1 DEF TypeOK, server, bounds, asked
    <2>6. Unheard' /\ SeekNotForgotten'
      BY <2>1, QuietStep DEF asked
    <2> QED  BY <2>3, <2>5, <2>6 DEF PositionInv
  <1>3. CASE PullReads(d) \/ PullFails(d)
    <2>1. UNCHANGED <<server, puts, row, on, dirty, retry, bounds, asked, heard>>
      BY <1>3 DEF PullReads, PullFails
    <2>2. pull' \in [Devices -> Pulls]
      <3> DEFINE w == [stage |-> "answer", item |-> pos]
      <3>1. w \in Pulls /\ Idle \in Pulls
        BY <1>1 DEF Pulls, Idle, TypeOK
      <3>2. pull' = [pull EXCEPT ![d] = w] \/ pull' = [pull EXCEPT ![d] = Idle]
        BY <1>3 DEF PullReads, PullFails
      <3> HIDE DEF w
      <3> QED  BY <3>1, <3>2, <1>1 DEF TypeOK
    <2>3. TypeOK'
      BY <2>1, <2>2, <1>1 DEF TypeOK, server, bounds, asked
    <2>4. PutsInv'
      BY <2>1, <1>1 DEF PutsInv, Fresh, Heeded, Sent, server
    <2>5. Unheard' /\ SeekNotForgotten'
      BY <2>1, QuietStep DEF asked
    <2> QED  BY <2>3, <2>4, <2>5 DEF PositionInv
  <1>4. CASE PullAnswered(d)
    <2>1. PICK r \in Row \cup {None} :
            /\ row' = [row EXCEPT ![d] = r] /\ row'[d] = r
            /\ row[d] # None => r # None /\ row[d].seq <= r.seq
            /\ own[d] > heard[d] => r = row[d]
      BY <1>4, PullAnsweredRow
    <2>2. UNCHANGED <<server, puts, on, dirty, retry, bounds, asked, heard>>
      BY <1>4 DEF PullAnswered
    <2>3. own[d] > heard[d] => r.seek = row[d].seek /\ r.synced < own[d]
      BY <2>1 DEF PositionInv, Unheard
    <2>4. /\ row' \in [Devices -> Row \cup {None}] /\ Monotone
          /\ Unheard' /\ SeekNotForgotten'
      BY <2>1, <2>2, <2>3, RowStep DEF asked
    <2>5. \A q \in puts' :
            NewPut(q, d, row'[d]) \/ \E x \in puts : SamePut(q, x)
      BY <2>2, <1>1, PutFields DEF TypeOK
    <2>6. puts' \subseteq Put /\ PutsInv'
      BY <2>2, <2>4, <2>5, <1>1, PutsKept DEF Monotone, server
    <2>7. pull' \in [Devices -> Pulls]
      BY <1>4, <1>1 DEF PullAnswered, TypeOK, Idle, Pulls
    <2>8. TypeOK'
      BY <2>2, <2>4, <2>6, <2>7, <1>1 DEF TypeOK, server, bounds, asked
    <2> QED  BY <2>4, <2>6, <2>8 DEF PositionInv
  <1> QED  BY <1>2, <1>3, <1>4 DEF Phone

LEMMA KillStep ==
  ASSUME PositionInv, NEW d \in Devices, Kill(d)
  PROVE  PositionInv'
  <1>1. TypeOK /\ PutsInv
    BY DEF PositionInv
  <1>2. UNCHANGED <<server, row, saves, asked, heard>>
    BY DEF Kill
  <1>3. row' \in [Devices -> Row \cup {None}] /\ Monotone
    BY <1>1, <1>2, SameRows
  <1>4. ASSUME NEW q \in puts'
        PROVE  \E x \in puts : SamePut(q, x)
    <2> DEFINE mine == {p \in puts : p.dev = d /\ p.awaited}
    <2>1. CASE mine = {}
      <3>1. puts' = puts
        BY <2>1 DEF Kill
      <3> QED  BY <3>1, <1>1, PutFields DEF TypeOK
    <2>2. CASE mine # {}
      <3>1. PICK p \in mine : \E left \in GivenUp(p) :
              puts' = (puts \ {p}) \cup left
        BY <2>2 DEF Kill
      <3>2. PICK left \in GivenUp(p) : puts' = (puts \ {p}) \cup left
        BY <3>1
      <3>3. p \in puts /\ p \in Put
        BY <1>1 DEF TypeOK
      <3>4. \A x \in left : SamePut(x, p)
        BY <3>3, GivenUpPuts
      <3> QED  BY <3>2, <3>3, <3>4, <1>1, PutFields DEF TypeOK
    <2> QED  BY <2>1, <2>2
  <1>5. puts' \subseteq Put /\ PutsInv'
    BY <1>1, <1>2, <1>3, <1>4, PutsKept DEF Monotone, server
  <1>6. /\ on' \in [Devices -> BOOLEAN] /\ retry' \in [Devices -> BOOLEAN]
        /\ dirty' \in [Devices -> BOOLEAN]
        /\ failures' \in 0 .. MaxFailures
    BY <1>1, PositionConstants DEF Kill, TypeOK
  <1>7. pull' \in [Devices -> Pulls]
    BY <1>1 DEF Kill, TypeOK, Idle, Pulls
  <1>8. TypeOK'
    BY <1>1, <1>2, <1>3, <1>5, <1>6, <1>7 DEF TypeOK, server, asked
  <1>9. Unheard' /\ SeekNotForgotten'
    BY <1>2, QuietStep DEF asked
  <1> QED  BY <1>5, <1>8, <1>9 DEF PositionInv

LEMMA PutFailsStep ==
  ASSUME PositionInv, NEW p \in puts, PutFails(p)
  PROVE  PositionInv'
  <1>1. TypeOK /\ PutsInv /\ p \in Put /\ p.dev \in Devices
    BY PutFields DEF PositionInv, TypeOK
  <1>2. UNCHANGED <<server, row, on, saves, asked, heard>>
    BY DEF PutFails
  <1>3. row' \in [Devices -> Row \cup {None}] /\ Monotone
    BY <1>1, <1>2, SameRows
  <1>4. PICK left \in GivenUp(p) :
          Conclude(p.dev, row[p.dev], (puts \ {p}) \cup left)
    BY DEF PutFails
  <1>5. \A q \in (puts \ {p}) \cup left : \E x \in puts : SamePut(q, x)
    BY <1>1, GivenUpPuts, PutFields DEF TypeOK
  <1>6. /\ puts' \subseteq Put /\ dirty' \in [Devices -> BOOLEAN]
        /\ pull' \in [Devices -> Pulls] /\ PutsInv'
    <2>1. Conclude(p.dev, row'[p.dev], (puts \ {p}) \cup left)
      BY <1>2, <1>4
    <2> QED  BY <2>1, <1>1, <1>2, <1>3, <1>5, ConcludeStep DEF server
  <1>7. retry' \in [Devices -> BOOLEAN] /\ failures' \in 0 .. MaxFailures
    BY <1>1, PositionConstants DEF PutFails, TypeOK
  <1>8. TypeOK'
    BY <1>1, <1>2, <1>3, <1>6, <1>7 DEF TypeOK, server, asked
  <1>9. Unheard' /\ SeekNotForgotten'
    BY <1>2, QuietStep DEF asked
  <1> QED  BY <1>6, <1>8, <1>9 DEF PositionInv

LEMMA PutAnsweredStep ==
  ASSUME PositionInv, NEW p \in puts, PutAnswered(p)
  PROVE  PositionInv'
  <1> DEFINE d == p.dev
             r == Applied(MarkedSynced(row[d], p.obs.seq), p.cur, p.obs.seq)
  <1>1. TypeOK /\ PutsInv /\ d \in Devices
    BY PutFields DEF PositionInv, TypeOK
  <1>2. /\ r \in Row
        /\ row' = [row EXCEPT ![d] = r] /\ row'[d] = r
        /\ row[d] # None /\ row[d].seq <= r.seq
        /\ own[d] > heard[d] => r.seek = row[d].seek /\ r.synced < own[d]
    BY PutAnsweredRow
  <1>3. /\ Conclude(d, row'[d], puts \ {p})
        /\ UNCHANGED <<server, on, retry, bounds, asked, heard>>
    BY DEF PutAnswered
  <1> HIDE DEF r
  <1>4. r # None
    BY <1>2, RowFields
  <1> HIDE DEF d
  <1>5. /\ row' \in [Devices -> Row \cup {None}] /\ Monotone
        /\ Unheard' /\ SeekNotForgotten'
    BY <1>1, <1>2, <1>3, <1>4, RowStep DEF asked
  <1>6. \A q \in puts \ {p} : \E x \in puts : SamePut(q, x)
    BY <1>1, PutFields DEF TypeOK
  <1>7. /\ puts' \subseteq Put /\ dirty' \in [Devices -> BOOLEAN]
        /\ pull' \in [Devices -> Pulls] /\ PutsInv'
    BY <1>1, <1>3, <1>5, <1>6, ConcludeStep DEF server
  <1>8. TypeOK'
    BY <1>1, <1>3, <1>5, <1>7 DEF TypeOK, server, bounds, asked
  <1> QED  BY <1>5, <1>7, <1>8 DEF PositionInv

LEMMA ServerStep ==
  ASSUME PositionInv, NEW p \in puts, Server(p)
  PROVE  PositionInv'
  <1>1. TypeOK
    BY DEF PositionInv
  <1>2. UNCHANGED <<row, app, bounds, asked>>
    BY DEF Server, Arrive, Read, Keep, Write, ReadAgain, Reread, Settle
  <1>3. /\ pos' \in Observation \cup {None} /\ version' \in Nat
        /\ clock' \in Stamps /\ heard' \in [Devices -> Seqs]
        /\ puts' \subseteq Put /\ PutsInv' /\ Unheard' /\ SeekNotForgotten'
    <2>1. CASE Arrive(p)
      BY <2>1, <1>1, ArriveStep DEF Arrive, TypeOK
    <2>2. CASE Keep(p)
      BY <2>2, <1>1, KeepStep DEF Keep, Settle, TypeOK
    <2>3. CASE Write(p)
      BY <2>3, <1>1, WriteStep DEF Write, Settle, TypeOK
    <2>4. CASE Read(p) \/ ReadAgain(p)
      BY <2>4, <1>1, RereadStep DEF Read, ReadAgain, Reread, server, TypeOK
    <2> QED  BY <2>1, <2>2, <2>3, <2>4 DEF Server
  <1>4. TypeOK'
    BY <1>1, <1>2, <1>3 DEF TypeOK, app, bounds, asked
  <1> QED  BY <1>3, <1>4 DEF PositionInv

LEMMA PositionStep == PositionInv /\ [Next]_vars => PositionInv'
  <1> SUFFICES ASSUME PositionInv, [Next]_vars  PROVE  PositionInv'
    OBVIOUS
  <1>1. ASSUME NEW d \in Devices, Listener(d)  PROVE  PositionInv'
    BY <1>1, ListenerStep
  <1>2. ASSUME NEW d \in Devices, Phone(d)  PROVE  PositionInv'
    BY <1>2, PhoneStep
  <1>3. ASSUME NEW d \in Devices, Kill(d)  PROVE  PositionInv'
    BY <1>3, KillStep
  <1>4. ASSUME NEW p \in puts, Server(p)  PROVE  PositionInv'
    BY <1>4, ServerStep
  <1>5. ASSUME NEW p \in puts, PutAnswered(p)  PROVE  PositionInv'
    BY <1>5, PutAnsweredStep
  <1>6. ASSUME NEW p \in puts, PutFails(p)  PROVE  PositionInv'
    BY <1>6, PutFailsStep
  <1>7. CASE UNCHANGED vars
    <2>1. UNCHANGED <<pos, version, clock, puts, row, on, dirty, retry, pull,
                      saves, failures, own, sought, urgent, heard>>
      BY <1>7 DEF vars, server, app, bounds, asked
    <2>2. TypeOK'
      BY <2>1 DEF PositionInv, TypeOK
    <2>3. PutsInv'
      BY <2>1 DEF PositionInv, PutsInv, Fresh, Heeded, Sent
    <2>4. Unheard' /\ SeekNotForgotten'
      BY <2>1, QuietStep
    <2> QED  BY <2>2, <2>3, <2>4 DEF PositionInv
  <1> QED  BY <1>1, <1>2, <1>3, <1>4, <1>5, <1>6, <1>7 DEF Next

\* The invariant from which the theorems below follow.
THEOREM PositionInvariant == Spec => []PositionInv
  BY PositionInit, PositionStep, PTL DEF Spec

-----------------------------------------------------------------------------
(* Theorems *)

\* The state of phones, server and requests has its type.
THEOREM PositionTypes == Spec => []TypeOK
  <1>1. PositionInv => TypeOK
    BY DEF PositionInv
  <1> QED  BY <1>1, PositionInvariant, PTL

\* A seek is uploaded as a seek, however many saves come after it first.
THEOREM SeekIsUploaded == Spec => []SeekNotForgotten
  <1>1. PositionInv => SeekNotForgotten
    BY DEF PositionInv
  <1> QED  BY <1>1, PositionInvariant, PTL

\* What a step does to the server's item: one merge, or nothing.
LEMMA ItemStep ==
  ASSUME PositionInv, [Next]_vars, pos' # pos
  PROVE  \E o \in Observation : pos' = Merged(pos, o)
  <1>1. ASSUME NEW p \in puts, Server(p)
        PROVE  \E o \in Observation : pos' = Merged(pos, o)
    <2>1. Write(p)
      BY <1>1 DEF Server, Arrive, Read, Keep, ReadAgain, Reread, server
    <2> QED  BY <2>1, WriteStep
  <1>2. PICK p \in puts : Server(p)
    <2>1. ~(UNCHANGED vars)
      BY DEF vars, server
    <2>2. ASSUME NEW d \in Devices  PROVE  ~Listener(d)
      BY DEF Listener, SaveQuietly, SaveAtOnce, Save, server
    <2>3. ASSUME NEW d \in Devices  PROVE  ~Phone(d)
      BY DEF Phone, Timer, RetryFires, Start, PullReads, PullAnswered,
             PullFails, server
    <2>4. ASSUME NEW d \in Devices  PROVE  ~Kill(d)
      BY DEF Kill, server
    <2>5. ASSUME NEW p \in puts  PROVE  ~PutAnswered(p) /\ ~PutFails(p)
      BY DEF PutAnswered, PutFails, server
    <2> QED  BY <2>1, <2>2, <2>3, <2>4, <2>5 DEF Next
  <1> QED  BY <1>1, <1>2

\* observeOne's read, merge and conditional put, with other requests in
\* between, implement the register that changes by one merge at a time.
THEOREM SyncImplementsRegister == Spec => MergesAtomically
  <1>1. Init => Register!Init
    BY DEF Init, Register!Init
  <1>2. PositionInv /\ [Next]_vars => [Register!Next]_pos
    <2> SUFFICES ASSUME PositionInv, [Next]_vars, pos' # pos
                 PROVE  Register!Next
      OBVIOUS
    <2>1. PICK o \in Observation : pos' = Merged(pos, o)
      BY ItemStep
    <2>2. Merged(pos, o) = Register!Merged(pos, o)
      BY DEF Merged, Further, NewerSeek,
             Register!Merged, Register!Further, Register!NewerSeek
    <2>3. o \in Register!Observation
      BY DEF Observation, Register!Observation
    <2> QED  BY <2>1, <2>2, <2>3 DEF Register!Next, Register!Observe
  <1> QED
    BY <1>1, <1>2, PositionInvariant, PTL DEF Spec, MergesAtomically, Register!Spec

\* Progress on the server goes back only by a seek received later.
THEOREM ProgressIsKept == Spec => ProgressKept
  <1>1. PositionInv /\ [Next]_vars =>
          [pos # None /\ pos' # pos =>
             \/ pos'.offset >= pos.offset /\ (pos.finished => pos'.finished)
             \/ pos'.seek /\ pos'.at > pos.at]_vars
    <2> SUFFICES ASSUME PositionInv, [Next]_vars, pos # None, pos' # pos
                 PROVE  \/ /\ pos'.offset >= pos.offset
                           /\ pos.finished => pos'.finished
                        \/ pos'.seek /\ pos'.at > pos.at
      OBVIOUS
    <2>1. PICK o \in Observation : pos' = Merged(pos, o)
      BY ItemStep
    <2>2. pos \in Observation
      BY DEF PositionInv, TypeOK
    <2> QED  BY <2>1, <2>2, MergedKeeps
  <1> QED  BY <1>1, PositionInvariant, PTL DEF Spec, ProgressKept

\* Which phone's row a step changes, other than by a save.
LEMMA RowChanges ==
  ASSUME PositionInv, [Next]_vars, NEW d \in Devices,
         row[d] # None, row'[d] # None, own[d] > heard[d], own'[d] = own[d]
  PROVE  row'[d].offset = row[d].offset /\ row'[d].finished = row[d].finished
  <1>1. /\ row \in [Devices -> Row \cup {None}] /\ own \in [Devices -> Seqs]
        /\ row[d] \in Row
    BY DEF PositionInv, TypeOK
  <1>2. ASSUME NEW e \in Devices, Listener(e)
        PROVE  row'[d] = row[d]
    <2>1. PICK p \in Place : Save(e, p)
      BY <1>2 DEF Listener, SaveQuietly, SaveAtOnce
    <2>2. row' = [row EXCEPT ![e] = Saved(row[e], p)]
          /\ own' = [own EXCEPT ![e] = row'[e].seq]
      BY <2>1 DEF Save
    <2>3. CASE e # d
      BY <2>2, <2>3, <1>1
    <2>4. CASE e = d
      <3>1. own'[d] = Saved(row[d], p).seq /\ Counted(Saved(row[d], p))
        BY <2>1, <2>2, <2>4, <1>1 DEF Save
      <3>2. own'[d] = row[d].seq + 1
        BY <3>1, <1>1, SavedRow
      <3>3. row[d].seq \in Nat /\ own[d] \in Nat /\ heard[d] \in Nat
        BY <1>1, RowFields, MergeConstants DEF PositionInv, TypeOK
      <3>4. own[d] <= row[d].seq
        BY <3>3 DEF PositionInv, Unheard
      <3> QED  BY <3>2, <3>3, <3>4
    <2> QED  BY <2>3, <2>4
  <1>3. ASSUME NEW e \in Devices, PullAnswered(e)
        PROVE  row'[d] = row[d]
    <2>1. PICK r \in Row \cup {None} :
            /\ row' = [row EXCEPT ![e] = r]
            /\ own[e] > heard[e] => r = row[e]
      BY <1>3, PullAnsweredRow
    <2> QED  BY <2>1, <1>1
  <1>4. ASSUME NEW p \in puts, PutAnswered(p)
        PROVE  row'[d].offset = row[d].offset /\ row'[d].finished = row[d].finished
    <2> DEFINE r == Applied(MarkedSynced(row[p.dev], p.obs.seq), p.cur, p.obs.seq)
    <2>1. /\ row' = [row EXCEPT ![p.dev] = r] /\ row'[p.dev] = r
          /\ own[p.dev] > heard[p.dev] =>
               r.offset = row[p.dev].offset /\ r.finished = row[p.dev].finished
      BY <1>4, PutAnsweredRow
    <2> HIDE DEF r
    <2> QED  BY <2>1, <1>1
  <1>5. CASE row' = row
    BY <1>5
  <1>6. \/ row' = row
        \/ \E e \in Devices : Listener(e) \/ PullAnswered(e)
        \/ \E p \in puts : PutAnswered(p)
    BY DEF Next, Phone, Timer, RetryFires, Start, PullReads, PullFails, Kill,
           Server, Arrive, Read, Keep, Write, ReadAgain, Reread, Settle,
           PutFails, vars
  <1> QED  BY <1>2, <1>3, <1>4, <1>5, <1>6

\* What the listener last did on a phone is not overwritten by an answer the
\* server gave without knowing of it.
THEOREM UnseenIsKept == Spec => UnseenNeverOverwritten
  <1> DEFINE A == \A d \in Devices :
       own'[d] = own[d] /\ row'[d] # None /\ row[d] # None
         /\ <<row'[d].offset, row'[d].finished>> # <<row[d].offset, row[d].finished>>
       => own[d] <= heard[d]
  <1>1. PositionInv /\ [Next]_vars => [A]_vars
    <2> SUFFICES ASSUME PositionInv, [Next]_vars, NEW d \in Devices,
                        own'[d] = own[d], row'[d] # None, row[d] # None,
                        <<row'[d].offset, row'[d].finished>>
                          # <<row[d].offset, row[d].finished>>
                 PROVE  own[d] <= heard[d]
      OBVIOUS
    <2>1. ~(own[d] > heard[d])
      BY RowChanges
    <2>2. own[d] \in Nat /\ heard[d] \in Nat
      BY MergeConstants DEF PositionInv, TypeOK
    <2> QED  BY <2>1, <2>2
  <1> QED  BY <1>1, PositionInvariant, PTL DEF Spec, UnseenNeverOverwritten

=============================================================================
