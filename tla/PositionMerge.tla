----------------------------- MODULE PositionMerge -----------------------------
(***************************************************************************)
(* The one rule for a listening position when two devices disagree         *)
(* (packages/social-core/src/merge.ts mergePosition).                      *)
(***************************************************************************)
EXTENDS Naturals

CONSTANTS
  Offsets,  \* places in the episode
  Seqs,     \* progressSeq values
  Stamps,   \* receivedAt values: the server's clock
  None      \* no position stored

ASSUME MergeConstants ==
  /\ Offsets \subseteq Nat
  /\ Seqs \subseteq Nat
  /\ Stamps \subseteq Nat

Observation == [offset: Offsets, finished: BOOLEAN, seek: BOOLEAN,
                seq: Seqs, at: Stamps]

ASSUME NoneIsNoObservation == None \notin Observation

\* Mutant: the last write wins, as on a wall clock.
MergedLatest(stored, incoming) == incoming

\* Of two observations that compare by progress: the further offset, then the
\* later save, then the later receipt.
Further(stored, incoming) ==
  IF \/ incoming.offset > stored.offset
     \/ /\ incoming.offset = stored.offset
        /\ \/ incoming.seq > stored.seq
           \/ incoming.seq = stored.seq /\ incoming.at >= stored.at
  THEN incoming ELSE stored

\* A seek that is newer than what it meets wins, even backwards.
NewerSeek(o, other) == o.seek /\ ~other.seek /\ o.at > other.at

Merged(stored, incoming) ==
  CASE stored = None -> incoming
    [] stored # None /\ NewerSeek(incoming, stored) ->
         [incoming EXCEPT !.finished = FALSE]
    [] stored # None /\ NewerSeek(stored, incoming) -> stored
    [] stored # None /\ stored.seek /\ incoming.seek
         /\ stored.at # incoming.at ->
         IF incoming.at > stored.at THEN incoming ELSE stored
    [] OTHER ->
         [Further(stored, incoming) EXCEPT
            !.finished = stored.finished \/ incoming.finished]

=============================================================================
