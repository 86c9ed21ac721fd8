--------------------------- MODULE PlusStoreProofs ----------------------------
(***************************************************************************)
(* PlusStore implements PlusLine: because every change raises the version  *)
(* and a transaction asks for the version read before the rows, the rows   *)
(* it was computed from are the rows that stand.  So what a change keeps   *)
(* true of the rows it is given stays true of the listener's: codes follow *)
(* on, the digest queue tells the latest end, and the end that is told is  *)
(* the first gap.  The chain of codes and the run are recursive functions; *)
(* both are dealt with by least or greatest counterexamples.               *)
(***************************************************************************)
EXTENDS PlusStore, FiniteSetTheorems, WellFoundedInduction, TLAPS

HasRefs(rows) == rows = [k \in Refs |-> rows[k]]

\* What an invocation holds: a version the item has had, a time that has
\* been, and the rows of that version once it has read them.
HoldsOf(k) ==
  /\ k.step \in {"idle", "version", "rows", "write"}
  /\ k.step # "idle" => k.change \in Change /\ k.at \in 0..now
  /\ k.step \in {"rows", "write"} => k.v \in 0..version
  /\ k.step = "write" =>
       /\ k.t \in 0..now /\ k.at <= k.t
       /\ HasRefs(k.rows)
       /\ k.v = version => k.rows = row

Snapshots ==
  /\ worker = [w \in Workers |-> worker[w]]
  /\ \A w \in Workers : HoldsOf(worker[w])

\* The digest queue tells the latest end of the rows as of some moment that
\* has been (bumpPlus), whoever changed them.
QueueIsOfTheRows == \E t \in 0..now : queue = LatestEnd(row, t)

StoreInv ==
  /\ now \in Nat /\ version \in Nat
  /\ HasRefs(row)
  /\ Snapshots
  /\ QueueIsOfTheRows

-----------------------------------------------------------------------------
(* Finite sets of numbers *)

LEMMA HasLeast ==
  ASSUME NEW S \in SUBSET Nat, S # {}
  PROVE  \E n \in S : \A m \in S : n <= m
  <1> DEFINE Earlier == {p \in Nat \X Nat : p[1] < p[2]}
  <1>1. Earlier = OpToRel(<, Nat)
    BY Zenon DEF OpToRel
  <1>2. IsWellFoundedOn(Earlier, Nat)
    BY <1>1, NatLessThanWellFounded, Zenon
  <1> HIDE DEF Earlier
  <1>3. PICK n \in S : \A m \in S : <<m, n>> \notin Earlier
    BY <1>2, WFMin
  <1>4. \A m \in S : ~ (m < n)
    BY <1>3 DEF Earlier
  <1> QED BY <1>4

\* By the size of the set: one element is compared with the greatest of the
\* others.
LEMMA HasGreatest ==
  ASSUME NEW S \in SUBSET Nat, IsFiniteSet(S), S # {}
  PROVE  \E n \in S : \A m \in S : m <= n
  <1> DEFINE Tops(T) == \E n \in T : \A m \in T : m <= n
             wrong == {T \in SUBSET S : T # {} /\ ~Tops(T)}
             sizes == {Cardinality(T) : T \in wrong}
  <1>1. \A T \in SUBSET S : IsFiniteSet(T) /\ Cardinality(T) \in Nat
    BY FS_Subset, FS_CardinalityType
  <1>2. ASSUME wrong # {} PROVE FALSE
    <2>1. sizes \in SUBSET Nat /\ sizes # {}
      BY <1>1, <1>2
    <2>2. PICK n \in sizes : \A m \in sizes : n <= m
      <3> HIDE DEF sizes
      <3> QED BY <2>1, HasLeast
    <2>3. PICK T \in wrong : Cardinality(T) = n
      OBVIOUS
    <2>4. PICK x \in T : TRUE
      OBVIOUS
    <2> DEFINE U == T \ {x}
    <2>5. U \in SUBSET S /\ Cardinality(U) = n - 1
      BY <1>1, <2>3, <2>4, FS_RemoveElement
    <2>6. n \in Nat
      BY <2>1
    <2>7. U \notin wrong
      <3>1. U \in wrong => n - 1 \in sizes
        BY <2>5
      <3> HIDE DEF sizes, wrong
      <3> QED BY <2>2, <2>6, <3>1
    <2>8. x \in Nat /\ T \in SUBSET Nat
      OBVIOUS
    <2>9. CASE U = {}
      <3>1. T = {x}
        BY <2>4, <2>9
      <3>2. Tops(T)
        BY <2>8, <3>1
      <3> QED BY <3>2, <2>3
    <2>10. CASE U # {}
      <3>1. PICK n1 \in U : \A m \in U : m <= n1
        BY <2>5, <2>7, <2>10
      <3>2. Tops(T)
        <4>1. CASE x <= n1
          BY <3>1, <4>1
        <4>2. CASE n1 <= x
          <5>1. \A m \in T : m <= x
            BY <2>8, <3>1, <4>2
          <5> QED BY <5>1, <2>4
        <4> QED BY <2>8, <4>1, <4>2
      <3> QED BY <3>2, <2>3
    <2> QED BY <2>9, <2>10
  <1>3. Tops(S)
    BY <1>2
  <1> QED BY <1>3

LEMMA MaxIsGreatest ==
  ASSUME NEW S \in SUBSET Nat, IsFiniteSet(S), S # {}
  PROVE  /\ Max(S) \in S /\ Max(S) \in Nat
         /\ \A m \in S : m <= Max(S)
  <1>1. PICK n \in S : \A m \in S : m <= n
    BY HasGreatest
  <1>2. n \in S /\ \A m \in S : n >= m
    BY <1>1
  <1>3. Max(S) \in S /\ \A m \in S : Max(S) >= m
    BY <1>2 DEF Max
  <1> QED BY <1>3

LEMMA ImageFinite ==
  ASSUME NEW S, IsFiniteSet(S), NEW f
  PROVE  IsFiniteSet({f[x] : x \in S})
  <1> DEFINE image == {f[x] : x \in S}
             map == [x \in S |-> f[x]]
  <1>1. map \in [S -> image] /\ \A y \in image : \E x \in S : map[x] = y
    OBVIOUS
  <1> HIDE DEF image, map
  <1>2. map \in Surjection(S, image)
    BY <1>1 DEF Surjection
  <1>3. IsFiniteSet(image)
    BY <1>2, FS_Surjection
  <1> QED BY <1>3 DEF image

-----------------------------------------------------------------------------
(* Rows that can be *)

\* Only the store's row may run for ever, and no code ends before it starts.
SoundRows(rows) ==
  /\ rows \in [Refs -> Row \cup {None}]
  /\ \A k \in Refs \ {Store} : rows[k] # None => rows[k].until \in Nat
  /\ \A c \in Codes : rows[c] # None => rows[c].from <= rows[c].until

LEMMA RefsFinite ==
  /\ IsFiniteSet(Refs) /\ Codes \subseteq Refs /\ Store \in Refs /\ Admin \in Refs
  /\ Store \notin Codes /\ Admin \notin Codes
  <1>1. IsFiniteSet({Store} \cup {Admin})
    BY FS_Singleton, FS_AddElement
  <1>2. IsFiniteSet(({Store} \cup {Admin}) \cup Codes)
    BY <1>1, PlusConstants, FS_Union
  <1>3. Refs = ({Store} \cup {Admin}) \cup Codes
    BY DEF Refs
  <1> QED BY <1>2, <1>3, PlusConstants DEF Refs

LEMMA UntilFinite ==
  ASSUME NEW rows, SoundRows(rows), NEW S \in SUBSET Refs,
         \A k \in S : rows[k] # None
  PROVE  IsFiniteSet(Until(rows, S)) /\ Until(rows, S) \subseteq Nat \cup {Never}
  <1> DEFINE ends == [k \in S |-> rows[k].until]
  <1>1. IsFiniteSet(S)
    BY RefsFinite, FS_Subset
  <1>2. Until(rows, S) = {ends[k] : k \in S}
    BY DEF Until
  <1> HIDE DEF ends
  <1>3. IsFiniteSet(Until(rows, S))
    BY <1>1, <1>2, ImageFinite
  <1>4. Until(rows, S) \subseteq Nat \cup {Never}
    BY DEF Until, SoundRows, Row
  <1> QED BY <1>3, <1>4

-----------------------------------------------------------------------------
(* The chain of codes that wait *)

\* The codes a waiting code is moved after.
Ahead(rows, t, c) ==
  {d \in Waiting(rows, t) : \/ rows[d].from < rows[c].from
                            \/ rows[d].from = rows[c].from /\ d < c}

\* What a waiting code must not start before, when others start at `start`.
Bars(rows, t, base, start, c) ==
  {rows[c].from} \cup base \cup {start[d] + Days(rows[d]) : d \in Ahead(rows, t, c)}

LEMMA WaitingRows ==
  ASSUME NEW rows, SoundRows(rows), NEW t \in Nat
  PROVE  /\ IsFiniteSet(Waiting(rows, t)) /\ Waiting(rows, t) \subseteq Refs
         /\ \A c \in Waiting(rows, t) :
              /\ c \in Codes /\ c \in Nat /\ rows[c] \in Row /\ rows[c] # None
              /\ rows[c].from \in Nat /\ rows[c].until \in Nat
              /\ Days(rows[c]) \in Nat /\ rows[c].from + Days(rows[c]) = rows[c].until
  <1>1. IsFiniteSet(Waiting(rows, t))
    BY PlusConstants, FS_Subset DEF Waiting
  <1>2. ASSUME NEW c \in Waiting(rows, t)
        PROVE  /\ c \in Codes /\ c \in Nat /\ rows[c] \in Row /\ rows[c] # None
               /\ rows[c].from \in Nat /\ rows[c].until \in Nat
               /\ rows[c].from <= rows[c].until
    BY PlusConstants, RefsFinite DEF Waiting, SoundRows, Row
  <1>3. \A c \in Waiting(rows, t) :
          Days(rows[c]) \in Nat /\ rows[c].from + Days(rows[c]) = rows[c].until
    BY <1>2 DEF Days
  <1> QED BY <1>1, <1>2, <1>3, RefsFinite DEF Waiting

\* Fewer codes are ahead of one that is ahead itself.
LEMMA AheadShrinks ==
  ASSUME NEW rows, SoundRows(rows), NEW t \in Nat, NEW c \in Waiting(rows, t)
  PROVE  /\ IsFiniteSet(Ahead(rows, t, c)) /\ Cardinality(Ahead(rows, t, c)) \in Nat
         /\ Cardinality(Ahead(rows, t, c)) <= Cardinality(Waiting(rows, t))
         /\ \A d \in Ahead(rows, t, c) :
              Cardinality(Ahead(rows, t, d)) < Cardinality(Ahead(rows, t, c))
  <1>1. \A d \in Waiting(rows, t) :
          /\ IsFiniteSet(Ahead(rows, t, d)) /\ Cardinality(Ahead(rows, t, d)) \in Nat
          /\ Cardinality(Ahead(rows, t, d)) <= Cardinality(Waiting(rows, t))
    <2> SUFFICES ASSUME NEW d \in Waiting(rows, t)
                 PROVE  /\ IsFiniteSet(Ahead(rows, t, d))
                        /\ Cardinality(Ahead(rows, t, d)) \in Nat
                        /\ Cardinality(Ahead(rows, t, d)) <= Cardinality(Waiting(rows, t))
      OBVIOUS
    <2>1. Ahead(rows, t, d) \in SUBSET Waiting(rows, t)
      BY DEF Ahead
    <2> QED BY <2>1, WaitingRows, FS_Subset, FS_CardinalityType
  <1>2. ASSUME NEW d \in Ahead(rows, t, c)
        PROVE  Cardinality(Ahead(rows, t, d)) < Cardinality(Ahead(rows, t, c))
    <2>1. /\ d \in Waiting(rows, t)
          /\ rows[d].from < rows[c].from \/ (rows[d].from = rows[c].from /\ d < c)
      BY DEF Ahead
    <2>2. \A e \in Waiting(rows, t) : e \in Nat /\ rows[e].from \in Nat
      BY WaitingRows
    <2>3. d \notin Ahead(rows, t, d)
      BY <2>1, <2>2 DEF Ahead
    <2>4. Ahead(rows, t, d) \subseteq Ahead(rows, t, c) \ {d}
      BY <2>1, <2>2, <2>3 DEF Ahead
    <2>5. /\ IsFiniteSet(Ahead(rows, t, c) \ {d})
          /\ Cardinality(Ahead(rows, t, c) \ {d}) = Cardinality(Ahead(rows, t, c)) - 1
      BY <1>1, FS_RemoveElement
    <2>6. Cardinality(Ahead(rows, t, d)) <= Cardinality(Ahead(rows, t, c) \ {d})
      BY <2>4, <2>5, FS_Subset
    <2>7. Cardinality(Ahead(rows, t, c)) \in Nat /\ Cardinality(Ahead(rows, t, d)) \in Nat
      BY <1>1, <2>1
    <2> QED BY <2>5, <2>6, <2>7
  <1> QED BY <1>1, <1>2

\* Where the codes ahead start at numbers, a code starts at one that is not
\* before any of its bars.
LEMMA BarsHaveMax ==
  ASSUME NEW rows, SoundRows(rows), NEW t \in Nat,
         NEW base \in SUBSET Nat, IsFiniteSet(base),
         NEW c \in Waiting(rows, t), NEW start,
         \A d \in Ahead(rows, t, c) : start[d] \in Nat
  PROVE  /\ Max(Bars(rows, t, base, start, c)) \in Nat
         /\ \A m \in Bars(rows, t, base, start, c) :
              m \in Nat /\ m <= Max(Bars(rows, t, base, start, c))
  <1> DEFINE ends == [d \in Ahead(rows, t, c) |-> start[d] + Days(rows[d])]
             bars == Bars(rows, t, base, start, c)
  <1>1. rows[c].from \in Nat /\ \A d \in Ahead(rows, t, c) : Days(rows[d]) \in Nat
    BY WaitingRows DEF Ahead
  <1>2. IsFiniteSet({ends[d] : d \in Ahead(rows, t, c)})
    <2> HIDE DEF ends
    <2> QED BY AheadShrinks, ImageFinite
  <1>3. bars = {rows[c].from} \cup base \cup {ends[d] : d \in Ahead(rows, t, c)}
    BY DEF Bars
  <1>4. IsFiniteSet({rows[c].from} \cup base)
    BY FS_Singleton, FS_Union
  <1>5. IsFiniteSet(bars)
    <2> HIDE DEF ends, bars
    <2> QED BY <1>2, <1>3, <1>4, FS_Union
  <1>6. bars \in SUBSET Nat /\ bars # {}
    <2>1. \A d \in Ahead(rows, t, c) : ends[d] \in Nat
      BY <1>1
    <2> HIDE DEF ends, bars
    <2>2. {ends[d] : d \in Ahead(rows, t, c)} \subseteq Nat
      BY <2>1
    <2> QED BY <1>1, <1>3, <2>2
  <1> HIDE DEF bars
  <1>7. Max(bars) \in Nat /\ \A m \in bars : m \in Nat /\ m <= Max(bars)
    BY <1>5, <1>6, MaxIsGreatest
  <1> QED BY <1>7 DEF bars

\* The starts of a chain, each by those ahead of it, exist: by the number of
\* codes ahead.
LEMMA ChainExists ==
  ASSUME NEW rows, SoundRows(rows), NEW t \in Nat,
         NEW base \in SUBSET Nat, IsFiniteSet(base)
  PROVE  \E f : f = [c \in Waiting(rows, t) |-> Max(Bars(rows, t, base, f, c))]
  <1> DEFINE waiting == Waiting(rows, t)
             rank(c) == Cardinality(Ahead(rows, t, c))
             first(f, c) == Max(Bars(rows, t, base, f, c))
             Upto(n) == \E f \in [waiting -> Nat] :
                          \A c \in waiting : rank(c) < n => f[c] = first(f, c)
             missing == {n \in Nat : ~Upto(n)}
  <1>1. \A c \in waiting : /\ rank(c) \in Nat /\ rank(c) <= Cardinality(waiting)
                           /\ \A d \in Ahead(rows, t, c) : d \in waiting /\ rank(d) < rank(c)
    <2> SUFFICES ASSUME NEW c \in waiting
                 PROVE  /\ rank(c) \in Nat /\ rank(c) <= Cardinality(waiting)
                        /\ \A d \in Ahead(rows, t, c) : d \in waiting /\ rank(d) < rank(c)
      OBVIOUS
    <2>1. \A d \in Ahead(rows, t, c) : d \in waiting
      BY DEF Ahead
    <2> QED BY <2>1, AheadShrinks
  <1>2. \A f \in [waiting -> Nat] : \A c \in waiting : first(f, c) \in Nat
    BY BarsHaveMax DEF Ahead
  <1>3. ASSUME NEW c \in waiting, NEW f, NEW g,
               \A d \in Ahead(rows, t, c) : f[d] = g[d]
        PROVE  first(f, c) = first(g, c)
    <2>1. Bars(rows, t, base, f, c) = Bars(rows, t, base, g, c)
      BY <1>3 DEF Bars
    <2> QED BY <2>1
  <1>4. Upto(0)
    <2>1. [c \in waiting |-> 0] \in [waiting -> Nat]
      OBVIOUS
    <2>2. \A c \in waiting : ~(rank(c) < 0)
      BY <1>1
    <2> HIDE DEF rank, first, waiting
    <2> QED BY <2>1, <2>2
  <1>5. ASSUME NEW n \in Nat, Upto(n) PROVE Upto(n + 1)
    <2>1. PICK f \in [waiting -> Nat] : \A c \in waiting : rank(c) < n => f[c] = first(f, c)
      BY <1>5
    <2> DEFINE g == [c \in waiting |-> IF rank(c) < n THEN f[c] ELSE first(f, c)]
    <2>2. g \in [waiting -> Nat]
      BY <1>2
    <2>3. ASSUME NEW c \in waiting, rank(c) < n + 1 PROVE g[c] = first(g, c)
      <3>1. \A d \in Ahead(rows, t, c) : f[d] = g[d]
        <4> SUFFICES ASSUME NEW d \in Ahead(rows, t, c) PROVE rank(d) < n /\ d \in waiting
          OBVIOUS
        <4>1. rank(d) < rank(c) /\ d \in waiting /\ rank(d) \in Nat /\ rank(c) \in Nat
          BY <1>1
        <4> HIDE DEF rank
        <4> QED BY <4>1, <2>3
      <3>2. first(f, c) = first(g, c)
        <4> HIDE DEF first, g, waiting
        <4> QED BY <1>3, <3>1
      <3>3. g[c] = first(f, c)
        BY <2>1
      <3> QED BY <3>2, <3>3
    <2> HIDE DEF g, rank, first, waiting
    <2> QED BY <2>2, <2>3
  <1>6. missing = {}
    <2> SUFFICES ASSUME missing # {} PROVE FALSE
      OBVIOUS
    <2> HIDE DEF Upto
    <2>1. PICK n \in missing : \A m \in missing : n <= m
      BY HasLeast
    <2>2. n # 0
      BY <1>4
    <2>3. n - 1 \in Nat /\ n - 1 \notin missing /\ (n - 1) + 1 = n
      BY <2>1, <2>2
    <2>4. Upto((n - 1) + 1)
      BY <1>5, <2>3
    <2> QED BY <2>3, <2>4
  <1> DEFINE all == Cardinality(waiting) + 1
  <1>7. all \in Nat
    BY WaitingRows, FS_CardinalityType
  <1>8. PICK f \in [waiting -> Nat] : \A c \in waiting : rank(c) < all => f[c] = first(f, c)
    <2>1. Upto(all)
      <3> HIDE DEF Upto, all
      <3> QED BY <1>6, <1>7
    <2> QED BY <2>1
  <1>9. \A c \in waiting : f[c] = first(f, c)
    <2> SUFFICES ASSUME NEW c \in waiting PROVE rank(c) < all
      BY <1>8
    <2>1. rank(c) \in Nat /\ rank(c) <= Cardinality(waiting) /\ Cardinality(waiting) \in Nat
      BY <1>1, WaitingRows, FS_CardinalityType
    <2> HIDE DEF rank, waiting
    <2> QED BY <2>1
  <1> HIDE DEF first, rank
  <1>10. f = [c \in waiting |-> first(f, c)]
    BY <1>8, <1>9
  <1> QED BY <1>10 DEF first

\* The starts of a chain are numbers, whichever way they satisfy it.
LEMMA ChainTyped ==
  ASSUME NEW rows, SoundRows(rows), NEW t \in Nat,
         NEW base \in SUBSET Nat, IsFiniteSet(base), NEW f,
         f = [c \in Waiting(rows, t) |-> Max(Bars(rows, t, base, f, c))]
  PROVE  f \in [Waiting(rows, t) -> Nat]
  <1> DEFINE waiting == Waiting(rows, t)
             rank(c) == Cardinality(Ahead(rows, t, c))
             wrong == {c \in waiting : f[c] \notin Nat}
             ranks == {rank(c) : c \in wrong}
  <1>1. \A c \in waiting : /\ rank(c) \in Nat
                           /\ \A d \in Ahead(rows, t, c) : d \in waiting /\ rank(d) < rank(c)
    <2> SUFFICES ASSUME NEW c \in waiting
                 PROVE  /\ rank(c) \in Nat
                        /\ \A d \in Ahead(rows, t, c) : d \in waiting /\ rank(d) < rank(c)
      OBVIOUS
    <2>1. \A d \in Ahead(rows, t, c) : d \in waiting
      BY DEF Ahead
    <2> QED BY <2>1, AheadShrinks
  <1>2. ASSUME wrong # {} PROVE FALSE
    <2>1. ranks \in SUBSET Nat /\ ranks # {}
      BY <1>1, <1>2
    <2>2. PICK n \in ranks : \A m \in ranks : n <= m
      <3> HIDE DEF ranks
      <3> QED BY <2>1, HasLeast
    <2>3. PICK c \in wrong : rank(c) = n
      OBVIOUS
    <2>4. \A d \in Ahead(rows, t, c) : f[d] \in Nat
      <3> SUFFICES ASSUME NEW d \in Ahead(rows, t, c), d \in wrong PROVE FALSE
        BY <1>1
      <3>1. rank(d) < n /\ rank(d) \in Nat /\ n \in Nat
        BY <1>1, <2>3
      <3>2. rank(d) \in ranks
        OBVIOUS
      <3> HIDE DEF ranks, rank
      <3> QED BY <2>2, <3>1, <3>2
    <2>5. f[c] = Max(Bars(rows, t, base, f, c))
      OBVIOUS
    <2>6. Max(Bars(rows, t, base, f, c)) \in Nat
      BY <2>4, BarsHaveMax
    <2> QED BY <2>5, <2>6
  <1>3. \A c \in waiting : f[c] \in Nat
    BY <1>2
  <1>4. f = [c \in waiting |-> f[c]]
    OBVIOUS
  <1> HIDE DEF waiting
  <1>5. f \in [waiting -> Nat]
    BY <1>3, <1>4
  <1> QED BY <1>5 DEF waiting

\* What chaining makes of rows: the codes that wait start at or after their
\* old start, the base and the new end of every code ahead, with their days;
\* the other rows stay.
LEMMA ChainedAfter ==
  ASSUME NEW rows, SoundRows(rows), NEW t \in Nat,
         NEW base \in SUBSET Nat, IsFiniteSet(base)
  PROVE  \E start \in [Waiting(rows, t) -> Nat] :
           /\ RechainedAfter(rows, t, base) =
                [k \in Refs |-> IF k \in Waiting(rows, t)
                                THEN [from |-> start[k], until |-> start[k] + Days(rows[k]),
                                      source |-> None]
                                ELSE rows[k]]
           /\ \A c \in Waiting(rows, t) :
                \A m \in Bars(rows, t, base, start, c) : m \in Nat /\ m <= start[c]
  <1> DEFINE waiting == Waiting(rows, t)
             Chains(f) == f = [c \in waiting |-> Max(Bars(rows, t, base, f, c))]
             start == CHOOSE f : Chains(f)
             chained == [k \in Refs |-> IF k \in waiting
                                        THEN [from |-> start[k],
                                              until |-> start[k] + Days(rows[k]),
                                              source |-> None]
                                        ELSE rows[k]]
  <1>1. Never \notin base
    BY PlusConstants
  <1>2. RechainedAfter(rows, t, base) = chained
    BY <1>1 DEF RechainedAfter, Bars, Ahead
  <1>3. Chains(start)
    <2>1. \E f : Chains(f)
      BY ChainExists
    <2> HIDE DEF Chains
    <2> QED BY <2>1
  <1> HIDE DEF start
  <1>4. start \in [waiting -> Nat]
    BY <1>3, ChainTyped
  <1>5. ASSUME NEW c \in waiting, NEW m \in Bars(rows, t, base, start, c)
        PROVE  m \in Nat /\ m <= start[c]
    <2>1. start[c] = Max(Bars(rows, t, base, start, c))
      BY <1>3
    <2>2. \A d \in Ahead(rows, t, c) : start[d] \in Nat
      BY <1>4 DEF Ahead
    <2> QED BY <2>1, <2>2, BarsHaveMax
  <1> QED BY <1>2, <1>4, <1>5

-----------------------------------------------------------------------------
(* What a change makes of rows *)

\* The ends a change chains the codes after: all numbers, or one of them never.
LEMMA EndsOfRows ==
  ASSUME NEW rows, SoundRows(rows), NEW t \in Nat, NEW S \in SUBSET NotEnded(rows, t)
  PROVE  /\ IsFiniteSet(Until(rows, S)) /\ Until(rows, S) \subseteq Nat \cup {Never}
         /\ Never \notin Until(rows, S) => Until(rows, S) \in SUBSET Nat
  <1>1. S \in SUBSET Refs /\ \A k \in S : rows[k] # None
    BY DEF NotEnded, After
  <1> QED BY <1>1, UntilFinite

LEMMA RowsSet ==
  ASSUME NEW rows, SoundRows(rows), NEW k \in Refs, NEW r \in Row \cup {None},
         k # Store /\ r # None => r.until \in Nat,
         k \in Codes /\ r # None => r.from <= r.until
  PROVE  SoundRows([rows EXCEPT ![k] = r])
  BY DEF SoundRows

LEMMA GivenSound ==
  ASSUME NEW rows, SoundRows(rows), NEW k \in {Store, Admin}, NEW until \in Nat \cup {Never},
         k = Admin => until \in Nat, NEW source \in Purchases \cup {None}
  PROVE  SoundRows(Given(rows, k, until, source))
  <1> DEFINE r == [from |-> IF rows[k] = None THEN 0 ELSE rows[k].from,
                   until |-> until, source |-> source]
  <1>1. k \in Refs /\ k \notin Codes
    BY RefsFinite
  <1>2. rows[k] = None \/ rows[k] \in Row
    BY <1>1 DEF SoundRows
  <1>3. r \in Row
    BY <1>2 DEF Row
  <1>4. r.until = until
    OBVIOUS
  <1> HIDE DEF r
  <1>5. SoundRows([rows EXCEPT ![k] = r])
    BY <1>1, <1>3, <1>4, RowsSet
  <1> QED BY <1>5 DEF Given, r

LEMMA RechainedSound ==
  ASSUME NEW rows, SoundRows(rows), NEW t \in Nat, NEW base, IsFiniteSet(base),
         Never \notin base => base \in SUBSET Nat
  PROVE  SoundRows(RechainedAfter(rows, t, base))
  <1>1. CASE Never \in base
    BY <1>1 DEF RechainedAfter
  <1>2. CASE Never \notin base
    <2> DEFINE after == RechainedAfter(rows, t, base)
    <2>1. PICK start \in [Waiting(rows, t) -> Nat] :
            after = [k \in Refs |-> IF k \in Waiting(rows, t)
                                    THEN [from |-> start[k], until |-> start[k] + Days(rows[k]),
                                          source |-> None]
                                    ELSE rows[k]]
      BY <1>2, ChainedAfter
    <2> HIDE DEF after
    <2>2. ASSUME NEW k \in Waiting(rows, t)
          PROVE  /\ k \in Refs /\ after[k] \in Row /\ after[k].until \in Nat
                 /\ after[k].from <= after[k].until
      <3>1. start[k] \in Nat /\ Days(rows[k]) \in Nat /\ k \in Refs
        BY WaitingRows
      <3>2. after[k] = [from |-> start[k], until |-> start[k] + Days(rows[k]), source |-> None]
        BY <2>1, <3>1
      <3> QED BY <3>1, <3>2 DEF Row
    <2>3. \A k \in Refs \ Waiting(rows, t) : after[k] = rows[k]
      BY <2>1
    <2>4. after = [k \in Refs |-> after[k]]
      BY <2>1
    <2>5. \A k \in Refs : after[k] \in Row \cup {None}
      BY <2>2, <2>3 DEF SoundRows
    <2>6. \A k \in Refs \ {Store} : after[k] # None => after[k].until \in Nat
      BY <2>2, <2>3 DEF SoundRows
    <2>7. \A c \in Codes : after[c] # None => after[c].from <= after[c].until
      BY <2>2, <2>3, RefsFinite DEF SoundRows
    <2>8. after \in [Refs -> Row \cup {None}]
      BY <2>4, <2>5
    <2> QED BY <2>6, <2>7, <2>8 DEF SoundRows, after
  <1> QED BY <1>1, <1>2

\* The moment after which a redeemed code may start.
LEMMA StartOfCode ==
  ASSUME NEW rows, SoundRows(rows), NEW t \in Nat, NEW c \in Codes
  PROVE  LET ends == Until(rows, NotEnded(rows, t))
             r == Redeemed(rows, c, t)[c]
         IN /\ SoundRows(Redeemed(rows, c, t))
            /\ r \in Row /\ r.from \in Nat /\ r.until \in Nat /\ t <= r.from
            /\ Never \notin ends => \A e \in ends : e \in Nat /\ e <= r.from
  <1> DEFINE ends == Until(rows, NotEnded(rows, t))
             start == IF Never \in ends THEN t ELSE Max({t} \cup ends)
             r == [from |-> start, until |-> start + Length[c], source |-> None]
  <1>1. IsFiniteSet(ends) /\ (Never \notin ends => ends \in SUBSET Nat)
    BY EndsOfRows
  <1>2. start \in Nat /\ t <= start /\ (Never \notin ends => \A e \in ends : e \in Nat /\ e <= start)
    <2>1. CASE Never \in ends
      BY <2>1
    <2>2. CASE Never \notin ends
      <3> HIDE DEF ends
      <3>1. IsFiniteSet({t} \cup ends)
        BY <1>1, FS_Singleton, FS_Union
      <3>2. {t} \cup ends \in SUBSET Nat /\ {t} \cup ends # {}
        BY <1>1, <2>2
      <3>3. Max({t} \cup ends) \in Nat /\ \A m \in {t} \cup ends : m <= Max({t} \cup ends)
        BY <3>1, <3>2, MaxIsGreatest
      <3> QED BY <1>1, <2>2, <3>3
    <2> QED BY <2>1, <2>2
  <1>3. Redeemed(rows, c, t) = [rows EXCEPT ![c] = r]
    BY DEF Redeemed
  <1>4. Length[c] \in Nat /\ c \in Refs
    BY PlusConstants, RefsFinite
  <1> HIDE DEF start, ends
  <1>5. r \in Row /\ r.from = start /\ r.until = start + Length[c] /\ r.until \in Nat
    BY <1>2, <1>4 DEF Row
  <1> HIDE DEF r
  <1>6. r.from <= r.until
    BY <1>2, <1>4, <1>5
  <1>7. SoundRows([rows EXCEPT ![c] = r])
    BY <1>4, <1>5, <1>6, RowsSet
  <1>8. [rows EXCEPT ![c] = r][c] = r
    BY <1>4 DEF SoundRows
  <1> QED BY <1>2, <1>3, <1>5, <1>7, <1>8 DEF ends

LEMMA NoRowsSound == SoundRows(NoRows)
  <1>1. NoRows \in [Refs -> Row \cup {None}] /\ \A k \in Refs : NoRows[k] = None
    BY DEF NoRows
  <1> QED BY <1>1, RefsFinite DEF SoundRows

\* The ends that Rechained takes for its base.
LEMMA RechainedNowSound ==
  ASSUME NEW rows, SoundRows(rows), NEW t \in Nat
  PROVE  SoundRows(Rechained(rows, t))
  <1> DEFINE base == Until(rows, NotEnded(rows, t) \ Waiting(rows, t))
  <1>1. IsFiniteSet(base) /\ (Never \notin base => base \in SUBSET Nat)
    BY EndsOfRows
  <1> HIDE DEF base
  <1>2. SoundRows(RechainedAfter(rows, t, base))
    BY <1>1, RechainedSound
  <1> QED BY <1>2 DEF Rechained, base

\* What the store and the admin write before the codes are chained again.
LEMMA GrantSound ==
  ASSUME NEW c \in Change, NEW rows, SoundRows(rows), NEW at \in Nat
  PROVE  /\ c.op = "store" => SoundRows(Given(rows, Store, c.until, c.source))
         /\ c.op = "admin" => SoundRows(Given(rows, Admin, at + c.days, None))
  <1>1. ASSUME c.op = "store" PROVE SoundRows(Given(rows, Store, c.until, c.source))
    <2>1. c.until \in Ends /\ c.source \in Purchases
      BY <1>1 DEF Change
    <2>2. c.until \in Nat \cup {Never} /\ Store # Admin
      BY <2>1, PlusConstants
    <2> QED BY <2>1, <2>2, GivenSound
  <1>2. ASSUME c.op = "admin" PROVE SoundRows(Given(rows, Admin, at + c.days, None))
    <2>1. c.days \in GivenDays
      BY <1>2 DEF Change
    <2>2. c.days \in Nat
      BY <2>1, PlusConstants
    <2>3. at + c.days \in Nat
      BY <2>2
    <2> QED BY <2>3, GivenSound
  <1> QED BY <1>1, <1>2

LEMMA ChangedSound ==
  ASSUME NEW c \in Change, NEW rows, SoundRows(rows), NEW at \in Nat, NEW t \in Nat
  PROVE  SoundRows(Changed(c, rows, at, t))
  <1>1. c.op \in {"store", "admin", "redeem", "withdraw", "revoke", "rechain"}
    BY DEF Change
  <1>2. CASE c.op = "store"
    BY <1>2, GrantSound, RechainedNowSound DEF Changed
  <1>3. CASE c.op = "admin"
    BY <1>3, GrantSound, RechainedNowSound DEF Changed
  <1>4. CASE c.op = "redeem"
    <2>1. c.code \in Codes
      BY <1>4 DEF Change
    <2> QED BY <1>4, <2>1, StartOfCode DEF Changed
  <1>5. CASE c.op = "withdraw"
    <2>1. SoundRows([rows EXCEPT ![Store] = None])
      BY RefsFinite, RowsSet
    <2> QED BY <1>5, <2>1 DEF Changed
  <1>6. CASE c.op = "revoke"
    BY <1>6, NoRowsSound DEF Changed
  <1>7. CASE c.op = "rechain"
    BY <1>7, RechainedNowSound DEF Changed
  <1> QED BY <1>1, <1>2, <1>3, <1>4, <1>5, <1>6, <1>7

LEMMA RechainedHasRefs ==
  ASSUME NEW rows, HasRefs(rows), NEW t, NEW base
  PROVE  HasRefs(RechainedAfter(rows, t, base))
  <1>1. CASE Never \in base
    BY <1>1 DEF RechainedAfter
  <1>2. CASE Never \notin base
    BY <1>2 DEF RechainedAfter, HasRefs
  <1> QED BY <1>1, <1>2

LEMMA ChangedHasRefs ==
  ASSUME NEW c \in Change, NEW rows, HasRefs(rows), NEW at, NEW t
  PROVE  HasRefs(Changed(c, rows, at, t))
  <1>1. c.op \in {"store", "admin", "redeem", "withdraw", "revoke", "rechain"}
    BY DEF Change
  <1>2. ASSUME NEW k, NEW until, NEW source PROVE HasRefs(Given(rows, k, until, source))
    BY DEF Given, HasRefs
  <1>3. CASE c.op = "store"
    BY <1>2, <1>3, RechainedHasRefs DEF Changed, Rechained
  <1>4. CASE c.op = "admin"
    BY <1>2, <1>4, RechainedHasRefs DEF Changed, Rechained
  <1>5. CASE c.op = "redeem"
    BY <1>5 DEF Changed, Redeemed, HasRefs
  <1>6. CASE c.op = "withdraw"
    BY <1>6 DEF Changed, HasRefs
  <1>7. CASE c.op = "revoke"
    BY <1>7 DEF Changed, NoRows, HasRefs
  <1>8. CASE c.op = "rechain"
    BY <1>8, RechainedHasRefs DEF Changed, Rechained
  <1> QED BY <1>1, <1>3, <1>4, <1>5, <1>6, <1>7, <1>8

\* What is written beside what stands is the whole change, if the rows read
\* are the rows that stand.
LEMMA WrittenIsChanged ==
  ASSUME NEW k, k.change \in Change, HasRefs(row), k.rows = row
  PROVE  Written(k) = Changed(k.change, row, k.at, k.t)
  <1> DEFINE after == Changed(k.change, row, k.at, k.t)
  <1>1. after = [r \in Refs |-> after[r]]
    BY ChangedHasRefs DEF HasRefs
  <1>2. Written(k) = [r \in Refs |-> IF after[r] # row[r] THEN after[r] ELSE row[r]]
    BY DEF Written
  <1> HIDE DEF after
  <1>3. Written(k) = [r \in Refs |-> after[r]]
    BY <1>2
  <1> QED BY <1>1, <1>3 DEF after

-----------------------------------------------------------------------------
(* Codes follow on *)

ApartIn(rows, c, k) ==
  \/ rows[k].until <= rows[c].from
  \/ k \in Codes /\ rows[k].from >= rows[c].until

\* CodesFollowOn of any rows, at any time.
FollowOn(rows, t) ==
  Never \notin Until(rows, NotEnded(rows, t)) =>
    \A c \in Waiting(rows, t) : \A k \in NotEnded(rows, t) \ {c} : ApartIn(rows, c, k)

\* A code that waits has not ended.
LEMMA WaitingNotEnded ==
  ASSUME NEW rows, SoundRows(rows), NEW t \in Nat
  PROVE  Waiting(rows, t) \subseteq NotEnded(rows, t)
  <1> SUFFICES ASSUME NEW c \in Waiting(rows, t) PROVE c \in NotEnded(rows, t)
    OBVIOUS
  <1>1. /\ c \in Refs /\ rows[c] # None /\ rows[c].from \in Nat /\ rows[c].until \in Nat
        /\ rows[c].from <= rows[c].until
    BY WaitingRows DEF Waiting, SoundRows
  <1>2. rows[c].from > t
    BY DEF Waiting
  <1> QED BY <1>1, <1>2 DEF NotEnded, After

\* Time ends rows and starts codes, never the other way.
LEMMA LaterIsLess ==
  ASSUME NEW rows, SoundRows(rows), NEW t \in Nat, NEW u \in Nat, t <= u
  PROVE  /\ NotEnded(rows, u) \subseteq NotEnded(rows, t)
         /\ Waiting(rows, u) \subseteq Waiting(rows, t)
         /\ Never \in Until(rows, NotEnded(rows, t)) => Never \in Until(rows, NotEnded(rows, u))
  <1>1. ASSUME NEW k \in NotEnded(rows, u) PROVE k \in NotEnded(rows, t)
    <2>1. k \in Refs /\ rows[k] # None /\ (rows[k].until = Never \/ rows[k].until > u)
      BY DEF NotEnded, After
    <2>2. rows[k].until \in Nat \cup {Never}
      BY <2>1 DEF SoundRows, Row
    <2>3. rows[k].until = Never \/ rows[k].until > t
      BY <2>1, <2>2
    <2> QED BY <2>1, <2>3 DEF NotEnded, After
  <1>2. ASSUME NEW c \in Waiting(rows, u) PROVE c \in Waiting(rows, t)
    <2>1. c \in Codes /\ rows[c] # None /\ rows[c].from > u /\ rows[c].from \in Nat
      BY WaitingRows DEF Waiting
    <2> QED BY <2>1 DEF Waiting
  <1>3. ASSUME NEW k \in NotEnded(rows, t), rows[k].until = Never
        PROVE  k \in NotEnded(rows, u)
    BY <1>3 DEF NotEnded, After
  <1> QED BY <1>1, <1>2, <1>3 DEF Until

LEMMA FollowOnLater ==
  ASSUME NEW rows, SoundRows(rows), NEW t \in Nat, NEW u \in Nat, t <= u, FollowOn(rows, t)
  PROVE  FollowOn(rows, u)
  BY LaterIsLess DEF FollowOn

\* Chaining makes the codes follow on, whatever the rows were.
LEMMA RechainedFollows ==
  ASSUME NEW rows, SoundRows(rows), NEW t \in Nat
  PROVE  FollowOn(Rechained(rows, t), t)
  <1> DEFINE waiting == Waiting(rows, t)
             base == Until(rows, NotEnded(rows, t) \ waiting)
             after == RechainedAfter(rows, t, base)
  <1>1. IsFiniteSet(base) /\ (Never \notin base => base \in SUBSET Nat)
    BY EndsOfRows
  <1>2. after = Rechained(rows, t)
    BY DEF Rechained
  <1>3. CASE Never \in base
    <2>1. after = rows
      BY <1>3 DEF RechainedAfter
    <2>2. Never \in Until(rows, NotEnded(rows, t))
      BY <1>3 DEF Until
    <2> QED BY <1>2, <2>1, <2>2 DEF FollowOn
  <1>4. CASE Never \notin base
    <2> HIDE DEF base, after, waiting
    <2>1. PICK start \in [waiting -> Nat] :
            /\ after = [k \in Refs |-> IF k \in waiting
                                       THEN [from |-> start[k], until |-> start[k] + Days(rows[k]),
                                             source |-> None]
                                       ELSE rows[k]]
            /\ \A c \in waiting : \A m \in Bars(rows, t, base, start, c) : m \in Nat /\ m <= start[c]
      BY <1>1, <1>4, ChainedAfter DEF after, waiting
    <2>2. \A c \in waiting : /\ c \in Refs /\ c \in Codes /\ c \in Nat /\ start[c] \in Nat
                             /\ Days(rows[c]) \in Nat
                             /\ rows[c].from \in Nat /\ rows[c].from > t
      BY WaitingRows, <2>1 DEF waiting, Waiting
    <2>3. ASSUME NEW c \in waiting
          PROVE  /\ after[c] # None /\ after[c].from = start[c]
                 /\ after[c].until = start[c] + Days(rows[c])
      <3>1. after[c] = [from |-> start[c], until |-> start[c] + Days(rows[c]), source |-> None]
        BY <2>1, <2>2
      <3>2. after[c] \in Row
        BY <2>2, <3>1 DEF Row
      <3> QED BY <3>1, <3>2, PlusConstants
    <2>4. \A k \in Refs \ waiting : after[k] = rows[k]
      BY <2>1
    <2>5. Waiting(after, t) \subseteq waiting
      <3> SUFFICES ASSUME NEW c \in Waiting(after, t), c \notin waiting PROVE FALSE
        OBVIOUS
      <3>1. c \in Codes /\ after[c] # None /\ after[c].from > t /\ c \in Refs
        BY RefsFinite DEF Waiting
      <3>2. after[c] = rows[c]
        BY <2>4, <3>1
      <3> QED BY <3>1, <3>2 DEF waiting, Waiting
    <2>6. ASSUME NEW k \in NotEnded(after, t), k \notin waiting
          PROVE  rows[k].until \in base /\ after[k] = rows[k]
      <3>1. after[k] = rows[k] /\ k \in NotEnded(rows, t)
        BY <2>4, <2>6 DEF NotEnded
      <3> QED BY <3>1, <2>6 DEF base, Until
    <2>7. ASSUME NEW c \in waiting, NEW k \in waiting, k \in Ahead(rows, t, c)
          PROVE  after[k].until <= after[c].from
      <3>1. start[k] + Days(rows[k]) \in Bars(rows, t, base, start, c)
        BY <2>7 DEF Bars
      <3> QED BY <3>1, <2>1, <2>3
    <2>8. ASSUME NEW c \in Waiting(after, t), NEW k \in NotEnded(after, t) \ {c}
          PROVE  ApartIn(after, c, k)
      <3>1. c \in waiting
        BY <2>5
      <3>2. CASE k \notin waiting
        <4>1. after[k].until \in Bars(rows, t, base, start, c)
          BY <2>6, <3>2 DEF Bars
        <4>2. after[k].until <= after[c].from
          BY <4>1, <2>1, <2>3, <3>1
        <4> QED BY <4>2 DEF ApartIn
      <3>3. CASE k \in waiting /\ k \in Ahead(rows, t, c)
        BY <3>1, <3>3, <2>7 DEF ApartIn
      <3>4. CASE k \in waiting /\ k \notin Ahead(rows, t, c)
        <4>1. c \in Ahead(rows, t, k)
          <5>1. k # c /\ k \in Nat /\ c \in Nat /\ rows[k].from \in Nat /\ rows[c].from \in Nat
            BY <2>2, <3>1, <3>4
          <5> QED BY <5>1, <3>1, <3>4 DEF Ahead, waiting
        <4>2. after[c].until <= after[k].from
          BY <4>1, <3>1, <3>4, <2>7
        <4>3. after[c].until \in Nat /\ after[k].from \in Nat /\ k \in Codes
          BY <2>2, <2>3, <3>1, <3>4
        <4> QED BY <4>2, <4>3 DEF ApartIn
      <3> QED BY <3>2, <3>3, <3>4
    <2> QED BY <1>2, <2>8 DEF FollowOn
  <1> QED BY <1>3, <1>4

\* A redeemed code starts after every row that has not ended, those of the
\* codes that wait included.
LEMMA RedeemedFollows ==
  ASSUME NEW rows, SoundRows(rows), NEW t \in Nat, NEW u \in Nat, t <= u,
         NEW c \in Codes, rows[c] = None, FollowOn(rows, u)
  PROVE  FollowOn(Redeemed(rows, c, t), u)
  <1> DEFINE after == Redeemed(rows, c, t)
             ends == Until(rows, NotEnded(rows, t))
  <1>1. /\ SoundRows(after) /\ after[c].from \in Nat /\ after[c].until \in Nat
        /\ Never \notin ends => \A e \in ends : e \in Nat /\ e <= after[c].from
    BY StartOfCode
  <1>2. \A k \in Refs \ {c} : after[k] = rows[k]
    BY DEF Redeemed, SoundRows
  <1> HIDE DEF after
  <1>3. c \in Refs /\ Codes \subseteq Refs
    BY RefsFinite
  <1>4. c \notin NotEnded(rows, u)
    BY DEF NotEnded, After
  <1>5. \A k \in NotEnded(after, u) \ {c} : k \in NotEnded(rows, u) /\ after[k] = rows[k]
    BY <1>2 DEF NotEnded
  <1>6. NotEnded(rows, u) \subseteq NotEnded(after, u)
    BY <1>2, <1>4 DEF NotEnded
  <1>7. \A d \in Waiting(after, u) \ {c} : d \in Waiting(rows, u) /\ after[d] = rows[d]
    BY <1>2, <1>3 DEF Waiting
  <1>8. ASSUME Never \notin Until(after, NotEnded(after, u)),
               NEW d \in Waiting(after, u), NEW k \in NotEnded(after, u) \ {d}
        PROVE  ApartIn(after, d, k)
    <2>1. Never \notin Until(rows, NotEnded(rows, u))
      <3>1. \A k1 \in NotEnded(rows, u) : after[k1] = rows[k1]
        BY <1>2, <1>4 DEF NotEnded
      <3> QED BY <1>6, <1>8, <3>1 DEF Until
    <2>2. Never \notin ends
      BY <2>1, LaterIsLess
    <2>3. ASSUME NEW j \in NotEnded(rows, u)
          PROVE  rows[j].until \in Nat /\ rows[j].until <= after[c].from
      <3>1. rows[j].until \in ends
        BY LaterIsLess DEF Until
      <3> QED BY <3>1, <2>2, <1>1
    <2>4. CASE d = c
      <3>1. k \in NotEnded(rows, u) /\ after[k] = rows[k]
        BY <1>5, <2>4
      <3> QED BY <3>1, <2>3, <2>4 DEF ApartIn
    <2>5. CASE d # c /\ k = c
      <3>1. d \in NotEnded(rows, u) /\ after[d] = rows[d]
        BY <1>7, <2>5, WaitingNotEnded
      <3>2. after[d].until \in Nat /\ after[d].until <= after[c].from
        BY <3>1, <2>3
      <3> QED BY <3>2, <1>1, <2>5 DEF ApartIn
    <2>6. CASE d # c /\ k # c
      <3>1. /\ d \in Waiting(rows, u) /\ after[d] = rows[d]
            /\ k \in NotEnded(rows, u) \ {d} /\ after[k] = rows[k]
        BY <1>5, <1>7, <2>6
      <3>2. ApartIn(rows, d, k)
        BY <2>1, <3>1 DEF FollowOn
      <3> QED BY <3>1, <3>2 DEF ApartIn
    <2> QED BY <2>4, <2>5, <2>6
  <1>9. FollowOn(after, u)
    BY <1>8 DEF FollowOn
  <1> QED BY <1>9 DEF after

\* What is left when the store's row goes still follows on, unless that row
\* ran for ever.
LEMMA WithdrawnFollows ==
  ASSUME NEW rows, SoundRows(rows), NEW u \in Nat, rows[Store] # None,
         rows[Store].until # Never, FollowOn(rows, u)
  PROVE  FollowOn([rows EXCEPT ![Store] = None], u)
  <1> DEFINE after == [rows EXCEPT ![Store] = None]
  <1>1. after[Store] = None /\ \A k \in Refs \ {Store} : after[k] = rows[k]
    BY RefsFinite DEF SoundRows
  <1> HIDE DEF after
  <1>2. \A k \in NotEnded(after, u) : k \in NotEnded(rows, u) /\ after[k] = rows[k]
    BY <1>1 DEF NotEnded, After
  <1>3. \A c \in Waiting(after, u) : c \in Waiting(rows, u) /\ after[c] = rows[c]
    BY <1>1, RefsFinite DEF Waiting
  <1>4. \A k \in NotEnded(rows, u) \ {Store} : k \in NotEnded(after, u) /\ after[k] = rows[k]
    BY <1>1 DEF NotEnded
  <1>5. Never \in Until(rows, NotEnded(rows, u)) => Never \in Until(after, NotEnded(after, u))
    BY <1>4 DEF Until
  <1>6. FollowOn(after, u)
    BY <1>2, <1>3, <1>5 DEF FollowOn, ApartIn
  <1> QED BY <1>6 DEF after

LEMMA NoRowsFollow == ASSUME NEW u PROVE FollowOn(NoRows, u)
  BY RefsFinite DEF FollowOn, Waiting, NoRows

LEMMA ChangedFollows ==
  ASSUME NEW c \in Change, NEW rows, SoundRows(rows), NEW at \in Nat, NEW t \in Nat,
         NEW u \in Nat, t <= u, NEW codes, Permitted(c, rows, codes), FollowOn(rows, u),
         ~(c.op = "withdraw" /\ rows[Store].until = Never)
  PROVE  FollowOn(Changed(c, rows, at, t), u)
  <1>1. c.op \in {"store", "admin", "redeem", "withdraw", "revoke", "rechain"}
    BY DEF Change
  <1>2. ASSUME NEW given, SoundRows(given) PROVE FollowOn(Rechained(given, t), u)
    BY <1>2, RechainedFollows, RechainedNowSound, FollowOnLater
  <1>3. CASE c.op = "store"
    BY <1>2, <1>3, GrantSound DEF Changed
  <1>4. CASE c.op = "admin"
    BY <1>2, <1>4, GrantSound DEF Changed
  <1>5. CASE c.op = "redeem"
    <2>1. c.code \in Codes /\ rows[c.code] = None
      BY <1>5 DEF Change, Permitted
    <2> QED BY <1>5, <2>1, RedeemedFollows DEF Changed
  <1>6. CASE c.op = "withdraw"
    <2>1. rows[Store] # None
      BY <1>6 DEF Permitted, GrantedBy
    <2> QED BY <1>6, <2>1, WithdrawnFollows DEF Changed
  <1>7. CASE c.op = "revoke"
    BY <1>7, NoRowsFollow DEF Changed
  <1>8. CASE c.op = "rechain"
    BY <1>2, <1>8 DEF Changed
  <1> QED BY <1>1, <1>3, <1>4, <1>5, <1>6, <1>7, <1>8

-----------------------------------------------------------------------------
(* The invariant *)

LEMMA InitHolds == Init => StoreInv
  <1> SUFFICES ASSUME Init PROVE StoreInv
    OBVIOUS
  <1>1. HasRefs(row)
    BY DEF Init, NoRows, HasRefs
  <1>2. Snapshots
    BY DEF Init, Snapshots, HoldsOf, Idle
  <1>3. LatestEnd(row, 0) = None
    <2>1. NotEnded(row, 0) = {}
      BY DEF Init, NoRows, NotEnded, After
    <2> QED BY <2>1 DEF LatestEnd, Until
  <1> QED BY <1>1, <1>2, <1>3 DEF Init, StoreInv, QueueIsOfTheRows

\* A step of one invocation that leaves the items and the clock alone.
LEMMA GotoHolds ==
  ASSUME StoreInv, NEW w \in Workers, NEW state, Goto(w, state), HoldsOf(state),
         UNCHANGED <<now, row, queue, version>>
  PROVE  StoreInv'
  <1>1. worker' = [x \in Workers |-> IF x = w THEN state ELSE worker[x]]
    BY DEF StoreInv, Snapshots, Goto
  <1>2. HasRefs(row)'
    BY DEF StoreInv, HasRefs
  <1>3. ASSUME NEW x \in Workers PROVE HoldsOf(worker[x])'
    <2>1. HoldsOf(IF x = w THEN state ELSE worker[x])
      BY DEF StoreInv, Snapshots
    <2>2. worker'[x] = IF x = w THEN state ELSE worker[x]
      BY <1>1
    <2> QED BY <2>1, <2>2 DEF HoldsOf
  <1>4. QueueIsOfTheRows'
    BY DEF StoreInv, QueueIsOfTheRows, LatestEnd, NotEnded, Until
  <1> QED BY <1>1, <1>2, <1>3, <1>4 DEF StoreInv, Snapshots

\* A change of the items raises the version: what others have read is old.
LEMMA OthersAreOld ==
  ASSUME NEW k, HoldsOf(k), now \in Nat, version \in Nat,
         version' = version + 1, now' = now
  PROVE  HoldsOf(k)'
  BY DEF HoldsOf

LEMMA CommitIsMade ==
  ASSUME StoreInv, NEW w \in Workers, Commit(w)
  PROVE  /\ row' = Changed(worker[w].change, row, worker[w].at, worker[w].t)
         /\ queue' = LatestEnd(row', worker[w].t)
         /\ HasRefs(row')
         /\ version' = version + 1
  <1> DEFINE k == worker[w]
  <1>1. k.step = "write" /\ k.v = version /\ HoldsOf(k)
    BY DEF StoreInv, Snapshots, Commit, At, Unmoved
  <1>2. k.rows = row /\ k.change \in Change
    BY <1>1 DEF HoldsOf
  <1>3. row' = Written(k) /\ queue' = LatestEnd(Changed(k.change, k.rows, k.at, k.t), k.t)
        /\ version' = k.v + 1
    BY DEF Commit
  <1>4. HasRefs(row)
    BY DEF StoreInv
  <1> HIDE DEF k
  <1>5. Written(k) = Changed(k.change, row, k.at, k.t)
    BY <1>2, <1>4, WrittenIsChanged
  <1>6. HasRefs(Changed(k.change, row, k.at, k.t))
    BY <1>2, <1>4, ChangedHasRefs
  <1> QED BY <1>1, <1>2, <1>3, <1>5, <1>6 DEF k

LEMMA CommitHolds ==
  ASSUME StoreInv, NEW w \in Workers, Commit(w)
  PROVE  StoreInv'
  <1> DEFINE k == worker[w]
             left == IF k.change.op = "admin" THEN Begun([op |-> "rechain"]) ELSE Idle
  <1>1. k.step = "write" /\ HoldsOf(k) /\ now' = now /\ now \in Nat /\ version \in Nat
    BY DEF StoreInv, Snapshots, Commit, At
  <1>2. worker' = [x \in Workers |-> IF x = w THEN left ELSE worker[x]]
    BY DEF StoreInv, Snapshots, Commit, Goto
  <1>3. /\ queue' = LatestEnd(row', k.t) /\ HasRefs(row') /\ version' = version + 1
    BY CommitIsMade
  <1>4. HoldsOf(left)
    BY <1>1 DEF HoldsOf, Begun, Idle, Change
  <1>5. ASSUME NEW x \in Workers PROVE HoldsOf(worker[x])'
    <2>1. PICK s : s = IF x = w THEN left ELSE worker[x]
      OBVIOUS
    <2>2. HoldsOf(s)
      BY <1>4, <2>1 DEF StoreInv, Snapshots
    <2> HIDE DEF left
    <2>3. worker'[x] = s
      BY <1>2, <2>1
    <2>4. HoldsOf(s)'
      BY <2>2, <1>1, <1>3, OthersAreOld
    <2> QED BY <2>3, <2>4 DEF HoldsOf
  <1>6. QueueIsOfTheRows'
    <2>1. PICK t \in 0..now : t = k.t
      BY <1>1 DEF HoldsOf
    <2> HIDE DEF k
    <2>2. t \in 0..now' /\ queue' = LatestEnd(row', t)
      BY <2>1, <1>1, <1>3
    <2> QED BY <2>2 DEF QueueIsOfTheRows
  <1> QED BY <1>1, <1>2, <1>3, <1>5, <1>6 DEF StoreInv, Snapshots, HasRefs

LEMMA StepHolds == StoreInv /\ [Next]_vars => StoreInv'
  <1> SUFFICES ASSUME StoreInv, [Next]_vars PROVE StoreInv'
    OBVIOUS
  <1>1. CASE Tick
    <2>1. now' = now + 1 /\ UNCHANGED <<row, queue, version, worker>> /\ now \in Nat
      BY <1>1 DEF Tick, items, StoreInv
    <2>2. ASSUME NEW w \in Workers PROVE HoldsOf(worker[w])'
      BY <2>1 DEF HoldsOf, StoreInv, Snapshots
    <2>3. QueueIsOfTheRows'
      <3>1. PICK t \in 0..now : queue = LatestEnd(row, t)
        BY DEF StoreInv, QueueIsOfTheRows
      <3>2. t \in 0..now' /\ queue' = LatestEnd(row', t)
        BY <2>1, <3>1
      <3> QED BY <3>2 DEF QueueIsOfTheRows
    <2> QED BY <2>1, <2>2, <2>3 DEF StoreInv, Snapshots, HasRefs
  <1>2. CASE Rezone
    <2>1. /\ version' = version + 1 /\ UNCHANGED <<now, row, queue, worker>>
          /\ now \in Nat /\ version \in Nat
      BY <1>2 DEF Rezone, StoreInv
    <2>2. ASSUME NEW w \in Workers PROVE HoldsOf(worker[w])'
      BY <2>1 DEF HoldsOf, StoreInv, Snapshots
    <2>3. QueueIsOfTheRows'
      BY <2>1 DEF StoreInv, QueueIsOfTheRows
    <2> QED BY <2>1, <2>2, <2>3 DEF StoreInv, Snapshots, HasRefs
  <1>3. ASSUME NEW w \in Workers, NEW c \in Change, Ask(w, c) PROVE StoreInv'
    <2>1. HoldsOf(Begun(c))
      BY DEF HoldsOf, Begun, StoreInv
    <2> QED BY <1>3, <2>1, GotoHolds DEF Ask, items
  <1>4. ASSUME NEW w \in Workers, ReadVersion(w) PROVE StoreInv'
    <2> DEFINE state == [step |-> "rows", change |-> worker[w].change,
                         at |-> worker[w].at, v |-> version]
    <2>1. HoldsOf(state)
      BY <1>4 DEF HoldsOf, StoreInv, Snapshots, ReadVersion, At
    <2>2. Goto(w, state) /\ UNCHANGED <<now, row, queue, version>>
      BY <1>4 DEF ReadVersion, items
    <2> QED BY <2>1, <2>2, GotoHolds
  <1>5. ASSUME NEW w \in Workers, ReadRows(w) PROVE StoreInv'
    <2> DEFINE k == worker[w]
               t == Computes(k.change, k.at)
               state == [step |-> "write", change |-> k.change, at |-> k.at,
                         v |-> k.v, t |-> t, rows |-> row]
    <2>1. HoldsOf(k) /\ k.step = "rows" /\ now \in Nat /\ version \in Nat /\ HasRefs(row)
      BY <1>5 DEF StoreInv, Snapshots, ReadRows, At
    <2>2. t \in 0..now /\ k.at <= t
      BY <2>1 DEF HoldsOf, Computes
    <2>3. Goto(w, state) /\ UNCHANGED <<now, row, queue, version>>
      BY <1>5 DEF ReadRows, items
    <2> HIDE DEF t
    <2>4. HoldsOf(state)
      BY <2>1, <2>2 DEF HoldsOf
    <2> QED BY <2>3, <2>4, GotoHolds
  <1>6. ASSUME NEW w \in Workers, ReadAgain(w) PROVE StoreInv'
    <2>1. HoldsOf(Begun(worker[w].change))
      BY <1>6 DEF HoldsOf, Begun, StoreInv, Snapshots, ReadAgain, At
    <2> QED BY <1>6, <2>1, GotoHolds DEF ReadAgain, items
  <1>7. ASSUME NEW w \in Workers, Stop(w) PROVE StoreInv'
    <2>1. HoldsOf(Idle)
      BY DEF HoldsOf, Idle
    <2> QED BY <1>7, <2>1, GotoHolds DEF Stop, items
  <1>8. CASE UNCHANGED vars
    <2>1. UNCHANGED <<now, row, queue, version, worker>>
      BY <1>8 DEF vars, items
    <2>2. ASSUME NEW w \in Workers PROVE HoldsOf(worker[w])'
      BY <2>1 DEF HoldsOf, StoreInv, Snapshots
    <2> QED BY <2>1, <2>2 DEF StoreInv, Snapshots, HasRefs, QueueIsOfTheRows
  <1> QED
    BY <1>1, <1>2, <1>3, <1>4, <1>5, <1>6, <1>7, <1>8, CommitHolds DEF Next

\* Whatever the order of reads and transactions, an invocation whose version
\* still stands computes from the rows that stand (readPlus: "a writer that
\* changes the rows after this read has bumped the version, so our TX fails").
THEOREM ReadsHold == Spec => []StoreInv
  BY InitHolds, StepHolds, PTL DEF Spec

\* The digest queue never tells the end of rows that a lost change made.
THEOREM QueueFollowsTheRows == Spec => []QueueIsOfTheRows
  <1>1. StoreInv => QueueIsOfTheRows
    BY DEF StoreInv
  <1> QED BY <1>1, ReadsHold, PTL

-----------------------------------------------------------------------------
(* What the rows are *)

\* The rows can be, and the codes follow on unless a row for ever was refunded.
RowsInv ==
  /\ StoreInv
  /\ SoundRows(row)
  /\ bared \/ FollowOn(row, now)

LEMMA RowsInit == Init => RowsInv
  BY InitHolds, NoRowsSound, NoRowsFollow DEF Init, RowsInv

LEMMA CommitKeepsRows ==
  ASSUME RowsInv, NEW w \in Workers, Commit(w)
  PROVE  SoundRows(row)' /\ (bared \/ FollowOn(row, now))'
  <1> DEFINE k == worker[w]
             after == Changed(k.change, row, k.at, k.t)
  <1>1. k.step = "write" /\ k.v = version /\ HoldsOf(k) /\ now \in Nat /\ now' = now
    BY DEF RowsInv, StoreInv, Snapshots, Commit, At, Unmoved
  <1>2. /\ k.rows = row /\ k.change \in Change /\ k.at \in Nat /\ k.t \in Nat /\ k.t <= now
    BY <1>1 DEF HoldsOf
  <1>3. row' = after
    BY CommitIsMade DEF RowsInv
  <1>4. Permitted(k.change, row, used) /\ (bared \/ Bares(k) => bared')
    BY DEF Commit
  <1>5. SoundRows(row)
    BY DEF RowsInv
  <1> HIDE DEF k
  <1>6. SoundRows(after)
    BY <1>2, <1>5, ChangedSound
  <1>7. CASE ~bared /\ ~Bares(k)
    <2>1. ~(k.change.op = "withdraw" /\ row[Store].until = Never)
      BY <1>2, <1>7 DEF Bares
    <2>2. FollowOn(row, now)
      BY <1>7 DEF RowsInv
    <2> HIDE DEF after
    <2>3. FollowOn(after, now)
      BY <1>1, <1>2, <1>4, <1>5, <2>1, <2>2, ChangedFollows DEF after
    <2> QED BY <1>1, <1>3, <1>6, <2>3
  <1>8. CASE bared \/ Bares(k)
    BY <1>3, <1>4, <1>6, <1>8
  <1> QED BY <1>7, <1>8

LEMMA RowsStep == RowsInv /\ [Next]_vars => RowsInv'
  <1> SUFFICES ASSUME RowsInv, [Next]_vars PROVE RowsInv'
    OBVIOUS
  <1>1. StoreInv'
    BY StepHolds DEF RowsInv
  <1>2. CASE Tick
    <2>1. now' = now + 1 /\ row' = row /\ bared' = bared /\ now \in Nat
      BY <1>2 DEF Tick, items, RowsInv, StoreInv
    <2>2. FollowOn(row, now) => FollowOn(row, now + 1)
      BY <2>1, FollowOnLater DEF RowsInv
    <2>3. bared \/ FollowOn(row, now + 1)
      BY <2>2 DEF RowsInv
    <2> QED BY <1>1, <2>1, <2>3 DEF RowsInv
  <1>3. ASSUME NEW w \in Workers, Commit(w) PROVE RowsInv'
    BY <1>1, <1>3, CommitKeepsRows DEF RowsInv
  <1>4. CASE UNCHANGED <<now, row, bared>>
    BY <1>1, <1>4 DEF RowsInv
  <1> QED
    BY <1>2, <1>3, <1>4
    DEF Next, Rezone, Ask, ReadVersion, ReadRows, ReadAgain, Stop, vars, items

\* Every row can be: a start and an end that is a number, never only for the
\* store's, and no code that ends before it starts.
THEOREM RowsAreSound == Spec => []RowsInv
  BY RowsInit, RowsStep, PTL DEF Spec

LEMMA LatestEndTyped ==
  ASSUME NEW rows, SoundRows(rows), NEW t \in Nat
  PROVE  LatestEnd(rows, t) \in Nat \cup {Never, None}
  <1> DEFINE ends == Until(rows, NotEnded(rows, t))
  <1>1. IsFiniteSet(ends) /\ (Never \notin ends => ends \in SUBSET Nat)
    BY EndsOfRows
  <1>2. LatestEnd(rows, t) = IF ends = {} THEN None ELSE IF Never \in ends THEN Never ELSE Max(ends)
    BY DEF LatestEnd
  <1> HIDE DEF ends
  <1>3. CASE ends # {} /\ Never \notin ends
    BY <1>1, <1>2, <1>3, MaxIsGreatest
  <1> QED BY <1>2, <1>3

\* A step of one invocation keeps the types when what it leaves is typed.
LEMMA GotoTyped ==
  ASSUME TypeOK, NEW w \in Workers, NEW state \in Worker, Goto(w, state)
  PROVE  worker' \in [Workers -> Worker]
  <1> HIDE DEF Worker
  <1> QED BY DEF TypeOK, Goto

LEMMA CommitTyped ==
  ASSUME RowsInv, RowsInv', TypeOK, NEW w \in Workers, Commit(w)
  PROVE  TypeOK'
  <1> DEFINE k == worker[w]
             left == IF k.change.op = "admin" THEN Begun([op |-> "rechain"]) ELSE Idle
  <1>1. k.step = "write" /\ HoldsOf(k) /\ now' = now /\ now \in Nat /\ version \in Nat
    BY DEF RowsInv, StoreInv, Snapshots, Commit, At
  <1>2. k.change \in Change /\ k.t \in Nat
    BY <1>1 DEF HoldsOf
  <1>3. left \in Worker
    BY <1>1 DEF Begun, Worker, Change, Idle
  <1>4. Goto(w, left) /\ used' = UsedAfter(k.change, used) /\ acts' = acts
        /\ bared' = (bared \/ Bares(k))
    BY DEF Commit
  <1>5. queue' = LatestEnd(row', k.t) /\ version' = version + 1
    BY CommitIsMade DEF RowsInv
  <1>6. SoundRows(row)'
    BY DEF RowsInv
  <1> HIDE DEF left
  <1>7. worker' \in [Workers -> Worker]
    BY <1>3, <1>4, GotoTyped
  <1>8. used' \subseteq Codes
    <2>1. k.change.op = "redeem" => k.change.code \in Codes
      BY <1>2 DEF Change
    <2> HIDE DEF k
    <2> QED BY <1>4, <2>1 DEF UsedAfter, TypeOK
  <1> HIDE DEF k
  <1>9. queue' \in Nat \cup {Never, None}
    <2>1. SoundRows(row')
      BY <1>6 DEF SoundRows
    <2> QED BY <2>1, <1>2, <1>5, LatestEndTyped
  <1>10. bared' \in BOOLEAN
    BY <1>4
  <1> QED BY <1>1, <1>4, <1>5, <1>6, <1>7, <1>8, <1>9, <1>10 DEF TypeOK, SoundRows

LEMMA TypeStep == RowsInv /\ RowsInv' /\ TypeOK /\ [Next]_vars => TypeOK'
  <1> SUFFICES ASSUME RowsInv, RowsInv', TypeOK, [Next]_vars PROVE TypeOK'
    OBVIOUS
  <1>1. CASE Tick
    BY <1>1 DEF Tick, items, TypeOK
  <1>2. CASE Rezone
    BY <1>2 DEF Rezone, TypeOK
  <1>3. ASSUME NEW w \in Workers, NEW state \in Worker, Goto(w, state),
               UNCHANGED <<now, items, bared>>, acts' = acts \/ acts' = acts + 1
        PROVE  TypeOK'
    <2>1. worker' \in [Workers -> Worker]
      BY <1>3, GotoTyped
    <2> HIDE DEF Worker
    <2> QED BY <1>3, <2>1 DEF TypeOK, items
  <1>4. \A c \in Change : Begun(c) \in Worker
    BY DEF Begun, Worker, TypeOK
  <1>5. ASSUME NEW w \in Workers, NEW c \in Change, Ask(w, c) PROVE TypeOK'
    BY <1>3, <1>4, <1>5 DEF Ask
  <1>6. ASSUME NEW w \in Workers, ReadVersion(w) PROVE TypeOK'
    <2> DEFINE state == [step |-> "rows", change |-> worker[w].change,
                         at |-> worker[w].at, v |-> version]
    <2>1. worker[w].step = "version" /\ HoldsOf(worker[w]) /\ version \in Nat /\ now \in Nat
      BY <1>6 DEF ReadVersion, At, RowsInv, StoreInv, Snapshots
    <2>2. state \in Worker
      BY <2>1 DEF HoldsOf, Worker
    <2>3. Goto(w, state) /\ UNCHANGED <<now, items, bared>> /\ acts' = acts
      BY <1>6 DEF ReadVersion
    <2> HIDE DEF state
    <2> QED BY <1>3, <2>2, <2>3
  <1>7. ASSUME NEW w \in Workers, ReadRows(w) PROVE TypeOK'
    <2> DEFINE k == worker[w]
               t == Computes(k.change, k.at)
               state == [step |-> "write", change |-> k.change, at |-> k.at,
                         v |-> k.v, t |-> t, rows |-> row]
    <2>1. k.step = "rows" /\ HoldsOf(k) /\ now \in Nat /\ version \in Nat
      BY <1>7 DEF ReadRows, At, RowsInv, StoreInv, Snapshots
    <2>2. k.change \in Change /\ k.at \in Nat /\ k.v \in Nat
      BY <2>1 DEF HoldsOf
    <2>3. t \in Nat
      BY <2>1, <2>2 DEF Computes
    <2>4. row \in [Refs -> Row \cup {None}]
      BY DEF RowsInv, SoundRows
    <2>5. Goto(w, state) /\ UNCHANGED <<now, items, bared>> /\ acts' = acts
      BY <1>7 DEF ReadRows
    <2> HIDE DEF t, k
    <2>6. state \in Worker
      BY <2>2, <2>3, <2>4 DEF Worker
    <2> HIDE DEF state
    <2> QED BY <1>3, <2>5, <2>6
  <1>8. ASSUME NEW w \in Workers, ReadAgain(w) PROVE TypeOK'
    <2>1. worker[w].change \in Change
      BY <1>8 DEF ReadAgain, At, HoldsOf, RowsInv, StoreInv, Snapshots
    <2> QED BY <1>3, <1>4, <1>8, <2>1 DEF ReadAgain
  <1>9. ASSUME NEW w \in Workers, Stop(w) PROVE TypeOK'
    BY <1>3, <1>9 DEF Stop, Worker
  <1>10. CASE UNCHANGED vars
    BY <1>10 DEF vars, items, TypeOK
  <1> QED
    BY <1>1, <1>2, <1>5, <1>6, <1>7, <1>8, <1>9, <1>10, CommitTyped DEF Next

\* Rows, queue and invocations keep their shape.
THEOREM TypeCorrect == Spec => []TypeOK
  <1>1. Init => TypeOK
    <2>1. Init => row \in [Refs -> Row \cup {None}]
      BY NoRowsSound DEF Init, SoundRows
    <2>2. Idle \in Worker
      BY DEF Worker
    <2> HIDE DEF Worker
    <2>3. Init => worker \in [Workers -> Worker]
      BY <2>2 DEF Init
    <2>4. Init => /\ now \in Nat /\ acts \in Nat /\ version \in Nat /\ used \subseteq Codes
                  /\ queue \in Nat \cup {Never, None}
      BY DEF Init
    <2>5. Init => bared \in BOOLEAN
      BY DEF Init
    <2> QED BY <2>1, <2>3, <2>4, <2>5 DEF TypeOK
  <1> QED BY <1>1, RowsAreSound, TypeStep, PTL DEF Spec

\* No day of a redeemed code is lost to another row, however notices, refunds,
\* grants and other codes interleave with it, until a row for ever is refunded.
THEOREM CodesDoFollowOn == Spec => []CodesFollowOn
  <1>1. RowsInv => CodesFollowOn
    BY DEF RowsInv, CodesFollowOn, FollowOn, ApartIn, Apart
  <1> QED BY <1>1, RowsAreSound, PTL

-----------------------------------------------------------------------------
(* The digest queue *)

LEMMA LatestEndLater ==
  ASSUME NEW t \in Nat, now \in Nat, t <= now, SoundRows(row), queue = LatestEnd(row, t)
  PROVE  QueueTellsLatestEnd
  <1> DEFINE ends == Until(row, NotEnded(row, now))
             then == Until(row, NotEnded(row, t))
  <1>1. /\ IsFiniteSet(then) /\ then \subseteq Nat \cup {Never}
        /\ Never \notin then => then \in SUBSET Nat
    BY EndsOfRows
  <1>2. ends \subseteq then /\ (Never \in then => Never \in ends)
    BY LaterIsLess DEF Until
  <1>3. \A e \in then : e \in ends \/ (e \in Nat /\ e <= now)
    <2> SUFFICES ASSUME NEW k \in NotEnded(row, t), k \notin NotEnded(row, now)
                 PROVE  row[k].until \in Nat /\ row[k].until <= now
      BY DEF Until
    <2>1. k \in Refs /\ row[k] # None
      BY DEF NotEnded, After
    <2>2. row[k].until \in Nat \cup {Never}
      BY <2>1 DEF SoundRows, Row
    <2> QED BY <2>1, <2>2 DEF NotEnded, After
  <1>4. \A e \in ends : e = Never \/ e > now
    BY DEF Until, NotEnded, After
  <1>5. queue = IF then = {} THEN None ELSE IF Never \in then THEN Never ELSE Max(then)
    BY DEF LatestEnd
  <1> HIDE DEF ends, then
  <1>6. CASE then = {}
    <2>1. ends = {} /\ queue = None
      BY <1>2, <1>5, <1>6
    <2> QED BY <2>1 DEF QueueTellsLatestEnd, ends
  <1>7. CASE Never \in then
    <2>1. Never \in ends /\ queue = Never
      BY <1>2, <1>5, <1>7
    <2> QED BY <2>1 DEF QueueTellsLatestEnd, ends
  <1>8. CASE then # {} /\ Never \notin then
    <2>1. queue = Max(then) /\ then \in SUBSET Nat
      BY <1>1, <1>5, <1>8
    <2>2. queue \in then /\ queue \in Nat /\ \A e \in then : e <= queue
      BY <1>1, <1>8, <2>1, MaxIsGreatest
    <2>3. \A e \in ends : e \in Nat /\ e # Never /\ e <= queue /\ e > now
      BY <1>2, <1>4, <1>8, <2>1, <2>2
    <2>4. ends # {} => queue \in ends
      BY <1>3, <2>2, <2>3
    <2>5. ends = {} => queue \in 0..now
      BY <1>3, <2>2
    <2> QED BY <2>3, <2>4, <2>5 DEF QueueTellsLatestEnd, ends
  <1> QED BY <1>6, <1>7, <1>8

\* The digest finds a listener by the latest end of their rows and by nothing
\* later, although the queue was told at a moment that has passed.
THEOREM QueueIsTold == Spec => []QueueTellsLatestEnd
  <1>1. RowsInv => QueueTellsLatestEnd
    <2> SUFFICES ASSUME RowsInv PROVE QueueTellsLatestEnd
      OBVIOUS
    <2>1. PICK t \in 0..now : queue = LatestEnd(row, t)
      BY DEF RowsInv, StoreInv, QueueIsOfTheRows
    <2>2. now \in Nat /\ SoundRows(row) /\ t \in Nat /\ t <= now
      BY DEF RowsInv, StoreInv
    <2> QED BY <2>1, <2>2, LatestEndLater
  <1> QED BY <1>1, RowsAreSound, PTL

-----------------------------------------------------------------------------
(* The run that holds a moment *)

\* The moments from e on that no row covers; the run ends at the first.
Gaps(rows, e) == {g \in Nat : g >= e /\ Extends(rows, g) = {}}
FirstGap(rows, e) ==
  IF Gaps(rows, e) = {} THEN Never
  ELSE CHOOSE g \in Gaps(rows, e) : \A h \in Gaps(rows, e) : g <= h

\* One step of plusRun, with `run` for the rest.
RunFrom(rows, run, e) ==
  LET ends == Until(rows, Extends(rows, e))
  IN IF ends = {} THEN e ELSE IF Never \in ends THEN Never ELSE run[Max(ends)]

LEMMA FirstGapIs ==
  ASSUME NEW rows, NEW e \in Nat
  PROVE  /\ Gaps(rows, e) = {} => FirstGap(rows, e) = Never
         /\ Gaps(rows, e) # {} =>
              /\ FirstGap(rows, e) \in Gaps(rows, e) /\ FirstGap(rows, e) \in Nat
              /\ \A h \in Gaps(rows, e) : FirstGap(rows, e) <= h
  <1>1. CASE Gaps(rows, e) = {}
    BY <1>1 DEF FirstGap
  <1>2. CASE Gaps(rows, e) # {}
    <2>1. Gaps(rows, e) \in SUBSET Nat
      BY DEF Gaps
    <2>2. \E g \in Gaps(rows, e) : \A h \in Gaps(rows, e) : g <= h
      BY <1>2, <2>1, HasLeast
    <2>3. FirstGap(rows, e) = CHOOSE g \in Gaps(rows, e) : \A h \in Gaps(rows, e) : g <= h
      BY <1>2 DEF FirstGap
    <2>4. FirstGap(rows, e) \in Gaps(rows, e) /\ \A h \in Gaps(rows, e) : FirstGap(rows, e) <= h
      BY <2>2, <2>3
    <2> QED BY <1>2, <2>1, <2>4
  <1> QED BY <1>1, <1>2

\* A row that extends e until a number covers every moment before it.
LEMMA NoGapBefore ==
  ASSUME NEW rows, SoundRows(rows), NEW e \in Nat,
         NEW k \in Extends(rows, e), NEW g \in Nat, g >= e,
         rows[k].until = Never \/ g < rows[k].until
  PROVE  k \in Extends(rows, g)
  <1>1. k \in Refs /\ rows[k] # None /\ rows[k].from <= e
    BY DEF Extends
  <1>2. rows[k].from \in Nat /\ rows[k].until \in Nat \cup {Never}
    BY <1>1 DEF SoundRows, Row
  <1>3. rows[k].from <= g
    BY <1>1, <1>2
  <1>4. rows[k].until = Never \/ rows[k].until > g
    BY <1>2
  <1> QED BY <1>1, <1>3, <1>4 DEF Extends

LEMMA EndsExtending ==
  ASSUME NEW rows, SoundRows(rows), NEW e \in Nat
  PROVE  LET ends == Until(rows, Extends(rows, e))
         IN /\ IsFiniteSet(ends) /\ (Never \notin ends => ends \in SUBSET Nat)
            /\ ends = {} <=> Extends(rows, e) = {}
            /\ \A m \in ends : m = Never \/ m > e
  <1>1. Extends(rows, e) \in SUBSET Refs /\ \A k \in Extends(rows, e) : rows[k] # None
    BY DEF Extends
  <1>2. /\ IsFiniteSet(Until(rows, Extends(rows, e)))
        /\ Until(rows, Extends(rows, e)) \subseteq Nat \cup {Never}
    BY <1>1, UntilFinite
  <1>3. \A m \in Until(rows, Extends(rows, e)) : m = Never \/ m > e
    BY DEF Until, Extends
  <1> QED BY <1>2, <1>3 DEF Until

\* The first gap is what following the run comes to.
LEMMA FirstGapRuns ==
  ASSUME NEW rows, SoundRows(rows), NEW e \in Nat,
         NEW run, \A m \in Nat : m > e => run[m] = FirstGap(rows, m)
  PROVE  RunFrom(rows, run, e) = FirstGap(rows, e)
  <1> DEFINE ends == Until(rows, Extends(rows, e))
  <1>1. /\ IsFiniteSet(ends) /\ (Never \notin ends => ends \in SUBSET Nat)
        /\ ends = {} <=> Extends(rows, e) = {}
        /\ \A m \in ends : m = Never \/ m > e
    BY EndsExtending
  <1>2. RunFrom(rows, run, e) = IF ends = {} THEN e
                                ELSE IF Never \in ends THEN Never ELSE run[Max(ends)]
    BY DEF RunFrom
  <1>3. CASE ends = {}
    <2>1. e \in Gaps(rows, e) /\ \A h \in Gaps(rows, e) : h \in Nat /\ e <= h
      BY <1>1, <1>3 DEF Gaps
    <2>2. FirstGap(rows, e) = e
      BY <2>1, FirstGapIs
    <2> QED BY <1>2, <1>3, <2>2
  <1>4. CASE Never \in ends
    <2>1. PICK k \in Extends(rows, e) : rows[k].until = Never
      BY <1>4 DEF Until
    <2>2. \A g \in Nat : g >= e => k \in Extends(rows, g)
      BY <2>1, NoGapBefore
    <2>3. Gaps(rows, e) = {}
      BY <2>2 DEF Gaps
    <2> QED BY <1>2, <1>4, <2>3, FirstGapIs
  <1>5. CASE ends # {} /\ Never \notin ends
    <2> DEFINE m == Max(ends)
    <2> HIDE DEF ends
    <2>1. m \in ends /\ m \in Nat
      BY <1>1, <1>5, MaxIsGreatest
    <2> HIDE DEF m
    <2>2. m > e
      BY <1>1, <1>5, <2>1
    <2>3. PICK k \in Extends(rows, e) : rows[k].until = m
      BY <2>1 DEF Until, ends
    <2>4. \A g \in Nat : g >= e /\ g < m => k \in Extends(rows, g)
      BY <2>3, NoGapBefore
    <2>5. Gaps(rows, e) = Gaps(rows, m)
      <3>1. \A g \in Gaps(rows, e) : g \in Gaps(rows, m)
        BY <2>1, <2>4 DEF Gaps
      <3>2. \A g \in Gaps(rows, m) : g \in Gaps(rows, e)
        BY <2>1, <2>2 DEF Gaps
      <3> QED BY <3>1, <3>2
    <2>6. FirstGap(rows, e) = FirstGap(rows, m)
      BY <2>5 DEF FirstGap
    <2> QED BY <1>2, <1>5, <2>1, <2>2, <2>6 DEF m
  <1> QED BY <1>3, <1>4, <1>5

\* No row for a while ends after some moment.
LEMMA EndsBounded ==
  ASSUME NEW rows, SoundRows(rows)
  PROVE  \E b \in Nat : \A k \in Refs :
           rows[k] # None /\ rows[k].until # Never => rows[k].until \in Nat /\ rows[k].until <= b
  <1> DEFINE S == {k \in Refs : rows[k] # None}
             ends == Until(rows, S) \ {Never}
  <1>1. IsFiniteSet(Until(rows, S)) /\ Until(rows, S) \subseteq Nat \cup {Never}
    BY UntilFinite
  <1>2. \A k \in Refs : rows[k] # None /\ rows[k].until # Never => rows[k].until \in ends
    BY DEF Until
  <1> HIDE DEF S
  <1>3. ends \in SUBSET Nat
    BY <1>1
  <1>4. IsFiniteSet(ends)
    BY <1>1, FS_Subset
  <1> HIDE DEF ends
  <1>5. CASE ends = {}
    BY <1>2, <1>5
  <1>6. CASE ends # {}
    <2>1. PICK b \in ends : \A m \in ends : m <= b
      BY <1>3, <1>4, <1>6, HasGreatest
    <2> QED BY <1>2, <1>3, <2>1
  <1> QED BY <1>5, <1>6

\* There is one way to follow a run, because it goes on later and rows end.
LEMMA RunIsFirstGap ==
  ASSUME NEW rows, SoundRows(rows), NEW run, run = [e \in Nat |-> RunFrom(rows, run, e)]
  PROVE  \A e \in Nat : run[e] = FirstGap(rows, e)
  <1> DEFINE wrong == {e \in Nat : run[e] # FirstGap(rows, e)}
  <1>1. PICK b \in Nat : \A k \in Refs :
          rows[k] # None /\ rows[k].until # Never => rows[k].until \in Nat /\ rows[k].until <= b
    BY EndsBounded
  <1>2. ASSUME NEW e \in wrong
        PROVE  \E m \in wrong : m > e /\ m <= b
    <2> DEFINE ends == Until(rows, Extends(rows, e))
    <2>1. /\ IsFiniteSet(ends) /\ (Never \notin ends => ends \in SUBSET Nat)
          /\ \A m \in ends : m = Never \/ m > e
      BY EndsExtending
    <2>2. run[e] = RunFrom(rows, run, e)
      BY <1>2
    <2> DEFINE same == [m \in Nat |-> FirstGap(rows, m)]
    <2>3. RunFrom(rows, same, e) = FirstGap(rows, e)
      BY FirstGapRuns
    <2>4. ends # {} /\ Never \notin ends /\ run[Max(ends)] # same[Max(ends)]
      BY <2>2, <2>3 DEF RunFrom
    <2>5. Max(ends) \in ends /\ Max(ends) \in Nat
      <3> HIDE DEF ends
      <3> QED BY <2>1, <2>4, MaxIsGreatest
    <2>6. Max(ends) <= b
      BY <1>1, <2>4, <2>5 DEF Until, Extends
    <2> HIDE DEF ends
    <2>7. Max(ends) \in wrong
      BY <2>4, <2>5
    <2>8. Max(ends) > e
      BY <2>1, <2>4, <2>5
    <2> QED BY <2>6, <2>7, <2>8
  <1>3. wrong = {}
    <2> SUFFICES ASSUME wrong # {} PROVE FALSE
      OBVIOUS
    <2> DEFINE late == {e \in wrong : e <= b}
    <2>1. late # {} /\ late \in SUBSET Nat
      BY <1>2
    <2>2. IsFiniteSet(late)
      <3>1. late \in SUBSET (0..b)
        BY <2>1
      <3>2. IsFiniteSet(0..b)
        BY FS_Interval
      <3> QED BY <3>1, <3>2, FS_Subset
    <2> HIDE DEF wrong
    <2>3. PICK e \in late : \A m \in late : m <= e
      <3> HIDE DEF late
      <3> QED BY <2>1, <2>2, HasGreatest
    <2>4. PICK m \in wrong : m > e /\ m <= b
      BY <1>2, <2>3
    <2>5. m \in late /\ m \in Nat /\ e \in Nat
      BY <2>1, <2>4
    <2> QED BY <2>3, <2>4, <2>5
  <1> QED BY <1>3

LEMMA PlusUntilIs ==
  ASSUME NEW rows, SoundRows(rows), NEW t \in Nat
  PROVE  PlusUntil(rows, t) = IF Extends(rows, t) = {} THEN None ELSE FirstGap(rows, t)
  <1> DEFINE Runs(f) == f = [e \in Nat |-> RunFrom(rows, f, e)]
             run == CHOOSE f : Runs(f)
  <1>1. PlusUntil(rows, t) = IF Extends(rows, t) = {} THEN None ELSE run[t]
    BY DEF PlusUntil, RunFrom
  <1>2. Runs([e \in Nat |-> FirstGap(rows, e)])
    <2> DEFINE f == [e \in Nat |-> FirstGap(rows, e)]
    <2>1. \A e \in Nat : f[e] = FirstGap(rows, e)
      OBVIOUS
    <2> HIDE DEF f
    <2>2. \A e \in Nat : RunFrom(rows, f, e) = FirstGap(rows, e)
      BY <2>1, FirstGapRuns
    <2>3. f = [e \in Nat |-> RunFrom(rows, f, e)]
      BY <2>2 DEF f
    <2> QED BY <2>3 DEF f
  <1> HIDE DEF Runs
  <1>3. Runs(run)
    BY <1>2
  <1> HIDE DEF run
  <1>4. run[t] = FirstGap(rows, t)
    BY <1>3, RunIsFirstGap DEF Runs
  <1> QED BY <1>1, <1>4

LEMMA CoveredIs ==
  ASSUME NEW t PROVE Covered(t) <=> Extends(row, t) # {}
  BY DEF Covered, Extends

\* A run that is never left is held by a row for ever.
LEMMA NoGapIsForEver ==
  ASSUME NEW rows, SoundRows(rows), NEW e \in Nat, Gaps(rows, e) = {}
  PROVE  \E k \in Refs : rows[k] # None /\ rows[k].until = Never
  <1>1. PICK b \in Nat : \A k \in Refs :
          rows[k] # None /\ rows[k].until # Never => rows[k].until \in Nat /\ rows[k].until <= b
    BY EndsBounded
  <1>2. e + b \in Nat /\ e + b >= e /\ e + b >= b
    OBVIOUS
  <1>3. Extends(rows, e + b) # {}
    BY <1>2 DEF Gaps
  <1>4. PICK k \in Refs : rows[k] # None /\ (rows[k].until = Never \/ rows[k].until > e + b)
    BY <1>3 DEF Extends
  <1> QED BY <1>1, <1>2, <1>4

\* The end a listener is told is the first moment without PLUS, and never only
\* with a row for ever.
THEOREM UntilIsTheFirstGap == Spec => []UntilIsFirstGap
  <1>1. RowsInv => UntilIsFirstGap
    <2> SUFFICES ASSUME RowsInv PROVE UntilIsFirstGap
      OBVIOUS
    <2> DEFINE end == PlusUntil(row, now)
    <2>1. now \in Nat /\ SoundRows(row)
      BY DEF RowsInv, StoreInv
    <2>2. end = IF Extends(row, now) = {} THEN None ELSE FirstGap(row, now)
      BY <2>1, PlusUntilIs
    <2> HIDE DEF end
    <2>3. None \notin Nat /\ Never \notin Nat /\ None # Never
      BY PlusConstants
    <2>4. CASE Extends(row, now) = {}
      <3>1. end = None /\ ~Covered(now)
        BY <2>2, <2>4, CoveredIs
      <3> QED BY <2>3, <3>1 DEF UntilIsFirstGap, end
    <2>5. CASE Extends(row, now) # {} /\ Gaps(row, now) = {}
      <3>1. end = Never /\ Covered(now)
        BY <2>1, <2>2, <2>5, FirstGapIs, CoveredIs
      <3>2. \E k \in Refs : row[k] # None /\ row[k].until = Never
        BY <2>1, <2>5, NoGapIsForEver
      <3> QED BY <2>3, <3>1, <3>2 DEF UntilIsFirstGap, end
    <2>6. CASE Extends(row, now) # {} /\ Gaps(row, now) # {}
      <3>1. /\ end \in Gaps(row, now) /\ end \in Nat /\ Covered(now)
            /\ \A h \in Gaps(row, now) : end <= h
        BY <2>1, <2>2, <2>6, FirstGapIs, CoveredIs
      <3>2. ~Covered(end)
        BY <3>1, CoveredIs DEF Gaps
      <3>3. ASSUME NEW t \in now..(end - 1) PROVE Covered(t)
        <4>1. t \in Nat /\ t >= now /\ ~(end <= t)
          BY <2>1, <3>1
        <4>2. t \notin Gaps(row, now)
          BY <3>1, <4>1
        <4>3. Extends(row, t) # {}
          BY <4>1, <4>2 DEF Gaps
        <4> QED BY <4>3, CoveredIs
      <3> QED BY <2>3, <3>1, <3>2, <3>3 DEF UntilIsFirstGap, end
    <2> QED BY <2>4, <2>5, <2>6
  <1> QED BY <1>1, RowsAreSound, PTL

-----------------------------------------------------------------------------
(* The refinement *)

LEMMA InitMaps == Init => Line!Init
  BY DEF Init, Line!Init

LEMMA CommitMaps ==
  ASSUME StoreInv, NEW w \in Workers, Commit(w)
  PROVE  Line!Next
  <1> DEFINE k == worker[w]
  <1>1. k.step = "write" /\ HoldsOf(k)
    BY DEF StoreInv, Snapshots, Commit, At
  <1>2. k.change \in Change /\ k.at \in 0..now /\ k.t \in 0..now /\ k.at <= k.t
    BY <1>1 DEF HoldsOf
  <1>3. /\ row' = Changed(k.change, row, k.at, k.t)
        /\ queue' = LatestEnd(row', k.t)
    BY CommitIsMade
  <1>4. Permitted(k.change, row, used) /\ used' = UsedAfter(k.change, used) /\ now' = now
    BY DEF Commit
  <1> HIDE DEF k
  <1>5. Line!Make(k.change, k.at, k.t)
    BY <1>2, <1>3, <1>4 DEF Line!Make, StoreInv
  <1> QED BY <1>2, <1>5 DEF Line!Next

LEMMA StepMaps == StoreInv /\ [Next]_vars => [Line!Next]_<<now, row, queue, used>>
  <1> SUFFICES ASSUME StoreInv, [Next]_vars
               PROVE  Line!Next \/ UNCHANGED <<now, row, queue, used>>
    OBVIOUS
  <1>1. CASE Tick
    BY <1>1 DEF Tick, items, Line!Next, Line!Tick
  <1>2. ASSUME NEW w \in Workers, Commit(w) PROVE Line!Next
    BY <1>2, CommitMaps
  <1> QED
    BY <1>1, <1>2 DEF Next, Rezone, Ask, ReadVersion, ReadRows, ReadAgain, Stop, vars, items

\* Every change is made of the rows as they stand and at once, with the queue
\* told: concurrent notices, refunds, codes and grants lose nothing.
THEOREM StoreImplementsLine == Spec => ChangesAtOnce
  BY ReadsHold, InitMaps, StepMaps, PTL DEF Spec, ChangesAtOnce, Line!Spec

=============================================================================
