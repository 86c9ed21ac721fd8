---------------------------- MODULE QueueSyncProofs ----------------------------
(***************************************************************************)
(* Theorems about the synced playlist, for any phones, lists and bounds.   *)
(***************************************************************************)
EXTENDS QueueSync, SequenceTheorems, TLAPS

-----------------------------------------------------------------------------
(* Lists, backups and versions *)

\* backup keeps a sequence of lists that hold an episode, the saved one first.
LEMMA BackedUpLists ==
  ASSUME NEW old \in Seq(Contents), NEW l \in Lists
  PROVE  /\ BackedUp(old, l) \in Seq(Contents)
         /\ l # Empty => 1 \in DOMAIN BackedUp(old, l) /\ BackedUp(old, l)[1] = l
  <1>1. CASE l = Empty
    BY <1>1 DEF BackedUp
  <1>2. CASE l # Empty
    <2> DEFINE all == <<l>> \o old
    <2>1. l \in Contents /\ <<l>> \in Seq(Contents)
      BY <1>2 DEF Lists
    <2>2. /\ all \in Seq(Contents) /\ Len(all) = Len(old) + 1
          /\ all[1] = l /\ Len(old) \in Nat
      BY <2>1, ConcatProperties, LenProperties
    <2> HIDE DEF all
    <2>3. CASE Len(all) > BackupsKeep
      <3>1. BackupsKeep \in Nat /\ BackupsKeep >= 1
        BY QueueConstants
      <3>2. Len(all) - 1 \in 1..Len(all) /\ 1 \in 1..Len(all)
        BY <2>2, <2>3, <3>1
      <3>3. /\ Front(all) \in Seq(Contents) /\ Len(Front(all)) = Len(all) - 1
            /\ Front(all)[1] = all[1]
        BY <2>2, <3>2, SubSeqProperties DEF Front
      <3>4. BackedUp(old, l) = Front(all)
        BY <1>2, <2>3 DEF BackedUp, all
      <3>5. 1 \in DOMAIN Front(all)
        BY <3>2, <3>3, LenProperties
      <3> QED  BY <3>3, <3>4, <3>5, <2>2
    <2>4. CASE ~(Len(all) > BackupsKeep)
      <3>1. BackedUp(old, l) = all
        BY <1>2, <2>4 DEF BackedUp, all
      <3>2. 1 \in DOMAIN all
        BY <2>2, LenProperties
      <3> QED  BY <3>1, <3>2, <2>2
    <2> QED  BY <2>3, <2>4
  <1> QED  BY <1>1, <1>2

\* What a request on its way carries.
LEMMA FlowFields ==
  ASSUME NEW f \in Flow
  PROVE  /\ f.stage \in {"idle", "ask", "told", "put", "kept", "refused"}
         /\ f.stage \in {"ask", "told", "put", "kept", "refused"} => f.who \in Accounts
         /\ f.stage \in {"told", "refused"} => f.server \in Seen
         /\ f.stage \in {"put", "kept"} => f.account \in Accounts /\ f.list \in Lists
         /\ f.stage = "put" => f.base \in Nat
         /\ f.stage = "kept" => f.version \in Nat
  BY DEF Flow, Idle

\* A list the account had stays under its version when another is written.
LEMMA VersionsStay ==
  ASSUME NEW s \in Seq(Lists), NEW l \in Lists
  PROVE  /\ Append(s, l) \in Seq(Lists) /\ Len(Append(s, l)) = Len(s) + 1
         /\ Len(s) \in Nat
         /\ \A v \in 1..Len(s) : Append(s, l)[v] = s[v]
         /\ Append(s, l)[Len(s) + 1] = l
  BY AppendProperties, LenProperties

\* The account's row is a list.
LEMMA CurrentList ==
  ASSUME TypeOK, NEW a \in Accounts
  PROVE  Version(a) \in Nat /\ Current(a) \in Lists
  <1>1. written[a] \in Seq(Lists)
    BY DEF TypeOK
  <1>2. Len(written[a]) \in Nat
    BY <1>1, LenProperties
  <1>3. CASE Len(written[a]) = 0
    BY <1>2, <1>3 DEF Current, Version, At, Lists
  <1>4. CASE Len(written[a]) # 0
    <2>1. Len(written[a]) \in 1..Len(written[a])
      BY <1>2, <1>4
    <2>2. written[a][Len(written[a])] \in Lists
      BY <1>1, <2>1, ElementOfSeq
    <2> QED  BY <1>2, <1>4, <2>2 DEF Current, Version, At
  <1> QED  BY <1>3, <1>4

-----------------------------------------------------------------------------
(* Types *)

LEMMA PlanIsKnown ==
  ASSUME NEW mine, NEW server, NEW base
  PROVE  Plan(mine, server, base) \in {"none", "pull", "push", "choose"}
  BY DEF Plan

LEMMA GotoType ==
  ASSUME flow \in [Devices -> [Kinds -> Flow]], NEW d \in Devices,
         NEW k \in Kinds, NEW f \in Flow, Goto(d, k, f)
  PROVE  /\ flow' \in [Devices -> [Kinds -> Flow]]
         /\ \A e \in Devices, j \in Kinds :
              flow'[e][j] = IF e = d /\ j = k THEN f ELSE flow[e][j]
  BY DEF Goto

LEMMA BegunType ==
  ASSUME TypeOK, NEW d \in Devices
  PROVE  /\ Begun(d) \in [Devices -> [Kinds -> Flow]]
         /\ \A e \in Devices, j \in Kinds :
              Begun(d)[e][j] = flow[e][j] \/ Begun(d)[e][j].stage = "ask"
  <1>1. CASE Begun(d) = flow
    BY <1>1 DEF TypeOK
  <1>2. CASE Begun(d) # flow
    <2> DEFINE f == [stage |-> "ask", who |-> me[d]]
    <2>1. me[d] \in Accounts /\ Begun(d) = [flow EXCEPT ![d]["round"] = f]
      BY <1>2 DEF Begun, TypeOK
    <2>2. f \in Flow /\ f.stage = "ask" /\ "round" \in Kinds
      BY <2>1 DEF Flow, Kinds
    <2> HIDE DEF f
    <2> QED  BY <2>1, <2>2 DEF TypeOK
  <1> QED  BY <1>1, <1>2

LEMMA PushFlow ==
  ASSUME TypeOK, NEW d \in Devices, NEW k \in Kinds, NEW who \in Accounts,
         NEW l \in Lists, NEW base \in Nat, Push(d, k, who, l, base)
  PROVE  \E f \in Flow :
           /\ Goto(d, k, f)
           /\ f = Idle \/ f = [stage |-> "put", who |-> who, account |-> me[d],
                               list |-> l, base |-> base]
  <1>1. CASE me[d] = None
    <2>1. Goto(d, k, Idle)
      BY <1>1 DEF Push
    <2> QED  BY <2>1 DEF Flow
  <1>2. CASE me[d] # None
    <2> DEFINE f == [stage |-> "put", who |-> who, account |-> me[d],
                     list |-> l, base |-> base]
    <2>1. f \in Flow
      BY <1>2 DEF Flow, TypeOK
    <2>2. Goto(d, k, f)
      BY <1>2 DEF Push
    <2> QED  BY <2>1, <2>2
  <1> QED  BY <1>1, <1>2

LEMMA CommitType ==
  ASSUME TypeOK, NEW d \in Devices, NEW put \in Flow, put.stage = "put",
         Commit(d, put)
  PROVE  /\ written' \in [Accounts -> Seq(Lists)]
         /\ held' \in [Devices -> SUBSET (Accounts \X Nat)]
  <1>1. put.account \in Accounts /\ put.list \in Lists /\ put.base \in Nat
    BY FlowFields
  <1>2. CASE ~Writes(put)
    BY <1>2 DEF Commit, TypeOK
  <1>3. CASE Writes(put)
    <2>1. written[put.account] \in Seq(Lists)
      BY <1>1 DEF TypeOK
    <2>2. Append(written[put.account], put.list) \in Seq(Lists)
      BY <2>1, <1>1, VersionsStay
    <2>3. <<put.account, put.base + 1>> \in Accounts \X Nat
      BY <1>1
    <2>4. written' = [written EXCEPT ![put.account] = Append(written[put.account], put.list)]
          /\ held' = [held EXCEPT ![d] = held[d] \cup {<<put.account, put.base + 1>>}]
      BY <1>3 DEF Commit
    <2>5. written \in [Accounts -> Seq(Lists)]
          /\ held \in [Devices -> SUBSET (Accounts \X Nat)]
      BY DEF TypeOK
    <2>6. written' \in [Accounts -> Seq(Lists)]
      BY <2>2, <2>4, <2>5
    <2>7. held' \in [Devices -> SUBSET (Accounts \X Nat)]
      BY <2>3, <2>4, <2>5
    <2> QED  BY <2>6, <2>7
  <1> QED  BY <1>2, <1>3

LEMMA HoldsType ==
  ASSUME TypeOK, NEW d \in Devices, NEW s \in Seen, Holds(d, s)
  PROVE  held' \in [Devices -> SUBSET (Accounts \X Nat)]
  BY DEF Holds, TypeOK, Seen

LEMMA AgreeType ==
  ASSUME TypeOK, NEW d \in Devices, NEW a \in Accounts, NEW l \in Lists,
         NEW v \in Nat, Agree(d, a, l, v)
  PROVE  agreed' \in [Devices -> [who: Accounts, list: Lists, version: Nat] \cup {None}]
  BY DEF Agree, TypeOK

\* The requests a step of the phone gives up are uploads still on their way.
LEMMA AbandonedType ==
  ASSUME TypeOK, NEW d \in Devices, NEW ks \in SUBSET Kinds,
         NEW p \in Abandoned(d, ks)
  PROVE  p.dev = d /\ p.put \in Flow /\ p.put.stage = "put"
         /\ \E k \in Kinds : p.put = flow[d][k]
  BY DEF Abandoned, TypeOK

LEMMA ListenerType ==
  ASSUME TypeOK, NEW d \in Devices, Listener(d)
  PROVE  TypeOK'
  <1>1. CASE \E l \in Lists : Edit(d, l)
    BY <1>1 DEF Edit, TypeOK
  <1>2. CASE \E a \in Accounts \cup {None} : Switch(d, a)
    BY <1>2 DEF Switch, TypeOK, phone
  <1>3. CASE TakeServers(d)
    <2> DEFINE c == choice[d]
    <2>1. c \in Seen /\ c.list \in Lists /\ c.version \in Nat /\ me[d] \in Accounts
      BY <1>3 DEF TakeServers, TypeOK, Seen
    <2>2. Holds(d, c) /\ Agree(d, me[d], c.list, c.version)
      BY <1>3 DEF TakeServers
    <2>3. held' \in [Devices -> SUBSET (Accounts \X Nat)]
      BY <2>1, <2>2, HoldsType
    <2>4. agreed' \in [Devices -> [who: Accounts, list: Lists, version: Nat] \cup {None}]
      BY <2>1, <2>2, AgreeType
    <2>5. BackedUp(backups[d], local[d]) \in Seq(Contents)
      BY BackedUpLists DEF TypeOK
    <2>6. backups' \in [Devices -> Seq(Contents)]
      BY <1>3, <2>5 DEF TakeServers, TypeOK
    <2> QED  BY <1>3, <2>1, <2>3, <2>4, <2>6 DEF TakeServers, TypeOK
  <1>4. CASE KeepMine(d)
    <2> DEFINE c == choice[d]
    <2>1. c \in Seen /\ c.list \in Lists /\ c.version \in Nat /\ me[d] \in Accounts
          /\ local[d] \in Lists /\ "choice" \in Kinds
      BY <1>4 DEF KeepMine, TypeOK, Seen, Kinds
    <2>2. Holds(d, c) /\ Push(d, "choice", me[d], local[d], c.version)
      BY <1>4 DEF KeepMine
    <2>3. held' \in [Devices -> SUBSET (Accounts \X Nat)]
      BY <2>1, <2>2, HoldsType
    <2>4. PICK f \in Flow : Goto(d, "choice", f)
      BY <2>1, <2>2, PushFlow
    <2>5. flow' \in [Devices -> [Kinds -> Flow]]
      BY <2>1, <2>4, GotoType DEF TypeOK
    <2>6. BackedUp(backups[d], c.list) \in Seq(Contents)
      BY <2>1, BackedUpLists DEF TypeOK
    <2>7. backups' \in [Devices -> Seq(Contents)]
      BY <1>4, <2>6 DEF KeepMine, TypeOK
    <2> QED  BY <1>4, <2>1, <2>3, <2>5, <2>7 DEF KeepMine, TypeOK
  <1>5. ASSUME NEW i \in DOMAIN backups[d], Restore(d, i)
        PROVE  TypeOK'
    <2>1. backups[d] \in Seq(Contents) /\ local[d] \in Lists
      BY DEF TypeOK
    <2>2. BackedUp(backups[d], local[d]) \in Seq(Contents)
      BY <2>1, BackedUpLists
    <2>3. backups[d][i] \in Lists
      BY <2>1, <1>5, LenProperties, ElementOfSeq DEF Lists
    <2>4. flow' \in [Devices -> [Kinds -> Flow]]
      BY <1>5, BegunType DEF Restore
    <2>5. backups' \in [Devices -> Seq(Contents)] /\ local' \in [Devices -> Lists]
      BY <1>5, <2>2, <2>3 DEF Restore, TypeOK
    <2> QED  BY <1>5, <2>4, <2>5 DEF Restore, TypeOK
  <1> QED  BY <1>1, <1>2, <1>3, <1>4, <1>5 DEF Listener

LEMMA DecideType ==
  ASSUME TypeOK, NEW d \in Devices, Decide(d)
  PROVE  TypeOK'
  <1> DEFINE f == flow[d]["round"]
             s == f.server
             plan == Plan(local[d], s, Agreed(d, f.who))
  <1>1. f \in Flow /\ "round" \in Kinds /\ Idle \in Flow
    BY DEF TypeOK, Kinds, Flow
  <1>2. f.who \in Accounts /\ s \in Seen /\ s.list \in Lists /\ s.version \in Nat
    <2>1. f.stage = "told"
      BY DEF Decide
    <2> QED  BY <1>1, <2>1, FlowFields DEF Seen
  <1>3. CASE plan \in {"none", "pull"}
    <2>1. /\ local' = [local EXCEPT ![d] = IF plan = "pull" THEN s.list ELSE local[d]]
          /\ Agree(d, f.who, s.list, s.version) /\ Holds(d, s)
          /\ Goto(d, "round", Idle)
          /\ UNCHANGED <<choice, written, me, backups, late, bounds>>
      BY <1>3 DEF Decide
    <2>2. held' \in [Devices -> SUBSET (Accounts \X Nat)]
      BY <1>2, <2>1, HoldsType
    <2>3. agreed' \in [Devices -> [who: Accounts, list: Lists, version: Nat] \cup {None}]
      BY <1>2, <2>1, AgreeType
    <2>4. flow' \in [Devices -> [Kinds -> Flow]]
      BY <1>1, <2>1, GotoType DEF TypeOK
    <2>5. local' \in [Devices -> Lists]
      BY <1>2, <2>1 DEF TypeOK
    <2> HIDE DEF plan, s, f
    <2> QED  BY <2>1, <2>2, <2>3, <2>4, <2>5 DEF TypeOK, bounds
  <1>4. CASE plan = "push"
    <2>1. /\ Push(d, "round", f.who, local[d], s.version)
          /\ UNCHANGED <<local, agreed, choice, held, written, me, backups, late, bounds>>
      BY <1>4 DEF Decide
    <2>2. local[d] \in Lists
      BY DEF TypeOK
    <2>3. PICK g \in Flow : Goto(d, "round", g)
      BY <1>1, <1>2, <2>1, <2>2, PushFlow
    <2>4. flow' \in [Devices -> [Kinds -> Flow]]
      BY <1>1, <2>3, GotoType DEF TypeOK
    <2> HIDE DEF plan, s, f
    <2> QED  BY <2>1, <2>4 DEF TypeOK, bounds
  <1>5. CASE plan = "choose"
    <2>1. /\ choice' = [choice EXCEPT ![d] = s]
          /\ Goto(d, "round", Idle)
          /\ UNCHANGED <<local, agreed, held, written, me, backups, late, bounds>>
      BY <1>5 DEF Decide
    <2>2. flow' \in [Devices -> [Kinds -> Flow]]
      BY <1>1, <2>1, GotoType DEF TypeOK
    <2>3. choice' \in [Devices -> Seen \cup {None}]
      BY <1>2, <2>1 DEF TypeOK
    <2> HIDE DEF plan, s, f
    <2> QED  BY <2>1, <2>2, <2>3 DEF TypeOK, bounds
  <1> QED  BY <1>3, <1>4, <1>5, PlanIsKnown

\* What the server answers an upload.
PutAnswer(put) ==
  IF Writes(put)
  THEN [stage |-> "kept", who |-> put.who, account |-> put.account,
        list |-> put.list, version |-> put.base + 1]
  ELSE [stage |-> "refused", who |-> put.who,
        server |-> [of |-> put.account, list |-> Current(put.account),
                    version |-> Version(put.account)]]

LEMMA PutAnswerFlow ==
  ASSUME TypeOK, NEW put \in Flow, put.stage = "put"
  PROVE  PutAnswer(put) \in Flow
  <1>1. put.who \in Accounts /\ put.account \in Accounts /\ put.list \in Lists
        /\ put.base \in Nat
    BY FlowFields
  <1>2. Current(put.account) \in Lists /\ Version(put.account) \in Nat
    BY <1>1, CurrentList
  <1>3. CASE Writes(put)
    BY <1>1, <1>3 DEF PutAnswer, Flow
  <1>4. CASE ~Writes(put)
    <2>1. [of |-> put.account, list |-> Current(put.account),
           version |-> Version(put.account)] \in Seen
      BY <1>1, <1>2 DEF Seen
    <2> QED  BY <1>1, <1>4, <2>1 DEF PutAnswer, Flow
  <1> QED  BY <1>3, <1>4

LEMMA WorksType ==
  ASSUME TypeOK, NEW d \in Devices, Works(d)
  PROVE  TypeOK'
  <1>0. "round" \in Kinds /\ Idle \in Flow
    BY DEF Kinds, Flow
  <1>1. CASE StartRound(d)
    BY <1>1, BegunType DEF StartRound, TypeOK, phone, bounds
  <1>2. CASE ServerGet(d)
    <2> DEFINE f == flow[d]["round"]
               g == [stage |-> "told", who |-> f.who,
                     server |-> [of |-> f.who, list |-> Current(f.who),
                                 version |-> Version(f.who)]]
    <2>1. f.who \in Accounts
      <3>1. f \in Flow /\ f.stage = "ask"
        BY <1>0, <1>2 DEF ServerGet, TypeOK
      <3> QED  BY <3>1, FlowFields
    <2>2. Current(f.who) \in Lists /\ Version(f.who) \in Nat
      BY <2>1, CurrentList
    <2>3. g \in Flow
      BY <2>1, <2>2 DEF Flow, Seen
    <2>4. Goto(d, "round", g)
      BY <1>2 DEF ServerGet
    <2> HIDE DEF f, g
    <2>5. flow' \in [Devices -> [Kinds -> Flow]]
      BY <1>0, <2>3, <2>4, GotoType DEF TypeOK
    <2> QED  BY <1>2, <2>5 DEF ServerGet, TypeOK, phone, bounds
  <1>3. ASSUME NEW k \in Kinds, ServerPut(d, k)
        PROVE  TypeOK'
    <2> DEFINE f == flow[d][k]
    <2>1. f \in Flow /\ f.stage = "put"
      BY <1>3 DEF ServerPut, TypeOK
    <2>2. Goto(d, k, PutAnswer(f)) /\ Commit(d, f)
          /\ UNCHANGED <<me, phone, late, bounds>>
      BY <1>3 DEF ServerPut, PutAnswer
    <2>3. PutAnswer(f) \in Flow
      BY <2>1, PutAnswerFlow
    <2>4. flow' \in [Devices -> [Kinds -> Flow]]
      BY <2>2, <2>3, GotoType DEF TypeOK
    <2>5. /\ written' \in [Accounts -> Seq(Lists)]
          /\ held' \in [Devices -> SUBSET (Accounts \X Nat)]
      BY <2>1, <2>2, CommitType
    <2> HIDE DEF f
    <2> QED  BY <2>2, <2>4, <2>5 DEF TypeOK, phone, bounds
  <1>4. ASSUME NEW k \in Kinds, Answered(d, k)
        PROVE  TypeOK'
    <2> DEFINE f == flow[d][k]
    <2>1. f \in Flow
      BY DEF TypeOK
    <2>2. flow' \in [Devices -> [Kinds -> Flow]]
      <3>1. Goto(d, k, Idle)
        BY <1>4 DEF Answered
      <3> QED  BY <1>0, <3>1, GotoType DEF TypeOK
    <2>3. CASE f.stage = "kept"
      <3>1. f.who \in Accounts /\ f.list \in Lists /\ f.version \in Nat
        BY <2>1, <2>3, FlowFields
      <3>2. Agree(d, f.who, f.list, f.version)
            /\ UNCHANGED <<choice, written, me, local, backups, late, held, bounds>>
        BY <1>4, <2>3 DEF Answered
      <3>3. agreed' \in [Devices -> [who: Accounts, list: Lists, version: Nat] \cup {None}]
        BY <3>1, <3>2, AgreeType
      <3> QED  BY <2>2, <3>2, <3>3 DEF TypeOK, bounds
    <2>4. CASE f.stage = "refused"
      <3>1. f.server \in Seen
        BY <2>1, <2>4, FlowFields
      <3>2. choice' = [choice EXCEPT ![d] = f.server]
            /\ UNCHANGED <<agreed, written, me, local, backups, late, held, bounds>>
        BY <1>4, <2>4 DEF Answered
      <3>3. choice' \in [Devices -> Seen \cup {None}]
        BY <3>1, <3>2 DEF TypeOK
      <3> QED  BY <2>2, <3>2, <3>3 DEF TypeOK, bounds
    <2> QED  BY <1>4, <2>3, <2>4 DEF Answered
  <1> QED  BY <1>1, <1>2, <1>3, <1>4, DecideType DEF Works

LEMMA FailsType ==
  ASSUME TypeOK, NEW d \in Devices, Fails(d)
  PROVE  TypeOK'
  <1>1. Idle \in Flow
    BY DEF Flow
  <1>2. CASE Kill(d)
    <2>1. flow' = [flow EXCEPT ![d] = [k \in Kinds |-> Idle]]
          /\ late' = late \cup Abandoned(d, Kinds)
          /\ choice' = [choice EXCEPT ![d] = None] /\ failures' = failures + 1
          /\ UNCHANGED <<written, me, local, agreed, backups, held, acts, switches>>
      BY <1>2 DEF Kill
    <2>2. [k \in Kinds |-> Idle] \in [Kinds -> Flow]
      BY <1>1
    <2>3. flow' \in [Devices -> [Kinds -> Flow]]
      BY <2>1, <2>2 DEF TypeOK
    <2>4. \A p \in late' : p.dev \in Devices /\ p.put \in Flow /\ p.put.stage = "put"
      BY <2>1, AbandonedType DEF TypeOK
    <2> QED  BY <2>1, <2>3, <2>4 DEF TypeOK
  <1>3. ASSUME NEW k \in Kinds, GiveUp(d, k)
        PROVE  TypeOK'
    <2>1. UNCHANGED <<written, me, local, agreed, choice, backups, held, acts, switches>>
          /\ failures' = failures + 1
      BY <1>3 DEF GiveUp, phone
    <2>2. flow' \in [Devices -> [Kinds -> Flow]]
      <3>1. Goto(d, k, Idle)
        BY <1>3 DEF GiveUp
      <3> QED  BY <1>1, <3>1, GotoType DEF TypeOK
    <2>3. \A p \in late' : p.dev \in Devices /\ p.put \in Flow /\ p.put.stage = "put"
      <3>1. late' = late \cup Abandoned(d, {k})
        BY <1>3 DEF GiveUp
      <3>2. \A p \in Abandoned(d, {k}) :
              p.dev \in Devices /\ p.put \in Flow /\ p.put.stage = "put"
        BY AbandonedType
      <3> QED  BY <3>1, <3>2 DEF TypeOK
    <2> QED  BY <2>1, <2>2, <2>3 DEF TypeOK
  <1> QED  BY <1>2, <1>3 DEF Fails

LEMMA QueueTypes ==
  ASSUME TypeOK, [Next]_vars
  PROVE  TypeOK'
  <1>1. CASE UNCHANGED vars
    BY <1>1 DEF vars, phone, bounds, TypeOK
  <1>2. ASSUME NEW p \in late, ServerPutLate(p)
        PROVE  TypeOK'
    <2>1. p.dev \in Devices /\ p.put \in Flow /\ p.put.stage = "put"
      BY DEF TypeOK
    <2>2. Commit(p.dev, p.put) /\ late' = late \ {p} /\ UNCHANGED <<me, phone, flow, bounds>>
      BY <1>2 DEF ServerPutLate
    <2>3. /\ written' \in [Accounts -> Seq(Lists)]
          /\ held' \in [Devices -> SUBSET (Accounts \X Nat)]
      BY <2>1, <2>2, CommitType
    <2> QED  BY <2>2, <2>3 DEF TypeOK, phone, bounds
  <1> QED  BY <1>1, <1>2, ListenerType, WorksType, FailsType DEF Next

-----------------------------------------------------------------------------
(* What phones know is what accounts had *)

\* In the model of one account, a phone never uploads for another listener.
OneAccount == \A a, b \in Accounts : a = b

\* The list an account had under a version, in a history of written lists.
Was(w, a, l, v) == v <= Len(w[a]) /\ l = IF v = 0 THEN Empty ELSE w[a][v]

\* What the server told: a list of the account it was read from.
GoodSeen(w, s) == Was(w, s.of, s.list, s.version)

\* An upload replaces a version its phone has held or saved, or an empty list.
GoodPut(w, h, p) ==
  OneAccount =>
    /\ p.base <= Len(w[p.account])
    /\ <<p.account, p.base>> \in h \/ Was(w, p.account, Empty, p.base)

GoodFlow(w, h, f) ==
  /\ f.stage \in {"told", "refused"} => GoodSeen(w, f.server)
  /\ f.stage = "told" => f.server.of = f.who
  /\ f.stage = "put" => GoodPut(w, h, f)
  /\ f.stage = "kept" => /\ Was(w, f.account, f.list, f.version)
                         /\ <<f.account, f.version>> \in h

\* The last agreement is a list of some account, of the one it is about
\* unless the phone changed accounts.
GoodAgreed(w, h, g) ==
  /\ \E a \in Accounts : Was(w, a, g.list, g.version)
  /\ OneAccount => Was(w, g.who, g.list, g.version) /\ <<g.who, g.version>> \in h

QueueInv ==
  /\ TypeOK
  /\ \A d \in Devices : choice[d] # None => GoodSeen(written, choice[d])
  /\ \A d \in Devices : \A k \in Kinds : GoodFlow(written, held[d], flow[d][k])
  /\ \A d \in Devices : agreed[d] # None => GoodAgreed(written, held[d], agreed[d])
  /\ \A p \in late : GoodPut(written, held[p.dev], p.put)

\* Lists are only added.
Grows(w1, w2) ==
  \A a \in Accounts :
    Len(w1[a]) <= Len(w2[a]) /\ \A v \in 1..Len(w1[a]) : w2[a][v] = w1[a][v]

Histories == [Accounts -> Seq(Lists)]

LEMMA WasStays ==
  ASSUME NEW w1 \in Histories, NEW w2 \in Histories, Grows(w1, w2),
         NEW a \in Accounts, NEW l, NEW v \in Nat, Was(w1, a, l, v)
  PROVE  Was(w2, a, l, v)
  <1>1. Len(w1[a]) \in Nat /\ Len(w2[a]) \in Nat
    BY LenProperties DEF Histories
  <1>2. Len(w1[a]) <= Len(w2[a]) /\ \A u \in 1..Len(w1[a]) : w2[a][u] = w1[a][u]
    BY DEF Grows
  <1>3. v <= Len(w1[a]) /\ l = IF v = 0 THEN Empty ELSE w1[a][v]
    BY DEF Was
  <1>4. v # 0 => v \in 1..Len(w1[a])
    BY <1>1, <1>3
  <1> QED  BY <1>1, <1>2, <1>3, <1>4 DEF Was

LEMMA PutStays ==
  ASSUME NEW w1 \in Histories, NEW w2 \in Histories, Grows(w1, w2),
         NEW h1, NEW h2, h1 \subseteq h2,
         NEW p \in Flow, p.stage = "put", GoodPut(w1, h1, p)
  PROVE  GoodPut(w2, h2, p)
  <1>1. p.account \in Accounts /\ p.base \in Nat
    BY FlowFields
  <1>2. Len(w1[p.account]) \in Nat /\ Len(w2[p.account]) \in Nat
        /\ Len(w1[p.account]) <= Len(w2[p.account])
    BY <1>1, LenProperties DEF Histories, Grows
  <1>3. Was(w1, p.account, Empty, p.base) => Was(w2, p.account, Empty, p.base)
    BY <1>1, WasStays
  <1> QED  BY <1>1, <1>2, <1>3 DEF GoodPut

LEMMA FlowStays ==
  ASSUME NEW w1 \in Histories, NEW w2 \in Histories, Grows(w1, w2),
         NEW h1, NEW h2, h1 \subseteq h2,
         NEW f \in Flow, GoodFlow(w1, h1, f)
  PROVE  GoodFlow(w2, h2, f)
  <1>1. f.stage = "put" => GoodPut(w2, h2, f)
    BY PutStays DEF GoodFlow
  <1>2. f.stage \in {"told", "refused"} => GoodSeen(w2, f.server)
    BY WasStays, FlowFields DEF GoodFlow, GoodSeen, Seen
  <1>3. f.stage = "kept" => Was(w2, f.account, f.list, f.version)
    BY WasStays, FlowFields DEF GoodFlow
  <1> QED  BY <1>1, <1>2, <1>3 DEF GoodFlow

\* A step only adds to what was written and to what phones have held.
LEMMA CommitGrows ==
  ASSUME TypeOK, NEW d \in Devices, NEW put \in Flow, put.stage = "put",
         Commit(d, put)
  PROVE  Grows(written, written') /\ \A e \in Devices : held[e] \subseteq held'[e]
  <1>1. put.account \in Accounts /\ put.list \in Lists /\ put.base \in Nat
    BY FlowFields
  <1>2. \A a \in Accounts : written[a] \in Seq(Lists) /\ Len(written[a]) \in Nat
    BY LenProperties DEF TypeOK
  <1>3. CASE ~Writes(put)
    BY <1>2, <1>3 DEF Commit, Grows
  <1>4. CASE Writes(put)
    <2>1. written' = [written EXCEPT ![put.account] = Append(written[put.account], put.list)]
          /\ held' = [held EXCEPT ![d] = held[d] \cup {<<put.account, put.base + 1>>}]
      BY <1>4 DEF Commit
    <2>2. ASSUME NEW a \in Accounts
          PROVE  Len(written[a]) <= Len(written'[a])
                 /\ \A v \in 1..Len(written[a]) : written'[a][v] = written[a][v]
      <3> DEFINE s == Append(written[a], put.list)
      <3>1. Len(s) = Len(written[a]) + 1 /\ \A v \in 1..Len(written[a]) : s[v] = written[a][v]
        BY <1>1, <1>2, VersionsStay
      <3>2. a = put.account => written'[a] = s
        BY <2>1, <1>1 DEF TypeOK
      <3>3. a # put.account => written'[a] = written[a]
        BY <2>1 DEF TypeOK
      <3> HIDE DEF s
      <3>4. CASE a = put.account
        BY <1>2, <3>1, <3>2, <3>4
      <3>5. CASE a # put.account
        BY <1>2, <3>3, <3>5
      <3> QED  BY <3>4, <3>5
    <2>3. \A e \in Devices : held[e] \subseteq held'[e]
      BY <2>1 DEF TypeOK
    <2> QED  BY <2>2, <2>3 DEF Grows
  <1> QED  BY <1>3, <1>4

LEMMA HoldsGrows ==
  ASSUME TypeOK, NEW d \in Devices, NEW s \in Seen, Holds(d, s)
  PROVE  /\ \A e \in Devices : held[e] \subseteq held'[e]
         /\ <<s.of, s.version>> \in held'[d]
  BY DEF Holds, TypeOK

LEMMA SameGrows ==
  ASSUME TypeOK, written' = written
  PROVE  Grows(written, written')
  <1>1. \A a \in Accounts : Len(written[a]) \in Nat
    BY LenProperties DEF TypeOK
  <1> QED  BY <1>1 DEF Grows

\* What a step leaves alone stays good.
LEMMA Carried ==
  ASSUME QueueInv, TypeOK', Grows(written, written'),
         \A e \in Devices : held[e] \subseteq held'[e],
         \A e \in Devices : choice'[e] \in {choice[e], None} \/ GoodSeen(written', choice'[e]),
         \A e \in Devices : \A k \in Kinds :
           flow'[e][k] = flow[e][k] \/ GoodFlow(written', held'[e], flow'[e][k]),
         \A e \in Devices : agreed'[e] = agreed[e] \/ GoodAgreed(written', held'[e], agreed'[e]),
         \A p \in late' : \/ p \in late
                          \/ \E k \in Kinds : p.put = flow[p.dev][k]
  PROVE  QueueInv'
  <1>1. written \in Histories /\ written' \in Histories /\ TypeOK
    BY DEF QueueInv, TypeOK, Histories
  <1>2. ASSUME NEW e \in Devices, choice'[e] # None
        PROVE  GoodSeen(written', choice'[e])
    <2>1. CASE choice'[e] = choice[e]
      <3>1. choice[e] \in Seen /\ GoodSeen(written, choice[e])
        BY <1>2, <2>1 DEF QueueInv, TypeOK
      <3> QED  BY <1>1, <2>1, <3>1, WasStays DEF GoodSeen, Seen
    <2> QED  BY <1>2, <2>1
  <1>3. ASSUME NEW e \in Devices, NEW k \in Kinds
        PROVE  GoodFlow(written', held'[e], flow'[e][k])
    <2>1. CASE flow'[e][k] = flow[e][k]
      <3>1. flow[e][k] \in Flow /\ GoodFlow(written, held[e], flow[e][k])
        BY DEF QueueInv, TypeOK
      <3> QED  BY <1>1, <2>1, <3>1, FlowStays
    <2> QED  BY <2>1
  <1>4. ASSUME NEW e \in Devices, agreed'[e] # None
        PROVE  GoodAgreed(written', held'[e], agreed'[e])
    <2>1. CASE agreed'[e] = agreed[e]
      <3> DEFINE g == agreed[e]
      <3>1. g.who \in Accounts /\ g.version \in Nat /\ GoodAgreed(written, held[e], g)
        BY <1>4, <2>1 DEF QueueInv, TypeOK
      <3>2. PICK a \in Accounts : Was(written, a, g.list, g.version)
        BY <3>1 DEF GoodAgreed
      <3> HIDE DEF g
      <3>3. Was(written', a, g.list, g.version)
        BY <1>1, <3>1, <3>2, WasStays
      <3>4. OneAccount => Was(written', g.who, g.list, g.version)
        BY <1>1, <3>1, WasStays DEF GoodAgreed
      <3>5. GoodAgreed(written', held'[e], g)
        BY <3>1, <3>3, <3>4 DEF GoodAgreed
      <3> QED  BY <2>1, <3>5 DEF g
    <2> QED  BY <2>1
  <1>5. ASSUME NEW p \in late'
        PROVE  GoodPut(written', held'[p.dev], p.put)
    <2>1. p.dev \in Devices /\ p.put \in Flow /\ p.put.stage = "put"
      BY DEF TypeOK
    <2>2. GoodPut(written, held[p.dev], p.put)
      <3>1. CASE p \in late
        BY <3>1 DEF QueueInv
      <3>2. ASSUME NEW k \in Kinds, p.put = flow[p.dev][k]
            PROVE  GoodPut(written, held[p.dev], p.put)
        <4>1. GoodFlow(written, held[p.dev], flow[p.dev][k])
          BY <2>1 DEF QueueInv
        <4>2. GoodPut(written, held[p.dev], flow[p.dev][k])
          BY <2>1, <3>2, <4>1 DEF GoodFlow
        <4> QED  BY <3>2, <4>2
      <3> QED  BY <3>1, <3>2
    <2>3. held[p.dev] \subseteq held'[p.dev]
      BY <2>1
    <2> QED  BY <1>1, <2>1, <2>2, <2>3, PutStays
  <1> QED  BY <1>2, <1>3, <1>4, <1>5 DEF QueueInv

-----------------------------------------------------------------------------
(* The invariant, step by step *)

\* The answer to an upload is good for the phone that waits for it.
LEMMA CommitAnswer ==
  ASSUME TypeOK, TypeOK', NEW d \in Devices, NEW put \in Flow, put.stage = "put",
         Commit(d, put)
  PROVE  GoodFlow(written', held'[d], PutAnswer(put))
  <1>1. put.account \in Accounts /\ put.list \in Lists /\ put.base \in Nat
    BY FlowFields
  <1>2. written[put.account] \in Seq(Lists)
    BY <1>1 DEF TypeOK
  <1>3. CASE Writes(put)
    <2>1. /\ written'[put.account] = Append(written[put.account], put.list)
          /\ <<put.account, put.base + 1>> \in held'[d]
      BY <1>1, <1>3 DEF Commit, TypeOK
    <2>2. put.base = Len(written[put.account])
      BY <1>3 DEF Writes, Version
    <2>3. /\ Len(written'[put.account]) = put.base + 1
          /\ written'[put.account][put.base + 1] = put.list
      BY <1>1, <1>2, <2>1, <2>2, VersionsStay
    <2>4. Was(written', put.account, put.list, put.base + 1)
      BY <1>1, <2>3 DEF Was
    <2> QED  BY <1>3, <2>1, <2>4 DEF PutAnswer, GoodFlow
  <1>4. CASE ~Writes(put)
    <2>1. written' = written
      BY <1>4 DEF Commit
    <2>2. Was(written, put.account, Current(put.account), Version(put.account))
      BY <1>1, <1>2, LenProperties DEF Was, Current, Version, At
    <2> QED  BY <1>4, <2>1, <2>2 DEF PutAnswer, GoodFlow, GoodSeen
  <1> QED  BY <1>3, <1>4

LEMMA DecideInv ==
  ASSUME QueueInv, TypeOK', NEW d \in Devices, Decide(d)
  PROVE  QueueInv'
  <1> DEFINE f == flow[d]["round"]
             s == f.server
             plan == Plan(local[d], s, Agreed(d, f.who))
  <1>1. TypeOK /\ f \in Flow /\ "round" \in Kinds /\ Idle \in Flow /\ f.stage = "told"
        /\ local[d] \in Lists
    BY DEF QueueInv, TypeOK, Kinds, Flow, Decide
  <1>2. f.who \in Accounts /\ s \in Seen /\ s.of \in Accounts /\ s.version \in Nat
    BY <1>1, FlowFields DEF Seen
  <1>3. GoodSeen(written, s) /\ s.of = f.who
    <2>1. GoodFlow(written, held[d], f)
      BY <1>1 DEF QueueInv
    <2> QED  BY <1>1, <2>1 DEF GoodFlow
  <1>4. written' = written /\ late' = late /\ Grows(written, written')
    BY <1>1, SameGrows DEF Decide
  <1>6. CASE plan \in {"none", "pull"}
    <2>1. /\ Agree(d, f.who, s.list, s.version) /\ Holds(d, s)
          /\ Goto(d, "round", Idle) /\ choice' = choice
      BY <1>6 DEF Decide
    <2>2. /\ \A e \in Devices : held[e] \subseteq held'[e]
          /\ <<s.of, s.version>> \in held'[d]
      BY <1>1, <1>2, <2>1, HoldsGrows
    <2>3. GoodAgreed(written', held'[d],
                     [who |-> f.who, list |-> s.list, version |-> s.version])
      BY <1>2, <1>3, <1>4, <2>2 DEF GoodAgreed, GoodSeen
    <2>4. \A e \in Devices :
            agreed'[e] = agreed[e] \/ GoodAgreed(written', held'[e], agreed'[e])
      <3> DEFINE g == [who |-> f.who, list |-> s.list, version |-> s.version]
      <3>1. agreed' = [agreed EXCEPT ![d] = g]
        BY <2>1 DEF Agree
      <3> HIDE DEF g
      <3>2. GoodAgreed(written', held'[d], g)
        BY <2>3 DEF g
      <3> QED  BY <1>1, <3>1, <3>2 DEF TypeOK
    <2>5. \A e \in Devices : \A k \in Kinds :
            flow'[e][k] = flow[e][k] \/ GoodFlow(written', held'[e], flow'[e][k])
      <3>1. GoodFlow(written', held'[d], Idle)
        BY DEF GoodFlow, Idle
      <3>2. \A e \in Devices, k \in Kinds :
              flow'[e][k] = IF e = d /\ k = "round" THEN Idle ELSE flow[e][k]
        BY <1>1, <2>1, GotoType DEF TypeOK
      <3> QED  BY <3>1, <3>2
    <2> HIDE DEF plan, s, f
    <2> QED  BY <1>4, <2>1, <2>2, <2>4, <2>5, Carried
  <1>7. CASE plan = "push"
    <2>1. /\ Push(d, "round", f.who, local[d], s.version)
          /\ UNCHANGED <<agreed, choice, held>>
      BY <1>7 DEF Decide
    <2>2. PICK g \in Flow :
            /\ Goto(d, "round", g)
            /\ g = Idle \/ g = [stage |-> "put", who |-> f.who, account |-> me[d],
                                list |-> local[d], base |-> s.version]
      BY <1>1, <1>2, <2>1, PushFlow
    <2>3. GoodFlow(written', held'[d], g)
      <3>1. CASE g = Idle
        BY <3>1 DEF GoodFlow, Idle
      <3>2. CASE g # Idle
        <4>1. g.stage = "put" /\ g.account = me[d] /\ g.base = s.version
          BY <2>2, <3>2
        <4>2. g.account \in Accounts
          BY <4>1, FlowFields
        <4>3. OneAccount => /\ s.version <= Len(written[s.of])
                            /\ \/ <<s.of, s.version>> \in held[d]
                               \/ Was(written, s.of, Empty, s.version)
          <5>1. s.version <= Len(written[s.of]) /\ Was(written, s.of, s.list, s.version)
            BY <1>3 DEF GoodSeen, Was
          <5>2. CASE Agreed(d, f.who) = None
            BY <1>7, <5>1, <5>2 DEF Plan
          <5>3. CASE Agreed(d, f.who) # None
            <6>1. agreed[d] # None /\ agreed[d].who = f.who /\ Agreed(d, f.who) = agreed[d]
              BY <5>3 DEF Agreed
            <6>2. s.version = agreed[d].version
              BY <1>7, <5>3, <6>1 DEF Plan
            <6>3. OneAccount => <<agreed[d].who, agreed[d].version>> \in held[d]
              BY <6>1 DEF QueueInv, GoodAgreed
            <6> QED  BY <1>3, <5>1, <6>1, <6>2, <6>3
          <5> QED  BY <5>2, <5>3
        <4>4. OneAccount => g.account = s.of
          BY <1>2, <4>2 DEF OneAccount
        <4>5. GoodPut(written', held'[d], g)
          BY <1>4, <2>1, <4>1, <4>3, <4>4 DEF GoodPut
        <4> QED  BY <4>1, <4>5 DEF GoodFlow
      <3> QED  BY <3>1, <3>2
    <2>4. \A e \in Devices : \A k \in Kinds :
            flow'[e][k] = flow[e][k] \/ GoodFlow(written', held'[e], flow'[e][k])
      <3>1. \A e \in Devices, k \in Kinds :
              flow'[e][k] = IF e = d /\ k = "round" THEN g ELSE flow[e][k]
        BY <1>1, <2>2, GotoType DEF TypeOK
      <3> QED  BY <2>3, <3>1
    <2> HIDE DEF plan, s, f
    <2> QED  BY <1>4, <2>1, <2>4, Carried
  <1>8. CASE plan = "choose"
    <2>1. /\ choice' = [choice EXCEPT ![d] = s]
          /\ Goto(d, "round", Idle)
          /\ UNCHANGED <<agreed, held>>
      BY <1>8 DEF Decide
    <2>2. \A e \in Devices : choice'[e] \in {choice[e], None} \/ GoodSeen(written', choice'[e])
      BY <1>1, <1>3, <1>4, <2>1 DEF TypeOK
    <2>3. \A e \in Devices : \A k \in Kinds :
            flow'[e][k] = flow[e][k] \/ GoodFlow(written', held'[e], flow'[e][k])
      <3>1. GoodFlow(written', held'[d], Idle)
        BY DEF GoodFlow, Idle
      <3>2. \A e \in Devices, k \in Kinds :
              flow'[e][k] = IF e = d /\ k = "round" THEN Idle ELSE flow[e][k]
        BY <1>1, <2>1, GotoType DEF TypeOK
      <3> QED  BY <3>1, <3>2
    <2> HIDE DEF plan, s, f
    <2> QED  BY <1>4, <2>1, <2>2, <2>3, Carried
  <1> QED  BY <1>6, <1>7, <1>8, PlanIsKnown

LEMMA ListenerInv ==
  ASSUME QueueInv, TypeOK', NEW d \in Devices, Listener(d)
  PROVE  QueueInv'
  <1>1. TypeOK /\ "choice" \in Kinds
    BY DEF QueueInv, Kinds
  <1>2. CASE \E l \in Lists : Edit(d, l)
    <2>1. UNCHANGED <<written, agreed, choice, flow, late, held>>
      BY <1>2 DEF Edit
    <2> QED  BY <1>1, <2>1, SameGrows, Carried
  <1>3. CASE \E a \in Accounts \cup {None} : Switch(d, a)
    <2>1. UNCHANGED <<written, agreed, choice, flow, late, held>>
      BY <1>3 DEF Switch, phone
    <2> QED  BY <1>1, <2>1, SameGrows, Carried
  <1>4. CASE TakeServers(d) \/ KeepMine(d)
    <2> DEFINE c == choice[d]
    <2>1. /\ c \in Seen /\ c.of \in Accounts /\ c.list \in Lists /\ c.version \in Nat
          /\ me[d] \in Accounts /\ local[d] \in Lists
      BY <1>1, <1>4 DEF TakeServers, KeepMine, TypeOK, Seen
    <2>2. /\ Holds(d, c) /\ written' = written /\ late' = late
          /\ choice' = [choice EXCEPT ![d] = None]
      BY <1>4 DEF TakeServers, KeepMine
    <2>3. /\ \A e \in Devices : held[e] \subseteq held'[e]
          /\ <<c.of, c.version>> \in held'[d]
      BY <1>1, <2>1, <2>2, HoldsGrows
    <2>4. Was(written', c.of, c.list, c.version)
      <3>1. GoodSeen(written, c)
        BY <1>4 DEF QueueInv, TakeServers, KeepMine
      <3> QED  BY <2>2, <3>1 DEF GoodSeen
    <2>5. OneAccount => c.of = me[d]
      BY <2>1 DEF OneAccount
    <2>6. \A e \in Devices : choice'[e] \in {choice[e], None}
      BY <1>1, <2>2 DEF TypeOK
    <2>7. CASE TakeServers(d)
      <3> DEFINE g == [who |-> me[d], list |-> c.list, version |-> c.version]
      <3>1. agreed' = [agreed EXCEPT ![d] = g] /\ flow' = flow
        BY <2>7 DEF TakeServers, Agree
      <3>2. GoodAgreed(written', held'[d], g)
        BY <2>1, <2>3, <2>4, <2>5 DEF GoodAgreed
      <3> HIDE DEF g
      <3>3. \A e \in Devices :
              agreed'[e] = agreed[e] \/ GoodAgreed(written', held'[e], agreed'[e])
        BY <1>1, <3>1, <3>2 DEF TypeOK
      <3> HIDE DEF c
      <3> QED  BY <1>1, <2>2, <2>3, <2>6, <3>1, <3>3, SameGrows, Carried
    <2>8. CASE KeepMine(d)
      <3>1. Push(d, "choice", me[d], local[d], c.version) /\ agreed' = agreed
        BY <2>8 DEF KeepMine
      <3>2. PICK f \in Flow :
              /\ Goto(d, "choice", f)
              /\ f = Idle \/ f = [stage |-> "put", who |-> me[d], account |-> me[d],
                                  list |-> local[d], base |-> c.version]
        BY <1>1, <2>1, <3>1, PushFlow
      <3>3. GoodFlow(written', held'[d], f)
        <4>1. CASE f = Idle
          BY <4>1 DEF GoodFlow, Idle
        <4>2. CASE f # Idle
          <5>1. f.stage = "put" /\ f.account = me[d] /\ f.base = c.version
            BY <3>2, <4>2
          <5>2. GoodPut(written', held'[d], f)
            BY <2>3, <2>4, <2>5, <5>1 DEF GoodPut, Was
          <5> QED  BY <5>1, <5>2 DEF GoodFlow
        <4> QED  BY <4>1, <4>2
      <3>4. \A e \in Devices, k \in Kinds :
              flow'[e][k] = IF e = d /\ k = "choice" THEN f ELSE flow[e][k]
        BY <1>1, <3>2, GotoType DEF TypeOK
      <3>5. \A e \in Devices : \A k \in Kinds :
              flow'[e][k] = flow[e][k] \/ GoodFlow(written', held'[e], flow'[e][k])
        BY <3>3, <3>4
      <3> HIDE DEF c
      <3> QED  BY <1>1, <2>2, <2>3, <2>6, <3>1, <3>5, SameGrows, Carried
    <2> QED  BY <1>4, <2>7, <2>8
  <1>5. ASSUME NEW i \in DOMAIN backups[d], Restore(d, i)
        PROVE  QueueInv'
    <2>1. UNCHANGED <<written, agreed, choice, late, held>> /\ flow' = Begun(d)
      BY <1>5 DEF Restore
    <2>2. \A e \in Devices : \A k \in Kinds :
            flow'[e][k] = flow[e][k] \/ GoodFlow(written', held'[e], flow'[e][k])
      BY <1>1, <2>1, BegunType DEF GoodFlow
    <2> QED  BY <1>1, <2>1, <2>2, SameGrows, Carried
  <1> QED  BY <1>2, <1>3, <1>4, <1>5 DEF Listener

LEMMA WorksInv ==
  ASSUME QueueInv, TypeOK', NEW d \in Devices, Works(d)
  PROVE  QueueInv'
  <1>1. TypeOK /\ "round" \in Kinds /\ Idle \in Flow
    BY DEF QueueInv, Kinds, Flow
  <1>2. CASE StartRound(d)
    <2>1. UNCHANGED <<written, agreed, choice, late, held>> /\ flow' = Begun(d)
      BY <1>2 DEF StartRound, phone
    <2>2. \A e \in Devices : \A k \in Kinds :
            flow'[e][k] = flow[e][k] \/ GoodFlow(written', held'[e], flow'[e][k])
      BY <1>1, <2>1, BegunType DEF GoodFlow
    <2> QED  BY <1>1, <2>1, <2>2, SameGrows, Carried
  <1>3. CASE ServerGet(d)
    <2> DEFINE a == flow[d]["round"].who
               g == [stage |-> "told", who |-> a,
                     server |-> [of |-> a, list |-> Current(a), version |-> Version(a)]]
    <2>1. UNCHANGED <<written, agreed, choice, late, held>> /\ Goto(d, "round", g)
      BY <1>3 DEF ServerGet, phone
    <2>2. a \in Accounts
      <3>1. flow[d]["round"] \in Flow /\ flow[d]["round"].stage = "ask"
        BY <1>1, <1>3 DEF ServerGet, TypeOK
      <3> QED  BY <3>1, FlowFields
    <2>3. Current(a) \in Lists /\ Version(a) \in Nat
      BY <1>1, <2>2, CurrentList
    <2>4. g \in Flow
      BY <2>2, <2>3 DEF Flow, Seen
    <2>5. Was(written', a, Current(a), Version(a))
      BY <2>1, <2>3 DEF Was, Current, Version, At
    <2>6. GoodFlow(written', held'[d], g)
      BY <2>5 DEF GoodFlow, GoodSeen
    <2> HIDE DEF a, g
    <2>7. \A e \in Devices, k \in Kinds :
            flow'[e][k] = IF e = d /\ k = "round" THEN g ELSE flow[e][k]
      BY <1>1, <2>1, <2>4, GotoType DEF TypeOK
    <2>8. \A e \in Devices : \A k \in Kinds :
            flow'[e][k] = flow[e][k] \/ GoodFlow(written', held'[e], flow'[e][k])
      BY <2>6, <2>7
    <2> QED  BY <1>1, <2>1, <2>8, SameGrows, Carried
  <1>4. ASSUME NEW k \in Kinds, ServerPut(d, k)
        PROVE  QueueInv'
    <2> DEFINE f == flow[d][k]
    <2>1. f \in Flow /\ f.stage = "put"
      BY <1>1, <1>4 DEF ServerPut, TypeOK
    <2>2. Goto(d, k, PutAnswer(f)) /\ Commit(d, f) /\ UNCHANGED <<agreed, choice, late>>
      BY <1>4 DEF ServerPut, PutAnswer, phone
    <2>3. Grows(written, written') /\ \A e \in Devices : held[e] \subseteq held'[e]
      BY <1>1, <2>1, <2>2, CommitGrows
    <2>4. GoodFlow(written', held'[d], PutAnswer(f)) /\ PutAnswer(f) \in Flow
      BY <1>1, <2>1, <2>2, CommitAnswer, PutAnswerFlow
    <2> HIDE DEF f
    <2>5. \A e \in Devices, j \in Kinds :
            flow'[e][j] = IF e = d /\ j = k THEN PutAnswer(f) ELSE flow[e][j]
      BY <1>1, <2>2, <2>4, GotoType DEF TypeOK
    <2>6. \A e \in Devices : \A j \in Kinds :
            flow'[e][j] = flow[e][j] \/ GoodFlow(written', held'[e], flow'[e][j])
      BY <2>4, <2>5
    <2> QED  BY <2>2, <2>3, <2>6, Carried
  <1>5. ASSUME NEW k \in Kinds, Answered(d, k)
        PROVE  QueueInv'
    <2> DEFINE f == flow[d][k]
    <2>1. f \in Flow /\ GoodFlow(written, held[d], f)
      BY <1>1 DEF QueueInv, TypeOK
    <2>2. UNCHANGED <<written, late, held>> /\ Goto(d, k, Idle)
      BY <1>5 DEF Answered
    <2>3. \A e \in Devices : \A j \in Kinds :
            flow'[e][j] = flow[e][j] \/ GoodFlow(written', held'[e], flow'[e][j])
      <3>1. GoodFlow(written', held'[d], Idle)
        BY DEF GoodFlow, Idle
      <3>2. \A e \in Devices, j \in Kinds :
              flow'[e][j] = IF e = d /\ j = k THEN Idle ELSE flow[e][j]
        BY <1>1, <2>2, GotoType DEF TypeOK
      <3> QED  BY <3>1, <3>2
    <2>4. CASE f.stage = "kept"
      <3> DEFINE g == [who |-> f.who, list |-> f.list, version |-> f.version]
      <3>1. agreed' = [agreed EXCEPT ![d] = g] /\ choice' = choice
        BY <1>5, <2>4 DEF Answered, Agree
      <3>2. f.account \in Accounts /\ f.who \in Accounts
        BY <2>1, <2>4, FlowFields
      <3>3. Was(written, f.account, f.list, f.version) /\ <<f.account, f.version>> \in held[d]
        BY <2>1, <2>4 DEF GoodFlow
      <3>4. OneAccount => f.account = f.who
        BY <3>2 DEF OneAccount
      <3>5. GoodAgreed(written', held'[d], g)
        BY <2>2, <3>2, <3>3, <3>4 DEF GoodAgreed
      <3> HIDE DEF g
      <3>6. \A e \in Devices :
              agreed'[e] = agreed[e] \/ GoodAgreed(written', held'[e], agreed'[e])
        BY <1>1, <3>1, <3>5 DEF TypeOK
      <3> HIDE DEF f
      <3> QED  BY <1>1, <2>2, <2>3, <3>1, <3>6, SameGrows, Carried
    <2>5. CASE f.stage = "refused"
      <3>1. choice' = [choice EXCEPT ![d] = f.server] /\ agreed' = agreed
        BY <1>5, <2>5 DEF Answered
      <3>2. GoodSeen(written', f.server)
        BY <2>1, <2>2, <2>5 DEF GoodFlow
      <3>3. \A e \in Devices : choice'[e] \in {choice[e], None} \/ GoodSeen(written', choice'[e])
        BY <1>1, <3>1, <3>2 DEF TypeOK
      <3> HIDE DEF f
      <3> QED  BY <1>1, <2>2, <2>3, <3>1, <3>3, SameGrows, Carried
    <2> QED  BY <1>5, <2>4, <2>5 DEF Answered
  <1> QED  BY <1>2, <1>3, <1>4, <1>5, DecideInv DEF Works

LEMMA FailsInv ==
  ASSUME QueueInv, TypeOK', NEW d \in Devices, Fails(d)
  PROVE  QueueInv'
  <1>1. TypeOK /\ Idle \in Flow /\ Kinds \in SUBSET Kinds
    BY DEF QueueInv, Flow
  <1>2. GoodFlow(written', held'[d], Idle)
    BY DEF GoodFlow, Idle
  <1>3. CASE Kill(d)
    <2>1. /\ UNCHANGED <<written, agreed, held>>
          /\ choice' = [choice EXCEPT ![d] = None]
          /\ flow' = [flow EXCEPT ![d] = [k \in Kinds |-> Idle]]
          /\ late' = late \cup Abandoned(d, Kinds)
      BY <1>3 DEF Kill
    <2>2. \A e \in Devices : choice'[e] \in {choice[e], None}
      BY <1>1, <2>1 DEF TypeOK
    <2>3. \A e \in Devices : \A k \in Kinds : flow'[e][k] = flow[e][k] \/ (e = d /\ flow'[e][k] = Idle)
      BY <1>1, <2>1 DEF TypeOK
    <2>4. \A e \in Devices : \A k \in Kinds :
            flow'[e][k] = flow[e][k] \/ GoodFlow(written', held'[e], flow'[e][k])
      BY <1>2, <2>3
    <2>5. \A p \in late' : p \in late \/ \E k \in Kinds : p.put = flow[p.dev][k]
      BY <1>1, <2>1, AbandonedType
    <2> QED  BY <1>1, <2>1, <2>2, <2>4, <2>5, SameGrows, Carried
  <1>4. ASSUME NEW k \in Kinds, GiveUp(d, k)
        PROVE  QueueInv'
    <2>1. /\ UNCHANGED <<written, agreed, choice, held>>
          /\ Goto(d, k, Idle) /\ late' = late \cup Abandoned(d, {k})
      BY <1>4 DEF GiveUp, phone
    <2>2. \A e \in Devices, j \in Kinds :
            flow'[e][j] = IF e = d /\ j = k THEN Idle ELSE flow[e][j]
      BY <1>1, <2>1, GotoType DEF TypeOK
    <2>3. \A e \in Devices : \A j \in Kinds :
            flow'[e][j] = flow[e][j] \/ GoodFlow(written', held'[e], flow'[e][j])
      BY <1>2, <2>2
    <2>4. {k} \in SUBSET Kinds
      OBVIOUS
    <2>5. \A p \in late' : p \in late \/ \E j \in Kinds : p.put = flow[p.dev][j]
      BY <1>1, <2>1, <2>4, AbandonedType
    <2> QED  BY <1>1, <2>1, <2>3, <2>5, SameGrows, Carried
  <1> QED  BY <1>3, <1>4 DEF Fails

LEMMA QueueInit ==
  ASSUME Init
  PROVE  QueueInv
  <1>1. TypeOK
    <2>1. [k \in Kinds |-> Idle] \in [Kinds -> Flow]
      BY DEF Flow
    <2>2. << >> \in Seq(Lists) /\ << >> \in Seq(Contents)
      BY EmptySeq
    <2>3. Empty \in Lists
      BY DEF Lists
    <2> QED  BY <2>1, <2>2, <2>3 DEF Init, TypeOK
  <1>2. \A d \in Devices : \A k \in Kinds : GoodFlow(written, held[d], flow[d][k])
    BY DEF Init, GoodFlow, Idle
  <1> QED  BY <1>1, <1>2 DEF Init, QueueInv

LEMMA QueueStep ==
  ASSUME QueueInv, [Next]_vars
  PROVE  QueueInv'
  <1>1. TypeOK /\ TypeOK'
    BY QueueTypes DEF QueueInv
  <1>2. CASE UNCHANGED vars
    <2>1. UNCHANGED <<written, agreed, choice, flow, late, held>>
      BY <1>2 DEF vars, phone
    <2> QED  BY <1>1, <2>1, SameGrows, Carried
  <1>3. ASSUME NEW p \in late, ServerPutLate(p)
        PROVE  QueueInv'
    <2>1. p.dev \in Devices /\ p.put \in Flow /\ p.put.stage = "put"
      BY <1>1 DEF TypeOK
    <2>2. Commit(p.dev, p.put) /\ late' = late \ {p} /\ UNCHANGED <<agreed, choice, flow>>
      BY <1>3 DEF ServerPutLate, phone
    <2>3. Grows(written, written') /\ \A e \in Devices : held[e] \subseteq held'[e]
      BY <1>1, <2>1, <2>2, CommitGrows
    <2> QED  BY <1>1, <2>2, <2>3, Carried
  <1> QED  BY <1>1, <1>2, <1>3, ListenerInv, WorksInv, FailsInv DEF Next

THEOREM QueueInvariant == Spec => []QueueInv
  BY QueueInit, QueueStep, PTL DEF Spec

-----------------------------------------------------------------------------
(* Theorems *)

\* Lists, requests and backups keep their shape; empty lists are not kept as
\* backups (sync/queue.ts).
THEOREM TypeCorrect == Spec => []TypeOK
  <1>1. QueueInv => TypeOK
    BY DEF QueueInv
  <1> QED  BY <1>1, QueueInvariant, PTL

\* Of one account: what a phone believes to share with it is what the account
\* had under that version, for any phones, edits and requests given up.
THEOREM AgreementIsShared ==
  ASSUME OneAccount
  PROVE  Spec => []AgreedIsShared
  <1>1. QueueInv => AgreedIsShared
    BY OneAccount DEF QueueInv, GoodAgreed, Was, AgreedIsShared, Version, At
  <1> QED  BY <1>1, QueueInvariant, PTL

\* Which steps change the list of a phone, and how.
LEMMA LocalChanges ==
  ASSUME QueueInv, [Next]_vars, NEW d \in Devices, local'[d] # local[d]
  PROVE  \/ \E l \in Lists : Edit(d, l)
         \/ TakeServers(d)
         \/ \E i \in DOMAIN backups[d] : Restore(d, i)
         \/ /\ Decide(d) /\ local'[d] = flow[d]["round"].server.list
            /\ Plan(local[d], flow[d]["round"].server,
                    Agreed(d, flow[d]["round"].who)) = "pull"
  <1>1. local \in [Devices -> Lists]
    BY DEF QueueInv, TypeOK
  <1>2. PICK e \in Devices :
          \/ \E l \in Lists : Edit(e, l)
          \/ TakeServers(e)
          \/ \E i \in DOMAIN backups[e] : Restore(e, i)
          \/ Decide(e)
    BY DEF Next, vars, phone, Listener, Works, Fails, Switch, KeepMine,
           StartRound, ServerGet, ServerPut, Answered, Kill, GiveUp, ServerPutLate
  <1>3. e = d
    <2>1. \E l : local' = [local EXCEPT ![e] = l]
      BY <1>1, <1>2 DEF Edit, TakeServers, Restore, Decide
    <2> QED  BY <1>1, <2>1
  <1>4. CASE Decide(d)
    BY <1>1, <1>4 DEF Decide
  <1> QED  BY <1>2, <1>3, <1>4

\* A list leaves a phone without an edit only when an account has had it or it
\* is among the phone's backups, for any accounts, phones and failures.
THEOREM NothingIsLost == Spec => NothingLostOnPhone
  <1> DEFINE A == \A d \in Devices :
       local'[d] # local[d] => Accounted(d, local[d]) \/ \E l \in Lists : Edit(d, l)
  <1>1. QueueInv /\ [Next]_vars => [A]_vars
    <2> SUFFICES ASSUME QueueInv, [Next]_vars, NEW d \in Devices,
                        local'[d] # local[d], ~\E l \in Lists : Edit(d, l)
                 PROVE  Accounted(d, local[d])
      OBVIOUS
    <2>1. local[d] \in Lists /\ backups[d] \in Seq(Contents) /\ backups \in [Devices -> Seq(Contents)]
      BY DEF QueueInv, TypeOK
    <2>2. CASE TakeServers(d) \/ \E i \in DOMAIN backups[d] : Restore(d, i)
      <3>1. backups'[d] = BackedUp(backups[d], local[d])
        BY <2>1, <2>2 DEF TakeServers, Restore
      <3> QED  BY <2>1, <3>1, BackedUpLists DEF Accounted
    <2>3. ASSUME Plan(local[d], flow[d]["round"].server,
                      Agreed(d, flow[d]["round"].who)) = "pull"
          PROVE  Accounted(d, local[d])
      <3> DEFINE base == Agreed(d, flow[d]["round"].who)
      <3>1. CASE base = None
        BY <2>3, <3>1 DEF Plan, Accounted
      <3>2. CASE base # None
        <4>1. base = agreed[d] /\ agreed[d] # None /\ local[d] = base.list
          BY <2>3, <3>2 DEF Plan, Agreed
        <4>2. PICK a \in Accounts : Was(written, a, agreed[d].list, agreed[d].version)
          BY <4>1 DEF QueueInv, GoodAgreed
        <4>3. agreed[d].version \in Nat
          BY <4>1 DEF QueueInv, TypeOK
        <4>4. CASE agreed[d].version = 0
          BY <4>1, <4>2, <4>4 DEF Was, Accounted
        <4>5. CASE agreed[d].version # 0
          <5>1. Len(written[a]) \in Nat
            BY LenProperties DEF QueueInv, TypeOK
          <5>2. agreed[d].version \in 1..Version(a)
            BY <4>2, <4>3, <4>5, <5>1 DEF Was, Version
          <5>3. local[d] = written[a][agreed[d].version]
            BY <4>1, <4>2, <4>5 DEF Was
          <5> QED  BY <5>2, <5>3 DEF Accounted
        <4> QED  BY <4>4, <4>5
      <3> QED  BY <3>1, <3>2
    <2> QED  BY <2>2, <2>3, LocalChanges
  <1> QED  BY <1>1, QueueInvariant, PTL DEF Spec, NothingLostOnPhone

\* queue-sync.ts: an empty list of the account never empties a playlist by
\* itself; neither does a backup.
THEOREM OnlyTheListenerEmpties == Spec => EmptiedOnlyByHand
  <1> DEFINE A == \A d \in Devices :
       local[d] # Empty /\ local'[d] = Empty =>
         TakeServers(d) \/ \E l \in Lists : Edit(d, l)
  <1>1. QueueInv /\ [Next]_vars => [A]_vars
    <2> SUFFICES ASSUME QueueInv, [Next]_vars, NEW d \in Devices,
                        local[d] # Empty, local'[d] = Empty,
                        ~TakeServers(d), ~\E l \in Lists : Edit(d, l)
                 PROVE  FALSE
      OBVIOUS
    <2>1. local \in [Devices -> Lists] /\ backups[d] \in Seq(Contents)
      BY DEF QueueInv, TypeOK
    <2>2. ASSUME NEW i \in DOMAIN backups[d], Restore(d, i)
          PROVE  FALSE
      <3>1. backups[d][i] \in Contents
        BY <2>1, LenProperties, ElementOfSeq
      <3>2. local'[d] = backups[d][i]
        BY <2>1, <2>2 DEF Restore
      <3> QED  BY <3>1, <3>2, QueueConstants
    <2>3. ASSUME local'[d] = flow[d]["round"].server.list,
                 Plan(local[d], flow[d]["round"].server,
                      Agreed(d, flow[d]["round"].who)) = "pull"
          PROVE  FALSE
      BY <2>3 DEF Plan
    <2> QED  BY <2>2, <2>3, LocalChanges
  <1> QED  BY <1>1, QueueInvariant, PTL DEF Spec, EmptiedOnlyByHand

-----------------------------------------------------------------------------
(* Refinement: the account's list is replaced only by a phone that held it  *)

AccountLists == [a \in Accounts |-> Current(a)]
Versions == [a \in Accounts |-> Version(a)]

\* The server's write is the abstract replacement.
LEMMA CommitReplaces ==
  ASSUME TypeOK, TypeOK', NEW d \in Devices, NEW put \in Flow, put.stage = "put",
         GoodPut(written, held[d], put), OneAccount, Commit(d, put)
  PROVE  Account!Next \/ UNCHANGED <<AccountLists, Versions, held>>
  <1> DEFINE a == put.account
  <1>1. a \in Accounts /\ put.list \in Lists /\ put.base \in Nat
    BY FlowFields
  <1>2. CASE ~Writes(put)
    BY <1>2 DEF Commit, AccountLists, Versions, Current, Version, At
  <1>3. CASE Writes(put)
    <2>1. /\ written' = [written EXCEPT ![a] = Append(written[a], put.list)]
          /\ held' = [held EXCEPT ![d] = held[d] \cup {<<a, put.base + 1>>}]
          /\ put.base = Version(a)
      BY <1>3 DEF Commit, Writes
    <2>2. written[a] \in Seq(Lists) /\ written \in [Accounts -> Seq(Lists)]
      BY <1>1 DEF TypeOK
    <2>3. written'[a] = Append(written[a], put.list)
          /\ \A b \in Accounts : b # a => written'[b] = written[b]
      BY <1>1, <2>1, <2>2
    <2>4. Len(written'[a]) = Len(written[a]) + 1 /\ Len(written[a]) \in Nat
          /\ written'[a][Len(written[a]) + 1] = put.list
      BY <1>1, <2>2, <2>3, VersionsStay
    <2>5. /\ Version(a) \in Nat /\ Version(a)' = Version(a) + 1
          /\ Current(a)' = put.list
      BY <2>4 DEF Version, Current, At
    <2>6. \A b \in Accounts : b # a => Version(b)' = Version(b) /\ Current(b)' = Current(b)
      BY <2>3 DEF Version, Current, At
    <2>7. Current(a) = Empty \/ <<a, Version(a)>> \in held[d]
      <3>1. <<a, put.base>> \in held[d] \/ Was(written, a, Empty, put.base)
        BY OneAccount DEF GoodPut
      <3> QED  BY <2>1, <3>1 DEF Was, Current, At
    <2>8. AccountLists' = [AccountLists EXCEPT ![a] = put.list]
      BY <1>1, <2>5, <2>6 DEF AccountLists
    <2>9. Versions' = [Versions EXCEPT ![a] = Versions[a] + 1]
      BY <1>1, <2>5, <2>6 DEF Versions
    <2>10. AccountLists[a] = Current(a) /\ Versions[a] = Version(a)
      BY <1>1 DEF AccountLists, Versions
    <2>11. Account!Replace(d, a, put.list)
      <3>1. held' = [held EXCEPT ![d] = held[d] \cup {<<a, Versions[a] + 1>>}]
        BY <2>1, <2>10
      <3> HIDE DEF a
      <3> QED  BY <2>7, <2>8, <2>9, <2>10, <3>1 DEF Account!Replace, AccountLists, Versions
    <2> QED  BY <1>1, <2>11 DEF Account!Next
  <1> QED  BY <1>2, <1>3

\* What a phone takes or saves is the abstract step of keeping it.
LEMMA HoldsKeeps ==
  ASSUME TypeOK, NEW d \in Devices, NEW s \in Seen, GoodSeen(written, s),
         Holds(d, s), written' = written
  PROVE  Account!Next
  <1>1. s.of \in Accounts /\ s.version \in Nat /\ s.version <= Version(s.of)
        /\ Version(s.of) \in Nat
    BY CurrentList DEF Seen, GoodSeen, Was, Version
  <1>2. UNCHANGED <<AccountLists, Versions>>
    BY DEF AccountLists, Versions, Current, Version, At
  <1>3. s.version \in 0..Versions[s.of]
    BY <1>1 DEF Versions
  <1>4. held' = [held EXCEPT ![d] = held[d] \cup {<<s.of, s.version>>}]
    BY DEF Holds
  <1>5. Account!Keep(d, s.of)
    BY <1>2, <1>3, <1>4 DEF Account!Keep, AccountLists, Versions
  <1> QED  BY <1>1, <1>5 DEF Account!Next

LEMMA StepIsReplaceOrKeep ==
  ASSUME QueueInv, TypeOK', [Next]_vars, OneAccount
  PROVE  Account!Next \/ UNCHANGED <<AccountLists, Versions, held>>
  <1>1. TypeOK /\ "round" \in Kinds
    BY DEF QueueInv, Kinds
  <1>2. ASSUME NEW d \in Devices, TakeServers(d) \/ KeepMine(d)
        PROVE  Account!Next
    <2>1. choice[d] \in Seen /\ GoodSeen(written, choice[d])
      BY <1>1, <1>2 DEF TakeServers, KeepMine, QueueInv, TypeOK
    <2>2. Holds(d, choice[d]) /\ written' = written
      BY <1>2 DEF TakeServers, KeepMine
    <2> QED  BY <1>1, <2>1, <2>2, HoldsKeeps
  <1>3. ASSUME NEW d \in Devices, Decide(d)
        PROVE  Account!Next \/ UNCHANGED <<written, held>>
    <2> DEFINE s == flow[d]["round"].server
    <2>1. s \in Seen /\ GoodSeen(written, s)
      <3>1. flow[d]["round"] \in Flow /\ flow[d]["round"].stage = "told"
            /\ GoodFlow(written, held[d], flow[d]["round"])
        BY <1>1, <1>3 DEF Decide, QueueInv, TypeOK
      <3> QED  BY <3>1, FlowFields DEF GoodFlow
    <2>2. written' = written /\ (Holds(d, s) \/ held' = held)
      BY <1>3 DEF Decide
    <2> HIDE DEF s
    <2> QED  BY <1>1, <2>1, <2>2, HoldsKeeps
  <1>4. ASSUME NEW d \in Devices, NEW k \in Kinds, ServerPut(d, k)
        PROVE  Account!Next \/ UNCHANGED <<AccountLists, Versions, held>>
    <2> DEFINE f == flow[d][k]
    <2>1. f \in Flow /\ f.stage = "put" /\ Commit(d, f) /\ GoodFlow(written, held[d], f)
      BY <1>1, <1>4 DEF ServerPut, QueueInv, TypeOK
    <2> HIDE DEF f
    <2>2. GoodPut(written, held[d], f)
      BY <2>1 DEF GoodFlow
    <2> QED  BY <1>1, <2>1, <2>2, CommitReplaces
  <1>5. ASSUME NEW p \in late, ServerPutLate(p)
        PROVE  Account!Next \/ UNCHANGED <<AccountLists, Versions, held>>
    <2>1. p.dev \in Devices /\ p.put \in Flow /\ p.put.stage = "put"
          /\ GoodPut(written, held[p.dev], p.put) /\ Commit(p.dev, p.put)
      BY <1>1, <1>5 DEF ServerPutLate, QueueInv, TypeOK
    <2> QED  BY <1>1, <2>1, CommitReplaces
  <1>6. UNCHANGED <<written, held>> => UNCHANGED <<AccountLists, Versions, held>>
    BY DEF AccountLists, Versions, Current, Version, At
  <1>7. \/ UNCHANGED <<written, held>>
        \/ \E d \in Devices : TakeServers(d) \/ KeepMine(d) \/ Decide(d)
        \/ \E d \in Devices, k \in Kinds : ServerPut(d, k)
        \/ \E p \in late : ServerPutLate(p)
    BY DEF Next, vars, Listener, Works, Fails, Edit, Switch, Restore,
           StartRound, ServerGet, Answered, Kill, GiveUp
  <1> QED  BY <1>2, <1>3, <1>4, <1>5, <1>6, <1>7

\* Of one account: its list is replaced only by a phone that has held or saved
\* that very version, or when it is empty: "last writer asks" (queue-sync.ts).
THEOREM SyncImplementsKeptQueue ==
  ASSUME OneAccount
  PROVE  Spec => ReplacedOnlyIfKept
  <1>1. Init => Account!Init
    BY DEF Init, Account!Init, Current, Version, At
  <1>2. QueueInv /\ TypeOK' /\ [Next]_vars => [Account!Next]_<<AccountLists, Versions, held>>
    BY OneAccount, StepIsReplaceOrKeep
  <1>3. QueueInv /\ QueueInv' /\ [Next]_vars => [Account!Next]_<<AccountLists, Versions, held>>
    BY <1>2 DEF QueueInv
  <1> QED  BY <1>1, <1>3, QueueInvariant, PTL
           DEF Spec, ReplacedOnlyIfKept, Account!Spec, AccountLists, Versions

=============================================================================
