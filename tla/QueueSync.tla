------------------------------ MODULE QueueSync ------------------------------
(***************************************************************************)
(* The playlist of an account on its phones: apps/mobile/src/sync/queue.ts *)
(* over planQueueSync of packages/player-core, and the account's row       *)
(* (getQueue, putQueue of the API's profile.ts).                           *)
(*                                                                         *)
(* A phone runs at most two requests at once: a round (single flight) and  *)
(* the upload of a list its listener chose to keep.  A request the phone   *)
(* gave up on (10 s, a killed app) may still reach the server.  The token  *)
(* is read when a request is sent, the listener when the round begins.     *)
(***************************************************************************)
EXTENDS Naturals, Sequences, SequencesExt

CONSTANTS
  Accounts, Devices,
  Contents,      \* lists that hold an episode
  Empty,         \* the list without episodes
  None,
  BackupsKeep,   \* BACKUPS_KEEP
  MaxActs,       \* bound: edits, answers and restores by the listener
  MaxFailures,   \* bound: requests given up and apps killed
  MaxSwitches    \* bound: sign-ins and sign-outs

Lists == Contents \cup {Empty}

ASSUME QueueConstants ==
  /\ Empty \notin Contents
  /\ None \notin Accounts
  /\ BackupsKeep \in Nat \ {0}
  /\ {MaxActs, MaxFailures, MaxSwitches} \subseteq Nat

VARIABLES
  written,   \* every list each account was given, the last one is its row
  me,        \* who is signed in on each phone
  local,     \* the phone's list
  agreed,    \* settings queue.synced: what phone and account last agreed on
  choice,    \* the question the chooser shows
  backups,   \* newest first
  flow,      \* the phone's requests
  late,      \* uploads nobody waits for any more
  held,      \* history: the versions a phone has held or saved
  acts, failures, switches

bounds == <<acts, failures, switches>>
phone == <<local, agreed, choice, backups>>
vars == <<written, me, phone, flow, late, held, bounds>>

-----------------------------------------------------------------------------
(* The account's row *)

Version(a) == Len(written[a])
At(a, v) == IF v = 0 THEN Empty ELSE written[a][v]
Current(a) == At(a, Version(a))

-----------------------------------------------------------------------------
(* planQueueSync *)

\* Mutant: an account that did not move is taken for agreement.
PlanByVersion(mine, server, base) ==
  LET moved == base = None \/ server.version # base.version IN
  IF mine = server.list \/ ~moved THEN "none"
  ELSE IF base # None THEN IF mine # base.list THEN "choose" ELSE "pull"
  ELSE IF mine = Empty THEN "pull" ELSE IF server.list = Empty THEN "push" ELSE "choose"

\* Mutant: when the account moved, its list is taken.
PlanPulling(mine, server, base) ==
  LET moved == base # None /\ server.version # base.version IN
  IF mine = server.list THEN "none"
  ELSE IF moved /\ server.list # Empty THEN "pull"
  ELSE IF base # None \/ server.list = Empty THEN "push"
  ELSE IF mine = Empty THEN "pull" ELSE "choose"

Plan(mine, server, base) ==
  LET first == IF mine = Empty THEN "pull"
               ELSE IF server.list = Empty THEN "push" ELSE "choose"
      mineChanged == mine # base.list
      moved == server.version # base.version
  IN  IF mine = server.list THEN "none"
      ELSE IF base = None THEN first
      ELSE IF mineChanged THEN IF moved THEN "choose" ELSE "push"
      ELSE IF server.list = Empty THEN "choose" ELSE "pull"

\* readAgreed: only of the listener who is asked about.
Agreed(d, a) == IF agreed[d] # None /\ agreed[d].who = a THEN agreed[d] ELSE None

-----------------------------------------------------------------------------
(* Requests *)

Idle == [stage |-> "idle"]
Kinds == {"round", "choice"}
Seen == [of: Accounts, list: Lists, version: Nat]
Flow == {Idle}
  \cup [stage: {"ask"}, who: Accounts]
  \cup [stage: {"told"}, who: Accounts, server: Seen]
  \cup [stage: {"put"}, who: Accounts, account: Accounts, list: Lists, base: Nat]
  \cup [stage: {"kept"}, who: Accounts, account: Accounts, list: Lists, version: Nat]
  \cup [stage: {"refused"}, who: Accounts, server: Seen]

Goto(d, k, f) == flow' = [flow EXCEPT ![d][k] = f]

\* push: sent with the token of whoever is signed in now; without one it fails.
Push(d, k, who, list, base) ==
  Goto(d, k, IF me[d] = None THEN Idle
             ELSE [stage |-> "put", who |-> who, account |-> me[d],
                   list |-> list, base |-> base])

Agree(d, a, list, version) ==
  agreed' = [agreed EXCEPT ![d] = [who |-> a, list |-> list, version |-> version]]

\* history
Holds(d, seen) == held' = [held EXCEPT ![d] = @ \cup {<<seen.of, seen.version>>}]

\* backup: empty lists are not kept, and of the others the newest BackupsKeep.
BackedUp(old, list) ==
  IF list = Empty THEN old
  ELSE LET all == <<list>> \o old IN IF Len(all) > BackupsKeep THEN Front(all) ELSE all

-----------------------------------------------------------------------------
(* The phone *)

Init ==
  /\ written = [a \in Accounts |-> << >>]
  /\ me \in [Devices -> Accounts]
  /\ local = [d \in Devices |-> Empty]
  /\ agreed = [d \in Devices |-> None]
  /\ choice = [d \in Devices |-> None]
  /\ backups = [d \in Devices |-> << >>]
  /\ flow = [d \in Devices |-> [k \in Kinds |-> Idle]]
  /\ late = {}
  /\ held = [d \in Devices |-> {}]
  /\ acts = 0 /\ failures = 0 /\ switches = 0

Edit(d, l) ==
  /\ acts < MaxActs /\ l # local[d]
  /\ acts' = acts + 1
  /\ local' = [local EXCEPT ![d] = l]
  /\ UNCHANGED <<written, me, agreed, choice, backups, flow, late, held, failures, switches>>

\* The pending choice and the requests under way outlive the sign-out.
Switch(d, a) ==
  /\ switches < MaxSwitches
  /\ (me[d] = None) # (a = None)
  /\ switches' = switches + 1
  /\ me' = [me EXCEPT ![d] = a]
  /\ UNCHANGED <<written, phone, flow, late, held, acts, failures>>

\* sync: joins the round that runs; does nothing while a question is open.
Begun(d) ==
  IF flow[d]["round"] = Idle /\ me[d] # None /\ choice[d] = None
  THEN [flow EXCEPT ![d]["round"] = [stage |-> "ask", who |-> me[d]]]
  ELSE flow

StartRound(d) ==
  /\ Begun(d) # flow
  /\ flow' = Begun(d)
  /\ UNCHANGED <<written, me, phone, late, held, bounds>>

\* The local list is read when the account's has arrived.
Decide(d) ==
  LET f == flow[d]["round"]
      plan == Plan(local[d], f.server, Agreed(d, f.who))
  IN
  /\ f.stage = "told"
  /\ \/ /\ plan \in {"none", "pull"}
        /\ local' = [local EXCEPT ![d] = IF plan = "pull" THEN f.server.list ELSE @]
        /\ Agree(d, f.who, f.server.list, f.server.version)
        /\ Holds(d, f.server)
        /\ Goto(d, "round", Idle)
        /\ UNCHANGED choice
     \/ /\ plan = "push"
        /\ Push(d, "round", f.who, local[d], f.server.version)
        /\ UNCHANGED <<local, agreed, choice, held>>
     \/ /\ plan = "choose"
        /\ choice' = [choice EXCEPT ![d] = f.server]
        /\ Goto(d, "round", Idle)
        /\ UNCHANGED <<local, agreed, held>>
  /\ UNCHANGED <<written, me, backups, late, bounds>>

\* Mutant: the list as it is now is taken for the one that was sent.
AnsweredLater(d, k) ==
  LET f == flow[d][k] IN
  /\ \/ /\ f.stage = "kept"
        /\ Agree(d, f.who, local[d], f.version)
        /\ UNCHANGED choice
     \/ /\ f.stage = "refused"
        /\ choice' = [choice EXCEPT ![d] = f.server]
        /\ UNCHANGED agreed
  /\ Goto(d, k, Idle)
  /\ UNCHANGED <<written, me, local, backups, late, held, bounds>>

\* push, after the await: a refusal asks the listener.
Answered(d, k) ==
  LET f == flow[d][k] IN
  /\ \/ /\ f.stage = "kept"
        /\ Agree(d, f.who, f.list, f.version)
        /\ UNCHANGED choice
     \/ /\ f.stage = "refused"
        /\ choice' = [choice EXCEPT ![d] = f.server]
        /\ UNCHANGED agreed
  /\ Goto(d, k, Idle)
  /\ UNCHANGED <<written, me, local, backups, late, held, bounds>>

\* choose('server'): the list as it was when the question was asked.
TakeServers(d) ==
  LET c == choice[d] IN
  /\ acts < MaxActs
  /\ c # None /\ me[d] # None
  /\ choice' = [choice EXCEPT ![d] = None]
  /\ backups' = [backups EXCEPT ![d] = BackedUp(@, local[d])]
  /\ local' = [local EXCEPT ![d] = c.list]
  /\ Agree(d, me[d], c.list, c.version)
  /\ Holds(d, c)
  /\ acts' = acts + 1
  /\ UNCHANGED <<written, me, flow, late, failures, switches>>

\* choose('local').  Bound: one upload of a chosen list at a time.
KeepMine(d) ==
  LET c == choice[d] IN
  /\ acts < MaxActs
  /\ c # None /\ me[d] # None /\ flow[d]["choice"] = Idle
  /\ choice' = [choice EXCEPT ![d] = None]
  /\ backups' = [backups EXCEPT ![d] = BackedUp(@, c.list)]
  /\ Holds(d, c)
  /\ Push(d, "choice", me[d], local[d], c.version)
  /\ acts' = acts + 1
  /\ UNCHANGED <<written, me, local, agreed, late, failures, switches>>

Restore(d, i) ==
  /\ acts < MaxActs
  /\ acts' = acts + 1
  /\ backups' = [backups EXCEPT ![d] = BackedUp(@, local[d])]
  /\ local' = [local EXCEPT ![d] = backups[d][i]]
  /\ flow' = Begun(d)
  /\ UNCHANGED <<written, me, agreed, choice, late, held, failures, switches>>

-----------------------------------------------------------------------------
(* The server *)

ServerGet(d) ==
  LET f == flow[d]["round"] IN
  /\ f.stage = "ask"
  /\ Goto(d, "round", [stage |-> "told", who |-> f.who,
       server |-> [of |-> f.who, list |-> Current(f.who), version |-> Version(f.who)]])
  /\ UNCHANGED <<written, me, phone, late, held, bounds>>

\* Mutant: the version is not compared.
WritesAlways(put) == TRUE

\* putQueue's condition
Writes(put) == put.base = Version(put.account)

Commit(d, put) ==
  IF Writes(put)
  THEN /\ written' = [written EXCEPT ![put.account] = Append(@, put.list)]
       /\ held' = [held EXCEPT ![d] = @ \cup {<<put.account, put.base + 1>>}]
  ELSE UNCHANGED <<written, held>>

\* Read, compare, write under the condition, read again when it fails: the
\* condition decides, so these are one step.
ServerPut(d, k) ==
  LET f == flow[d][k] IN
  /\ f.stage = "put"
  /\ Commit(d, f)
  /\ Goto(d, k,
       IF Writes(f)
       THEN [stage |-> "kept", who |-> f.who, account |-> f.account,
             list |-> f.list, version |-> f.base + 1]
       ELSE [stage |-> "refused", who |-> f.who,
             server |-> [of |-> f.account, list |-> Current(f.account),
                         version |-> Version(f.account)]])
  /\ UNCHANGED <<me, phone, late, bounds>>

ServerPutLate(p) ==
  /\ Commit(p.dev, p.put)
  /\ late' = late \ {p}
  /\ UNCHANGED <<me, phone, flow, bounds>>

-----------------------------------------------------------------------------
(* Failures *)

Abandoned(d, ks) ==
  {[dev |-> d, put |-> flow[d][k]] : k \in {k \in ks : flow[d][k].stage = "put"}}

GiveUp(d, k) ==
  /\ failures < MaxFailures /\ flow[d][k] # Idle
  /\ failures' = failures + 1
  /\ late' = late \cup Abandoned(d, {k})
  /\ Goto(d, k, Idle)
  /\ UNCHANGED <<written, me, phone, held, acts, switches>>

\* The question and the requests are memory; the rest is stored.
Kill(d) ==
  /\ failures < MaxFailures
  /\ failures' = failures + 1
  /\ late' = late \cup Abandoned(d, Kinds)
  /\ flow' = [flow EXCEPT ![d] = [k \in Kinds |-> Idle]]
  /\ choice' = [choice EXCEPT ![d] = None]
  /\ UNCHANGED <<written, me, local, agreed, backups, held, acts, switches>>

-----------------------------------------------------------------------------
Listener(d) ==
  \/ \E l \in Lists : Edit(d, l)
  \/ \E a \in Accounts \cup {None} : Switch(d, a)
  \/ TakeServers(d) \/ KeepMine(d)
  \/ \E i \in DOMAIN backups[d] : Restore(d, i)

Works(d) ==
  \/ StartRound(d) \/ ServerGet(d) \/ Decide(d)
  \/ \E k \in Kinds : ServerPut(d, k) \/ Answered(d, k)

Fails(d) == Kill(d) \/ \E k \in Kinds : GiveUp(d, k)

Next ==
  \/ \E d \in Devices : Listener(d) \/ Works(d) \/ Fails(d)
  \/ \E p \in late : ServerPutLate(p)

Spec == Init /\ [][Next]_vars

\* The timer of 60 s starts rounds, and requests end (or are given up).  The
\* listener owes no answer.
Fairness == \A d \in Devices :
  /\ WF_vars(StartRound(d)) /\ WF_vars(ServerGet(d)) /\ WF_vars(Decide(d))
  /\ \A k \in Kinds : WF_vars(ServerPut(d, k)) /\ WF_vars(Answered(d, k))

FairSpec == Spec /\ Fairness

-----------------------------------------------------------------------------
(* Properties *)

TypeOK ==
  /\ written \in [Accounts -> Seq(Lists)]
  /\ me \in [Devices -> Accounts \cup {None}]
  /\ local \in [Devices -> Lists]
  /\ agreed \in [Devices -> [who: Accounts, list: Lists, version: Nat] \cup {None}]
  /\ choice \in [Devices -> Seen \cup {None}]
  /\ backups \in [Devices -> Seq(Contents)]
  /\ flow \in [Devices -> [Kinds -> Flow]]
  /\ \A p \in late : p.dev \in Devices /\ p.put \in Flow /\ p.put.stage = "put"
  /\ held \in [Devices -> SUBSET (Accounts \X Nat)]
  /\ acts \in Nat /\ failures \in Nat /\ switches \in Nat

\* What a phone believes to share with its account is what the account had
\* under that version (agree after a push records the list that was sent,
\* whatever the listener did meanwhile).
AgreedIsShared ==
  \A d \in Devices : agreed[d] # None =>
    /\ agreed[d].version <= Version(agreed[d].who)
    /\ agreed[d].list = At(agreed[d].who, agreed[d].version)

Accounted(d, l) ==
  \/ l = Empty
  \/ \E a \in Accounts : \E v \in 1..Version(a) : l = written[a][v]
  \/ \E i \in DOMAIN backups'[d] : l = backups'[d][i]

\* A list leaves a phone without the listener's edit only when an account
\* has had it or it is among the phone's backups: pulling and choosing never
\* lose what only this phone had.
NothingLostOnPhone ==
  [][\A d \in Devices :
       local'[d] # local[d] => Accounted(d, local[d]) \/ \E l \in Lists : Edit(d, l)]_vars

\* An empty list replaces a phone's playlist only by the listener's hand.
EmptiedOnlyByHand ==
  [][\A d \in Devices :
       local[d] # Empty /\ local'[d] = Empty =>
         TakeServers(d) \/ \E l \in Lists : Edit(d, l)]_vars

\* The account's list is replaced only by a phone that held or saved it.
Account == INSTANCE KeptQueue WITH
  list <- [a \in Accounts |-> Current(a)],
  version <- [a \in Accounts |-> Version(a)]
ReplacedOnlyIfKept == Account!Spec

\* Once the listener's acts and the failures end, each phone shows its account's list or the
\* question which list to keep, for good.
Follows ==
  <>[](\A d \in Devices :
         me[d] # None => choice[d] # None \/ local[d] = Current(me[d]))

=============================================================================
