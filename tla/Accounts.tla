------------------------------- MODULE Accounts -------------------------------
(***************************************************************************)
(* Accounts, sessions and the deletion of an account, on the server:       *)
(* apps/api/src/db/repos/account/ddb (deletion.ts, sessions.ts,            *)
(* listeners.ts) and the resumable jobs of jobs/outbox.ts that carry a     *)
(* deletion out.  One email address is followed through the accounts that  *)
(* own it, one after the other.                                            *)
(*                                                                         *)
(* A request and a worker read, then write: every awaited call that the    *)
(* outcome depends on is an action of its own.  The phases of a deletion   *)
(* that clear what the account wrote are one phase, "content".             *)
(***************************************************************************)
EXTENDS Naturals, FiniteSets

CONSTANTS
  Accounts, Tokens, Requests, Workers,
  First, FirstToken,  \* the account that owns the email at first, signed in
  None,
  MaxActs,            \* bound: requests of the listener
  MaxCrashes          \* bound: steps of a worker that fail or crash

ASSUME AccountConstants ==
  /\ First \in Accounts /\ FirstToken \in Tokens
  /\ None \notin Accounts \cup Tokens
  /\ MaxActs \in Nat /\ MaxCrashes \in Nat

Phases == {"content", "sessions", "partition", "unique", "listener", "done"}
Following == [content |-> "sessions", sessions |-> "partition",
              partition |-> "unique", unique |-> "listener", listener |-> "done"]

ASSUME NoneIsNoItem ==
  None \notin [phase: Phases, v: Nat] \cup [queued: BOOLEAN, cancelled: BOOLEAN]

VARIABLES
  email,      \* U#EMAIL: the account that owns the address
  listener,   \* the listener item
  deletion,   \* the DELETION item and its place in the queue of due ones
  job,        \* JOB#delete
  session,    \* SESS#<token>
  pointers,   \* L#<account>/SESS#...: the tokens of the device list
  request,    \* requests under way
  worker,
  confirmed,  \* history: accounts whose Keep was recorded, not left again
  acts, crashes

items == <<email, listener, deletion, job, session, pointers>>
vars == <<items, request, worker, confirmed, acts, crashes>>

Exists(a) == listener[a] \in {"active", "hidden"}
Signed(t) == session[t].is = "live"
New(t) == session[t].is = "new"
Idle == [do |-> "idle"]

-----------------------------------------------------------------------------
(* Sessions *)

\* newSessionItems, in one transaction with its pointer.
NewSession(a, pred) == [is |-> "live", acct |-> a, pred |-> pred, next |-> None]
NoSession(is) == [is |-> is, acct |-> None, pred |-> None, next |-> None]

\* deleteSessionChain: the session and those it replaced.
Chain(t) ==
  LET older(s) == {p \in Tokens : session[s].pred = p}
      reach[n \in Nat] == IF n = 0 THEN {t}
                          ELSE reach[n - 1] \cup UNION {older(s) : s \in reach[n - 1]}
  IN  {s \in Tokens : Signed(s) /\ s \in reach[Cardinality(Tokens)]}

\* Only the end of a chain, as it was read, has a pointer.
Ends(ts) == {t \in ts : session[t].next = None}

DeleteChain(a, ts, ends) ==
  /\ session' = [t \in Tokens |-> IF t \in ts THEN NoSession("gone") ELSE session[t]]
  /\ pointers' = [pointers EXCEPT ![a] = @ \ ends]

-----------------------------------------------------------------------------
(* Requests of the listener *)

Asks(r, pc) ==
  /\ acts < MaxActs /\ acts' = acts + 1
  /\ request[r] = Idle
  /\ request' = [request EXCEPT ![r] = pc]
  /\ UNCHANGED <<worker, crashes>>

Goes(r, pc) ==
  /\ request' = [request EXCEPT ![r] = pc]
  /\ UNCHANGED <<worker, acts, crashes>>

\* A right code, or the password: the owner of the address is read.
SignIn(r) ==
  /\ email # None /\ Exists(email)
  /\ Asks(r, [do |-> "session", acct |-> email])
  /\ UNCHANGED <<items, confirmed>>

\* createListener: the item and the claim of the address in one transaction.
SignUp(r) ==
  \E a \in Accounts :
    /\ email = None /\ listener[a] = "new"
    /\ email' = a
    /\ listener' = [listener EXCEPT ![a] = "active"]
    /\ Asks(r, [do |-> "session", acct |-> a])
    /\ UNCHANGED <<deletion, job, session, pointers, confirmed>>

\* insertSession: no condition on the listener.
PutSession(r) ==
  \E t \in Tokens :
    /\ request[r].do = "session" /\ New(t)
    /\ session' = [session EXCEPT ![t] = NewSession(request[r].acct, None)]
    /\ pointers' = [pointers EXCEPT ![request[r].acct] = @ \cup {t}]
    /\ Goes(r, Idle)
    /\ UNCHANGED <<email, listener, deletion, job, confirmed>>

\* rotateSession: read, then swapped only if still the end of its chain.
Rotate(r) ==
  \E t \in Tokens :
    /\ Signed(t) /\ session[t].next = None /\ Exists(session[t].acct)
    /\ Asks(r, [do |-> "rotate", tok |-> t, acct |-> session[t].acct])
    /\ UNCHANGED <<items, confirmed>>

\* Mutant: the second of two racing requests swaps the token again.
SwapsRead(old) == Signed(old)

Swaps(old) == Signed(old) /\ session[old].next = None

\* Mutant: the device list keeps the old token.
RepointKeeps(a, old, new) == pointers

Repoint(a, old, new) == [pointers EXCEPT ![a] = (@ \ {old}) \cup {new}]

PutRotated(r) ==
  LET old == request[r].tok IN
  /\ request[r].do = "rotate"
  /\ Goes(r, Idle)
  /\ IF Swaps(old)
     THEN \E t \in Tokens :
            /\ New(t)
            /\ session' = [session EXCEPT ![old].next = t,
                                          ![t] = NewSession(request[r].acct, old)]
            /\ pointers' = Repoint(request[r].acct, old, t)
     ELSE UNCHANGED <<session, pointers>>
  /\ UNCHANGED <<email, listener, deletion, job, confirmed>>

\* Sign out, or another device signed out from the device list.
SignOut(r) ==
  \E t \in Tokens :
    /\ Signed(t)
    /\ Asks(r, [do |-> "signout", acct |-> session[t].acct, todo |-> {},
                chain |-> Chain(t), ends |-> Ends(Chain(t))])
    /\ UNCHANGED <<items, confirmed>>

\* requestDeletion: the wait starts, or starts over, and the account is hidden.
Leave(r) ==
  \E t \in Tokens :
    /\ Signed(t)
    /\ LET a == session[t].acct IN
       /\ Exists(a)
       /\ deletion' = [deletion EXCEPT ![a] =
                         [queued |-> TRUE, cancelled |-> FALSE]]
       /\ listener' = [listener EXCEPT ![a] = "hidden"]
       /\ confirmed' = confirmed \ {a}
       /\ Asks(r, [do |-> "list", acct |-> a])
    /\ UNCHANGED <<email, job, session, pointers>>

\* What is still to read, and the chain that was read, to be deleted.
EndsSessions(r, a, todo, chain, ends) ==
  Goes(r, [do |-> "signout", acct |-> a, todo |-> todo, chain |-> chain, ends |-> ends])

LeaveList(r) ==
  LET a == request[r].acct IN
  /\ request[r].do = "list"
  /\ EndsSessions(r, a, pointers[a], {}, {})
  /\ UNCHANGED <<items, confirmed>>

\* Each chain is read, then deleted in a transaction.
ReadChain(r) ==
  LET q == request[r] IN
  /\ q.do = "signout" /\ q.chain = {}
  /\ IF q.todo = {} THEN Goes(r, Idle)
     ELSE \E t \in q.todo :
            EndsSessions(r, q.acct, q.todo \ {t}, Chain(t), Ends(Chain(t)))
  /\ UNCHANGED <<items, confirmed>>

EndChain(r) ==
  LET q == request[r] IN
  /\ q.do = "signout" /\ q.chain # {}
  /\ DeleteChain(q.acct, q.chain, q.ends)
  /\ EndsSessions(r, q.acct, q.todo, {}, {})
  /\ UNCHANGED <<email, listener, deletion, job, confirmed>>

\* Mutant: Keep does not look whether the job has begun.
CancelsLate(a) == deletion[a] # None /\ ~deletion[a].cancelled

Cancels(a) == deletion[a] # None /\ ~deletion[a].cancelled /\ job[a] = None

\* cancelDeletion: recorded only while no job exists, but the account is shown
\* again and the request answered either way.
Keep(r) ==
  \E t \in Tokens :
    /\ Signed(t)
    /\ LET a == session[t].acct IN
       /\ IF Cancels(a)
          THEN /\ deletion' = [deletion EXCEPT ![a] = [queued |-> FALSE, cancelled |-> TRUE]]
               /\ confirmed' = confirmed \cup {a}
          ELSE UNCHANGED <<deletion, confirmed>>
       /\ Asks(r, [do |-> "show", acct |-> a])
    /\ UNCHANGED <<email, listener, job, session, pointers>>

Show(r) ==
  LET a == request[r].acct IN
  /\ request[r].do = "show"
  /\ listener' = [listener EXCEPT ![a] = IF Exists(a) THEN "active" ELSE @]
  /\ Goes(r, Idle)
  /\ UNCHANGED <<email, deletion, job, session, pointers, confirmed>>

-----------------------------------------------------------------------------
(* The hourly deletions step *)

Works(w, pc) ==
  /\ worker' = [worker EXCEPT ![w] = pc]
  /\ UNCHANGED <<request, confirmed, acts, crashes>>

\* runDueDeletions: off the queue and the job started in one transaction.
\* The fifteen days may be over at any step, from when they began to count.
TakeDue(w) ==
  \E a \in Accounts :
    /\ worker[w] = Idle
    /\ deletion[a] # None /\ deletion[a].queued /\ ~deletion[a].cancelled
    /\ job[a] = None
    /\ deletion' = [deletion EXCEPT ![a] = [queued |-> FALSE, cancelled |-> FALSE]]
    /\ job' = [job EXCEPT ![a] = [phase |-> "content", v |-> 0]]
    /\ Works(w, [do |-> "read", acct |-> a])
    /\ UNCHANGED <<email, listener, session, pointers>>

Open(a) == job[a] # None /\ job[a].phase # "done"

\* Mutant: a job left open is not resumed.
ResumedNone(a) == FALSE

Resumed(a) == Open(a)

\* resumeJobs
Resume(w) ==
  \E a \in Accounts :
    /\ worker[w] = Idle /\ Resumed(a)
    /\ Works(w, [do |-> "read", acct |-> a])
    /\ UNCHANGED items

\* runJob reads the job before every step.
ReadJob(w) ==
  LET a == worker[w].acct IN
  /\ worker[w].do = "read"
  /\ Works(w, IF Open(a) THEN [do |-> "step", acct |-> a, phase |-> job[a].phase, v |-> job[a].v]
              ELSE Idle)
  /\ UNCHANGED items

Saves(w, phase) == Works(w, [do |-> "save", acct |-> worker[w].acct, v |-> worker[w].v,
                             phase |-> phase])
Moves(w, phase) == Saves(w, Following[phase])
Step(w, phase) == worker[w].do = "step" /\ worker[w].phase = phase

\* Files, comments, purchases and what else no action here reads.
ClearContent(w) ==
  /\ Step(w, "content") /\ Moves(w, "content")
  /\ UNCHANGED items

\* One chunk: a pointer's chain is read, then it goes with its pointer.
ClearSessions(w) ==
  /\ Step(w, "sessions")
  /\ IF pointers[worker[w].acct] = {} THEN Moves(w, "sessions")
     ELSE \E t \in pointers[worker[w].acct] :
            Works(w, [do |-> "chain", acct |-> worker[w].acct, v |-> worker[w].v,
                      chain |-> Chain(t), ends |-> Ends(Chain(t)) \cup {t}])
  /\ UNCHANGED items

ClearChain(w) ==
  /\ worker[w].do = "chain"
  /\ DeleteChain(worker[w].acct, worker[w].chain, worker[w].ends)
  /\ Saves(w, "sessions")
  /\ UNCHANGED <<email, listener, deletion, job>>

\* Everything left under the account but the listener item.
ClearPartition(w) ==
  LET a == worker[w].acct IN
  /\ Step(w, "partition")
  /\ IF pointers[a] = {} /\ deletion[a] = None THEN Moves(w, "partition")
     ELSE Saves(w, "partition")
  /\ pointers' = [pointers EXCEPT ![a] = {}]
  /\ deletion' = [deletion EXCEPT ![a] = None]
  /\ UNCHANGED <<email, listener, job, session>>

\* Mutant: the address is freed whoever owns it.
EmailAfterAlways(a) == IF Exists(a) THEN None ELSE email

\* The address is free again, unless a new account already took it.
EmailAfter(a) == IF Exists(a) /\ email = a THEN None ELSE email

FreeEmail(w) ==
  LET a == worker[w].acct IN
  /\ Step(w, "unique")
  /\ email' = EmailAfter(a)
  /\ Works(w, [do |-> "forget", acct |-> a, v |-> worker[w].v])
  /\ UNCHANGED <<listener, deletion, job, session, pointers>>

\* The second write of the phase: the request of the deletion goes.
ForgetRequest(w) ==
  /\ worker[w].do = "forget"
  /\ deletion' = [deletion EXCEPT ![worker[w].acct] = None]
  /\ Moves(w, "unique")
  /\ UNCHANGED <<email, listener, job, session, pointers>>

DeleteListener(w) ==
  /\ Step(w, "listener")
  /\ listener' = [listener EXCEPT ![worker[w].acct] = "gone"]
  /\ Moves(w, "listener")
  /\ UNCHANGED <<email, deletion, job, session, pointers>>

\* Mutant: the step is saved whatever another worker saved meanwhile.
OwnsAlways(w) == TRUE

Owns(w) == job[worker[w].acct].v = worker[w].v

\* The version of a job is bounded by the tokens and writes that make its chunks.
SaveJob(w) ==
  LET a == worker[w].acct IN
  /\ worker[w].do = "save"
  /\ IF Owns(w)
     THEN /\ job' = [job EXCEPT ![a] = [phase |-> worker[w].phase, v |-> worker[w].v + 1]]
          /\ Works(w, IF worker[w].phase = "done" THEN Idle ELSE [do |-> "read", acct |-> a])
     ELSE UNCHANGED job /\ Works(w, Idle)
  /\ UNCHANGED <<email, listener, deletion, session, pointers>>

\* A step throws or the worker dies: the job stays open where it was saved.
Crash(w) ==
  /\ crashes < MaxCrashes /\ crashes' = crashes + 1
  /\ worker[w] # Idle
  /\ worker' = [worker EXCEPT ![w] = Idle]
  /\ UNCHANGED <<items, request, confirmed, acts>>

-----------------------------------------------------------------------------
Init ==
  /\ email = First
  /\ listener = [a \in Accounts |-> IF a = First THEN "active" ELSE "new"]
  /\ deletion = [a \in Accounts |-> None]
  /\ job = [a \in Accounts |-> None]
  /\ session = [t \in Tokens |-> IF t = FirstToken THEN NewSession(First, None)
                               ELSE NoSession("new")]
  /\ pointers = [a \in Accounts |-> IF a = First THEN {FirstToken} ELSE {}]
  /\ request = [r \in Requests |-> Idle]
  /\ worker = [w \in Workers |-> Idle]
  /\ confirmed = {} /\ acts = 0 /\ crashes = 0

Serve(r) ==
  \/ PutSession(r) \/ PutRotated(r) \/ LeaveList(r) \/ ReadChain(r) \/ EndChain(r) \/ Show(r)

Listener(r) ==
  \/ SignIn(r) \/ SignUp(r) \/ Rotate(r) \/ SignOut(r) \/ Leave(r) \/ Keep(r)

Delete(w) ==
  \/ TakeDue(w) \/ Resume(w) \/ ReadJob(w) \/ ClearContent(w) \/ ClearSessions(w)
  \/ ClearChain(w) \/ ClearPartition(w) \/ FreeEmail(w) \/ ForgetRequest(w)
  \/ DeleteListener(w) \/ SaveJob(w)

Next ==
  \/ \E r \in Requests : Listener(r) \/ Serve(r)
  \/ \E w \in Workers : Delete(w) \/ Crash(w)

Spec == Init /\ [][Next]_vars

\* The days pass, requests are served and the hourly step runs again; the
\* listener owes nothing.
Fairness ==
  /\ \A r \in Requests : WF_vars(Serve(r))
  /\ \A w \in Workers : WF_vars(Delete(w))

FairSpec == Spec /\ Fairness

-----------------------------------------------------------------------------
(* Properties *)

Session ==
  [is: {"live"}, acct: Accounts, pred: Tokens \cup {None}, next: Tokens \cup {None}]
    \cup [is: {"new", "gone"}, acct: {None}, pred: {None}, next: {None}]

\* What a request, or a worker, keeps between two awaited calls.
Request ==
  {Idle} \cup [do: {"session", "list", "show"}, acct: Accounts]
         \cup [do: {"rotate"}, acct: Accounts, tok: Tokens]
         \cup [do: {"signout"}, acct: Accounts, todo: SUBSET Tokens,
               chain: SUBSET Tokens, ends: SUBSET Tokens]

Worker ==
  {Idle} \cup [do: {"read"}, acct: Accounts]
         \cup [do: {"step", "save"}, acct: Accounts, phase: Phases, v: Nat]
         \cup [do: {"forget"}, acct: Accounts, v: Nat]
         \cup [do: {"chain"}, acct: Accounts, v: Nat,
               chain: SUBSET Tokens, ends: SUBSET Tokens]

TypeOK ==
  /\ email \in Accounts \cup {None}
  /\ listener \in [Accounts -> {"new", "active", "hidden", "gone"}]
  /\ deletion \in [Accounts -> [queued: BOOLEAN, cancelled: BOOLEAN] \cup {None}]
  /\ job \in [Accounts -> [phase: Phases, v: Nat] \cup {None}]
  /\ session \in [Tokens -> Session]
  /\ pointers \in [Accounts -> SUBSET Tokens]
  /\ request \in [Requests -> Request]
  /\ worker \in [Workers -> Worker]
  /\ confirmed \subseteq Accounts
  /\ acts \in Nat /\ crashes \in Nat

\* The address belongs to an account that exists, and an account that is not
\* being deleted owns its address, whatever two workers of an older account's
\* deletion still have under way (deletion.ts, phase unique).
EmailHasItsAccount ==
  /\ email # None => Exists(email)
  /\ \A a \in Accounts : Exists(a) /\ job[a] = None => email = a

\* The listener item goes last and the job ends with it: no slower worker
\* saves an older phase over it, and none is done before.
GoneIsLast ==
  \A a \in Accounts : job[a] # None =>
    /\ job[a].phase = "done" => listener[a] = "gone"
    /\ listener[a] = "gone" => job[a].phase \in {"listener", "done"}

\* A Keep that was recorded holds: no worker that read the queue before it
\* starts the deletion after it.
RecordedKeepHolds == \A a \in confirmed : job[a] = None

\* Of two requests that swap one token only one wins: a session has at most
\* one successor.
OneSuccessor ==
  \A s, t \in Tokens :
    Signed(s) /\ Signed(t) /\ s # t /\ session[s].pred # None =>
      session[s].pred # session[t].pred

\* While its account is not being deleted, the live end of every chain is in
\* the device list, so that it can be seen and signed out.
DeviceIsListed ==
  \A t \in Tokens :
    Signed(t) /\ session[t].next = None /\ job[session[t].acct] = None =>
      t \in pointers[session[t].acct]

\* A deletion that is asked for is carried out or cancelled, however often a
\* step fails (G-M26-AC2).
DeletionEnds ==
  \A a \in Accounts :
    (deletion[a] # None /\ ~deletion[a].cancelled) ~>
      (deletion[a] # None /\ deletion[a].cancelled) \/ listener[a] = "gone"

=============================================================================
