---------------------------- MODULE AccountsProofs ----------------------------
(***************************************************************************)
(* The safety of accounts, their sessions and their deletion, for any      *)
(* number of accounts, tokens, requests and workers.                       *)
(***************************************************************************)
EXTENDS Accounts, TLAPS

-----------------------------------------------------------------------------
(* Types *)

LEMMA TypesHoldAtFirst ==
  Init => TypeOK
  BY AccountConstants DEF Init, TypeOK, NewSession, NoSession, Session, Request, Worker, Idle

LEMMA SessionHasAccount ==
  ASSUME TypeOK, NEW t \in Tokens, Signed(t)
  PROVE  session[t].acct \in Accounts
  BY DEF TypeOK, Session, Signed

LEMMA ChainTokens ==
  ASSUME NEW t
  PROVE  Chain(t) \in SUBSET Tokens /\ Ends(Chain(t)) \subseteq Chain(t)
  BY DEF Chain, Ends

LEMMA EndsSessionsTypes ==
  ASSUME TypeOK, NEW r \in Requests, NEW a \in Accounts, NEW td \in SUBSET Tokens,
         NEW ts \in SUBSET Tokens, NEW es \in SUBSET Tokens,
         EndsSessions(r, a, td, ts, es)
  PROVE  /\ request' \in [Requests -> Request]
         /\ UNCHANGED <<worker, acts, crashes>>
  BY DEF TypeOK, EndsSessions, Goes, Request

\* What the requests of the listener do to the types.
LEMMA ListenerTypes ==
  ASSUME TypeOK, NEW r \in Requests, Listener(r)
  PROVE  TypeOK'
  <1> USE AccountConstants DEF TypeOK, Asks, items
  <1>1. CASE SignIn(r)
    BY <1>1 DEF SignIn, Request, Exists
  <1>2. CASE SignUp(r)
    BY <1>2 DEF SignUp, Request
  <1>3. CASE Rotate(r)
    <2>1. PICK t \in Tokens : Rotate(r)!(t)
      BY <1>3 DEF Rotate
    <2>2. session[t].acct \in Accounts
      BY <2>1, SessionHasAccount
    <2> QED  BY <2>1, <2>2 DEF Request
  <1>4. CASE SignOut(r)
    <2>1. PICK t \in Tokens : SignOut(r)!(t)
      BY <1>4 DEF SignOut
    <2> DEFINE ts == Chain(t)
               es == Ends(ts)
    <2>2. /\ session[t].acct \in Accounts
          /\ ts \in SUBSET Tokens /\ es \in SUBSET Tokens
      BY <2>1, SessionHasAccount, ChainTokens
    <2>3. /\ request' = [request EXCEPT ![r] =
               [do |-> "signout", acct |-> session[t].acct, todo |-> {},
                chain |-> ts, ends |-> es]]
          /\ acts' = acts + 1
          /\ UNCHANGED <<items, confirmed, worker, crashes>>
      BY <2>1
    <2> HIDE DEF ts, es
    <2> QED  BY <2>2, <2>3 DEF Request
  <1>5. CASE Leave(r)
    <2>1. PICK t \in Tokens : Leave(r)!(t)
      BY <1>5 DEF Leave
    <2>2. session[t].acct \in Accounts
      BY <2>1, SessionHasAccount
    <2> QED  BY <2>1, <2>2 DEF Request
  <1>6. CASE Keep(r)
    <2>1. PICK t \in Tokens : Keep(r)!(t)
      BY <1>6 DEF Keep
    <2> DEFINE a == session[t].acct
    <2>2. a \in Accounts
      BY <2>1, SessionHasAccount
    <2>3. /\ request' = [request EXCEPT ![r] = [do |-> "show", acct |-> a]]
          /\ acts' = acts + 1
          /\ UNCHANGED <<email, listener, job, session, pointers, worker, crashes>>
      BY <2>1
    <2>4. \/ /\ deletion[a] # None
             /\ deletion' = [deletion EXCEPT ![a] = [queued |-> FALSE, cancelled |-> TRUE]]
             /\ confirmed' = confirmed \cup {a}
          \/ UNCHANGED <<deletion, confirmed>>
      BY <2>1 DEF Cancels
    <2> HIDE DEF a
    <2>5. deletion' \in [Accounts -> [queued: BOOLEAN, cancelled: BOOLEAN] \cup {None}]
      <3>1. [queued |-> FALSE, cancelled |-> TRUE] \in [queued: BOOLEAN, cancelled: BOOLEAN]
        OBVIOUS
      <3>2. deletion \in [Accounts -> [queued: BOOLEAN, cancelled: BOOLEAN] \cup {None}]
        BY DEF TypeOK
      <3> HIDE DEF TypeOK
      <3> QED  BY <2>4, <3>1, <3>2
    <2>6. request' \in [Requests -> Request]
      BY <2>2, <2>3 DEF Request
    <2>7. confirmed' \subseteq Accounts
      BY <2>2, <2>4
    <2> QED  BY <2>3, <2>5, <2>6, <2>7
  <1> QED  BY <1>1, <1>2, <1>3, <1>4, <1>5, <1>6 DEF Listener

\* What the API's requests do to the types.
LEMMA ServeTypes ==
  ASSUME TypeOK, NEW r \in Requests, Serve(r)
  PROVE  TypeOK'
  <1> USE AccountConstants DEF TypeOK, Goes, items
  <1>1. CASE PutSession(r)
    <2>1. PICK t \in Tokens : PutSession(r)!(t)
      BY <1>1 DEF PutSession
    <2>2. request[r].acct \in Accounts
      BY <2>1 DEF Request, Idle
    <2> QED  BY <2>1, <2>2 DEF Request, NewSession, Session
  <1>2. CASE PutRotated(r)
    <2> DEFINE old == request[r].tok
               a == request[r].acct
    <2>1. a \in Accounts /\ old \in Tokens
      BY <1>2 DEF PutRotated, Request, Idle
    <2>2. /\ request' = [request EXCEPT ![r] = Idle]
          /\ UNCHANGED <<worker, acts, crashes, email, listener, deletion, job, confirmed>>
      BY <1>2 DEF PutRotated
    <2>3. \/ UNCHANGED <<session, pointers>>
          \/ \E t \in Tokens :
               /\ Swaps(old) /\ New(t)
               /\ session' = [session EXCEPT ![old].next = t, ![t] = NewSession(a, old)]
               /\ pointers' = Repoint(a, old, t)
      BY <1>2 DEF PutRotated
    <2> HIDE DEF old, a
    <2>4. ASSUME NEW t \in Tokens, Swaps(old), New(t),
                 session' = [session EXCEPT ![old].next = t, ![t] = NewSession(a, old)],
                 pointers' = Repoint(a, old, t)
          PROVE  session' \in [Tokens -> Session] /\ pointers' \in [Accounts -> SUBSET Tokens]
      <3>1. [session[old] EXCEPT !.next = t] \in Session
        BY <2>1, <2>4 DEF Session, Swaps, Signed
      <3>2. NewSession(a, old) \in Session
        BY <2>1 DEF NewSession, Session
      <3>3. session' \in [Tokens -> Session]
        BY <3>1, <3>2, <2>1, <2>4
      <3> QED  BY <3>3, <2>1, <2>4 DEF Repoint
    <2> QED  BY <2>2, <2>3, <2>4 DEF Request
  <1>3. CASE LeaveList(r)
    <2>1. request[r].acct \in Accounts
      BY <1>3 DEF LeaveList, Request, Idle
    <2> DEFINE a == request[r].acct
    <2>2. EndsSessions(r, a, pointers[a], {}, {}) /\ UNCHANGED <<items, confirmed>>
      BY <1>3 DEF LeaveList
    <2>3. pointers[a] \in SUBSET Tokens /\ {} \in SUBSET Tokens
      BY <2>1
    <2> HIDE DEF a
    <2>4. /\ request' \in [Requests -> Request]
          /\ UNCHANGED <<worker, acts, crashes>>
      BY <2>1, <2>2, <2>3, EndsSessionsTypes DEF a
    <2> QED  BY <2>2, <2>4
  <1>4. CASE ReadChain(r)
    <2> DEFINE q == request[r]
    <2>1. q.acct \in Accounts /\ q.todo \in SUBSET Tokens
      BY <1>4 DEF ReadChain, Request, Idle
    <2>2. CASE q.todo = {}
      BY <1>4, <2>2 DEF ReadChain, Request
    <2>3. CASE q.todo # {}
      <3>1. PICK t \in q.todo : EndsSessions(r, q.acct, q.todo \ {t}, Chain(t), Ends(Chain(t)))
        BY <1>4, <2>3 DEF ReadChain
      <3>2. Chain(t) \in SUBSET Tokens /\ Ends(Chain(t)) \in SUBSET Tokens
        BY ChainTokens
      <3>3. /\ request' \in [Requests -> Request]
            /\ UNCHANGED <<worker, acts, crashes>>
        BY <2>1, <3>1, <3>2, EndsSessionsTypes
      <3>4. UNCHANGED <<items, confirmed>>
        BY <1>4 DEF ReadChain
      <3> QED  BY <3>3, <3>4
    <2> QED  BY <2>2, <2>3
  <1>5. CASE EndChain(r)
    <2> DEFINE q == request[r]
    <2>1. /\ q.acct \in Accounts /\ q.todo \in SUBSET Tokens
          /\ q.chain \in SUBSET Tokens /\ q.ends \in SUBSET Tokens
      BY <1>5 DEF EndChain, Request, Idle
    <2>2. NoSession("gone") \in Session
      BY DEF NoSession, Session
    <2>3. session' \in [Tokens -> Session] /\ pointers' \in [Accounts -> SUBSET Tokens]
      BY <1>5, <2>1, <2>2 DEF EndChain, DeleteChain
    <2>4. /\ request' \in [Requests -> Request]
          /\ UNCHANGED <<worker, acts, crashes>>
      <3>1. EndsSessions(r, q.acct, q.todo, {}, {}) /\ {} \in SUBSET Tokens
        BY <1>5 DEF EndChain
      <3> HIDE DEF q
      <3> QED  BY <2>1, <3>1, EndsSessionsTypes
    <2> QED  BY <1>5, <2>3, <2>4 DEF EndChain
  <1>6. CASE Show(r)
    <2>1. request[r].acct \in Accounts
      BY <1>6 DEF Show, Request, Idle
    <2> QED  BY <1>6, <2>1 DEF Show, Request
  <1> QED  BY <1>1, <1>2, <1>3, <1>4, <1>5, <1>6 DEF Serve

\* What the steps of a deletion do to the types.
LEMMA WorkerTypes ==
  ASSUME TypeOK, NEW w \in Workers, Delete(w) \/ Crash(w)
  PROVE  TypeOK'
  <1> USE AccountConstants DEF TypeOK, Works, items
  <1>1. CASE TakeDue(w)
    BY <1>1 DEF TakeDue, Worker, Phases
  <1>2. CASE Resume(w)
    BY <1>2 DEF Resume, Worker
  <1>3. CASE ReadJob(w)
    <2>1. worker[w].acct \in Accounts
      BY <1>3 DEF ReadJob, Worker, Idle
    <2> QED  BY <1>3, <2>1 DEF ReadJob, Worker, Open
  <1>4. ASSUME NEW p \in Phases \ {"done"}, Step(w, p)
        PROVE  /\ worker[w].acct \in Accounts /\ worker[w].v \in Nat
               /\ Following[p] \in Phases
    BY <1>4 DEF Step, Worker, Idle, Phases, Following
  <1>5. ASSUME NEW p \in Phases, worker[w].acct \in Accounts, worker[w].v \in Nat,
               Saves(w, p)
        PROVE  /\ worker' \in [Workers -> Worker]
               /\ UNCHANGED <<request, confirmed, acts, crashes>>
    BY <1>5 DEF Saves, Worker
  <1>6. CASE ClearContent(w)
    BY <1>6, <1>4, <1>5 DEF ClearContent, Moves, Phases
  <1>7. CASE ClearSessions(w)
    <2>1. /\ worker[w].acct \in Accounts /\ worker[w].v \in Nat
          /\ Following["sessions"] \in Phases
      BY <1>7, <1>4 DEF ClearSessions, Phases
    <2>2. CASE Moves(w, "sessions")
      BY <1>7, <1>5, <2>1, <2>2 DEF ClearSessions, Moves
    <2>3. CASE ~Moves(w, "sessions")
      <3>1. PICK t \in pointers[worker[w].acct] :
              Works(w, [do |-> "chain", acct |-> worker[w].acct, v |-> worker[w].v,
                        chain |-> Chain(t), ends |-> Ends(Chain(t)) \cup {t}])
        BY <1>7, <2>3 DEF ClearSessions
      <3> DEFINE ts == Chain(t)
                 es == Ends(Chain(t)) \cup {t}
      <3>2. ts \in SUBSET Tokens /\ es \in SUBSET Tokens
        BY <2>1, ChainTokens
      <3>3. worker' = [worker EXCEPT ![w] =
              [do |-> "chain", acct |-> worker[w].acct, v |-> worker[w].v,
               chain |-> ts, ends |-> es]]
        BY <3>1
      <3> HIDE DEF ts, es
      <3>4. worker' \in [Workers -> Worker]
        BY <3>2, <3>3, <2>1 DEF Worker
      <3> QED  BY <1>7, <3>1, <3>4 DEF ClearSessions
    <2> QED  BY <2>2, <2>3
  <1>8. CASE ClearChain(w)
    <2>1. /\ worker[w].acct \in Accounts /\ worker[w].v \in Nat
          /\ worker[w].ends \in SUBSET Tokens /\ "sessions" \in Phases
      BY <1>8 DEF ClearChain, Worker, Idle, Phases
    <2>2. NoSession("gone") \in Session
      BY DEF NoSession, Session
    <2>3. session' \in [Tokens -> Session] /\ pointers' \in [Accounts -> SUBSET Tokens]
      BY <1>8, <2>1, <2>2 DEF ClearChain, DeleteChain
    <2> QED  BY <1>8, <1>5, <2>1, <2>3 DEF ClearChain
  <1>9. CASE ClearPartition(w)
    <2>1. /\ worker[w].acct \in Accounts /\ worker[w].v \in Nat
          /\ Following["partition"] \in Phases /\ "partition" \in Phases
      BY <1>9, <1>4 DEF ClearPartition, Phases
    <2>2. /\ worker' \in [Workers -> Worker]
          /\ UNCHANGED <<request, confirmed, acts, crashes>>
      BY <1>9, <1>5, <2>1 DEF ClearPartition, Moves
    <2> QED  BY <1>9, <2>1, <2>2 DEF ClearPartition
  <1>10. CASE FreeEmail(w)
    <2>1. /\ worker[w].acct \in Accounts /\ worker[w].v \in Nat
          /\ Following["unique"] \in Phases
      BY <1>10, <1>4 DEF FreeEmail, Phases
    <2> QED  BY <1>10, <2>1 DEF FreeEmail, EmailAfter, Worker
  <1>14. CASE ForgetRequest(w)
    <2>1. /\ worker[w].acct \in Accounts /\ worker[w].v \in Nat
          /\ Following["unique"] \in Phases
      BY <1>14 DEF ForgetRequest, Worker, Idle, Phases, Following
    <2>2. /\ worker' \in [Workers -> Worker]
          /\ UNCHANGED <<request, confirmed, acts, crashes>>
      BY <1>14, <1>5, <2>1 DEF ForgetRequest, Moves
    <2> QED  BY <1>14, <2>1, <2>2 DEF ForgetRequest
  <1>11. CASE DeleteListener(w)
    <2>1. /\ worker[w].acct \in Accounts /\ worker[w].v \in Nat
          /\ Following["listener"] \in Phases
      BY <1>11, <1>4 DEF DeleteListener, Phases
    <2>2. /\ worker' \in [Workers -> Worker]
          /\ UNCHANGED <<request, confirmed, acts, crashes>>
      BY <1>11, <1>5, <2>1 DEF DeleteListener, Moves
    <2> QED  BY <1>11, <2>1, <2>2 DEF DeleteListener
  <1>12. CASE SaveJob(w)
    <2>1. /\ worker[w].acct \in Accounts /\ worker[w].v \in Nat
          /\ worker[w].phase \in Phases
      BY <1>12 DEF SaveJob, Worker, Idle
    <2> QED  BY <1>12, <2>1 DEF SaveJob, Worker
  <1>13. CASE Crash(w)
    BY <1>13 DEF Crash, Worker
  <1> QED  BY <1>1, <1>2, <1>3, <1>6, <1>7, <1>8, <1>9, <1>10, <1>11, <1>12, <1>13, <1>14
    DEF Delete

\* Items, requests and workers keep their shape.
THEOREM TypeCorrect == Spec => []TypeOK
  <1>1. TypeOK /\ [Next]_vars => TypeOK'
    <2>1. ASSUME TypeOK, UNCHANGED vars
          PROVE  TypeOK'
      BY <2>1 DEF vars, items, TypeOK
    <2> QED  BY <2>1, ListenerTypes, ServeTypes, WorkerTypes DEF Next
  <1> QED  BY <1>1, TypesHoldAtFirst, PTL DEF Spec

-----------------------------------------------------------------------------
(* The address, the deletion and its job *)

Late(p) == p \in {"listener", "done"}

\* What holds of an account, its deletion and its job.
AccountOK(a) ==
  /\ deletion[a] # None => listener[a] # "new"
  /\ job[a] # None =>
       /\ listener[a] # "new"
       /\ Late(job[a].phase) => email # a
       /\ job[a].phase = "done" => listener[a] = "gone"
  /\ listener[a] = "gone" => job[a] # None /\ Late(job[a].phase)
  /\ a \in confirmed =>
       /\ job[a] = None
       /\ deletion[a] = None \/ deletion[a].cancelled

\* What a worker has read is the job or older than it; what it is about to
\* save has been done.
WorkerOK(w) ==
  LET x == worker[w]
      j == job[x.acct]
  IN
  x # Idle =>
    /\ j # None
    /\ x.do \in {"step", "chain", "forget", "save"} => x.v <= j.v
    /\ x.do = "step" =>
         /\ x.phase # "done"
         /\ Late(x.phase) => Late(j.phase)
         /\ x.v = j.v => x.phase = j.phase
    /\ x.do = "chain" => (x.v = j.v => j.phase = "sessions")
    /\ x.do = "forget" => email # x.acct
    /\ x.do = "save" =>
         /\ x.phase = "done" => listener[x.acct] = "gone"
         /\ x.v = j.v => /\ Late(j.phase) => Late(x.phase)
                         /\ Late(x.phase) => email # x.acct

AccountsOK == \A a \in Accounts : AccountOK(a)
WorkersOK == \A w \in Workers : WorkerOK(w)

DeletionInv == TypeOK /\ AccountsOK /\ WorkersOK /\ EmailHasItsAccount

LEMMA DeletionHoldsAtFirst ==
  Init => DeletionInv
  <1> SUFFICES ASSUME Init PROVE DeletionInv
    OBVIOUS
  <1>1. TypeOK
    BY TypesHoldAtFirst
  <1>2. AccountsOK
    BY DEF Init, AccountsOK, AccountOK
  <1>3. WorkersOK
    BY DEF Init, WorkersOK, WorkerOK
  <1>4. EmailHasItsAccount
    BY AccountConstants DEF Init, EmailHasItsAccount, Exists
  <1> QED  BY <1>1, <1>2, <1>3, <1>4 DEF DeletionInv

\* A worker that does nothing is not disturbed while jobs stand, the gone
\* stay gone and the address comes to no account with a job.
LEMMA OtherWorkers ==
  ASSUME DeletionInv, NEW w \in Workers, worker'[w] = worker[w],
         \A a \in Accounts : job[a] # None =>
           /\ job'[a] = job[a]
           /\ listener[a] = "gone" => listener'[a] = "gone"
           /\ email # a => email' # a
  PROVE  WorkerOK(w)'
  <1>1. worker[w] # Idle => worker[w].acct \in Accounts
    BY DEF DeletionInv, TypeOK, Worker
  <1>2. WorkerOK(w)
    BY DEF DeletionInv, WorkersOK
  <1> QED  BY <1>1, <1>2 DEF WorkerOK, Idle

\* Requests: the items of a deletion stay, or change as below.
LEMMA ListenerKeeps ==
  ASSUME DeletionInv, TypeOK', NEW r \in Requests, Listener(r)
  PROVE  DeletionInv'
  <1> USE AccountConstants, NoneIsNoItem DEF items, Asks
  <1>0. UNCHANGED <<job, worker>>
    BY DEF Listener, SignIn, SignUp, Rotate, SignOut, Leave, Keep
  <1>1. CASE SignIn(r) \/ Rotate(r) \/ SignOut(r)
    <2>1. UNCHANGED <<email, listener, deletion, job, worker, confirmed>>
      BY <1>1 DEF SignIn, Rotate, SignOut
    <2> QED
      BY <2>1 DEF DeletionInv, AccountsOK, WorkersOK, AccountOK, WorkerOK, EmailHasItsAccount, Exists
  <1>2. CASE SignUp(r)
    <2>1. PICK a \in Accounts :
            /\ email = None /\ listener[a] = "new"
            /\ email' = a /\ listener' = [listener EXCEPT ![a] = "active"]
      BY <1>2 DEF SignUp
    <2>2. UNCHANGED <<deletion, job, worker, confirmed>>
      BY <1>2 DEF SignUp
    <2>3. listener'[a] = "active" /\ \A b \in Accounts \ {a} : listener'[b] = listener[b]
      BY <2>1 DEF DeletionInv, TypeOK
    <2>4. job[a] = None
      BY <2>1 DEF DeletionInv, AccountsOK, AccountOK
    <2>5. AccountsOK'
      BY <2>1, <2>2, <2>3, <2>4 DEF DeletionInv, AccountsOK, AccountOK
    <2>6. WorkersOK'
      BY <2>1, <2>2, <2>3, <2>4, OtherWorkers DEF WorkersOK
    <2>7. EmailHasItsAccount'
      BY <2>1, <2>2, <2>3 DEF DeletionInv, EmailHasItsAccount, Exists
    <2> QED  BY <2>5, <2>6, <2>7 DEF DeletionInv
  <1>3. CASE Leave(r)
    <2>1. PICK t \in Tokens : Leave(r)!(t)
      BY <1>3 DEF Leave
    <2> DEFINE a == session[t].acct
    <2>2. /\ a \in Accounts /\ Exists(a)
          /\ deletion' = [deletion EXCEPT ![a] = [queued |-> TRUE, cancelled |-> FALSE]]
          /\ listener' = [listener EXCEPT ![a] = "hidden"]
          /\ confirmed' = confirmed \ {a}
          /\ UNCHANGED <<email, job, worker>>
      BY <2>1, SessionHasAccount DEF DeletionInv
    <2> HIDE DEF a
    <2>3. /\ listener'[a] = "hidden"
          /\ \A b \in Accounts \ {a} : listener'[b] = listener[b] /\ deletion'[b] = deletion[b]
      BY <2>2 DEF DeletionInv, TypeOK
    <2>4. AccountsOK'
      BY <2>2, <2>3 DEF DeletionInv, AccountsOK, AccountOK, Exists
    <2>5. WorkersOK'
      BY <2>2, <2>3, OtherWorkers DEF WorkersOK, Exists
    <2>6. EmailHasItsAccount'
      BY <2>2, <2>3 DEF DeletionInv, EmailHasItsAccount, Exists
    <2> QED  BY <2>4, <2>5, <2>6 DEF DeletionInv
  <1>4. CASE Keep(r)
    <2>1. PICK t \in Tokens : Keep(r)!(t)
      BY <1>4 DEF Keep
    <2> DEFINE a == session[t].acct
    <2>2. /\ a \in Accounts
          /\ UNCHANGED <<email, listener, job, worker>>
          /\ \/ UNCHANGED <<deletion, confirmed>>
             \/ /\ deletion[a] # None /\ job[a] = None
                /\ deletion' = [deletion EXCEPT ![a] = [queued |-> FALSE, cancelled |-> TRUE]]
                /\ confirmed' = confirmed \cup {a}
      BY <2>1, SessionHasAccount DEF DeletionInv, Cancels
    <2> HIDE DEF a
    <2>3. AccountsOK'
      <3>1. CASE UNCHANGED <<deletion, confirmed>>
        BY <2>2, <3>1 DEF DeletionInv, AccountsOK, AccountOK
      <3>2. CASE /\ deletion[a] # None /\ job[a] = None
                 /\ deletion' = [deletion EXCEPT ![a] = [queued |-> FALSE, cancelled |-> TRUE]]
                 /\ confirmed' = confirmed \cup {a}
        <4>1. /\ deletion'[a].cancelled
              /\ \A b \in Accounts \ {a} : deletion'[b] = deletion[b]
          BY <2>2, <3>2 DEF DeletionInv, TypeOK
        <4> QED  BY <2>2, <3>2, <4>1 DEF DeletionInv, AccountsOK, AccountOK
      <3> QED  BY <2>2, <3>1, <3>2
    <2>4. WorkersOK'
      BY <2>2, OtherWorkers DEF WorkersOK
    <2>5. EmailHasItsAccount'
      BY <2>2 DEF DeletionInv, EmailHasItsAccount, Exists
    <2> QED  BY <2>3, <2>4, <2>5 DEF DeletionInv
  <1> QED  BY <1>1, <1>2, <1>3, <1>4 DEF Listener

LEMMA ServeKeeps ==
  ASSUME DeletionInv, TypeOK', NEW r \in Requests, Serve(r)
  PROVE  DeletionInv'
  <1> USE AccountConstants DEF items, Goes
  <1>1. CASE PutSession(r) \/ PutRotated(r) \/ LeaveList(r) \/ ReadChain(r) \/ EndChain(r)
    <2>1. UNCHANGED <<email, listener, deletion, job, worker, confirmed>>
      BY <1>1 DEF PutSession, PutRotated, LeaveList, ReadChain, EndChain, EndsSessions
    <2> QED
      BY <2>1 DEF DeletionInv, AccountsOK, WorkersOK, AccountOK, WorkerOK, EmailHasItsAccount, Exists
  <1>2. CASE Show(r)
    <2> DEFINE a == request[r].acct
    <2>1. /\ a \in Accounts
          /\ UNCHANGED <<email, deletion, job, worker, confirmed>>
          /\ listener' = [listener EXCEPT ![a] = IF Exists(a) THEN "active" ELSE @]
      BY <1>2 DEF Show, DeletionInv, TypeOK, Request, Idle
    <2> HIDE DEF a
    <2>2. \A b \in Accounts :
            /\ Exists(b) <=> Exists(b)'
            /\ listener[b] = "gone" <=> listener'[b] = "gone"
            /\ listener[b] = "new" <=> listener'[b] = "new"
      BY <2>1 DEF DeletionInv, TypeOK, Exists
    <2>3. AccountsOK'
      BY <2>1, <2>2 DEF DeletionInv, AccountsOK, AccountOK
    <2>4. WorkersOK'
      BY <2>1, <2>2, OtherWorkers DEF WorkersOK
    <2>5. EmailHasItsAccount'
      BY <2>1, <2>2 DEF DeletionInv, EmailHasItsAccount, TypeOK
    <2> QED  BY <2>3, <2>4, <2>5 DEF DeletionInv
  <1> QED  BY <1>1, <1>2 DEF Serve

\* One step of a worker does what it will save.
LEMMA StepSaves ==
  ASSUME DeletionInv, TypeOK', NEW w \in Workers, NEW p \in Phases, NEW q \in Phases,
         Step(w, p), q \in {p, Following[p]}, Saves(w, q),
         p # "done", q = "done" => listener'[worker[w].acct] = "gone",
         Late(q) => email' # worker[w].acct \/ job[worker[w].acct].v # worker[w].v,
         UNCHANGED job
  PROVE  WorkerOK(w)'
  <1> DEFINE x == worker[w]
             a == x.acct
  <1>1. /\ x # Idle /\ x.do = "step" /\ x.phase = p /\ a \in Accounts
    BY DEF Step, DeletionInv, TypeOK, Worker, Idle
  <1>2. worker'[w] = [do |-> "save", acct |-> a, v |-> x.v, phase |-> q]
    BY DEF Saves, Works, DeletionInv, TypeOK
  <1>3. /\ job[a] # None /\ x.v <= job[a].v
        /\ Late(p) => Late(job[a].phase)
        /\ x.v = job[a].v => p = job[a].phase
    BY <1>1 DEF DeletionInv, WorkersOK, WorkerOK
  <1>4. Late(p) => Late(q)
    BY DEF Late, Following, Phases
  <1> HIDE DEF x, a
  <1>5. /\ worker'[w].do = "save" /\ worker'[w].acct = a
        /\ worker'[w].v = x.v /\ worker'[w].phase = q
    BY <1>2
  <1> QED  BY <1>3, <1>4, <1>5 DEF WorkerOK, Idle, x, a

LEMMA DeleteKeeps ==
  ASSUME DeletionInv, TypeOK', NEW w \in Workers, Delete(w) \/ Crash(w)
  PROVE  DeletionInv'
  <1> USE AccountConstants, NoneIsNoItem DEF items
  <1> DEFINE x == worker[w]
             a == x.acct
  <1>0. \A u \in Workers \ {w} : worker'[u] = worker[u]
    BY DEF Delete, TakeDue, Resume, ReadJob, ClearContent, ClearSessions, ClearChain,
           ClearPartition, FreeEmail, ForgetRequest, DeleteListener, SaveJob, Crash, Works, Saves, Moves,
           DeletionInv, TypeOK
  <1>1. ASSUME UNCHANGED <<email, listener, deletion, job, confirmed>>, WorkerOK(w)'
        PROVE  DeletionInv'
    <2>1. WorkersOK'
      BY <1>0, <1>1, OtherWorkers DEF WorkersOK
    <2> QED  BY <1>1, <2>1 DEF DeletionInv, AccountsOK, AccountOK, EmailHasItsAccount, Exists
  <1>2. CASE TakeDue(w)
    <2>1. PICK b \in Accounts :
            /\ worker[w] = Idle
            /\ deletion[b] # None /\ deletion[b].queued /\ ~deletion[b].cancelled
            /\ job[b] = None
            /\ deletion' = [deletion EXCEPT ![b] = [queued |-> FALSE, cancelled |-> FALSE]]
            /\ job' = [job EXCEPT ![b] = [phase |-> "content", v |-> 0]]
            /\ worker' = [worker EXCEPT ![w] = [do |-> "read", acct |-> b]]
            /\ UNCHANGED <<email, listener, confirmed>>
      BY <1>2 DEF TakeDue, Works
    <2>2. /\ worker'[w] = [do |-> "read", acct |-> b]
          /\ job'[b] = [phase |-> "content", v |-> 0]
          /\ \A c \in Accounts \ {b} : job'[c] = job[c] /\ deletion'[c] = deletion[c]
      BY <2>1 DEF DeletionInv, TypeOK
    <2>3. /\ job'[b] # None /\ job'[b].phase = "content"
          /\ worker'[w].do = "read" /\ worker'[w].acct = b
      BY <2>2 DEF Phases
    <2>4. b \notin confirmed /\ listener[b] \notin {"new", "gone"}
      <3>1. listener[b] \notin {"new", "gone"}
        BY <2>1 DEF DeletionInv, AccountsOK, AccountOK
      <3>2. b \notin confirmed
        BY <2>1 DEF DeletionInv, AccountsOK, AccountOK
      <3> QED  BY <3>1, <3>2
    <2>5. AccountsOK'
      BY <2>1, <2>2, <2>3, <2>4 DEF DeletionInv, AccountsOK, AccountOK, Late
    <2>6. WorkerOK(w)'
      BY <2>3 DEF WorkerOK
    <2>7. WorkersOK'
      BY <1>0, <2>1, <2>2, <2>6, OtherWorkers DEF WorkersOK
    <2>8. EmailHasItsAccount'
      BY <2>1, <2>2, <2>3 DEF DeletionInv, EmailHasItsAccount, Exists
    <2> QED  BY <2>5, <2>7, <2>8 DEF DeletionInv
  <1>3. CASE Resume(w)
    <2>1. PICK b \in Accounts : Open(b) /\ worker' = [worker EXCEPT ![w] = [do |-> "read", acct |-> b]]
      BY <1>3 DEF Resume, Resumed, Works
    <2>2. worker'[w] = [do |-> "read", acct |-> b]
      BY <2>1 DEF DeletionInv, TypeOK
    <2>3. WorkerOK(w)'
      BY <1>3, <2>1, <2>2 DEF Resume, WorkerOK, Open
    <2> QED  BY <1>1, <1>3, <2>3 DEF Resume, Works
  <1>4. CASE ReadJob(w)
    <2>1. x # Idle /\ a \in Accounts /\ job[a] # None
      BY <1>4 DEF ReadJob, Idle, DeletionInv, TypeOK, Worker, WorkersOK, WorkerOK
    <2>2. WorkerOK(w)'
      <3>1. CASE Open(a)
        <4>1. worker'[w] = [do |-> "step", acct |-> a, phase |-> job[a].phase, v |-> job[a].v]
          BY <1>4, <3>1 DEF ReadJob, Works, DeletionInv, TypeOK
        <4>2. job[a].phase # "done" /\ job[a].v \in Nat /\ UNCHANGED job
          BY <1>4, <2>1, <3>1 DEF Open, ReadJob, DeletionInv, TypeOK
        <4> HIDE DEF x, a
        <4>3. /\ worker'[w].do = "step" /\ worker'[w].acct = a
              /\ worker'[w].phase = job[a].phase /\ worker'[w].v = job[a].v
          BY <4>1
        <4> QED  BY <2>1, <4>2, <4>3 DEF WorkerOK
      <3>2. CASE ~Open(a)
        BY <1>4, <3>2 DEF ReadJob, Works, DeletionInv, TypeOK, WorkerOK
      <3> QED  BY <3>1, <3>2
    <2> QED  BY <1>1, <1>4, <2>2 DEF ReadJob, Works
  <1>5. CASE ClearContent(w)
    <2>1. WorkerOK(w)'
      BY <1>5, StepSaves DEF ClearContent, Moves, Following, Phases, Late
    <2> QED  BY <1>1, <1>5, <2>1 DEF ClearContent, Moves, Saves, Works
  <1>6. CASE ClearSessions(w)
    <2>1. WorkerOK(w)'
      <3>1. CASE Moves(w, "sessions")
        BY <1>6, <3>1, StepSaves DEF ClearSessions, Moves, Following, Phases, Late
      <3>2. CASE ~Moves(w, "sessions")
        <4>1. PICK t \in pointers[a] :
                worker' = [worker EXCEPT ![w] =
                  [do |-> "chain", acct |-> a, v |-> x.v,
                   chain |-> Chain(t), ends |-> Ends(Chain(t)) \cup {t}]]
          BY <1>6, <3>2 DEF ClearSessions, Works
        <4>2. /\ worker'[w].do = "chain" /\ worker'[w].acct = a /\ worker'[w].v = x.v
              /\ UNCHANGED job
          BY <1>6, <4>1 DEF ClearSessions, DeletionInv, TypeOK
        <4>3. /\ job[a] # None /\ x.v <= job[a].v
              /\ x.v = job[a].v => job[a].phase = "sessions"
          BY <1>6 DEF ClearSessions, Step, Idle, DeletionInv, WorkersOK, WorkerOK
        <4> HIDE DEF x, a
        <4> QED  BY <4>2, <4>3 DEF WorkerOK
      <3> QED  BY <3>1, <3>2
    <2> QED  BY <1>1, <1>6, <2>1 DEF ClearSessions, Moves, Saves, Works
  <1>7. CASE ClearChain(w)
    <2>1. worker' = [worker EXCEPT ![w] =
            [do |-> "save", acct |-> a, v |-> x.v, phase |-> "sessions"]]
      BY <1>7 DEF ClearChain, Saves, Works
    <2>2. /\ worker'[w].do = "save" /\ worker'[w].acct = a /\ worker'[w].v = x.v
          /\ worker'[w].phase = "sessions" /\ UNCHANGED job
      BY <1>7, <2>1 DEF ClearChain, DeletionInv, TypeOK
    <2>3. /\ job[a] # None /\ x.v <= job[a].v
          /\ x.v = job[a].v => job[a].phase = "sessions"
      BY <1>7 DEF ClearChain, Idle, DeletionInv, WorkersOK, WorkerOK
    <2>4. WorkerOK(w)'
      <3> HIDE DEF x, a
      <3> QED  BY <2>2, <2>3 DEF WorkerOK, Late
    <2> QED  BY <1>1, <1>7, <2>4 DEF ClearChain, Saves, Works
  <1>8. ASSUME NEW p \in Phases, Step(w, p)
        PROVE  /\ x # Idle /\ a \in Accounts /\ job[a] # None
               /\ Late(p) => Late(job[a].phase) /\ email # a
    BY <1>8 DEF Step, Idle, DeletionInv, TypeOK, Worker, WorkersOK, WorkerOK, AccountsOK, AccountOK
  <1>9. CASE ClearPartition(w)
    <2>1. /\ a \in Accounts /\ job[a] # None
          /\ deletion' = [deletion EXCEPT ![a] = None]
          /\ UNCHANGED <<email, listener, job, confirmed>>
      BY <1>9, <1>8 DEF ClearPartition, Phases, Moves, Saves, Works
    <2>2. WorkerOK(w)'
      <3>1. Moves(w, "partition") \/ Saves(w, "partition")
        BY <1>9 DEF ClearPartition
      <3>2. Step(w, "partition") /\ {"partition", "unique"} \subseteq Phases
        BY <1>9 DEF ClearPartition, Phases
      <3>3. /\ Following["partition"] = "unique"
            /\ ~Late("partition") /\ ~Late("unique")
        BY DEF Following, Late
      <3> QED  BY <2>1, <3>1, <3>2, <3>3, StepSaves DEF Moves
    <2>3. WorkersOK'
      BY <1>0, <2>1, <2>2, OtherWorkers DEF WorkersOK
    <2> HIDE DEF x, a
    <2>4. AccountsOK'
      BY <2>1 DEF DeletionInv, AccountsOK, AccountOK, TypeOK
    <2>5. EmailHasItsAccount'
      BY <2>1 DEF DeletionInv, EmailHasItsAccount, Exists
    <2> QED  BY <2>3, <2>4, <2>5 DEF DeletionInv
  <1>10. CASE FreeEmail(w)
    <2>1. /\ a \in Accounts /\ job[a] # None /\ x.v <= job[a].v
          /\ email' = EmailAfter(a)
          /\ worker' = [worker EXCEPT ![w] = [do |-> "forget", acct |-> a, v |-> x.v]]
          /\ UNCHANGED <<listener, deletion, job, confirmed>>
      BY <1>10, <1>8
      DEF FreeEmail, Phases, Works, Step, Idle, DeletionInv, WorkersOK, WorkerOK
    <2> HIDE DEF x, a
    <2>2. /\ email' # a
          /\ email' \in {email, None} /\ (email' # email => email = a)
      BY <2>1 DEF EmailAfter, DeletionInv, EmailHasItsAccount
    <2>3. WorkerOK(w)'
      <3>1. /\ worker'[w].do = "forget" /\ worker'[w].acct = a
            /\ worker'[w].v = x.v
        BY <2>1 DEF DeletionInv, TypeOK
      <3> QED  BY <2>1, <2>2, <3>1 DEF WorkerOK
    <2>4. \A b \in Accounts : email # b => email' # b
      BY <2>2, AccountConstants
    <2>5. WorkersOK'
      BY <1>0, <2>1, <2>3, <2>4, OtherWorkers DEF WorkersOK
    <2>6. AccountsOK'
      BY <2>1, <2>4 DEF DeletionInv, AccountsOK, AccountOK, TypeOK
    <2>7. EmailHasItsAccount'
      BY <2>1, <2>2 DEF DeletionInv, EmailHasItsAccount, Exists
    <2> QED  BY <2>5, <2>6, <2>7 DEF DeletionInv
  <1>14. CASE ForgetRequest(w)
    <2>1. /\ a \in Accounts /\ job[a] # None /\ x.v <= job[a].v /\ email # a
          /\ deletion' = [deletion EXCEPT ![a] = None]
          /\ worker' = [worker EXCEPT ![w] =
               [do |-> "save", acct |-> a, v |-> x.v, phase |-> "listener"]]
          /\ UNCHANGED <<email, listener, job, confirmed>>
      BY <1>14
      DEF ForgetRequest, Moves, Saves, Works, Following, Idle, DeletionInv,
          TypeOK, Worker, WorkersOK, WorkerOK
    <2> HIDE DEF x, a
    <2>2. WorkerOK(w)'
      <3>1. /\ worker'[w].do = "save" /\ worker'[w].acct = a
            /\ worker'[w].v = x.v /\ worker'[w].phase = "listener"
        BY <2>1 DEF DeletionInv, TypeOK
      <3> QED  BY <2>1, <3>1 DEF WorkerOK, Late
    <2>3. WorkersOK'
      BY <1>0, <2>1, <2>2, OtherWorkers DEF WorkersOK
    <2>4. AccountsOK'
      BY <2>1 DEF DeletionInv, AccountsOK, AccountOK, TypeOK
    <2>5. EmailHasItsAccount'
      BY <2>1 DEF DeletionInv, EmailHasItsAccount, Exists
    <2> QED  BY <2>3, <2>4, <2>5 DEF DeletionInv
  <1>11. CASE DeleteListener(w)
    <2>1. Step(w, "listener") /\ Late("listener") /\ "listener" \in Phases
      BY <1>11 DEF DeleteListener, Late, Phases
    <2>2. /\ a \in Accounts /\ job[a] # None /\ Late(job[a].phase) /\ email # a
          /\ listener' = [listener EXCEPT ![a] = "gone"]
          /\ UNCHANGED <<email, deletion, job, confirmed>>
      BY <1>11, <1>8, <2>1 DEF DeleteListener, Moves, Saves, Works
    <2>3. listener'[a] = "gone" /\ \A b \in Accounts \ {a} : listener'[b] = listener[b]
      BY <2>2 DEF DeletionInv, TypeOK
    <2>4. WorkerOK(w)'
      <3>1. Saves(w, "done") /\ "done" \in Phases /\ Following["listener"] = "done"
        BY <1>11 DEF DeleteListener, Moves, Following, Phases
      <3> QED  BY <2>1, <2>2, <2>3, <3>1, StepSaves
    <2> HIDE DEF x, a
    <2>5. WorkersOK'
      BY <1>0, <2>2, <2>3, <2>4, OtherWorkers DEF WorkersOK
    <2>6. AccountsOK'
      BY <2>2, <2>3 DEF DeletionInv, AccountsOK, AccountOK
    <2>7. EmailHasItsAccount'
      BY <2>2, <2>3 DEF DeletionInv, EmailHasItsAccount, Exists
    <2> QED  BY <2>5, <2>6, <2>7 DEF DeletionInv
  <1>12. CASE SaveJob(w)
    <2>1. CASE ~Owns(w)
      <3>1. worker'[w] = Idle /\ UNCHANGED <<email, listener, deletion, job, confirmed>>
        BY <1>12, <2>1 DEF SaveJob, Works, DeletionInv, TypeOK
      <3> QED  BY <1>1, <3>1 DEF WorkerOK
    <2>2. CASE Owns(w)
      <3>1. /\ a \in Accounts /\ x.do = "save" /\ x.phase \in Phases /\ x.v = job[a].v
            /\ job[a] # None /\ x # Idle /\ job[a].v \in Nat
        BY <1>12, <2>2
        DEF SaveJob, Owns, Idle, DeletionInv, TypeOK, Worker, WorkersOK, WorkerOK
      <3>2. /\ x.phase = "done" => listener[a] = "gone"
            /\ Late(job[a].phase) => Late(x.phase)
            /\ Late(x.phase) => email # a
        BY <3>1 DEF DeletionInv, WorkersOK, WorkerOK
      <3>3. /\ job' = [job EXCEPT ![a] = [phase |-> x.phase, v |-> x.v + 1]]
            /\ worker' = [worker EXCEPT ![w] =
                 IF x.phase = "done" THEN Idle ELSE [do |-> "read", acct |-> a]]
            /\ UNCHANGED <<email, listener, deletion, confirmed>>
        BY <1>12, <2>2 DEF SaveJob, Works
      <3> HIDE DEF x, a
      <3>4. /\ job'[a] # None /\ job'[a].phase = x.phase /\ job'[a].v = job[a].v + 1
            /\ \A b \in Accounts \ {a} : job'[b] = job[b]
        <4>1. job'[a] = [phase |-> x.phase, v |-> job[a].v + 1]
          BY <3>1, <3>3 DEF DeletionInv, TypeOK
        <4>2. [phase |-> x.phase, v |-> job[a].v + 1] \in [phase: Phases, v: Nat]
          BY <3>1
        <4> QED  BY <3>1, <3>3, <4>1, <4>2 DEF DeletionInv, TypeOK
      <3>5. WorkerOK(w)'
        BY <3>3, <3>4 DEF WorkerOK, Idle, DeletionInv, TypeOK
      <3>6. ASSUME NEW u \in Workers \ {w}
            PROVE  WorkerOK(u)'
        <4>1. worker'[u] = worker[u] /\ WorkerOK(u)
          BY <1>0, <3>6 DEF DeletionInv, WorkersOK
        <4>2. CASE worker[u] = Idle \/ worker[u].acct # a
          <5>1. worker[u] # Idle => worker[u].acct \in Accounts
            BY <3>6 DEF DeletionInv, TypeOK, Worker
          <5> QED  BY <3>3, <3>4, <4>1, <4>2, <5>1 DEF WorkerOK
        <4>3. CASE worker[u] # Idle /\ worker[u].acct = a
          <5>1. worker[u].do \in {"step", "chain", "forget", "save"} =>
                  worker[u].v \in Nat /\ worker[u].v # job'[a].v /\ worker[u].v <= job'[a].v
            <6>1. worker[u].do \in {"step", "chain", "forget", "save"} =>
                    worker[u].v \in Nat /\ worker[u].v <= job[a].v
              BY <3>6, <4>1, <4>3 DEF WorkerOK, DeletionInv, TypeOK, Worker
            <6> QED  BY <3>1, <3>4, <6>1
          <5> QED  BY <3>2, <3>3, <3>4, <4>1, <4>3, <5>1 DEF WorkerOK
        <4> QED  BY <4>2, <4>3
      <3>7. AccountsOK'
        BY <3>1, <3>2, <3>3, <3>4 DEF DeletionInv, AccountsOK, AccountOK, Late
      <3>8. EmailHasItsAccount'
        BY <3>1, <3>3, <3>4 DEF DeletionInv, EmailHasItsAccount, Exists
      <3> QED  BY <3>5, <3>6, <3>7, <3>8 DEF DeletionInv, WorkersOK
    <2> QED  BY <2>1, <2>2
  <1>13. CASE Crash(w)
    <2>1. worker'[w] = Idle /\ UNCHANGED <<email, listener, deletion, job, confirmed>>
      BY <1>13 DEF Crash, DeletionInv, TypeOK
    <2> QED  BY <1>1, <2>1 DEF WorkerOK
  <1> QED
    BY <1>2, <1>3, <1>4, <1>5, <1>6, <1>7, <1>9, <1>10, <1>11, <1>12, <1>13, <1>14
    DEF Delete

\* The accounts, their deletions and the workers' old reads agree.
THEOREM DeletionInvariant == Spec => []DeletionInv
  <1>1. DeletionInv /\ [Next]_vars => DeletionInv'
    <2> SUFFICES ASSUME DeletionInv, [Next]_vars
                 PROVE  DeletionInv'
      OBVIOUS
    <2>1. TypeOK'
      <3>1. CASE UNCHANGED vars
        BY <3>1 DEF vars, items, DeletionInv, TypeOK
      <3> QED  BY <3>1, ListenerTypes, ServeTypes, WorkerTypes DEF Next, DeletionInv
    <2>2. CASE UNCHANGED vars
      BY <2>2 DEF vars, items, DeletionInv, TypeOK, AccountsOK, WorkersOK,
                  AccountOK, WorkerOK, EmailHasItsAccount, Exists
    <2> QED  BY <2>1, <2>2, ListenerKeeps, ServeKeeps, DeleteKeeps DEF Next
  <1> QED  BY <1>1, DeletionHoldsAtFirst, PTL DEF Spec

\* The address belongs to an account that exists, and an account that is not
\* being deleted owns its address.
THEOREM EmailStaysOwned == Spec => []EmailHasItsAccount
  BY DeletionInvariant, PTL DEF DeletionInv

\* The listener item goes last, and the job ends with it.
THEOREM ListenerGoesLast == Spec => []GoneIsLast
  <1>1. DeletionInv => GoneIsLast
    BY DEF DeletionInv, AccountsOK, AccountOK, GoneIsLast, Late
  <1> QED  BY <1>1, DeletionInvariant, PTL

\* A Keep that was recorded holds.
THEOREM RecordedKeepsHold == Spec => []RecordedKeepHolds
  <1>1. DeletionInv => RecordedKeepHolds
    BY DEF DeletionInv, TypeOK, AccountsOK, AccountOK, RecordedKeepHolds
  <1> QED  BY <1>1, DeletionInvariant, PTL

-----------------------------------------------------------------------------
(* Sessions and the device list *)

\* A session that replaced another follows it in its chain, as long as that
\* one is there.
ChainsLink ==
  \A s \in Tokens :
    Signed(s) /\ session[s].pred # None =>
      \/ session[session[s].pred].is = "gone"
      \/ Signed(session[s].pred) /\ session[session[s].pred].next = s

\* What a request has read of sessions: theirs is the account it works for,
\* and the ends it takes from the list are among those it deletes.
RequestOK(r) ==
  LET q == request[r] IN
  /\ q.do = "rotate" =>
       /\ session[q.tok].is # "new"
       /\ Signed(q.tok) => session[q.tok].acct = q.acct
  /\ q.do = "signout" => q.ends \subseteq q.chain

RequestsOK == \A r \in Requests : RequestOK(r)

SessionInv == DeletionInv /\ ChainsLink /\ OneSuccessor /\ DeviceIsListed /\ RequestsOK

LEMMA SessionsHoldAtFirst ==
  Init => ChainsLink /\ OneSuccessor /\ DeviceIsListed /\ RequestsOK
  BY AccountConstants
  DEF Init, ChainsLink, OneSuccessor, DeviceIsListed, RequestsOK, RequestOK, Signed,
      NewSession, NoSession, Idle

\* Sessions that go with their place in the list disturb nothing else.
LEMMA ChainGoes ==
  ASSUME SessionInv, NEW a \in Accounts, NEW ts \in SUBSET Tokens, NEW es \in SUBSET Tokens,
         DeleteChain(a, ts, es), es \subseteq ts \/ job[a] # None,
         \A b \in Accounts : job[b] # None => job'[b] # None
  PROVE  /\ ChainsLink' /\ OneSuccessor' /\ DeviceIsListed'
         /\ \A t \in Tokens : session'[t] = session[t] \/ session'[t] = NoSession("gone")
  <1>1. \A t \in Tokens : session'[t] = IF t \in ts THEN NoSession("gone") ELSE session[t]
    BY DEF DeleteChain
  <1>2. NoSession("gone").is = "gone"
    BY DEF NoSession
  <1>3. \A t \in Tokens : Signed(t)' => Signed(t) /\ t \notin ts /\ session'[t] = session[t]
    BY <1>1, <1>2 DEF Signed
  <1>4. ChainsLink'
    <2> SUFFICES ASSUME NEW s \in Tokens, Signed(s)',
                        NEW p, p = session'[s].pred, p # None
                 PROVE  \/ session'[p].is = "gone"
                        \/ session'[p].is = "live" /\ session'[p].next = s
      BY DEF ChainsLink, Signed
    <2>1. Signed(s) /\ session'[s] = session[s] /\ p \in Tokens
      BY <1>3 DEF SessionInv, DeletionInv, TypeOK, Session, Signed
    <2>2. session[p].is = "gone" \/ (Signed(p) /\ session[p].next = s)
      BY <2>1 DEF SessionInv, ChainsLink
    <2>3. session'[p] = session[p] \/ session'[p].is = "gone"
      BY <1>1, <1>2, <2>1
    <2> QED  BY <2>2, <2>3 DEF Signed
  <1>5. OneSuccessor'
    BY <1>3 DEF SessionInv, OneSuccessor
  <1>6. DeviceIsListed'
    <2> SUFFICES ASSUME NEW t \in Tokens, Signed(t)', session'[t].next = None,
                        job'[session'[t].acct] = None
                 PROVE  t \in pointers'[session'[t].acct]
      BY DEF DeviceIsListed
    <2>1. Signed(t) /\ t \notin ts /\ session'[t] = session[t] /\ session[t].acct \in Accounts
      BY <1>3, SessionHasAccount DEF SessionInv, DeletionInv
    <2>2. job[session[t].acct] = None
      BY <2>1
    <2>3. t \in pointers[session[t].acct]
      BY <2>1, <2>2 DEF SessionInv, DeviceIsListed
    <2> QED  BY <2>1, <2>2, <2>3 DEF DeleteChain, SessionInv, DeletionInv, TypeOK
  <1> QED  BY <1>1, <1>4, <1>5, <1>6

\* Requests that read a session stay true while sessions only go.
LEMMA OtherRequests ==
  ASSUME SessionInv, NEW r \in Requests, request'[r] = request[r],
         \A t \in Tokens : session[t].is # "new" =>
           \/ session'[t].is = "gone"
           \/ Signed(t) /\ Signed(t)' /\ session'[t].acct = session[t].acct
  PROVE  RequestOK(r)'
  <1>1. request[r].do = "rotate" => request[r].tok \in Tokens
    BY DEF SessionInv, DeletionInv, TypeOK, Request, Idle
  <1>2. RequestOK(r)
    BY DEF SessionInv, RequestsOK
  <1> QED  BY <1>1, <1>2 DEF RequestOK, Signed

\* Steps that leave sessions and the list alone.
LEMMA SessionsStay ==
  ASSUME SessionInv, UNCHANGED <<session, pointers>>,
         \A b \in Accounts : job[b] # None => job'[b] # None
  PROVE  ChainsLink' /\ OneSuccessor' /\ DeviceIsListed'
  <1>1. \A t \in Tokens : Signed(t) => session[t].acct \in Accounts
    BY SessionHasAccount DEF SessionInv, DeletionInv
  <1> QED  BY <1>1 DEF SessionInv, ChainsLink, OneSuccessor, DeviceIsListed, Signed

LEMMA WorkersKeepSessions ==
  ASSUME SessionInv, DeletionInv', NEW w \in Workers, Delete(w) \/ Crash(w)
  PROVE  SessionInv'
  <1> USE AccountConstants, NoneIsNoItem DEF items
  <1> DEFINE a == worker[w].acct
  <1>1. UNCHANGED request
    BY DEF Delete, TakeDue, Resume, ReadJob, ClearContent, ClearSessions, ClearChain,
           ClearPartition, FreeEmail, ForgetRequest, DeleteListener, SaveJob, Crash, Works, Saves, Moves
  <1>2. \A b \in Accounts : job[b] # None => job'[b] # None
    <2>1. CASE TakeDue(w)
      BY <2>1 DEF TakeDue, SessionInv, DeletionInv, TypeOK
    <2>2. CASE SaveJob(w)
      <3>1. /\ worker[w].phase \in Phases /\ worker[w].v + 1 \in Nat
            /\ worker[w].acct \in Accounts
        BY <2>2 DEF SaveJob, SessionInv, DeletionInv, TypeOK, Worker, Idle
      <3>2. [phase |-> worker[w].phase, v |-> worker[w].v + 1] # None
        BY <3>1
      <3> QED  BY <2>2, <3>1, <3>2 DEF SaveJob, SessionInv, DeletionInv, TypeOK
    <2>3. CASE ~TakeDue(w) /\ ~SaveJob(w)
      BY <2>3 DEF Delete, Resume, ReadJob, ClearContent, ClearSessions, ClearChain,
             ClearPartition, FreeEmail, ForgetRequest, DeleteListener, Crash
    <2> QED  BY <2>1, <2>2, <2>3
  <1>3. CASE UNCHANGED <<session, pointers>>
    BY <1>1, <1>2, <1>3, SessionsStay DEF SessionInv, RequestsOK, RequestOK, Signed
  <1>4. CASE ClearChain(w)
    <2>1. /\ a \in Accounts /\ job[a] # None
          /\ worker[w].chain \in SUBSET Tokens /\ worker[w].ends \in SUBSET Tokens
          /\ DeleteChain(a, worker[w].chain, worker[w].ends)
      BY <1>4 DEF ClearChain, SessionInv, DeletionInv, TypeOK, Worker, WorkersOK, WorkerOK, Idle
    <2>2. /\ ChainsLink' /\ OneSuccessor' /\ DeviceIsListed'
          /\ \A t \in Tokens : session'[t] = session[t] \/ session'[t] = NoSession("gone")
      BY <1>2, <2>1, ChainGoes
    <2>3. RequestsOK'
      BY <1>1, <2>2, OtherRequests
      DEF RequestsOK, Signed, NoSession, SessionInv, DeletionInv, TypeOK, Session
    <2> QED  BY <2>2, <2>3 DEF SessionInv
  <1>5. CASE ClearPartition(w)
    <2>1. /\ a \in Accounts /\ job[a] # None /\ job'[a] # None
          /\ UNCHANGED session /\ pointers' = [pointers EXCEPT ![a] = {}]
      BY <1>2, <1>5
      DEF ClearPartition, Step, SessionInv, DeletionInv, TypeOK, Worker, WorkersOK, WorkerOK, Idle
    <2>2. DeviceIsListed'
      <3> SUFFICES ASSUME NEW t \in Tokens, Signed(t), session[t].next = None,
                          job'[session[t].acct] = None
                   PROVE  t \in pointers'[session[t].acct]
        BY <2>1 DEF DeviceIsListed, Signed
      <3>1. session[t].acct \in Accounts /\ job[session[t].acct] = None
        BY <1>2, SessionHasAccount DEF SessionInv, DeletionInv
      <3> QED  BY <2>1, <3>1 DEF SessionInv, DeviceIsListed, DeletionInv, TypeOK
    <2> QED
      BY <1>1, <2>1, <2>2 DEF SessionInv, ChainsLink, OneSuccessor, RequestsOK, RequestOK, Signed
  <1> QED
    BY <1>3, <1>4, <1>5
    DEF Delete, TakeDue, Resume, ReadJob, ClearContent, ClearSessions, FreeEmail,
        ForgetRequest, DeleteListener, SaveJob, Crash

\* Requests that only come and go, or are about accounts.
LEMMA RequestsKeepSessions ==
  ASSUME SessionInv, DeletionInv', NEW r \in Requests, Listener(r) \/ Serve(r)
  PROVE  SessionInv'
  <1> USE AccountConstants DEF items
  <1>1. \A q \in Requests \ {r} : request'[q] = request[q]
    BY DEF Listener, SignIn, SignUp, Rotate, SignOut, Leave, Keep, Serve, PutSession, PutRotated,
           LeaveList, ReadChain, EndChain, Show, Asks, Goes, EndsSessions,
           SessionInv, DeletionInv, TypeOK
  <1>2. UNCHANGED job
    BY DEF Listener, SignIn, SignUp, Rotate, SignOut, Leave, Keep, Serve, PutSession, PutRotated,
           LeaveList, ReadChain, EndChain, Show
  <1>3. ASSUME UNCHANGED <<session, pointers>>, RequestOK(r)'
        PROVE  SessionInv'
    <2>1. RequestsOK'
      BY <1>1, <1>3 DEF SessionInv, RequestsOK, RequestOK, Signed
    <2> QED  BY <1>2, <1>3, <2>1, SessionsStay DEF SessionInv
  <1>4. CASE SignIn(r) \/ SignUp(r) \/ Leave(r) \/ Keep(r) \/ LeaveList(r) \/ Show(r)
    <2>1. request'[r].do \notin {"rotate", "signout"} \/ request'[r].ends = {}
      BY <1>4 DEF SignIn, SignUp, Leave, Keep, LeaveList, Show, Asks, Goes, EndsSessions, Idle,
                  SessionInv, DeletionInv, TypeOK
    <2>2. request'[r].do # "rotate"
      BY <1>4 DEF SignIn, SignUp, Leave, Keep, LeaveList, Show, Asks, Goes, EndsSessions, Idle,
                  SessionInv, DeletionInv, TypeOK
    <2>3. UNCHANGED <<session, pointers>>
      BY <1>4 DEF SignIn, SignUp, Leave, Keep, LeaveList, Show
    <2> QED  BY <1>3, <2>1, <2>2, <2>3 DEF RequestOK
  <1>5. CASE Rotate(r)
    <2>1. PICK t \in Tokens :
            /\ Signed(t)
            /\ request' = [request EXCEPT ![r] =
                 [do |-> "rotate", tok |-> t, acct |-> session[t].acct]]
            /\ UNCHANGED <<session, pointers>>
      BY <1>5 DEF Rotate, Asks
    <2>2. /\ request'[r].do = "rotate" /\ request'[r].tok = t
          /\ request'[r].acct = session[t].acct
      BY <2>1 DEF SessionInv, DeletionInv, TypeOK
    <2> QED  BY <1>3, <2>1, <2>2 DEF RequestOK, Signed
  <1>6. CASE SignOut(r)
    <2>1. PICK t \in Tokens :
            /\ request' = [request EXCEPT ![r] =
                 [do |-> "signout", acct |-> session[t].acct, todo |-> {},
                  chain |-> Chain(t), ends |-> Ends(Chain(t))]]
            /\ UNCHANGED <<session, pointers>>
      BY <1>6 DEF SignOut, Asks
    <2>2. request'[r].do = "signout" /\ request'[r].ends \subseteq request'[r].chain
      BY <2>1, ChainTokens DEF SessionInv, DeletionInv, TypeOK
    <2> QED  BY <1>3, <2>1, <2>2 DEF RequestOK
  <1>7. CASE ReadChain(r)
    <2>1. UNCHANGED <<session, pointers>>
      BY <1>7 DEF ReadChain
    <2>2. CASE request[r].todo = {}
      BY <1>3, <1>7, <2>1, <2>2
      DEF ReadChain, Goes, Idle, RequestOK, SessionInv, DeletionInv, TypeOK
    <2>3. CASE request[r].todo # {}
      <3>1. PICK t \in request[r].todo :
              EndsSessions(r, request[r].acct, request[r].todo \ {t}, Chain(t), Ends(Chain(t)))
        BY <1>7, <2>3 DEF ReadChain
      <3>2. request'[r].do = "signout" /\ request'[r].ends \subseteq request'[r].chain
        BY <3>1, ChainTokens DEF EndsSessions, Goes, SessionInv, DeletionInv, TypeOK
      <3> QED  BY <1>3, <2>1, <3>2 DEF RequestOK
    <2> QED  BY <2>2, <2>3
  <1>8. CASE EndChain(r)
    <2> DEFINE q == request[r]
    <2>1. /\ q.acct \in Accounts /\ q.chain \in SUBSET Tokens /\ q.ends \in SUBSET Tokens
          /\ q.ends \subseteq q.chain
      BY <1>8 DEF EndChain, SessionInv, DeletionInv, TypeOK, Request, RequestsOK, RequestOK, Idle
    <2>2. DeleteChain(q.acct, q.chain, q.ends)
      BY <1>8 DEF EndChain
    <2>3. /\ ChainsLink' /\ OneSuccessor' /\ DeviceIsListed'
          /\ \A t \in Tokens : session'[t] = session[t] \/ session'[t] = NoSession("gone")
      <3> HIDE DEF q
      <3> QED  BY <1>2, <2>1, <2>2, ChainGoes
    <2>4. \A t \in Tokens : session[t].is # "new" =>
            \/ session'[t].is = "gone"
            \/ Signed(t) /\ Signed(t)' /\ session'[t].acct = session[t].acct
      BY <2>3 DEF Signed, NoSession, SessionInv, DeletionInv, TypeOK, Session
    <2>5. RequestOK(r)'
      <3>1. request'[r].do = "signout" /\ request'[r].ends = {}
        BY <1>8 DEF EndChain, EndsSessions, Goes, SessionInv, DeletionInv, TypeOK
      <3> QED  BY <3>1 DEF RequestOK
    <2>6. RequestsOK'
      BY <1>1, <2>4, <2>5, OtherRequests DEF RequestsOK
    <2> QED  BY <2>3, <2>6 DEF SessionInv
  <1>9. CASE PutSession(r)
    <2>1. PICK t \in Tokens :
            /\ request[r].do = "session" /\ New(t)
            /\ session' = [session EXCEPT ![t] = NewSession(request[r].acct, None)]
            /\ pointers' = [pointers EXCEPT ![request[r].acct] = @ \cup {t}]
            /\ request' = [request EXCEPT ![r] = Idle]
      BY <1>9 DEF PutSession, Goes
    <2> DEFINE a == request[r].acct
    <2>2. a \in Accounts
      BY <2>1 DEF SessionInv, DeletionInv, TypeOK, Request, Idle
    <2> HIDE DEF a
    <2>3. /\ session'[t].is = "live" /\ session'[t].acct = a
          /\ session'[t].pred = None /\ session'[t].next = None
          /\ \A s \in Tokens \ {t} : session'[s] = session[s]
      BY <2>1, <2>2 DEF NewSession, SessionInv, DeletionInv, TypeOK, a
    <2>4. /\ t \in pointers'[a]
          /\ \A b \in Accounts : pointers[b] \subseteq pointers'[b]
      BY <2>1, <2>2 DEF SessionInv, DeletionInv, TypeOK, a
    <2>5. \A s \in Tokens : Signed(s) /\ session[s].pred # None =>
                             session[s].pred \in Tokens \ {t}
      BY <2>1 DEF New, Signed, SessionInv, ChainsLink, DeletionInv, TypeOK, Session
    <2>6. ChainsLink'
      BY <2>3, <2>5 DEF Signed, SessionInv, ChainsLink
    <2>7. OneSuccessor'
      BY <2>3 DEF Signed, SessionInv, OneSuccessor
    <2>8. DeviceIsListed'
      <3> SUFFICES ASSUME NEW s \in Tokens, Signed(s)', session'[s].next = None,
                          job[session'[s].acct] = None
                   PROVE  s \in pointers'[session'[s].acct]
        BY <1>2 DEF DeviceIsListed
      <3>1. CASE s = t
        BY <2>3, <2>4, <3>1
      <3>2. CASE s # t
        <4>1. Signed(s) /\ session'[s] = session[s]
          BY <2>3, <3>2 DEF Signed
        <4>2. session[s].acct \in Accounts
          BY <4>1, SessionHasAccount DEF SessionInv, DeletionInv
        <4> QED  BY <2>4, <4>1, <4>2 DEF SessionInv, DeviceIsListed
      <3> QED  BY <3>1, <3>2
    <2>9. RequestsOK'
      <3>1. \A s \in Tokens : session[s].is # "new" => session'[s] = session[s]
        BY <2>1, <2>3 DEF New
      <3>2. RequestOK(r)'
        BY <2>1 DEF RequestOK, Idle, SessionInv, DeletionInv, TypeOK
      <3> QED
        BY <1>1, <3>1, <3>2, OtherRequests
        DEF RequestsOK, Signed, SessionInv, DeletionInv, TypeOK, Session
    <2> QED  BY <2>6, <2>7, <2>8, <2>9 DEF SessionInv
  <1>10. CASE PutRotated(r)
    <2> DEFINE a == request[r].acct
               old == request[r].tok
    <2>1. /\ a \in Accounts /\ old \in Tokens /\ request[r].do = "rotate"
          /\ request' = [request EXCEPT ![r] = Idle]
      BY <1>10 DEF PutRotated, Goes, SessionInv, DeletionInv, TypeOK, Request, Idle
    <2>2. RequestOK(r)'
      BY <2>1 DEF RequestOK, Idle, SessionInv, DeletionInv, TypeOK
    <2>3. CASE ~Swaps(old)
      BY <1>3, <1>10, <2>2, <2>3 DEF PutRotated
    <2>4. CASE Swaps(old)
      <3>1. PICK t \in Tokens :
              /\ New(t)
              /\ session' = [session EXCEPT ![old].next = t, ![t] = NewSession(a, old)]
              /\ pointers' = Repoint(a, old, t)
        BY <1>10, <2>4 DEF PutRotated
      <3>2. /\ Signed(old) /\ session[old].next = None /\ t # old
            /\ session[old].acct = a
        BY <2>1, <2>4, <3>1 DEF Swaps, New, Signed, SessionInv, RequestsOK, RequestOK
      <3> HIDE DEF a, old
      <3>3. \A s \in Tokens \ {t, old} : session'[s] = session[s]
        BY <2>1, <3>1 DEF SessionInv, DeletionInv, TypeOK
      <3>4. /\ session'[t].is = "live" /\ session'[t].acct = a
            /\ session'[t].pred = old /\ session'[t].next = None
            /\ session'[old].is = "live" /\ session'[old].acct = session[old].acct
            /\ session'[old].pred = session[old].pred /\ session'[old].next = t
        <4>1. /\ session'[t] = NewSession(a, old)
              /\ session'[old] = [session[old] EXCEPT !.next = t]
          BY <2>1, <3>1, <3>2 DEF SessionInv, DeletionInv, TypeOK
        <4> QED
          BY <2>1, <3>2, <4>1 DEF NewSession, SessionInv, DeletionInv, TypeOK, Session, Signed
      <3>5. \A s \in Tokens : Signed(s) /\ session[s].pred # None =>
                               session[s].pred \in Tokens \ {t, old}
        BY <3>1, <3>2, AccountConstants
        DEF New, Signed, SessionInv, ChainsLink, DeletionInv, TypeOK, Session
      <3>10. \A s \in Tokens \ {t} :
              Signed(s)' => Signed(s) /\ session'[s].pred = session[s].pred
        BY <3>2, <3>3, <3>4 DEF Signed
      <3>6. ChainsLink'
        <4> SUFFICES ASSUME NEW s \in Tokens, Signed(s)',
                            NEW q, q = session'[s].pred, q # None
                     PROVE  \/ session'[q].is = "gone"
                            \/ session'[q].is = "live" /\ session'[q].next = s
          BY DEF ChainsLink, Signed
        <4>1. CASE s = t
          BY <3>4, <4>1
        <4>2. CASE s # t
          <5>1. q \in Tokens \ {t, old} /\ Signed(s) /\ session[s].pred = q
            BY <3>5, <3>10, <4>2
          <5>2. session[q].is = "gone" \/ (session[q].is = "live" /\ session[q].next = s)
            BY <5>1 DEF SessionInv, ChainsLink, Signed
          <5> QED  BY <3>3, <5>1, <5>2
        <4> QED  BY <4>1, <4>2
      <3>7. OneSuccessor'
        <4> SUFFICES ASSUME NEW s \in Tokens, NEW u \in Tokens, Signed(s)', Signed(u)', s # u,
                            session'[s].pred # None, session'[s].pred = session'[u].pred
                     PROVE  FALSE
          BY DEF OneSuccessor
        <4>1. CASE s # t /\ u # t
          BY <3>10, <4>1 DEF SessionInv, OneSuccessor
        <4>2. CASE s = t
          BY <3>4, <3>5, <3>10, <4>2
        <4>3. CASE u = t
          BY <3>4, <3>5, <3>10, <4>3
        <4> QED  BY <4>1, <4>2, <4>3
      <3>8. DeviceIsListed'
        <4> SUFFICES ASSUME NEW s \in Tokens, Signed(s)', session'[s].next = None,
                            job[session'[s].acct] = None
                     PROVE  s \in pointers'[session'[s].acct]
          BY <1>2 DEF DeviceIsListed
        <4>1. CASE s = t
          BY <2>1, <3>1, <3>4, <4>1 DEF Repoint, SessionInv, DeletionInv, TypeOK
        <4>2. CASE s # t
          <5>1. s # old
            BY <3>1, <3>4, AccountConstants
          <5>3. session'[s] = session[s] /\ Signed(s)
            BY <3>3, <3>10, <4>2, <5>1
          <5>2. s \in pointers[session[s].acct] /\ session[s].acct \in Accounts
            BY <5>3, SessionHasAccount DEF SessionInv, DeviceIsListed, DeletionInv
          <5> QED  BY <2>1, <3>1, <5>1, <5>3, <5>2 DEF Repoint, SessionInv, DeletionInv, TypeOK
        <4> QED  BY <4>1, <4>2
      <3>9. RequestsOK'
        <4>1. \A s \in Tokens : session[s].is # "new" =>
                \/ session'[s].is = "gone"
                \/ Signed(s) /\ Signed(s)' /\ session'[s].acct = session[s].acct
          BY <2>1, <3>1, <3>2, <3>3, <3>4
          DEF New, Signed, SessionInv, DeletionInv, TypeOK, Session
        <4> QED  BY <1>1, <2>2, <4>1, OtherRequests DEF RequestsOK
      <3> QED  BY <3>6, <3>7, <3>8, <3>9 DEF SessionInv
    <2> QED  BY <2>3, <2>4
  <1> QED
    BY <1>4, <1>5, <1>6, <1>7, <1>8, <1>9, <1>10 DEF Listener, Serve

\* Sessions, the device list and what requests have read of them agree.
THEOREM SessionInvariant == Spec => []SessionInv
  <1>1. Init => SessionInv
    BY DeletionHoldsAtFirst, SessionsHoldAtFirst DEF SessionInv
  <1>2. SessionInv /\ DeletionInv' /\ [Next]_vars => SessionInv'
    <2> SUFFICES ASSUME SessionInv, DeletionInv', [Next]_vars
                 PROVE  SessionInv'
      OBVIOUS
    <2>1. CASE UNCHANGED vars
      BY <2>1 DEF vars, items, SessionInv, ChainsLink, OneSuccessor, DeviceIsListed,
                  RequestsOK, RequestOK, Signed
    <2> QED  BY <2>1, RequestsKeepSessions, WorkersKeepSessions DEF Next
  <1> QED  BY <1>1, <1>2, DeletionInvariant, PTL DEF Spec

\* A session has at most one successor, however many requests swap its token.
THEOREM SessionsHaveOneSuccessor == Spec => []OneSuccessor
  BY SessionInvariant, PTL DEF SessionInv

\* The live end of every chain is in the device list of its account.
THEOREM DevicesAreListed == Spec => []DeviceIsListed
  BY SessionInvariant, PTL DEF SessionInv

=============================================================================
