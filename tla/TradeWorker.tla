---------------------------- MODULE TradeWorker ----------------------------
(***************************************************************************)
(* One processing thread of the trade gateway (class proc_thread,          *)
(* c++/trunk/pemc/trade/src/proc_thread.cpp): its request buffer, its map  *)
(* from account to trading instance, its store of spare instances and the  *)
(* events the SDK pushes into the same buffer.                             *)
(*                                                                         *)
(* Actors: the receiving thread (Arrive), the worker's loop (Serve*,       *)
(* Callback*, HeartBeat, CheckActive), the SDK's threads (SdkAnswer, Kick) *)
(* and the clock (Elapse).  Serving a task is one step: the maps are       *)
(* private to the worker, and the only shared structure, the buffer, is    *)
(* locked for a single push or pop.                                        *)
(***************************************************************************)
EXTENDS GdTrade, Sequences, FiniteSets

CONSTANTS MapCap,      \* the limit 300 of get_trade_from_store
          InitCap,     \* _init_capacity, the instances made by init()
          MaxRequests, \* bound: requests that arrive in a behaviour
          Env          \* environment behaviours allowed, see below

(***************************************************************************)
(* Env is a subset of                                                      *)
(*   "overlap"  a customer sends a login while an earlier one of his is    *)
(*              still unanswered                                           *)
(*   "late"     check_active runs between a login and its answer           *)
(*   "drop"     the SDK reports the codes DROPUSER (the customer logged on *)
(*              elsewhere) or LOGACCERR (no such login account)            *)
(*   "refuse"   the SDK's Release returns -1                               *)
(***************************************************************************)
ASSUME CapAssumption == MapCap \in Nat \ {0} /\ InitCap \in 1 .. MapCap
ASSUME BoundAssumption == MaxRequests \in Nat

\* gd_trade objects, numbered in the order they are allocated; there is one
\* more than the limit admits, so that the limit is a property and not a type.
Trades == 1 .. (MapCap + 1)
None == 0

VARIABLES
    interfaceMap,   \* _user_interface_map
    interfaceStore, \* _user_interface_store, a vector used as a stack
    created,        \* gd_trade objects allocated so far
    trade,          \* the objects
    queue,          \* _request_buffer, a deque
    nreq,           \* requests received so far; a request's number is its id
    replies,        \* responses handed to the producer
    up              \* FALSE after an invalid pointer was followed

vars == <<interfaceMap, interfaceStore, created, trade, queue, nreq, replies, up>>
pool == <<interfaceMap, interfaceStore, created>>

\* ask and sid: the RequestType and Sid parameters of a poll.
Requests == [kind : {"request"}, id : Nat \ {0}, acct : Accounts,
             type : Types, ask : Types \cup ResultTypes, sid : Nat]
Callbacks == {cb \in [kind : {"callback"}, acct : Accounts \cup {NoAccount},
                     ev : ResultTypes, sid : Nat, success : BOOLEAN,
                     named : BOOLEAN, code : {"ok", "drop", "fail"}] :
                 cb.named => cb.sid # 0}

\* ok: the response says Success = 1.
Responses == [id : Nat \ {0}, acct : Accounts, type : Types, ok : BOOLEAN]

Mapped == {k \in Accounts : interfaceMap[k] # None}
Stored == {interfaceStore[i] : i \in DOMAIN interfaceStore}
Queued == {queue[i] : i \in DOMAIN queue}

-----------------------------------------------------------------------------
(* The environment: clients, the SDK, the clock.                           *)

Init ==
    /\ interfaceMap = [k \in Accounts |-> None]
    /\ interfaceStore = [i \in 1 .. InitCap |-> i]
    /\ created = InitCap
    /\ trade = [t \in Trades |-> NewInstance]
    /\ queue = <<>>
    /\ nreq = 0
    /\ replies = {}
    /\ up = TRUE

\* An answer to a login of k is still to come, or waits in the buffer.
LoginOutstanding(k) ==
    \/ \E t \in Trades : \E p \in trade[t].pend : p.op = "login" /\ p.for = k
    \/ \E q \in Queued : q.kind = "callback" /\ q.ev = "login" /\ q.acct = k

\* The type under which the answer to a request is filed.
FiledFor(type) == IF type = "login" THEN "login" ELSE Filed(type)

LoginQueued(k) ==
    \E q \in Queued : q.kind = "request" /\ q.type = "login" /\ q.acct = k

\* Mutant of Push: a request is pushed at the front, as an event is.
Push_Front(k, type, ask, sid) ==
    /\ nreq < MaxRequests
    /\ type \in Types
    /\ nreq' = nreq + 1
    /\ queue' = <<[kind |-> "request", id |-> nreq + 1, acct |-> k,
                   type |-> type, ask |-> ask, sid |-> sid]>> \o queue
    /\ UNCHANGED <<pool, trade, replies, up>>

Push(k, type, ask, sid) ==
    /\ nreq < MaxRequests
    /\ type \in Types
    /\ nreq' = nreq + 1
    /\ queue' = Append(queue, [kind |-> "request", id |-> nreq + 1, acct |-> k,
                               type |-> type, ask |-> ask, sid |-> sid])
    /\ UNCHANGED <<pool, trade, replies, up>>

\* recv_thread::on_recv pushed a well-formed request to this thread's buffer.
\* A client polls for an answer it was promised, under the type of its request
\* or under the type the answer is filed under.
Arrive(k) ==
    /\ up
    /\ \/ /\ "overlap" \in Env \/ ~(LoginOutstanding(k) \/ LoginQueued(k))
          /\ Push(k, "login", "login", 0)
       \/ \E y \in Types \ {"login", "get.result"} : Push(k, y, "login", 0)
       \/ \E r \in replies :
             /\ r.acct = k /\ r.ok /\ (r.type = "login" \/ Serve(r.type) = "later")
             /\ \E ask \in {r.type, FiledFor(r.type)} \ {NoType} :
                  Push(k, "get.result", ask, r.id)

\* The SDK's thread delivers an answer: procTradeEvent builds the callback for
\* the account the instance has NOW, and puts it at the front of the buffer.
SdkAnswer(t) ==
    /\ up
    /\ \E p \in trade[t].pend, code \in {"ok", "drop", "fail"} :
         LET h == [trade[t] EXCEPT !.pend = @ \ {p}]
         IN  \/ /\ p.op = "login" /\ (code = "drop" => "drop" \in Env)
                /\ trade' = [trade EXCEPT ![t] =
                        IF code = "ok" THEN [h EXCEPT !.sess = p.for] ELSE h]
                /\ queue' = <<LoginEvent(trade[t], p.sid, code)>> \o queue
             \/ /\ p.op # "login" /\ code # "drop"
                /\ trade' = [trade EXCEPT ![t] = h]
                /\ queue' = IF Answered(p.op)
                            THEN <<OrderEvent(trade[t], p.op, p.sid, code)>> \o queue
                            ELSE queue
    /\ UNCHANGED <<pool, nreq, replies, up>>

\* The customer logged on at another place: the SDK drops his session.
Kick(t) ==
    /\ up /\ "drop" \in Env
    /\ trade[t].sess # NoAccount
    /\ trade' = [trade EXCEPT ![t].sess = NoAccount]
    /\ queue' = <<LoginEvent(trade[t], 0, "drop")>> \o queue
    /\ UNCHANGED <<pool, nreq, replies, up>>

\* Sixty seconds pass after the instance's last logout.
Elapse(t) ==
    /\ up
    /\ trade[t].status = "out" /\ ~trade[t].stale
    /\ trade' = [trade EXCEPT ![t].stale = TRUE]
    /\ UNCHANGED <<pool, queue, nreq, replies, up>>

-----------------------------------------------------------------------------
(* The worker: process_request and request_type.                           *)

\* The worker follows a NULL interface or an end iterator: a segmentation
\* fault, which no catch clause stops.
Crash == up' = FALSE /\ UNCHANGED <<pool, trade, queue, nreq, replies>>

\* The task at the front is popped; the response goes out as its last act.
Respond(r, ok) ==
    /\ queue' = Tail(queue)
    /\ replies' = replies \cup {[id |-> r.id, acct |-> r.acct, type |-> r.type,
                                 ok |-> ok]}
    /\ UNCHANGED <<nreq, up>>

Front(kind) == up /\ queue # <<>> /\ Head(queue).kind = kind

\* case LOGIN of request_type, on instance t
LoginOn(t, r) ==
    \/ Respond(r, FALSE) /\ UNCHANGED trade               \* no password
    \/ \E networkOk, accepted \in BOOLEAN :
         IF InitOk(trade[t], networkOk)
         THEN LET g == InitInterface(trade[t], networkOk)
              IN  /\ trade' = [trade EXCEPT ![t] = DoLogin(g, r.acct, r.id, accepted)]
                  /\ Respond(r, LoginOk(g, accepted))
         ELSE Respond(r, FALSE) /\ UNCHANGED trade

\* login of an account that has an instance
ServeLoginAgain ==
    /\ Front("request")
    /\ LET r == Head(queue)
       IN  /\ r.type = "login" /\ r.acct \in Mapped
           /\ LoginOn(interfaceMap[r.acct], r)
    /\ UNCHANGED pool

\* Mutant of ServeLoginStored: the instance is not popped from the store.
ServeLoginStored_NoPop ==
    /\ Front("request")
    /\ interfaceStore # <<>>
    /\ LET r == Head(queue)
           t == interfaceStore[Len(interfaceStore)]
       IN  /\ r.type = "login" /\ r.acct \notin Mapped
           /\ interfaceMap' = [interfaceMap EXCEPT ![r.acct] = t]
           /\ LoginOn(t, r)
    /\ UNCHANGED <<interfaceStore, created>>

\* login of a new account, served from the store
ServeLoginStored ==
    /\ Front("request")
    /\ interfaceStore # <<>>
    /\ LET r == Head(queue)
           t == interfaceStore[Len(interfaceStore)]
       IN  /\ r.type = "login" /\ r.acct \notin Mapped
           /\ interfaceMap' = [interfaceMap EXCEPT ![r.acct] = t]
           /\ LoginOn(t, r)
    /\ interfaceStore' = SubSeq(interfaceStore, 1, Len(interfaceStore) - 1)
    /\ UNCHANGED created

\* Mutant of ServeLoginCreate: ">" for ">=" in the test of the limit.
ServeLoginCreate_OffByOne ==
    /\ Front("request")
    /\ interfaceStore = <<>> /\ Cardinality(Mapped) <= MapCap
    /\ created' = created + 1
    /\ LET r == Head(queue)
       IN  /\ r.type = "login" /\ r.acct \notin Mapped
           /\ interfaceMap' = [interfaceMap EXCEPT ![r.acct] = created + 1]
           /\ LoginOn(created + 1, r)
    /\ UNCHANGED interfaceStore

\* login of a new account with the store empty: a new gd_trade
ServeLoginCreate ==
    /\ Front("request")
    /\ interfaceStore = <<>> /\ Cardinality(Mapped) < MapCap
    /\ created' = created + 1
    /\ LET r == Head(queue)
       IN  /\ r.type = "login" /\ r.acct \notin Mapped
           /\ interfaceMap' = [interfaceMap EXCEPT ![r.acct] = created + 1]
           /\ LoginOn(created + 1, r)
    /\ UNCHANGED interfaceStore

\* Mutant of ServeRefused: a full pool is only logged, nobody gets a response.
ServeRefused_Silent ==
    /\ Front("request")
    /\ LET r == Head(queue)
           full == /\ r.acct \notin Mapped /\ r.type = "login"
                   /\ interfaceStore = <<>> /\ Cardinality(Mapped) >= MapCap
       IN  \/ full /\ queue' = Tail(queue) /\ UNCHANGED <<nreq, replies, up>>
           \/ r.acct \notin Mapped /\ r.type # "login" /\ Respond(r, FALSE)
           \/ /\ r.acct \in Mapped /\ r.type # "login"
              /\ trade[interfaceMap[r.acct]].status = "out"
              /\ Respond(r, FALSE)
    /\ UNCHANGED <<pool, trade>>

\* "interface is full", "Please login" or "logout"
ServeRefused ==
    /\ Front("request")
    /\ LET r == Head(queue)
       IN  /\ \/ /\ r.acct \notin Mapped /\ r.type = "login"
                 /\ interfaceStore = <<>> /\ Cardinality(Mapped) >= MapCap
              \/ r.acct \notin Mapped /\ r.type # "login"
              \/ /\ r.acct \in Mapped /\ r.type # "login"
                 /\ trade[interfaceMap[r.acct]].status = "out"
           /\ Respond(r, FALSE)
    /\ UNCHANGED <<pool, trade>>

\* The request at the front is served this way and its account is logged in.
LoggedIn(serve) ==
    /\ Front("request")
    /\ Serve(Head(queue).type) = serve /\ Head(queue).acct \in Mapped
    /\ trade[interfaceMap[Head(queue).acct]].status = "in"

\* The logout case with two of its effects optional, for the mutants.
LogoutWith(logsOut, erases) ==
    /\ LoggedIn("logout")
    /\ LET r == Head(queue)
           t == interfaceMap[r.acct]
       IN  /\ \E released \in BOOLEAN :
                /\ released \/ "refuse" \in Env
                /\ trade' = [trade EXCEPT ![t] = IF logsOut THEN Logout(@, released)
                                                ELSE @]
           /\ interfaceMap' = [interfaceMap EXCEPT ![r.acct] = IF erases THEN None
                                                              ELSE @]
           /\ interfaceStore' = Append(interfaceStore, t)
           /\ Respond(r, TRUE)
           /\ UNCHANGED created

\* Mutant of ServeLogout: the map entry is not erased.
ServeLogout_NoErase == LogoutWith(TRUE, FALSE)

\* Mutant of ServeLogout: logout() is not called.
ServeLogout_NoLogout == LogoutWith(FALSE, TRUE)

\* cases LOGOUT and EXIT: the map entry is looked up by the account of the
\* instance, not by the account of the request.
ServeLogout ==
    /\ LoggedIn("logout")
    /\ LET r == Head(queue)
           t == interfaceMap[r.acct]
           j == trade[t].acct
       IN  IF j \notin Mapped THEN Crash
           ELSE IF interfaceMap[j] # t
           THEN Respond(r, FALSE) /\ UNCHANGED <<pool, trade>>
           ELSE /\ \E released \in BOOLEAN :
                     /\ released \/ "refuse" \in Env
                     /\ trade' = [trade EXCEPT ![t] = Logout(trade[t], released)]
                /\ interfaceMap' = [interfaceMap EXCEPT ![j] = None]
                /\ interfaceStore' = Append(interfaceStore, t)
                /\ Respond(r, TRUE)
                /\ UNCHANGED created

\* A parameter is missing or of the wrong type: refused before the SDK is asked.
Refuse(r) == Checked(r.type) /\ Respond(r, FALSE) /\ UNCHANGED <<pool, trade>>

\* the get.* and req.* requests answered at once
ServeQuery ==
    /\ LoggedIn("now")
    /\ LET r == Head(queue)
           outcomes == IF r.type = "get.marketstatus" THEN {TRUE} ELSE BOOLEAN
       IN  \/ Refuse(r)
           \/ /\ Readable(trade[interfaceMap[r.acct]])
              /\ \E ok \in outcomes : Respond(r, ok)
              /\ UNCHANGED <<pool, trade>>
           \/ ~Readable(trade[interfaceMap[r.acct]]) /\ Crash

\* the asynchronous requests: handed to the SDK, which takes them or not
ServeOrder ==
    /\ LoggedIn("later")
    /\ LET r == Head(queue)
           t == interfaceMap[r.acct]
       IN  \/ Refuse(r)
           \/ /\ trade[t].iface
              /\ \E accepted \in BOOLEAN :
                   /\ trade' = [trade EXCEPT ![t] =
                                  SendOrder(trade[t], r.type, r.id, r.acct, accepted)]
                   /\ Respond(r, accepted)
              /\ UNCHANGED pool
           \/ ~trade[t].iface /\ Crash

\* the que.* requests and unknown types: the response has no Success
ServeSilent ==
    /\ LoggedIn("silent")
    /\ Respond(Head(queue), FALSE)
    /\ UNCHANGED <<pool, trade>>

\* get.result: the client polls for the answer to an earlier request.
ServePoll ==
    /\ LoggedIn("poll")
    /\ LET r == Head(queue)
           t == interfaceMap[r.acct]
       IN  Respond(r, HasResponse(trade[t], r.ask, r.sid))
    /\ UNCHANGED <<pool, trade>>

ProcessRequest ==
    \/ ServeLoginAgain \/ ServeLoginStored \/ ServeLoginCreate
    \/ ServeRefused \/ ServeLogout \/ ServeQuery \/ ServeOrder \/ ServeSilent
    \/ ServePoll

-----------------------------------------------------------------------------
(* The worker: process_callback, heart_beat and check_active.              *)

\* The account has no instance any more: the event is dropped.
CallbackUnknown ==
    /\ Front("callback")
    /\ Head(queue).acct \notin Mapped
    /\ queue' = Tail(queue)
    /\ UNCHANGED <<pool, trade, nreq, replies, up>>

\* Mutant of CallbackLoginFailed: the entry is erased before it is read.
CallbackLoginFailed_EraseFirst ==
    /\ Front("callback")
    /\ LET cb == Head(queue)
       IN  /\ cb.acct \in Mapped /\ cb.ev = "login" /\ ~cb.success
           /\ interfaceMap' = [interfaceMap EXCEPT ![cb.acct] = None]
           /\ interfaceStore' = Append(interfaceStore, interfaceMap'[cb.acct])
    /\ queue' = Tail(queue)
    /\ UNCHANGED <<created, trade, nreq, replies, up>>

\* A failed login: the instance goes back to the store as it is.
CallbackLoginFailed ==
    /\ Front("callback")
    /\ LET cb == Head(queue)
       IN  /\ cb.acct \in Mapped /\ cb.ev = "login" /\ ~cb.success
           /\ interfaceMap' = [interfaceMap EXCEPT ![cb.acct] = None]
           /\ interfaceStore' = Append(interfaceStore, interfaceMap[cb.acct])
    /\ queue' = Tail(queue)
    /\ UNCHANGED <<created, trade, nreq, replies, up>>

CallbackDeliver ==
    /\ Front("callback")
    /\ LET cb == Head(queue)
           t == interfaceMap[cb.acct]
       IN  /\ cb.acct \in Mapped /\ ~(cb.ev = "login" /\ ~cb.success)
           /\ trade' = [trade EXCEPT ![t] = OnCallback(trade[t], cb)]
    /\ queue' = Tail(queue)
    /\ UNCHANGED <<pool, nreq, replies, up>>

ProcessCallback == CallbackUnknown \/ CallbackLoginFailed \/ CallbackDeliver

\* The mapped instances that believe they are logged in.
Beating == {interfaceMap[k] : k \in {j \in Mapped : trade[interfaceMap[j]].status = "in"}}

\* Every thirty seconds; some of the heartbeats may fail.
HeartBeat ==
    /\ up
    /\ Beating # {}
    /\ IF \E t \in Beating : ~trade[t].iface THEN Crash
       ELSE /\ \E failed \in SUBSET Beating :
                 trade' = [t \in Trades |-> IF t \in failed
                                            THEN HeartBeatFailed(trade[t])
                                            ELSE trade[t]]
            /\ UNCHANGED <<pool, queue, nreq, replies, up>>

\* The orders in which the loop over an unordered map may visit the set S.
Orders(S) == {p \in [1 .. Cardinality(S) -> S] :
                /\ \A x \in S : \E i \in DOMAIN p : p[i] = x
                /\ \A i, j \in DOMAIN p : p[i] = p[j] => i = j}

Gone == {k \in Mapped : Inactive(trade[interfaceMap[k]])}

\* Every sixty seconds: instances logged out for too long return to the store.
CheckActive ==
    /\ up
    /\ Gone # {}
    /\ "late" \in Env \/ \A k \in Accounts : ~LoginOutstanding(k)
    /\ \E p \in Orders({interfaceMap[k] : k \in Gone}) :
         interfaceStore' = interfaceStore \o p
    /\ interfaceMap' = [k \in Accounts |-> IF k \in Gone THEN None ELSE interfaceMap[k]]
    /\ UNCHANGED <<created, trade, queue, nreq, replies, up>>

-----------------------------------------------------------------------------
Next ==
    \/ \E k \in Accounts : Arrive(k)
    \/ \E t \in Trades : SdkAnswer(t) \/ Kick(t) \/ Elapse(t)
    \/ ProcessRequest
    \/ ProcessCallback
    \/ HeartBeat
    \/ CheckActive

Spec == Init /\ [][Next]_vars

(***************************************************************************)
(* The loop of proc_thread_func never blocks: pop uses try_lock and the    *)
(* buffer's lock is held for one push only, so a task at the front is      *)
(* taken eventually; the timers of the loop run out again and again.       *)
(* Nothing is assumed of the SDK or of the clients.                        *)
(***************************************************************************)
Fairness ==
    /\ WF_vars(ProcessRequest \/ ProcessCallback)
    /\ WF_vars(CheckActive)
    /\ \A t \in Trades : WF_vars(Elapse(t))

FairSpec == Spec /\ Fairness

-----------------------------------------------------------------------------
(* Properties.                                                             *)

\* Every variable holds a value of its type.
TypeOK ==
    /\ interfaceMap \in [Accounts -> Trades \cup {None}]
    /\ interfaceStore \in Seq(Trades)
    /\ created \in Nat
    /\ trade \in [Trades -> Instances]
    /\ queue \in Seq(Requests \cup Callbacks)
    /\ nreq \in Nat
    /\ replies \in SUBSET Responses
    /\ up \in BOOLEAN

\* A gd_trade object is in the map under one account or once in the store,
\* never both and never in neither: process_request, the logout case, the
\* failed login and check_active all move it by hand (proc_thread.cpp).
EachInstanceOnce ==
    /\ \A j, k \in Mapped : interfaceMap[j] = interfaceMap[k] => j = k
    /\ \A i, j \in DOMAIN interfaceStore :
          interfaceStore[i] = interfaceStore[j] => i = j
    /\ \A k \in Mapped : interfaceMap[k] \notin Stored
    /\ {interfaceMap[k] : k \in Mapped} \cup Stored = 1 .. created

\* "A program can only have 3000 interface instances, shared evenly by the
\* threads" (proc_thread.cpp:399).  The code tests the size of the map, not
\* the number of objects: the limit holds because it does so only when the
\* store is empty.
InstanceLimit == created <= MapCap

\* Events overtake the waiting requests; the requests are answered once each
\* and in the order of arrival, and those that wait are the latest ones.
AnsweredInOrder ==
    \E c \in 0 .. Len(queue) :
        /\ \A i \in 1 .. c : queue[i].kind = "callback"
        /\ \A i \in (c + 1) .. Len(queue) :
              queue[i].kind = "request" /\ queue[i].id = nreq - Len(queue) + i
        /\ {r.id : r \in replies} = 1 .. (nreq - (Len(queue) - c))
        /\ \A r, s \in replies : r.id = s.id => r = s

\* The requests of a customer run on that customer's own trading session: an
\* instance that counts as logged in carries the account it is mapped under,
\* has an interface, and the SDK's session on it is not somebody else's.
\* (request_type checks nothing but the status.)
OwnSession ==
    \A k \in Mapped :
        LET g == trade[interfaceMap[k]]
        IN  g.status = "in" => g.acct = k /\ g.iface /\ g.sess \in {k, NoAccount}

\* An instance in the store counts as logged out: login() of the next customer
\* would otherwise return at once with success.
SpareLoggedOut == \A t \in Stored : trade[t].status = "out"

\* No request, heartbeat or logout follows a NULL interface or the end
\* iterator of the map (proc_thread.cpp:528-529, gd_trade.cpp:1715).
NoInvalidPointer == up

\* A request in the buffer is answered, unless the process dies first: the
\* events that jump the queue cannot hold it up forever.
RequestServed ==
    \A i \in 1 .. MaxRequests :
        (\E q \in Queued : q.kind = "request" /\ q.id = i)
            ~> (~up \/ \E r \in replies : r.id = i)

\* An account that is mapped but logged out gets in, or loses its instance:
\* customers that never come back do not use up the instances.
LoggedOutReclaimed ==
    \A k \in Accounts :
        (k \in Mapped /\ trade[interfaceMap[k]].status = "out")
            ~> (~up \/ k \notin Mapped \/ trade[interfaceMap[k]].status = "in")

\* The thread implements the abstract pool of instances.
Pool == INSTANCE InstancePool WITH
            Cap <- MapCap, Start <- InitCap,
            serving <- interfaceMap, spare <- Stored, made <- created
PoolRefined == Pool!PoolSpec

\* What the log line "[%s] Login Fail!" says (gd_trade.cpp:249): an answer
\* that is not a success does not log anybody in.
FailedLoginNotIn ==
    [][\A t \in Trades :
         (Front("callback") /\ Head(queue).ev = "login" /\ Head(queue).code # "ok")
            => (trade'[t].status = "in" => trade[t].status = "in")]_vars
=============================================================================
