------------------------------- MODULE Rewards -------------------------------
(***************************************************************************)
(* ppserver: the rewards, the balances and the withdrawals of the users of *)
(* an app.  net/http runs a goroutine per request; the handlers read and   *)
(* write the tables statement by statement, and leave two kinds of writes  *)
(* to two goroutines behind channels: the status of a task (eventChan) and *)
(* the row of the ledger (goldDataChan).                                   *)
(*                                                                         *)
(* A handler is a program of statements, each an action; a deferred        *)
(* Commit or Close comes at its end.  The tables are MySQL's, at the       *)
(* isolation its driver uses: a statement sees what is committed, and an   *)
(* update waits for the row locks of open transactions.  One day.          *)
(***************************************************************************)
EXTENDS Integers, Sequences, FiniteSets

CONSTANTS Users,
          Old,         \* users that are registered at the start, and have cash
          Patient,     \* users whose client waits for an answer before it asks again
          Types,       \* the requests received, a subset of DOMAIN Program
          Amounts,     \* amounts a user asks for
          Cash0,       \* cash of an old user
          Yesterday,   \* days in a row that ended with a sign-in yesterday
          Conns,       \* SetMaxOpenConns(10)
          EventCap,    \* capacity of eventChan (10)
          GoldCap,     \* capacity of goldDataChan (20)
          Served,      \* bound: requests handled at a time
          MaxRequests  \* bound: requests of a behaviour

Tasks == {"bonus", "profile", "sign", "share", "feedback"}

\* The statements of each handler.  "share" stands for shareApp and for the
\* four tasks of readAward, which have the same control.
Program ==
    [register  |-> <<"lookup", "insert", "oneoff", "bonus">>,
     login     |-> <<"info", "daily">>,
     sign      |-> <<"check", "begin", "status", "balance", "setGold", "event", "ledger", "commit">>,
     share     |-> <<"check", "status", "credit", "event", "ledger">>,
     profile   |-> <<"check", "profile", "credit", "mark", "ledger">>,
     report    |-> <<"check", "report">>,
     effective |-> <<"check", "reward", "valid", "begin", "validate", "creditTx", "ledger", "commit">>,
     withdraw  |-> <<"check", "pending", "cash", "pay">>,
     approve   |-> <<"check", "approve">>]

\* The requests that the operator sends about a user.
OperatorTypes == {"effective", "approve"}

\* The task a request is about.
TaskOf(type) == CASE type = "register" -> "bonus"
                  [] type = "effective" -> "feedback"
                  [] OTHER -> type

ASSUME RewardsAssumption ==
    /\ Old \subseteq Users /\ Patient \subseteq Users /\ Types \subseteq DOMAIN Program
    /\ Amounts \subseteq Nat /\ Cash0 \in Nat /\ Yesterday \in Nat
    /\ {Conns, EventCap, GoldCap, Served, MaxRequests} \subseteq Nat \ {0}

VARIABLES
    req,        \* the handlers: where each is, and its local variables
    received,   \* requests received so far
    waiting,    \* handlers whose statement waits for a row's lock, with its connection
    registered, \* users with a row in userInfo
    gold, cash, \* userInfo
    task,       \* eventTable: today's taskStatus, -1 without a row
    opinion,    \* feedback: no row, a new one, or one that is valid
    withdrawn,  \* withdrawal: the sum of the rows
    pending,    \* withdrawal: the rows with status 0
    unrecorded, \* history: cash withdrawn whose row was refused
    ledger,     \* goldAndCash: the sums of the rows, by user and task
    eventChan, eventHand,  \* the channel, and what update_eventTable has taken
    goldChan, goldHand,    \* the channel, and what saveGoldAndCash has taken
    granted,    \* history: sums of the statements that added gold, or cash
    clashed     \* history: sums of the ledger's rows that were refused

userInfo == <<registered, gold, cash>>
payments == <<withdrawn, pending, unrecorded>>
channels == <<eventChan, eventHand, goldChan, goldHand>>
history == <<granted, clashed>>
vars == <<req, received, waiting, userInfo, task, opinion, payments, ledger, channels, history>>

Slots == 1 .. Served
Steps == 1 .. 8  \* of the longest program
Idle == [type |-> "none", user |-> "none", at |-> 0, add |-> 0, old |-> 0]

Init ==
    /\ req = [i \in Slots |-> Idle] /\ received = 0 /\ waiting = {}
    /\ registered = Old
    /\ gold = [u \in Users |-> 0]
    /\ cash = [u \in Users |-> IF u \in Old THEN Cash0 ELSE 0]
    /\ task = [u \in Users |-> [t \in Tasks |-> IF u \notin Old THEN -1
                                                ELSE IF t = "bonus" THEN 1 ELSE 0]]
    /\ opinion = [u \in Users |-> "none"]
    /\ withdrawn = [u \in Users |-> 0] /\ pending = [u \in Users |-> 0]
    /\ unrecorded = [u \in Users |-> 0]
    /\ ledger = [u \in Users |-> [t \in Tasks |-> 0]]
    /\ eventChan = <<>> /\ eventHand = <<>> /\ goldChan = <<>> /\ goldHand = <<>>
    /\ granted = [u \in Users |-> [t \in Tasks |-> 0]]
    /\ clashed = [u \in Users |-> [t \in Tasks |-> 0]]

-----------------------------------------------------------------------------
(* Handlers, connections and locks.                                        *)

Active(i) == req[i].at > 0
At(i, op) == Active(i) /\ Program[req[i].type][req[i].at] = op
Past(i, op) == Active(i) /\ \E k \in 1 .. (req[i].at - 1) : Program[req[i].type][k] = op

\* A connection is held from a Begin, or from a row read of a result that is
\* not read to its end, to the end of the handler.  An update of userInfo
\* outside of such a transaction holds one while it waits for the row's lock;
\* any other statement while it runs.
Holding == {"begin", "profile", "valid"}
Waits == {"credit", "bonus", "pay"}
Keeps(type) == {k \in DOMAIN Program[type] : Program[type][k] \in Holding \cup Waits}
Wanted == {c \in Slots \X Steps : Active(c[1]) /\ c[2] \in Keeps(req[c[1]].type)}
Held == {c \in Wanted : IF Program[req[c[1]].type][c[2]] \in Waits THEN c[1] \in waiting
                         ELSE c[2] < req[c[1]].at}
Free == Conns - Cardinality(Held)

\* An update of a user's row waits for the transaction that has updated it.
Locked(i) == \E j \in Slots \ {i} :
    req[j].user = req[i].user /\ (Past(j, "setGold") \/ Past(j, "creditTx"))

\* The statement has a connection or gets one, and the row's lock.
Executes(i) == (i \in waiting \/ Free > 0) /\ ~Locked(i) /\ waiting' = waiting \ {i}

Answer(i) == req' = [req EXCEPT ![i] = Idle]

\* On to the next statement, with r for the local variables.
Advance(i, r) ==
    req' = [req EXCEPT ![i] = IF r.at = Len(Program[r.type]) THEN Idle
                              ELSE [r EXCEPT !.at = r.at + 1]]
Go(i) == Advance(i, req[i])

\* A request comes in.  The handlers served at once need fewer connections
\* than there are: the bound under which Settles is claimed.
Receive ==
    /\ received < MaxRequests
    /\ \E i \in Slots : ~Active(i) /\ \A j \in Slots : j < i => Active(j)
    /\ LET i == CHOOSE i \in Slots : ~Active(i) /\ \A j \in Slots : j < i => Active(j)
       IN  \E type \in Types, u \in Users :
             \E add \in IF type = "withdraw" THEN Amounts ELSE {0} :
                /\ u \in Patient /\ type \notin OperatorTypes
                   => ~ \E j \in Slots : req[j].user = u /\ req[j].type \notin OperatorTypes
                /\ Cardinality(Wanted \cup ({i} \X Keeps(type))) < Conns
                /\ req' = [req EXCEPT ![i] = [type |-> type, user |-> u, at |-> 1,
                                              add |-> add, old |-> 0]]
    /\ received' = received + 1
    /\ UNCHANGED <<waiting, userInfo, task, opinion, payments, ledger, channels, history>>

-----------------------------------------------------------------------------
(* Statements that several handlers have.                                  *)

\* checkUserId.
Check(i) ==
    /\ At(i, "check") /\ Free > 0
    /\ IF req[i].user \in registered THEN Go(i) ELSE Answer(i)
    /\ UNCHANGED <<received, waiting, userInfo, task, opinion, payments, ledger, channels, history>>

\* The statement has a connection, and waits for the lock.
Wait(i) ==
    /\ \E op \in Waits : At(i, op)
    /\ i \notin waiting /\ Free > 0 /\ Locked(i)
    /\ waiting' = waiting \cup {i}
    /\ UNCHANGED <<req, received, userInfo, task, opinion, payments, ledger, channels, history>>

\* Db.Begin.
Begin(i) ==
    /\ At(i, "begin") /\ Free > 0
    /\ Go(i)
    /\ UNCHANGED <<received, waiting, userInfo, task, opinion, payments, ledger, channels, history>>

\* addGoldCoin of the task's row (task.sql); getEventMap returns zeros when
\* there is none.
Amount(u, t) == IF task[u][t] < 0 THEN 0
                ELSE CASE t = "profile" -> 400 [] t = "share" -> 40
                       [] t = "feedback" -> 50 [] OTHER -> 0

\* getEventMap, and the test of today's status.
Status(i) ==
    LET u == req[i].user  t == TaskOf(req[i].type)
    IN  /\ At(i, "status") /\ Free > 0
        /\ IF task[u][t] > 0 THEN Answer(i)
           ELSE Advance(i, [req[i] EXCEPT !.add = Amount(u, t)])
        /\ UNCHANGED <<received, waiting, userInfo, task, opinion, payments, ledger, channels, history>>

Grant(i) ==
    granted' = [granted EXCEPT ![req[i].user][TaskOf(req[i].type)] = @ + req[i].add]

\* "update userInfo set gold = gold + ?", committed at once.
Credit(i) ==
    /\ At(i, "credit") /\ Executes(i)
    /\ gold' = [gold EXCEPT ![req[i].user] = @ + req[i].add]
    /\ Grant(i) /\ Go(i)
    /\ UNCHANGED <<received, registered, cash, task, opinion, payments, ledger, channels, clashed>>

\* Mutant of PushEvent: a channel without a limit.
PushEvent_Unbounded(i) ==
    /\ At(i, "event")
    /\ eventChan' = Append(eventChan,
            [user |-> req[i].user, task |-> TaskOf(req[i].type),
             status |-> IF req[i].type = "sign" THEN Yesterday + 1 ELSE 1])
    /\ Go(i)
    /\ UNCHANGED <<received, waiting, userInfo, task, opinion, payments, ledger,
                   eventHand, goldChan, goldHand, history>>

\* eventChan <- data1.
PushEvent(i) ==
    /\ At(i, "event") /\ Len(eventChan) < EventCap
    /\ eventChan' = Append(eventChan,
            [user |-> req[i].user, task |-> TaskOf(req[i].type),
             status |-> IF req[i].type = "sign" THEN Yesterday + 1 ELSE 1])
    /\ Go(i)
    /\ UNCHANGED <<received, waiting, userInfo, task, opinion, payments, ledger,
                   eventHand, goldChan, goldHand, history>>

\* Mutant of PushGold: what does not fit in the channel is dropped.
PushGold_Drops(i) ==
    /\ At(i, "ledger")
    /\ goldChan' = IF Len(goldChan) < GoldCap
                   THEN Append(goldChan, [user |-> req[i].user, task |-> TaskOf(req[i].type),
                                          add |-> req[i].add])
                   ELSE goldChan
    /\ Go(i)
    /\ UNCHANGED <<received, waiting, userInfo, task, opinion, payments, ledger,
                   eventChan, eventHand, goldHand, history>>

\* goldDataChan <- data2.
PushGold(i) ==
    /\ At(i, "ledger") /\ Len(goldChan) < GoldCap
    /\ goldChan' = Append(goldChan, [user |-> req[i].user, task |-> TaskOf(req[i].type),
                                     add |-> req[i].add])
    /\ Go(i)
    /\ UNCHANGED <<received, waiting, userInfo, task, opinion, payments, ledger,
                   eventChan, eventHand, goldHand, history>>

-----------------------------------------------------------------------------
(* Registration and login.                                                 *)

\* Is there a user with this openId?
Lookup(i) ==
    /\ At(i, "lookup") /\ Free > 0
    /\ IF req[i].user \in registered THEN Answer(i) ELSE Go(i)
    /\ UNCHANGED <<received, waiting, userInfo, task, opinion, payments, ledger, channels, history>>

\* The insert, refused when another request came first, and the select after it.
InsertUser(i) ==
    /\ At(i, "insert") /\ Free > 0
    /\ registered' = registered \cup {req[i].user}
    /\ Go(i)
    /\ UNCHANGED <<received, waiting, gold, cash, task, opinion, payments, ledger, channels, history>>

\* createEvent: a row of today for each of the tasks that has none.
CreateEvent(u, tasks) ==
    task' = [task EXCEPT ![u] = [t \in Tasks |-> IF t \in tasks /\ @[t] < 0 THEN 0 ELSE @[t]]]

OneOffTasks(i) ==
    /\ At(i, "oneoff") /\ Free > 0
    /\ CreateEvent(req[i].user, {"bonus", "profile"})
    /\ Go(i)
    /\ UNCHANGED <<received, waiting, userInfo, opinion, payments, ledger, channels, history>>

BonusCash == 2

\* registerEvent, in one transaction.
RegisterEvent(i) ==
    LET u == req[i].user
        r == ledger[u]["bonus"]
    IN  /\ At(i, "bonus") /\ Executes(i)
        /\ cash' = [cash EXCEPT ![u] = @ + BonusCash]
        /\ task' = [task EXCEPT ![u]["bonus"] = 1]
        /\ granted' = [granted EXCEPT ![u]["bonus"] = @ + BonusCash]
        /\ \/ /\ ledger' = [ledger EXCEPT ![u]["bonus"] = @ + BonusCash]
              /\ UNCHANGED clashed
           \/ /\ r > 0
              /\ clashed' = [clashed EXCEPT ![u]["bonus"] = @ + BonusCash]
              /\ UNCHANGED ledger
        /\ Go(i)
        /\ UNCHANGED <<received, registered, gold, opinion, payments, channels>>

\* UserLogin: getUserInfo finds the user or not; the two days' sign-ins are
\* only shown.
Info(i) ==
    /\ At(i, "info") /\ Free > 0
    /\ IF req[i].user \in registered THEN Go(i) ELSE Answer(i)
    /\ UNCHANGED <<received, waiting, userInfo, task, opinion, payments, ledger, channels, history>>

DailyTasks(i) ==
    /\ At(i, "daily") /\ Free > 0
    /\ CreateEvent(req[i].user, {"sign", "share", "feedback"})
    /\ Go(i)
    /\ UNCHANGED <<received, waiting, userInfo, opinion, payments, ledger, channels, history>>

-----------------------------------------------------------------------------
(* The rewards.                                                            *)

SignGold == IF Yesterday < 7 THEN <<10, 15, 20, 25, 30, 35, 40>>[Yesterday + 1] ELSE 40

\* userSignIn reads the gold ...
Balance(i) ==
    /\ At(i, "balance") /\ Free > 0
    /\ Advance(i, [req[i] EXCEPT !.old = gold[req[i].user], !.add = SignGold])
    /\ UNCHANGED <<received, waiting, userInfo, task, opinion, payments, ledger, channels, history>>

\* ... and sets it, in the transaction it has had since its beginning.
SetGold(i) ==
    /\ At(i, "setGold") /\ ~Locked(i)
    /\ Grant(i) /\ Go(i)
    /\ UNCHANGED <<received, waiting, userInfo, task, opinion, payments, ledger, channels, clashed>>

\* updateUserData reads the row of its task, whatever the day, and keeps the
\* result open.
ReadProfile(i) ==
    LET u == req[i].user
    IN  /\ At(i, "profile") /\ Free > 0
        /\ IF task[u]["profile"] # 0 THEN Answer(i)
           ELSE Advance(i, [req[i] EXCEPT !.add = Amount(u, "profile")])
        /\ UNCHANGED <<received, waiting, userInfo, task, opinion, payments, ledger, channels, history>>

\* Mutant of MarkProfile: the status is left.
MarkProfile_Not(i) ==
    /\ At(i, "mark") /\ Free > 0
    /\ Go(i)
    /\ UNCHANGED <<received, waiting, userInfo, task, opinion, payments, ledger, channels, history>>

MarkProfile(i) ==
    /\ At(i, "mark") /\ Free > 0
    /\ task' = [task EXCEPT ![req[i].user]["profile"] = 1]
    /\ Go(i)
    /\ UNCHANGED <<received, waiting, userInfo, opinion, payments, ledger, channels, history>>

\* feedback: a row of the user's, unless the text is empty, or the key refuses
\* it: the answer is the same.
Report(i) ==
    /\ At(i, "report") /\ Free > 0
    /\ opinion' \in {opinion, [opinion EXCEPT ![req[i].user] = "new"]}
    /\ Go(i)
    /\ UNCHANGED <<received, waiting, userInfo, task, payments, ledger, channels, history>>

\* effectiveFeedback reads the reward, ...
Reward(i) ==
    /\ At(i, "reward") /\ Free > 0
    /\ Advance(i, [req[i] EXCEPT !.add = Amount(req[i].user, "feedback")])
    /\ UNCHANGED <<received, waiting, userInfo, task, opinion, payments, ledger, channels, history>>

\* ... and the row, which must be there and not be valid yet, ...
Valid(i) ==
    /\ At(i, "valid") /\ Free > 0
    /\ IF opinion[req[i].user] = "new" THEN Go(i) ELSE Answer(i)
    /\ UNCHANGED <<received, waiting, userInfo, task, opinion, payments, ledger, channels, history>>

\* ... and updates it: to whatever the operator says, and that is all, or to
\* valid, with the reward.
Validate(i) ==
    /\ At(i, "validate")
    /\ ~ \E j \in Slots \ {i} : req[j].user = req[i].user /\ Past(j, "validate")
    /\ \/ /\ Answer(i)
          /\ \E v \in {"new", "valid"} : opinion' = [opinion EXCEPT ![req[i].user] = v]
       \/ /\ Go(i)
          /\ UNCHANGED opinion
    /\ UNCHANGED <<received, waiting, userInfo, task, payments, ledger, channels, history>>

\* gold + ? in its transaction.
CreditTx(i) ==
    /\ At(i, "creditTx") /\ ~Locked(i)
    /\ Grant(i) /\ Go(i)
    /\ UNCHANGED <<received, waiting, userInfo, task, opinion, payments, ledger, channels, clashed>>

\* The deferred Commit of userSignIn and effectiveFeedback.
Commit(i) ==
    LET u == req[i].user
        sign == req[i].type = "sign"
    IN  /\ At(i, "commit")
        /\ gold' = [gold EXCEPT ![u] = (IF sign THEN req[i].old ELSE @) + req[i].add]
        /\ opinion' = IF sign THEN opinion ELSE [opinion EXCEPT ![u] = "valid"]
        /\ Go(i)
        /\ UNCHANGED <<received, waiting, registered, cash, task, payments, ledger, channels, history>>

-----------------------------------------------------------------------------
(* Withdrawals.                                                            *)

\* Mutant of Pending: a request that waits does not count.
Pending_Ignored(i) ==
    /\ At(i, "pending") /\ Free > 0
    /\ Go(i)
    /\ UNCHANGED <<received, waiting, userInfo, task, opinion, payments, ledger, channels, history>>

\* getWithddraw: no row with status 0 may be there.
Pending(i) ==
    /\ At(i, "pending") /\ Free > 0
    /\ IF pending[req[i].user] > 0 THEN Answer(i) ELSE Go(i)
    /\ UNCHANGED <<received, waiting, userInfo, task, opinion, payments, ledger, channels, history>>

Minimum == 30

\* getUserInfo, and the test of the amount.
EnoughCash(i) ==
    /\ At(i, "cash") /\ Free > 0
    /\ IF req[i].add <= cash[req[i].user] /\ req[i].add >= Minimum THEN Go(i) ELSE Answer(i)
    /\ UNCHANGED <<received, waiting, userInfo, task, opinion, payments, ledger, channels, history>>

\* The insert and the update, in one transaction.  The primary key refuses a
\* second row of the user in one second (pp.sql:66): that is logged, and the cash
\* is taken all the same.
Pay(i) ==
    LET u == req[i].user
    IN  /\ At(i, "pay") /\ Executes(i)
        /\ \/ /\ withdrawn' = [withdrawn EXCEPT ![u] = @ + req[i].add]
              /\ pending' = [pending EXCEPT ![u] = @ + 1]
              /\ UNCHANGED unrecorded
           \/ /\ withdrawn[u] > 0
              /\ unrecorded' = [unrecorded EXCEPT ![u] = @ + req[i].add]
              /\ UNCHANGED <<withdrawn, pending>>
        /\ cash' = [cash EXCEPT ![u] = @ - req[i].add]
        /\ Go(i)
        /\ UNCHANGED <<received, registered, gold, task, opinion, ledger, channels, history>>

\* HandleWithdrawal: the row with that commitTime, if there is one, is done.
Approve(i) ==
    LET u == req[i].user
    IN  /\ At(i, "approve") /\ Free > 0
        /\ pending' = [pending EXCEPT ![u] = IF @ > 0 THEN @ - 1 ELSE @]
        /\ Go(i)
        /\ UNCHANGED <<received, waiting, userInfo, task, opinion, withdrawn, unrecorded,
                       ledger, channels, history>>

-----------------------------------------------------------------------------
(* update_eventTable and saveGoldAndCash.                                  *)

TakeEvent ==
    /\ eventHand = <<>> /\ eventChan # <<>>
    /\ eventHand' = <<Head(eventChan)>> /\ eventChan' = Tail(eventChan)
    /\ UNCHANGED <<req, received, waiting, userInfo, task, opinion, payments, ledger,
                   goldChan, goldHand, history>>

\* Mutant of UpdateEvent: with a date that no row has.
UpdateEvent_WrongDate ==
    /\ eventHand # <<>> /\ Free > 0
    /\ eventHand' = <<>>
    /\ UNCHANGED <<req, received, waiting, userInfo, task, opinion, payments, ledger,
                   eventChan, goldChan, goldHand, history>>

UpdateEvent ==
    /\ eventHand # <<>> /\ Free > 0
    /\ LET e == eventHand[1]
       IN  task' = [task EXCEPT ![e.user][e.task] = IF @ < 0 THEN @ ELSE e.status]
    /\ eventHand' = <<>>
    /\ UNCHANGED <<req, received, waiting, userInfo, opinion, payments, ledger,
                   eventChan, goldChan, goldHand, history>>

TakeGold ==
    /\ goldHand = <<>> /\ goldChan # <<>>
    /\ goldHand' = <<Head(goldChan)>> /\ goldChan' = Tail(goldChan)
    /\ UNCHANGED <<req, received, waiting, userInfo, task, opinion, payments, ledger,
                   eventChan, eventHand, history>>

\* Mutant of SaveGold: the goroutine ends with the first insert refused.
SaveGold_Ends ==
    /\ goldHand # <<>> /\ Free > 0 /\ ledger[goldHand[1].user][goldHand[1].task] = 0
    /\ LET d == goldHand[1]
       IN  ledger' = [ledger EXCEPT ![d.user][d.task] = @ + d.add]
    /\ goldHand' = <<>>
    /\ UNCHANGED <<req, received, waiting, userInfo, task, opinion, payments,
                   eventChan, eventHand, goldChan, history>>

\* The insert; the primary key refuses a second row of the user and the task in
\* one second.
SaveGold ==
    /\ goldHand # <<>> /\ Free > 0
    /\ LET d == goldHand[1]
       IN  \/ /\ ledger' = [ledger EXCEPT ![d.user][d.task] = @ + d.add]
              /\ UNCHANGED clashed
           \/ /\ ledger[d.user][d.task] > 0
              /\ clashed' = [clashed EXCEPT ![d.user][d.task] = @ + d.add]
              /\ UNCHANGED ledger
    /\ goldHand' = <<>>
    /\ UNCHANGED <<req, received, waiting, userInfo, task, opinion, payments,
                   eventChan, eventHand, goldChan, granted>>

-----------------------------------------------------------------------------
Handle(i) ==
    \/ Check(i) \/ Begin(i) \/ Status(i) \/ Credit(i) \/ PushEvent(i) \/ PushGold(i)
    \/ Lookup(i) \/ InsertUser(i) \/ OneOffTasks(i) \/ RegisterEvent(i)
    \/ Info(i) \/ DailyTasks(i)
    \/ Balance(i) \/ SetGold(i) \/ ReadProfile(i) \/ MarkProfile(i) \/ Report(i)
    \/ Reward(i) \/ Valid(i) \/ Validate(i) \/ CreditTx(i) \/ Commit(i)
    \/ Pending(i) \/ EnoughCash(i) \/ Pay(i) \/ Approve(i)

Next ==
    \/ Receive \/ \E i \in Slots : Handle(i) \/ Wait(i)
    \/ TakeEvent \/ UpdateEvent \/ TakeGold \/ SaveGold

\* Goroutines are scheduled, and statements come back; nobody owes a request.
Fairness ==
    /\ \A i \in Slots : WF_vars(Handle(i))
    /\ WF_vars(TakeEvent) /\ WF_vars(UpdateEvent) /\ WF_vars(TakeGold) /\ WF_vars(SaveGold)

Spec == Init /\ [][Next]_vars /\ Fairness

-----------------------------------------------------------------------------
(* Properties.                                                             *)

\* The variables have their types.
TypeOK ==
    /\ \A i \in Slots : /\ req[i].type \in Types \cup {"none"} /\ req[i].add \in Nat
                        /\ req[i].old \in Nat /\ Active(i) => req[i].user \in Users
    /\ received \in 0 .. MaxRequests /\ waiting \subseteq Slots /\ registered \subseteq Users
    /\ gold \in [Users -> Nat] /\ cash \in [Users -> Int]
    /\ \A u \in Users, t \in Tasks : task[u][t] \in -1 .. (Yesterday + 1)
    /\ opinion \in [Users -> {"none", "new", "valid"}]
    /\ {withdrawn, pending, unrecorded} \subseteq [Users -> Nat]
    /\ Len(eventChan) <= EventCap /\ Len(goldChan) <= GoldCap
    /\ Len(eventHand) <= 1 /\ Len(goldHand) <= 1
    /\ Free \in 1 .. Conns

\* The handlers that have granted and not yet put the row in the channel, and the
\* rows of a queue.
Granting(u, t) ==
    {i \in Slots : /\ req[i].user = u /\ TaskOf(req[i].type) = t /\ ~Past(i, "ledger")
                   /\ \E op \in {"credit", "setGold", "creditTx"} : Past(i, op)}
RowsOf(q, u, t) == {k \in DOMAIN q : q[k].user = u /\ q[k].task = t}

\* The coins on their way to the ledger, numbered for each handler and row: to
\* count them is to add the amounts up.
InHandlers(u, t) == UNION {{i} \X (1 .. req[i].add) : i \in Granting(u, t)}
InQueue(q, u, t) == UNION {{k} \X (1 .. q[k].add) : k \in RowsOf(q, u, t)}
Unsaved(u, t) == Cardinality(InHandlers(u, t)) + Cardinality(InQueue(goldHand \o goldChan, u, t))

\* Whatever gold or bonus was granted to anyone is in the ledger, on its way to
\* it, or was refused by the table: no interleaving of handlers and of
\* saveGoldAndCash loses or doubles a row (goldCash.go:24-39).
Ledgered ==
    \A u \in Users, t \in Tasks :
        ledger[u][t] + clashed[u][t] + Unsaved(u, t) = granted[u][t]

\* Gold set by userSignIn and not committed yet: a transaction at most has set
\* the gold of a user, for the others wait for its lock.
Uncommitted(u) ==
    LET open == {i \in Slots : req[i].user = u /\ req[i].type = "sign" /\ Past(i, "setGold")}
    IN  IF open = {} THEN 0 ELSE req[CHOOSE i \in open : TRUE].add

\* A user whose client waits for its answers has all the gold he was granted,
\* and the gold of his profile once, though userSignIn writes the sum back that
\* it has read (sign.go:93) - as long as the operator grants him nothing.
GoldKept ==
    \A u \in Patient : granted[u]["feedback"] = 0 =>
        /\ gold[u] + Uncommitted(u)
           = granted[u]["profile"] + granted[u]["sign"] + granted[u]["share"]
        /\ granted[u]["profile"] <= 400

\* The cash of such a user, what he has withdrawn, and what was taken without a
\* row because the table refused it, add up to what he got, the bonus once; he
\* is never in debt, and has one withdrawal waiting at most, though balance and
\* records are read and written in separate statements and the operator works
\* on them (withdrawalData.go:80-142, 198-251).
CashAccounted ==
    \A u \in Patient :
        /\ cash[u] >= 0 /\ pending[u] <= 1
        /\ cash[u] + withdrawn[u] + unrecorded[u]
           = (IF u \in Old THEN Cash0 ELSE 0) + granted[u]["bonus"]
        /\ granted[u]["bonus"] <= BonusCash

\* Once the event of a granted reward is through the channel, the task counts as
\* done: nothing but the delay of update_eventTable lets a task be rewarded again
\* (eventTable.go:21-34).
RewardMarked ==
    \A u \in Users :
        LET OnTheWay ==
                \/ \E i \in Slots : req[i].user = u /\ req[i].type = "share" /\ Active(i)
                \/ \E k \in DOMAIN (eventHand \o eventChan) :
                      (eventHand \o eventChan)[k].user = u /\ (eventHand \o eventChan)[k].task = "share"
        IN  granted[u]["share"] > 0 => task[u]["share"] > 0 \/ OnTheWay

\* Every request is answered, and what is in the channels is written, in spite
\* of full channels, open transactions and their locks.
Settles ==
    []<>(/\ \A i \in Slots : ~Active(i)
         /\ eventChan \o eventHand \o goldChan \o goldHand = <<>>)
=============================================================================
