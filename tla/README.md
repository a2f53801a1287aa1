# Verification of the PEMC trading services

The repository holds the middle tier of a commodity trading platform, written in
C++ under `c++/trunk/pemc`, with a few older and smaller services around it.
This directory models the part that decides whose money moves, the **trade
gateway** (`c++/trunk/pemc/trade/src`): how it spreads customers over threads,
keeps a pool of scarce SDK sessions, and brings the SDK's asynchronous answers
back to the customers that wait for them. Around it stand the **SOAP front end**
(`cgi`) that carries the customers' calls to the gateway, the **quote pipeline**
(`quoteGet` and `quoteSave`, which number, deduplicate and store market quotes,
`quoteService`, which makes lines of them, and `quote`, an earlier receiver in C),
and **ppserver** (`src/ppserver`, in Go), the rewards of an app's users.

Paths are relative to `src/c++/trunk/pemc` unless they begin with `src/`;
`proc_thread.cpp`, `gd_trade.cpp` and other bare names are in `trade/src`.

## Inventory

| Component | State | Operations | Talks to |
|---|---|---|---|
| `recv_thread` | none of its own | `on_recv`: parse, check, choose a thread, push | broker (in), `proc_thread_select`, the thread's buffer |
| `proc_thread_select` | account -> thread, thread -> count, one mutex | `get_select`, `new_thread`, `del_select`, `update_thread_user_count` | called by `recv_thread` and by every worker |
| `user_request_buffer` | a deque, one mutex, per worker | `push` (requests), `push_front` (events), `pop` (try_lock) | `recv_thread`, the SDK's threads, the worker |
| `proc_thread` (ten of them) | account -> `gd_trade`, store of spare `gd_trade`s, two timers | `process_request` with 40 request types, `process_callback`, `heart_beat`, `check_active` | `gd_trade`, producer |
| `gd_trade` | SDK interface, login status and its time, account, one reply per type | `init`, `login`, `logout`, 30 requests, `procTradeEvent` (on an SDK thread), `on_callback_task` | SDK |
| `trade_consumer`, `trade_producer` | a JMS session | receive, reply | broker |
| quoteGet | socket, sequence and time per product | receive, number, publish | quote server, topic |
| quoteSave | time and sequence per product, database | drop duplicates, republish, insert | topic, MySQL |
| quote (C) | receive buffer, lists of idle and busy nodes, an alarm, one thread and its watcher | connect, log in, receive, cut into messages, time out, start again | quote server |
| quoteService | two buffers, the last quotes, the time-sharing line under a read/write lock, K-lines (switched off) | take a quote, set a point, store, publish by MQTT, answer queries | topic, MySQL, MQTT, cgi |
| `DBPool` (six copies) | list of connections, a counter | get, release, destroy | MySQL |
| cgi, cgi_quote | bounded buffer of sockets, a thread for each of the response queues | accept, push, pop, serve, send and wait | browser, broker, trade gateway |
| ppserver (`src/ppserver`, Go) | rows of users, tasks, ledger, withdrawals, feedback; two channels | register, login, sign in, share, read, profile, feedback, withdraw, and the operator's answers | MySQL |
| cms-server, api-server (`src/hhhhhhhhh`, Go) | database, Redis | CRUD handlers | MySQL, Redis |

What is hard here:

* **Interleaving.** `on_recv` holds a lock three separate times; the workers
  and the SDK's threads run in between. `procTradeEvent` runs on the SDK's
  thread and reads the account of an instance that the worker may be moving.
* **Ordering.** Events are pushed at the front of the buffer the requests wait in.
* **A hand-made pool.** A `gd_trade` object is moved between a map and a vector by
  six pieces of code; losing one, listing one twice, or reusing one with its
  last owner's session are the failures that count.
* **Late answers.** Login is asynchronous, and a timer takes instances back.
* **Redundant feeds.** `quoteSave` tells two copies of a quote apart only by a
  number that each feed computes for itself, over a topic that keeps nothing.
* **A shared response queue.** The queue of a front-end thread outlives calls that
  timed out and processes that died: whatever was answered late is read first.
* **Bytes into messages.** The C receiver keeps parts of messages between two
  reads in a buffer that gets its room back only when it runs empty, while an
  alarm, delivered to any thread, may shut the connection down.
* **Statements, not transactions.** ppserver reads, decides and writes in separate
  statements, and leaves some of the writes to goroutines behind channels.
* **Exhaustion.** 3000 sessions per program, 300 per thread; customers who
  vanish hold one until a timer finds out.

## Modules

| Module | Models | Source |
|---|---|---|
| `RequestTypes` | the request types as rows of a table: how each is served and which event answers it under which name | `request_type2int`, the switch of `request_type` (`proc_thread.cpp`), `procTradeEvent` (`gd_trade.cpp`) |
| `GdTrade` | one `gd_trade`: a record, and an operator per method | `gd_trade.cpp` |
| `TradeWorker` | one processing thread with its buffer, map and store, and its environment | `proc_thread.cpp` |
| `InstancePool` | what a thread promises about its instances (abstract) | the comment at `proc_thread.cpp:399` |
| `ThreadSelect` | the dispatch over several threads | `recv_thread.cpp`, `proc_thread_select.cpp`, `user_request_buffer.cpp` |
| `ConnPool` | the pool of database connections: what `GetConnection` can return, and the pool's count | `quoteSave/DBPool.cpp` |
| `QuoteFeed` | the quote server's stream, several quoteGet processes, the topic and quoteSave | `quoteGet/src/netClient.cpp`, `quoteSave/quoteConsumer.cpp` |
| `QuoteReceiver` | the C receiver, its watcher, its alarm, and the server | `quote/quote.c`, `recvBuffer.c`, `list.c`, `network.c` |
| `SoapServer` | the front end's threads, buffer and calls, the queues, and the gateway as an environment | `cgi/src`, `src/c++/trunk/tools/activemq/producer/sync_producer.cpp` |
| `QuoteService` | the two buffers, the line, its readers, table and topic; uses `ConnPool` | `quoteService` |
| `Rewards` | the writing handlers of ppserver and the two goroutines | `src/ppserver` |
| `MC...` | one for each of the components, for TLC: model values, symmetry sets, the quotes of a feed | |
| `BufferLemmas` | facts about sequences and intervals | |
| `...Proofs` | the theorems about `TradeWorker`, `ThreadSelect`, `QuoteFeed`, `QuoteReceiver`, `SoapServer`, `QuoteService` and `Rewards` | |

### State and actions of `TradeWorker`

| Variable | Code |
|---|---|
| `interfaceMap` | `_user_interface_map`; 0 where the account has no entry |
| `interfaceStore` | `_user_interface_store`, a vector used as a stack |
| `created`, `trade` | the `gd_trade` objects, numbered as allocated, and their contents |
| `queue` | `_request_buffer` |
| `nreq`, `replies` | requests received, responses handed to the producer |
| `up` | false once a NULL interface or an end iterator has been followed |

`Arrive` is `recv_thread` pushing a well-formed request. `ServeLogin...`,
`ServeRefused`, `ServeLogout`, `ServeQuery`, `ServeOrder`, `ServeSilent` and
`ServePoll` are `process_request` with the branch of `request_type` it takes, up
to the response. `CallbackUnknown`, `CallbackLoginFailed` and `CallbackDeliver`
are `process_callback`. `HeartBeat` and `CheckActive` are the two timers of the
loop. `SdkAnswer` and `Kick` are the SDK's thread in `procTradeEvent`; `Elapse`
is the clock. A request type of the 40 is not an action: it is a row of
`RequestTypes`, and a run's constant `Types` says which rows its clients send.

Serving a task is one step. The maps are private to the worker; what another
thread can do meanwhile is push a task, and pushes commute with everything but
the pop at the start of the step. The one exception, an event that reads the
account of an instance while the worker changes it, is covered by the event
coming before or after the step.

### State and actions of `ThreadSelect`

`selectMap` and `count` are the two maps of `proc_thread_select`, `recv` is the
program counter of `on_recv` between its critical sections (`Receive`,
`PushTask`, `UpdateCount`), `queue[t]`, `cur[t]` and `holds[t]` are a worker's
buffer, current task and accounts. A worker is reduced to what the dispatch
depends on: `Finish...` give or take the account an instance as the request may,
and `FinishLogout` calls `del_select` as the code does, with the name
`get_login_accout()` returns after `logout()`, which is empty. `nreq`, `nev` are
bounds, `latest` is history.

### State and actions of `QuoteFeed`

| Variable | Code |
|---|---|
| `quotes` | what the server sent: product, second, and whether the check byte is zero |
| `up`, `next`, `timeMap`, `seqMap` | per quoteGet: its socket, its place in the stream, `time_map`, `seq_map` |
| `topic` | `QUOTE.ORG`; a message is its quote's index and its SEQUENCE |
| `savedTime`, `savedSeq`, `parsed` | quoteSave's `time_map`, `seq_map`, and the members `parseJson` fills |
| `single` | what quoteSave published on `Quote.Single.Org`, and whether the row was inserted |
| `dbpool`, `leaked`, `alive` | `connpool`, connections never released, whether quoteSave lives |
| `faults` | history: which of `join`, `lose`, `restart` has happened |

`Forward` is a pass of the loop of `startSendMsg` with `recvData` and
`parseJsonAddSeq`; `Hangup` is an end of file in `netReadn`; `JoinFeed` and
`RestartSaver` are the two processes' starts. `Receive` is `on_recv`: `parseJson`,
`getExcSql` (`IsNewer`, `IsLater`, `Record`) and `executedb` with its three ends,
`Insert`, `InsertFails` and `NoConnection`. Strings of digits are ordered as C++
orders them (`Place`). Each process has a single thread, and they share only the
topic, so a pass of a loop is one step.

A text that does not parse arises in two ways. A hangup can cut it. And `recvData`
reads the text and its check byte into a zeroed array, makes a string of it and
takes its last character off: when the check byte is zero that character is the
text's own brace.

### State and actions of `QuoteReceiver`

| Variable | Code |
|---|---|
| `pc` | where `handleQuote` is; `"over"` when the thread has ended, `"crashed"` after a NULL node |
| `conn`, `ended`, `shut` | the connection, closed by the server, or by `shutdown` |
| `stream`, `unsent` | what the server sent, and what it has not written yet of its last message |
| `inbox`, `len`, `tailSize` | the bytes not consumed, `rb->len` of them in the buffer, and `rb->tailSize` |
| `idle`, `busy`, `wasted` | the two lists of nodes; nodes a large quote was given |
| `handler`, `timer`, `fired` | SIGALRM's handler, the alarm, a handler that has begun |
| `quiet` | history: ticks since the last whole message |

A message arrives in units, of which the first is its head; a recv returns any
number of units there is room for. `RBRecv`, `RBRecvFails`, `FindIdle`, `NoIdle`,
`NoWhole`, `KeepQuote`, `SkipLarge`, `NullNode`, `DropHeartbeat` and `BadMessage`
are the loop of `recvQuotePackage`, each return of `RBSend` apart. `Tick` is the
clock and `HandleHeartBeat` the handler, which any thread of the process runs
at any time after the alarm went off. The descriptor of a closed connection is
given to the next, so `recvFd` names the connection of the moment.

### State and actions of `SoapServer`

`hand` is the socket in `accept_thread_func`, `queue` is `_soap_map`, `pc` and
`serving` are the processing threads, `requests` and `replies` the queues of the
broker, `state` and `got` what each client sees. `Push` is `soap_buffer::push` with its
signal, `Wait`, `WakeUp` and `Pop` are `pop`; a thread that was signalled competes
for the socket with one that has just come, and one may wake up without a signal.
`Send`, `Answer`, `DropStale` and `TimedOut` are `send_message`. The gateway answers in any
order, late, twice or never; `Restart` is the `exit(1)` of `onException`.

### State and actions of `QuoteService`

| Variable | Code |
|---|---|
| `quotes`, `half`, `dropped` | what `on_recv` got; between the two pushes; what a full buffer refused |
| `realQ`, `snapshot` | the buffer of `QuoteReal`, `_curQuoteMsg` |
| `lineQ`, `msg`, `curDate`, `line` | the buffer of `SharingLine`, the quote in its loop, `_curTradeDate`, `_curTradeDayData` |
| `inside`, `seen` | the readers in `GetShareLineData`, and what they found |
| `rows`, `pushed` | the table, and what was last published of each point |
| `dbpool`, `leaked`, `missed`, `crashes` | the pool, and what went wrong |

A pass of `SharingLine`'s loop is `Take`, `ClearLine` (before the write lock, as in the
code) and `SetPoint` or `SamePrice` under it. A reader's copy is the interval from
`ReadLock` to `ReadUnlock`.

### State and actions of `Rewards`

A handler is a program: the sequence of its statements, in `Program`. `req[i]` says
which handler slot `i` runs, for whom, and where it is. The tables are variables
(`registered`, `gold`, `cash`, `task`, `opinion`, `withdrawn`, `pending`, `ledger`), and so are the
channels and what their goroutines have taken. `Free` counts the connections of
`database/sql`; `Locked` is a row that an open transaction has updated, and `waiting`
the handlers whose update waits for it, which holds a connection (`Wait`). Answers are
buffered by `net/http` until the handler returns, so a client that waits for its
answer (`Patient`) asks again only then. `granted`, `clashed` and `unrecorded` are
history: what was granted, what the ledger's key refused, and the cash taken for
withdrawals whose row was refused.

A table's key may refuse a second row in one second; the code logs that, or not even
that, and goes on. `SaveGold`, `Report` and `Pay` have both outcomes. In `Pay` the
refusal needs an earlier row of the user's (`withdrawn[u] > 0`), since the key is user and
second, and the texts are taken to fit their columns; the update of the cash and the
commit follow in either case (`withdrawalData.go:118-129`).

Connections are counted as a set of pairs of a slot and a statement that keeps one
(`Wanted`, and `Held` for those already reached, or waiting for a lock), and `Unsaved`, the gold between a grant and its
row in the ledger, as a set with an element for each coin: the cardinality of such
a set is the sum of its parts, for any number of handlers and rows, without recursion.

### Abstractions

* Accounts, sids and threads are model values or numbers; prices, reports,
  passwords and message texts are left out. A failed check of a parameter is a
  nondeterministic refusal of the types that check parameters.
* The SDK accepts or refuses a call and answers each accepted call at most once,
  in any order, with success, failure, or (login) one of the two "dropped"
  codes. It answers `req.closemaretmany` as it answers `req.closemarket`: it has
  one event for both. Releasing a session stops its events.
* An event that reports a failure has no type and no sid. The slot it lands in,
  the one of the empty name, is not represented: no poll can name it.
  A disconnect event is only logged and reaches no slot at all.
* The string `_login_accout` is read without a lock by the SDK's thread. The
  model reads it atomically.
* A reply that the broker refuses is lost in the producer's catch clause; the
  model ends where the response is handed to the producer.
* A text of a quote is its product, second and number. The server's seconds do
  not go back. `Json::Value` converts the integer SEQUENCE to a string, as
  jsoncpp 0.6 and later do. All feeds read one server, as the configuration has it.
* quoteSave's calls of the broker are taken to succeed.
* Crash points of a database statement inside a transaction are left out: MySQL
  rolls back, and the clients see no answer.
* A front-end call is a connection with one request; its correlation id is the call.
* In `Rewards`, `share` stands for `shareApp` and the four tasks of `readAward`, which have
  the same statements. The tables are used as the handlers mean them: in `task.sql`
  the column `taskType` holds Chinese words, while `getTaskInfoTable` asks for `one` and
  `two`, so with these very rows no task would be created. A behaviour is one day.
* In `QuoteService`, every product is configured, and the point with `_stockTime == 0`,
  which `roundTimeMimute` does not make, is left out.
* A gateway thread is never stopped. `destory`, and the start of the process,
  are not modelled; `InitCap` instances exist from the start.

## Runs

| Run | Checks | Instance |
|---|---|---|
| `worker_safety` | `TypeOK`, `EachInstanceOnce`, `InstanceLimit`, `AnsweredInOrder`, `PoolRefined` | 3 accounts, limit 2, 1 spare at start, 3 requests, every environment |
| `worker_live` | `RequestServed`, `LoggedOutReclaimed` | 2 accounts, limit 1, 3 requests, every environment, `FairSpec` |
| `worker_orderly` | `OwnSession`, `SpareLoggedOut`, `NoInvalidPointer` | 2 accounts, limit 2, 4 requests, environment `{"refuse"}` |
| `worker_login_fail` | refutes `FailedLoginNotIn` | 1 account |
| `select_safety` | `TypeOK`, `OneThreadPerAccount`, `CountCoversBacklog`, `PerAccountOrder` | 3 accounts, 2 threads, 4 requests, 1 event |
| `select_live` | `RequestBegun` | 2 accounts, 2 threads, 3 requests, 2 events |
| `quote_feed` | `TypeOK`, `SingleInOrder`, `SequenceIsPosition`, `PoolCounted`, `NoQuoteLost` | 2 products, 2 feeds, 3 quotes, topic of 2, pool of 2, 1 fault, every environment |
| `quote_skip` | refutes `DroppedIsSaved` | 1 product, 1 feed, 10 quotes of a second |
| `quote_receiver` | `TypeOK`, `PartKept`, `KeptWhole`, `KeptInOrder`, `NodesAccounted`, `AlarmMeansSilence`, `SilentServerLeft`, `KeepsTrying` | buffer of 4 units, 2 nodes, quotes of 2 units and large ones of 3, alarm of 2 ticks, 2 connections, 3 messages (637 640 states) |
| `rewards` | `TypeOK`, `Ledgered`, `GoldKept`, `CashAccounted`, `RewardMarked`, `Settles` | an old and a new user who are patient and a new one who is not, every handler, 3 requests, 2 at a time, 5 connections, channels of 1 (174 161 states) |
| `soap` | `OneHolder`, `OwnAnswer`, `Served` | 4 calls, 1 of them silent, 2 threads, buffer of 2, 1 fault (313 976 states) |
| `quote_service` | `ReadsOneDay`, `LineAgrees`, `Settles` | 2 products, 2 minutes, 2 dates, 3 quotes, 1 reader twice, buffers of 2, pool of 1, 1 restart (687 089 states) |

**Bounds.** `MaxRequests` caps the requests of a behaviour; events are bounded by
it, since each answers a request. Three accounts against a limit of two make the
pool full, refuse a customer, and serve him later from another's instance; one
spare at the start makes the thread take from the store and allocate. Three
requests are enough for login, logout and another's login on the same object
while the answer to the first is still in flight. Four requests in the orderly
run give two customers a login, an order or exit each, and a re-login. With two
threads and three accounts one thread has two customers, and four requests let
one of them log out and return while the other's tasks wait. Three
quotes give a product two in one second and one in the next, or one that does
not parse between two that do, while the feeds lag behind each other; a pool of
two can be empty, full, leaked and replaced. A buffer of 4 units with quotes of 2 and 3 fills up in the middle of a message,
and runs exactly empty; two nodes run out with the third message; two
connections let an alarm of the first hit the second. Three requests in ppserver
are a registration, a login and a reward of the new user, or two rewards of one
user with an operator's answer between them; channels of one place make the
handlers wait, and two handlers want four connections of the five at most, one of
them for a statement that waits for the other's lock. A withdrawal, its approval and
another withdrawal are three requests, and so are two registrations of one user and
a third request beside them. Three calls and a silent client against two threads and a buffer
of two fill the buffer, and leave one thread for the answers to the call before.
Three quotes set a point, change it, and clear it by another date, or by a late
quote of another product. The theorems remove the bounds for the safety
properties they cover.

**Environments.** `Env` lists what the outside may do: `overlap` (a second login
before the first is answered), `late` (`check_active` between a login and its
answer), `drop` (the codes DROPUSER and LOGACCERR), `refuse` (`Release` returns
-1). The properties about the pool and the answers hold in all of them.
`OwnSession`, `SpareLoggedOut` and `NoInvalidPointer` are checked without the first
three, because the code does not keep them otherwise: a late success logs in
whoever owns the recycled instance by then, a LOGACCERR counts as a success
(`worker_login_fail`), and two overlapping logins let the failure of one put an
instance into the store that the success of the other marks as logged in. So the
run says: these three hazards are the only ways to serve a customer on
another's session, or to follow a NULL interface, within the bounds. `TradeWorkerProofs` removes the bounds.

In `QuoteFeed`, `Env` lists cut texts, the clock, hangups, starts of a feed or of
quoteSave in mid-stream, and lost messages. `SingleInOrder` and `NoQuoteLost` are
stated for behaviours in which none of the last three has happened: the topic is
not durable and neither process keeps anything, so the code cannot keep them
otherwise. A database that fails, hangups and cut texts do not excuse them.
`SequenceIsPosition` is excused by a late start only, `PoolCounted` by nothing.

`Patient` in `Rewards` are the users whose client waits for its answer: `GoldKept` and
`CashAccounted` are stated for them. For the others the code promises nothing: two
withdrawals at once both find no record and the same balance, and the cash
becomes negative; two rewards at once are both granted, since the status is
written behind the channel. `GoldKept` is also excused by feedback the operator
rewards: `userSignIn` writes the sum back that it read before. `Receive` keeps the
connections that the running handlers may need below the pool's size: ten
handlers in a transaction that ask for an eleventh connection wait for ever.
`Settles` is claimed below that bound only, which counts the connection of a statement
that waits for a row's lock: there, full channels and lock waits keep no request
from its answer. `CashAccounted` is not excused by a refused row of a withdrawal; it
counts the cash taken for it apart (`unrecorded`), and says that nothing else is missing. `LineAgrees` is excused by failed statements, and
its bound of one row by a restart (nothing reads the table back) or by dates that
go back; `ReadsOneDay` by a date that changes under a reader, when the map is
cleared outside the lock.

**Fairness.** The worker's loop polls without blocking: `pop` uses `try_lock` on a
mutex held for single deque operations, and the timers are tested in every
iteration, so a task at the front is taken eventually and `check_active` is called
again and again (weak fairness of `ProcessRequest \/ ProcessCallback` and of
`CheckActive`). Time passes (weak fairness of `Elapse`). Nothing is assumed of clients
or of the SDK: an answer may never come. In `ThreadSelect`, `on_recv` runs to its
end and a worker's loop takes and finishes its tasks. In `QuoteReceiver` the program's
threads, the alarm and its handler go on, and the server owes nothing, not even
a login answer; the bound on its messages is what makes it silent in the end. In
`SoapServer` the front end's threads run, and clients and gateway owe nothing: `receive`
has a timeout. `Served` assumes fewer silent clients than threads, since gsoap's
receive timeout is not set. In `QuoteService` the threads run; glibc's lock prefers readers,
so that the writer ever gets it rests on the finite number of reads. In `Rewards`
goroutines are scheduled and statements come back.

**Deadlock** is not checked: with all requests, messages or quotes used up, an idle
program stops. The liveness properties say that it does not stop before.

## What is proved

All theorems are for arbitrary finite or infinite sets of accounts and types, any
limits with `1 <= InitCap <= MapCap`, and any `Env`; the assumptions are the
`ASSUME`s of the modules, which TLC evaluates in the runs.

* `TradeWorkerProofs!TypeCorrect`, `InstancesConserved`, `LimitHolds`: `TypeOK`,
  `EachInstanceOnce` and `InstanceLimit` are invariants. Alone, none is inductive:
  that the objects are exactly `1 .. created` says nothing about the limit, which
  the code never tests against the number of objects. The inductive invariant
  `WorkerInv` adds it: the map and the store split `1 .. created`, and
  `created <= MapCap`. Allocation happens only with an empty store, when every
  object is mapped, so `created` is the size of the map, which the code tested.
  Three lemmas say what taking from the store, allocating and putting back
  do to the split; every action is one of them or leaves the pool alone.
* `Refinement`: a thread implements `InstancePool`, with
  `serving <- interfaceMap`, `spare <-` the elements of the store and
  `made <- created`. A login maps to `Assign` or `Make`; a logout, a failed login
  and `check_active` map to `GiveBack`; the rest stutters.
* `ResponseOrder`: `AnsweredInOrder`. Its strengthening says where in the buffer the
  events end and the requests begin: an event at the front moves the border, a
  pop takes either the last event's place or the oldest request.
* `SessionsStayOwn`, `SparesStayOut`, `WorkerStaysUp`: `OwnSession`, `SpareLoggedOut` and
  `NoInvalidPointer`, each as `Orderly => (Spec => []P)`. `Orderly` says that `overlap`,
  `late` and `drop` are not in `Env`; with any of them the statement is false (see
  Environments), and `worker_orderly` checks the same. No one of the three is
  inductive. `SessionInv` follows the login instead: a customer's login is in one place
  at most, as a request, with the SDK, or as an answer in the buffer
  (`OneLoginTask`); wherever it is, the map gives the account the very instance that
  waits for it (`PendingLogins`, `LoginEvents`); and an instance not yet allocated is
  untouched (`FreshUntouched`). So a success marks its customer's instance and no other.
* `ThreadSelectProofs!Affinity`: whatever a thread holds, works on or has waiting
  for an account, the account is selected to that thread. This is inductive
  because nothing ever deletes a selection (see Findings).
* `RequestOrder`: along the path receiver, buffer, worker, the numbers of one
  account's requests increase.
* `CountIsBound`: between any two critical sections the count, or the length
  about to be stored, bounds the waiting requests.

* `QuoteFeedProofs!PoolStaysCounted`: quoteSave's pool counts the connections that
  exist, idle or leaked, and stays within `MaxSize`, for any `MaxSize`, any feeds,
  products and bounds. The invariant is `PoolCounted` with the types of the
  counters; one lemma for each outcome of `GetConnection` carries it.
* `QuoteFeedProofs!TypeCorrect`, `SequenceStaysPosition`: a feed's pair of counters
  describes the quotes it has read. That the next number is the next position
  needs the stream's order (a quote of a new second comes after all of the last
  one) and that the quotes of a second have the positions 1, 2, ... without a
  gap, which is a fact about cardinalities of sets of positions (`Stream`, `Counts`).
* `SingleStaysInOrder`, `NoQuoteGetsLost`: one invariant, `Tracked`, for both. Feeds repeat
  and overtake each other, and quoteSave compares seconds, and numbers as text,
  with the last it has saved. A quote is `Done` if that comparison would drop it. What a
  feed has read is `Done` or in the topic, a message has every earlier quote of its
  product `Done` or ahead of it, and up to the ninth of a second `Done` is published. After
  the ninth it is not, which is the finding of `quote_skip`; the proof shows that
  this does no harm to the order, nor to the first nine of the next second.

* `QuoteReceiverProofs!TypeCorrect`, `PartIsKept`, `NodesAreAccounted`, `KeptAreWhole`. That a
  kept node is a whole quote needs the framing of the unread bytes: they are
  consecutive units of the stream, the buffer's part begins with a head, and a
  message that has not ended is the last (`Framing`). Every exit from the loop
  must restore it, which is what `GiveUp` does with its reset.
* `QuoteReceiverProofs!OrderIsKept`: `Progress` says of the unread units that they are of
  the current connection, in the order sent, and later than all that is kept, and
  that every quote of this connection that has come, large ones apart, is kept or
  unread. It rests on `Framing`: only whole messages leave the buffer.
* `QuoteReceiverProofs!AlarmIsRight`: an action property, from the invariant that the
  ticks of silence and those left of the alarm add up to at least `Timeout`.
* `SoapServerProofs!OneHolderEach`, `AnswersAreOwn`. The socket's place is a function of
  the call's state; a thread that serves holds an accepted call, and the
  positions of the queue are distinct. `AnswersAreOwn` needs only that the thread
  compares ids, and that ids are not used twice.
* `QuoteServiceProofs!ReadersSeeOneDay`, `LineTopicTableAgree`. Two facts carry the
  induction: a quote of a new date waits for the write lock while a reader is
  inside, so the date cannot change twice under him (`Blocked`), and the line is
  set from quotes in the order received (`Backlog`), so a minute that has one date
  has one row (`OneRow`).
* `RewardsProofs!TypeCorrect`: with the types, that the handlers served never hold all
  connections. `Wanted`, the connections they will hold at most, does not grow while
  they run, and `Receive` admits a request only if it stays below `Conns`.
* `CashAddsUp`: that cash, withdrawals and the cash taken without a row add up. At each statement of a withdrawal the invariant says what the handler
  has learned and may still rely on: after `pending` that no withdrawal waits, after
  `cash` that the amount is there; at each statement of a registration, that no bonus
  was granted. It is inductive for users with one handler at a time (`Serial`), and
  with the operator's approvals and saveGoldAndCash running beside it.
* `GoldIsKept`: the balance that a sign-in has read is still the one in the table when
  it commits; a transaction that has set the gold and is open differs from the
  table by its amount.
* `NothingGetsLost`: the coins of handlers that have granted and not sent their row,
  and of the rows in the channel and in hand, are exactly what the table and the
  refusals lack. Each step moves a block of coins, and the lemmas `CoinsAdd`,
  `CoinsRemove` and `CoinsShift` say what that does to the cardinality. It holds for all
  users, patient or not, and with the operator's grants.
* `RewardStaysMarked`: an amount above zero was read from a row that is there, no
  statement takes a status back, and the event finds the row.

With these, every invariant and every safety property that a passing run checks
is a theorem. The environments that a property excuses are in its theorem as they
are in the run; nothing else is assumed.

Only model-checked: `RequestServed`, `LoggedOutReclaimed`, `RequestBegun`, `SilentServerLeft`,
`KeepsTrying`, `Served` and the two `Settles`, which are liveness under fairness, out of the
prover's reach; and the two runs that refute a claim, where the counterexample is
the result.

## Findings

Two runs show the code at odds with its own logs; see `findings` in `PROJECT.json`:
failed logins that count as logins (`worker_login_fail`), and a tenth quote of a
second that is dropped as stored (`quote_skip`). Other divergences were met while
modelling; the models have the code's behaviour, and no property states the
comment's:

* one slot per result type (`gd_trade.cpp:209-215`) where the member is commented as
  a queue that is polled for the matching reply (`gd_trade.h:313`);
* replies filed under another request's type (`gd_trade.cpp:569`, `:631`, `:691`, `:744`), so
  that a poll under the client's own type finds nothing;
* a "number of users" (`proc_thread_select.cpp:58`, `:83`) that is the length of a queue
  (`recv_thread.cpp:107-109`);
* a selection that logout never deletes: the name is cleared (`gd_trade.cpp:164`) before
  it is looked up (`proc_thread.cpp:537`). Deleting the right name alone would break
  `OneThreadPerAccount`, as the mutant `NameToDelete_Kept` shows, because requests of the
  account may still wait in the old thread's buffer;
* "no idle node" in the C receiver is tested before the loop and not in it
  (`quote/recvBuffer.c:41`, `:50`): a second quote in one read follows NULL (`NullNode`), and
  since nobody takes nodes off the busy list the receiver, once out of them,
  reconnects for ever;
* a share or a reading that is rewarded twice when asked twice before the status
  is through its channel (`src/ppserver/event.go:123`, `:146`), though the answer to the
  second would be that the app was shared today (`:127`);
* a withdrawal that is answered with success (`src/ppserver/withdrawalData.go:112`), whose
  row the table's key refuses when another was approved within the same second, and
  whose cash is taken all the same (`:118-129`; `src/ppserver/pp.sql:66`).

## Plan

Done, in this order: `RequestTypes`, `GdTrade`, `TradeWorker` with `InstancePool`,
`ThreadSelect`, `ConnPool`, `QuoteFeed`, `QuoteReceiver`, `Rewards`, `SoapServer`, `QuoteService`, and
the proofs of their safety properties. What is left, by worth:

1. An abstract specification of `QuoteFeed` without faults, a stream of rows that
   only grows forward, and the proof that it is implemented.
2. The composition of `TradeWorker` and `ThreadSelect`: a worker of `TradeWorker` implements
   the reduced worker of `ThreadSelect`; and of `SoapServer` with a gateway.

## Not modelled

* **Starting and stopping.** `destory` and `DestoryConnPool`, the ends of the `main`s, the
  container of the gateway's threads. Some of it is wrong: `soap_buffer::pop` never
  looks at `_run`, so the front end's threads cannot be joined; it is reached only
  when the start fails.
* **JMS wrappers, configuration, logging.** One call each, or read once.
* **K-lines of quoteService.** `KLineManager::Init` has their construction commented
  out (`KLineManager.cpp:25-35`): the code is dead in this commit.
* **Undefined behaviour of the C receiver's allocation.** `NodeAlloc` allocates
  `sizeof(size)` bytes for a node of 512 (`quote/list.c:11`); what follows depends on the
  heap, and the model takes the size that was meant. `pthread_kill` on a thread
  that has ended and was not joined is taken to return ESRCH, as glibc did before
  2.34; a later one returns 0, and the thread is never started again.
* **`cgi/src_ssl`, `cgi_quote`.** Near copies of `cgi/src`; the model is of the latter.
* **ppserver's readers** (`getTaskStatus`, `incomeList`, the lists): they change nothing. MySQL's
  lock wait timeout of 50 seconds is left out, as is a restart, which loses what is
  in the channels, and the deadlock of ten handlers in a transaction, which `Receive`
  keeps away. The
  exchange of gold for cash is not in this repository.
* **cms-server, api-server, the ActiveMQ, Kafka, socket and Go exercises.** Handlers
  that map a request to one statement, or examples; no protocol of their own.
* **Vendored code**: tinyxml, zlog, gtest, jsoncpp, Paho MQTT, rdkafka, Go vendor
  directories, the trading SDK's headers. It is most of the repository by lines.
