------------------------- MODULE ThreadSelectProofs -------------------------
(***************************************************************************)
(* Proofs about ThreadSelect, for every set of accounts and threads.       *)
(*                                                                         *)
(* OneThreadPerAccount is not inductive: that no two threads hold an       *)
(* account now says nothing about the requests in their buffers.  It       *)
(* follows from Belongs: wherever an account appears, selectMap already    *)
(* names that thread, and selectMap never changes for a selected account,  *)
(* because the only caller of del_select passes a name no account has.     *)
(***************************************************************************)
EXTENDS ThreadSelect, BufferLemmas

\* A task in the hands of thread t belongs there.
TaskOf(task, t) == task.kind = "request" => selectMap[task.acct] = t

Belongs ==
    /\ \A t \in Threads : \A k \in holds[t] : selectMap[k] = t
    /\ \A t \in Threads : TaskOf(cur[t], t)
    /\ \A t \in Threads : \A i \in DOMAIN queue[t] : TaskOf(queue[t][i], t)
    /\ recv.pc = "push" => TaskOf(recv.task, recv.thread)

AffinityInv == TypeOK /\ Belongs

-----------------------------------------------------------------------------
(* Type correctness.                                                       *)

\* Without effect on the dispatch: the name is no account's.
LEMMA DelSelectNothing ==
    ASSUME NEW k \in Accounts, DelSelect(NameToDelete(k))
    PROVE  UNCHANGED <<selectMap, count>>
  BY NamesAssumption DEF DelSelect, NameToDelete

\* Nothing is queued, chosen or counted at first.
LEMMA TypeInit == Init => TypeOK
  BY DEF Init, TypeOK, Idle, NoTask, Tasks

\* Every step of the dispatch and of the threads keeps the types.
LEMMA TypeNext == TypeOK /\ [Next]_vars => TypeOK'
<1> SUFFICES ASSUME TypeOK, [Next]_vars PROVE TypeOK'
  OBVIOUS
<1>1. ASSUME NEW k \in Accounts, Receive(k) PROVE TypeOK'
  <2> PICK t \in Threads, y \in {"login", "logout", "other"} :
        /\ GetSelect(k, t)
        /\ recv' = [pc |-> "push", thread |-> t,
                    task |-> [kind |-> "request", id |-> nreq + 1,
                              acct |-> k, type |-> y]]
    BY <1>1 DEF Receive
  <2>1. recv'.task \in Requests
    BY DEF Requests, TypeOK
  <2>2. selectMap' \in [Accounts -> Threads \cup {NoThread}]
    BY DEF GetSelect, TypeOK
  <2> QED BY <1>1, <2>1, <2>2 DEF Receive, TypeOK
<1>2. CASE PushTask
  <2> DEFINE t == recv.thread
  <2>1. t \in Threads /\ recv.task \in Tasks /\ queue[t] \in Seq(Tasks)
    BY <1>2 DEF PushTask, TypeOK, Tasks, Idle
  <2>2. Append(queue[t], recv.task) \in Seq(Tasks)
    BY <2>1, PushFacts
  <2>3. queue' \in [Threads -> Seq(Tasks)] /\ Len(queue'[t]) \in Nat
    BY <1>2, <2>1, <2>2 DEF PushTask, TypeOK
  <2> QED BY <1>2, <2>1, <2>3 DEF PushTask, TypeOK
<1>3. CASE UpdateCount
  BY <1>3 DEF UpdateCount, TypeOK, Idle
<1>4. ASSUME NEW t \in Threads, SdkEvent(t) PROVE TypeOK'
  <2> PICK k \in Users(t) :
        queue' = [queue EXCEPT ![t] = <<[kind |-> "event", acct |-> k]>> \o @]
    BY <1>4 DEF SdkEvent
  <2>1. [kind |-> "event", acct |-> k] \in Tasks /\ queue[t] \in Seq(Tasks)
    BY DEF Users, Tasks, Events, TypeOK
  <2>2. <<[kind |-> "event", acct |-> k]>> \o queue[t] \in Seq(Tasks)
    BY <2>1, PushFrontFacts
  <2> QED BY <1>4, <2>2 DEF SdkEvent, TypeOK
<1>5. ASSUME NEW t \in Threads, Take(t) PROVE TypeOK'
  <2>1. Head(queue[t]) \in Tasks /\ Tail(queue[t]) \in Seq(Tasks)
    BY <1>5, PopFacts DEF Take, TypeOK
  <2>2. latest' \in [Accounts -> Nat]
    BY <1>5, <2>1 DEF Take, TypeOK, Tasks, Requests, Events
  <2> QED BY <1>5, <2>1, <2>2 DEF Take, TypeOK
<1>6. ASSUME NEW t \in Threads, Finish(t) PROVE TypeOK'
  <2>1. cur[t] \in Tasks /\ cur[t].acct \in Accounts
    BY <1>6 DEF Finish, FinishLogin, FinishLogout, FinishOther, FinishEvent,
                TypeOK, NoTask, Tasks, Requests, Events
  <2>2. CASE FinishLogin(t)
    <3>1. holds' \in [Threads -> SUBSET Accounts]
      <4> DEFINE more == holds[t] \cup {cur[t].acct}
      <4>1. more \in SUBSET Accounts
        BY <2>1 DEF TypeOK
      <4>2. holds' = [holds EXCEPT ![t] = more] \/ holds' = holds
        BY <2>2 DEF FinishLogin
      <4> QED BY <4>1, <4>2 DEF TypeOK
    <3>2. cur' \in [Threads -> Tasks \cup {NoTask}]
      BY <2>2 DEF FinishLogin, Done, TypeOK
    <3> QED BY <2>2, <3>1, <3>2 DEF FinishLogin, TypeOK
  <2>3. CASE FinishLogout(t)
    BY <2>1, <2>3, DelSelectNothing DEF FinishLogout, Done, TypeOK
  <2>4. CASE FinishOther(t) \/ FinishEvent(t)
    BY <2>1, <2>4 DEF FinishOther, FinishEvent, Done, TypeOK
  <2> QED BY <1>6, <2>2, <2>3, <2>4 DEF Finish
<1>7. ASSUME NEW t \in Threads, CheckActive(t) PROVE TypeOK'
  BY <1>7 DEF CheckActive, TypeOK
<1>8. CASE UNCHANGED vars
  BY <1>8 DEF vars, TypeOK
<1> QED BY <1>1, <1>2, <1>3, <1>4, <1>5, <1>6, <1>7, <1>8 DEF Next

\* Every reachable state is well typed: in particular the counts, written by
\* one thread and decremented by others, stay natural numbers.
THEOREM TypeCorrect == Spec => []TypeOK
  BY TypeInit, TypeNext, PTL DEF Spec

-----------------------------------------------------------------------------
(* One thread per account.                                                 *)

\* selectMap, once set for an account, stays.
LEMMA SelectionStays ==
    ASSUME TypeOK, Next, NEW k \in Accounts, Selected(k)
    PROVE  selectMap'[k] = selectMap[k]
<1>1. ASSUME NEW j \in Accounts, Receive(j) PROVE selectMap'[k] = selectMap[k]
  BY <1>1 DEF Receive, GetSelect, Selected, TypeOK
<1>2. ASSUME NEW t \in Threads, Finish(t) PROVE selectMap'[k] = selectMap[k]
  <2>1. CASE FinishLogout(t)
    <3>1. cur[t].acct \in Accounts
      BY <2>1 DEF FinishLogout, TypeOK, NoTask, Tasks, Requests, Events
    <3> QED BY <2>1, <3>1, DelSelectNothing DEF FinishLogout
  <2> QED BY <1>2, <2>1 DEF Finish, FinishLogin, FinishOther, FinishEvent
<1> QED BY <1>1, <1>2 DEF Next, PushTask, UpdateCount, SdkEvent, Take, CheckActive

\* A task that belongs to a thread goes on belonging to it.
LEMMA TaskStays ==
    ASSUME TypeOK, Next, NEW t \in Threads, NEW task \in Tasks \cup {NoTask},
           TaskOf(task, t)
    PROVE  task.kind = "request" => selectMap'[task.acct] = t
  BY SelectionStays, NamesAssumption
  DEF TaskOf, Selected, Tasks, Requests, Events, NoTask

\* At first no thread has an account, a task or a waiting request.
LEMMA BelongsInit == Init => Belongs
  BY DEF Init, Belongs, TaskOf, Idle, NoTask

\* A step never leaves work for an account with a thread that was not
\* selected for it: get_select keeps its choice and nothing deletes it.
LEMMA BelongsNext == AffinityInv /\ [Next]_vars => Belongs'
<1> SUFFICES ASSUME TypeOK, Belongs, Next PROVE Belongs'
  BY DEF AffinityInv, Belongs, TaskOf, vars
<1> USE DEF TaskOf
\* What is not touched belongs where it did.
<1>1. \A t \in Threads : \A k \in holds[t] : selectMap'[k] = t
  BY SelectionStays, NamesAssumption DEF Belongs, Selected, TypeOK
<1>2. \A t \in Threads : cur[t].kind = "request" => selectMap'[cur[t].acct] = t
  BY TaskStays DEF Belongs, TypeOK
<1>3. \A t \in Threads : \A i \in DOMAIN queue[t] :
        queue[t][i].kind = "request" => selectMap'[queue[t][i].acct] = t
  <2> SUFFICES ASSUME NEW t \in Threads, NEW i \in DOMAIN queue[t]
               PROVE  queue[t][i].kind = "request" => selectMap'[queue[t][i].acct] = t
    OBVIOUS
  <2>1. queue[t][i] \in Tasks /\ TaskOf(queue[t][i], t)
    BY DEF Belongs, TypeOK
  <2> QED BY <2>1, TaskStays
<1>4. recv.pc = "push" => /\ recv.task \in Tasks /\ recv.thread \in Threads
                          /\ recv.task.kind = "request"
                                => selectMap'[recv.task.acct] = recv.thread
  <2> SUFFICES ASSUME recv.pc = "push"
               PROVE  /\ recv.task \in Tasks /\ recv.thread \in Threads
                      /\ recv.task.kind = "request"
                                => selectMap'[recv.task.acct] = recv.thread
    OBVIOUS
  <2>1. recv.task \in Tasks /\ recv.thread \in Threads
    BY DEF TypeOK, Idle, Tasks
  <2> QED BY <2>1, TaskStays DEF Belongs
\* The one part each action changes.
<1>5. ASSUME NEW j \in Accounts, Receive(j) PROVE Belongs'
  <2>1. recv'.pc = "push" /\ recv'.task.acct = j /\ selectMap'[j] = recv'.thread
    BY <1>5 DEF Receive, GetSelect, TypeOK
  <2> QED BY <1>1, <1>2, <1>3, <1>5, <2>1 DEF Receive, Belongs
<1>6. CASE PushTask
  <2> DEFINE t == recv.thread
  <2>1. t \in Threads /\ recv.task \in Tasks /\ queue[t] \in Seq(Tasks)
    BY <1>4, <1>6 DEF PushTask, TypeOK
  <2>2. queue' = [queue EXCEPT ![t] = Append(queue[t], recv.task)]
        /\ recv'.pc = "update"
    BY <1>6 DEF PushTask
  <2>3. \A i \in DOMAIN queue'[t] :
          queue'[t][i].kind = "request" => selectMap'[queue'[t][i].acct] = t
    <3>1. queue'[t] = Append(queue[t], recv.task)
      BY <2>1, <2>2 DEF TypeOK
    <3> QED BY <1>3, <1>4, <1>6, <2>1, <3>1, PushFacts DEF PushTask
  <2>4. \A u \in Threads : u # t => queue'[u] = queue[u]
    BY <2>2 DEF TypeOK
  <2> QED BY <1>1, <1>2, <1>3, <1>6, <2>2, <2>3, <2>4 DEF PushTask, Belongs
<1>7. CASE UpdateCount
  BY <1>1, <1>2, <1>3, <1>7 DEF UpdateCount, Belongs, Idle
<1>8. ASSUME NEW t \in Threads, SdkEvent(t) PROVE Belongs'
  <2> PICK k \in Users(t) :
        queue' = [queue EXCEPT ![t] = <<[kind |-> "event", acct |-> k]>> \o @]
    BY <1>8 DEF SdkEvent
  <2> DEFINE e == [kind |-> "event", acct |-> k]
  <2>1. e \in Tasks /\ queue[t] \in Seq(Tasks) /\ e.kind # "request"
    BY DEF Users, Tasks, Events, TypeOK
  <2>2. queue'[t] = <<e>> \o queue[t]
    BY DEF TypeOK
  <2>3. \A i \in DOMAIN queue'[t] :
          queue'[t][i].kind = "request" => selectMap'[queue'[t][i].acct] = t
    <3> HIDE DEF e
    <3> QED BY <1>3, <2>1, <2>2, PushFrontFacts
  <2>4. \A u \in Threads : u # t => queue'[u] = queue[u]
    BY DEF TypeOK
  <2> QED BY <1>1, <1>2, <1>3, <1>4, <1>8, <2>3, <2>4 DEF SdkEvent, Belongs
<1>9. ASSUME NEW t \in Threads, Take(t) PROVE Belongs'
  <2>1. queue[t] \in Seq(Tasks) /\ queue[t] # <<>>
    BY <1>9 DEF Take, TypeOK
  <2>2. queue'[t] = Tail(queue[t]) /\ cur'[t] = Head(queue[t])
    BY <1>9 DEF Take, TypeOK
  <2>3. \A i \in DOMAIN queue'[t] :
          queue'[t][i].kind = "request" => selectMap'[queue'[t][i].acct] = t
    BY <1>3, <2>1, <2>2, PopFacts
  <2>4. cur'[t].kind = "request" => selectMap'[cur'[t].acct] = t
    BY <1>3, <2>1, <2>2, PopFacts
  <2>5. \A u \in Threads : u # t => queue'[u] = queue[u] /\ cur'[u] = cur[u]
    BY <1>9 DEF Take, TypeOK
  <2> QED BY <1>1, <1>2, <1>3, <1>4, <1>9, <2>3, <2>4, <2>5 DEF Take, Belongs
<1>10. ASSUME NEW t \in Threads, Finish(t) PROVE Belongs'
  <2>1. cur' = [cur EXCEPT ![t] = NoTask] /\ UNCHANGED <<queue, recv>>
    BY <1>10 DEF Finish, FinishLogin, FinishLogout, FinishOther, FinishEvent, Done
  <2>2. \A u \in Threads : cur'[u].kind = "request" => selectMap'[cur'[u].acct] = u
    BY <1>2, <2>1 DEF TypeOK, NoTask
  <2>3. \A u \in Threads : \A k \in holds'[u] : selectMap'[k] = u
    <3>1. \A u \in Threads : \A k \in holds'[u] :
            k \in holds[u] \/ (u = t /\ k = cur[t].acct /\ cur[t].kind = "request")
      <4>1. CASE FinishLogin(t)
        BY <4>1 DEF FinishLogin, TypeOK
      <4>2. CASE FinishLogout(t)
        BY <4>2 DEF FinishLogout, TypeOK
      <4>3. CASE FinishOther(t) \/ FinishEvent(t)
        BY <4>3 DEF FinishOther, FinishEvent, TypeOK
      <4> QED BY <1>10, <4>1, <4>2, <4>3 DEF Finish
    <3> QED BY <1>1, <1>2, <3>1
  <2> QED BY <1>3, <1>4, <2>1, <2>2, <2>3 DEF Belongs
<1>11. ASSUME NEW t \in Threads, CheckActive(t) PROVE Belongs'
  <2>1. \A u \in Threads : holds'[u] \subseteq holds[u]
    BY <1>11 DEF CheckActive, TypeOK
  <2> QED BY <1>1, <1>2, <1>3, <1>4, <1>11, <2>1 DEF CheckActive, Belongs
<1> QED BY <1>5, <1>6, <1>7, <1>8, <1>9, <1>10, <1>11 DEF Next

\* No two threads have an instance for the same account, or work on its
\* requests at once, however many threads, accounts and requests there are.
THEOREM Affinity == Spec => []OneThreadPerAccount
<1>1. Init => AffinityInv
  BY TypeInit, BelongsInit DEF AffinityInv
<1>2. AffinityInv /\ [Next]_vars => AffinityInv'
  BY TypeNext, BelongsNext DEF AffinityInv
<1>3. AffinityInv => OneThreadPerAccount
  BY DEF AffinityInv, Belongs, TaskOf, OneThreadPerAccount
<1> QED BY <1>1, <1>2, <1>3, PTL DEF Spec

-----------------------------------------------------------------------------
(* The order of an account's requests.                                     *)

\* Every buffer is sorted by the numbers of its requests; what waits is newer
\* than what its account has begun, and the request in the hands of the
\* receiving thread is the newest of all.
Ordered ==
    /\ \A k \in Accounts : latest[k] <= nreq
    /\ \A t \in Threads : \A i \in Waiting(t) :
          latest[queue[t][i].acct] < queue[t][i].id /\ queue[t][i].id <= nreq
    /\ \A t \in Threads : \A i, j \in Waiting(t) :
          i < j => queue[t][i].id < queue[t][j].id
    /\ recv.pc = "push" =>
          /\ recv.task.id = nreq /\ latest[recv.task.acct] < nreq
          /\ \A t \in Threads : \A i \in Waiting(t) : queue[t][i].id < nreq

OrderInv == AffinityInv /\ Ordered

\* An empty buffer is ordered.
LEMMA OrderedInit == Init => Ordered
  BY DEF Init, Ordered, Waiting, Idle

\* A waiting request is a request.
LEMMA WaitingFacts ==
    ASSUME TypeOK, NEW t \in Threads, NEW i \in Waiting(t)
    PROVE  /\ i \in Nat \ {0} /\ i \in DOMAIN queue[t]
           /\ queue[t][i] \in Requests
           /\ queue[t][i].id \in Nat /\ queue[t][i].acct \in Accounts
<1>1. queue[t] \in Seq(Tasks) /\ i \in DOMAIN queue[t] /\ queue[t][i].kind = "request"
  BY DEF Waiting, TypeOK
<1>2. queue[t][i] \in Tasks /\ i \in Nat \ {0}
  BY <1>1
<1> QED BY <1>1, <1>2 DEF Tasks, Requests, Events

\* A request a thread takes is newer than what its account has begun, and older
\* than everything of that account that waits anywhere.
LEMMA TakeFacts ==
    ASSUME OrderInv, NEW t \in Threads, Take(t), Head(queue[t]).kind = "request"
    PROVE  LET r == Head(queue[t])
           IN  /\ r \in Requests /\ 1 \in Waiting(t) /\ r = queue[t][1]
               /\ latest[r.acct] < r.id /\ r.id <= nreq
               /\ latest' = [latest EXCEPT ![r.acct] = r.id]
               /\ \A u \in Threads : \A j \in Waiting(u) :
                     (queue[u][j].acct = r.acct /\ ~(u = t /\ j = 1))
                        => r.id < queue[u][j].id
<1>1. queue[t] \in Seq(Tasks) /\ queue[t] # <<>> /\ TypeOK
  BY DEF Take, OrderInv, AffinityInv, TypeOK
<1>2. 1 \in Waiting(t) /\ Head(queue[t]) = queue[t][1]
  BY <1>1, PopFacts DEF Waiting
<1>3. Head(queue[t]) \in Requests
  BY <1>1, <1>2, WaitingFacts
<1>4. latest' = [latest EXCEPT ![Head(queue[t]).acct] = Head(queue[t]).id]
  BY DEF Take
<1>5. ASSUME NEW u \in Threads, NEW j \in Waiting(u),
             queue[u][j].acct = Head(queue[t]).acct, ~(u = t /\ j = 1)
      PROVE  Head(queue[t]).id < queue[u][j].id
  <2>1. selectMap[queue[u][j].acct] = u /\ selectMap[Head(queue[t]).acct] = t
    BY <1>2 DEF OrderInv, AffinityInv, Belongs, TaskOf, Waiting
  <2>2. u = t /\ j # 1 /\ j \in Nat \ {0}
    BY <1>1, <1>5, <2>1, WaitingFacts
  <2> QED BY <1>2, <2>2 DEF OrderInv, Ordered
<1> QED BY <1>2, <1>3, <1>4, <1>5 DEF OrderInv, Ordered

\* Pushes append the youngest number, pops take the oldest, and an event at
\* the front has no number: the buffers stay ordered.
LEMMA OrderedNext == OrderInv /\ [Next]_vars => Ordered'
<1> SUFFICES ASSUME OrderInv, Next PROVE Ordered'
  BY DEF OrderInv, Ordered, Waiting, vars
<1> USE DEF OrderInv
<1>t. TypeOK
  BY DEF AffinityInv
<1>1. ASSUME NEW k \in Accounts, Receive(k) PROVE Ordered'
  <2>1. nreq' = nreq + 1 /\ recv'.pc = "push" /\ recv'.task.id = nreq + 1
        /\ recv'.task.acct = k /\ UNCHANGED <<queue, latest>>
    BY <1>1 DEF Receive
  <2>2. nreq \in Nat /\ latest \in [Accounts -> Nat]
    BY <1>t DEF TypeOK
  <2> QED BY <1>t, <2>1, <2>2, WaitingFacts DEF Ordered, Waiting
<1>2. CASE PushTask
  <2> PICK t \in Threads : t = recv.thread
    BY <1>t, <1>2 DEF PushTask, TypeOK, Idle
  <2>1. recv.task \in Requests /\ queue[t] \in Seq(Tasks)
        /\ recv.task \in Tasks /\ nreq \in Nat
    BY <1>t, <1>2 DEF PushTask, TypeOK, Idle, Tasks
  <2>2. queue'[t] = Append(queue[t], recv.task) /\ UNCHANGED <<nreq, latest>>
        /\ recv'.pc = "update" /\ \A u \in Threads : u # t => queue'[u] = queue[u]
    BY <1>t, <1>2, <2>1 DEF PushTask, TypeOK
  <2>3. \A i \in Waiting(t)' :
          \/ i \in Waiting(t) /\ queue'[t][i] = queue[t][i]
          \/ i = Len(queue[t]) + 1 /\ queue'[t][i] = recv.task
    BY <2>1, <2>2, PushFacts DEF Waiting
  <2>4. \A i \in Waiting(t)' : latest[queue'[t][i].acct] < queue'[t][i].id
                                /\ queue'[t][i].id <= nreq
    <3> TAKE i \in Waiting(t)'
    <3>1. CASE i \in Waiting(t) /\ queue'[t][i] = queue[t][i]
      BY <3>1 DEF Ordered
    <3>2. CASE queue'[t][i] = recv.task
      <4>1. recv.task.id = nreq /\ latest[recv.task.acct] < nreq
        BY <1>2 DEF Ordered, PushTask
      <4> QED BY <2>1, <3>2, <4>1
    <3> QED BY <2>3, <3>1, <3>2
  <2>5. \A i, j \in Waiting(t)' : i < j => queue'[t][i].id < queue'[t][j].id
    <3> SUFFICES ASSUME NEW i \in Waiting(t)', NEW j \in Waiting(t)', i < j
                 PROVE  queue'[t][i].id < queue'[t][j].id
      OBVIOUS
    <3>1. Len(queue[t]) \in Nat /\ Waiting(t) \subseteq 1 .. Len(queue[t])
      BY <2>1 DEF Waiting
    <3>2. i \in Waiting(t) /\ queue'[t][i] = queue[t][i]
      BY <2>3, <3>1
    <3>3. CASE j \in Waiting(t) /\ queue'[t][j] = queue[t][j]
      BY <2>1, <3>2, <3>3 DEF Ordered
    <3>4. CASE queue'[t][j] = recv.task
      BY <1>2, <2>1, <3>2, <3>4 DEF Ordered, PushTask
    <3> QED BY <2>3, <3>3, <3>4
  <2>6. \A u \in Threads : u # t => Waiting(u)' = Waiting(u)
    BY <2>2 DEF Waiting
  <2>7. \A u \in Threads :
          /\ \A i \in Waiting(u)' : latest[queue'[u][i].acct] < queue'[u][i].id
                                    /\ queue'[u][i].id <= nreq
          /\ \A i, j \in Waiting(u)' : i < j => queue'[u][i].id < queue'[u][j].id
    <3> TAKE u \in Threads
    <3>1. CASE u = t
      BY <2>4, <2>5, <3>1
    <3>2. CASE u # t
      BY <2>2, <2>6, <3>2 DEF Ordered
    <3> QED BY <3>1, <3>2
  <2> QED BY <2>2, <2>7 DEF Ordered
<1>3. CASE UpdateCount
  BY <1>3 DEF UpdateCount, Ordered, Waiting, Idle
<1>4. ASSUME NEW t \in Threads, SdkEvent(t) PROVE Ordered'
  <2> PICK k \in Users(t) :
        queue' = [queue EXCEPT ![t] = <<[kind |-> "event", acct |-> k]>> \o @]
    BY <1>4 DEF SdkEvent
  <2> DEFINE e == [kind |-> "event", acct |-> k]
  <2>1. e \in Tasks /\ queue[t] \in Seq(Tasks) /\ e.kind # "request"
    BY <1>t DEF Users, Tasks, Events, TypeOK
  <2>2. queue'[t] = <<e>> \o queue[t] /\ UNCHANGED <<nreq, latest, recv>>
        /\ \A u \in Threads : u # t => queue'[u] = queue[u]
    BY <1>t, <1>4 DEF TypeOK, SdkEvent
  <2>3. \A i \in Waiting(t)' : i - 1 \in Waiting(t) /\ queue'[t][i] = queue[t][i - 1]
                                /\ i \in Int
    <3> HIDE DEF e
    <3> QED BY <2>1, <2>2, PushFrontFacts DEF Waiting
  <2>4. \A u \in Threads : u # t => Waiting(u)' = Waiting(u)
    BY <2>2 DEF Waiting
  <2>5. \A i, j \in Waiting(t)' : i < j => queue'[t][i].id < queue'[t][j].id
    BY <2>3 DEF Ordered, Waiting
  <2> QED BY <2>2, <2>3, <2>4, <2>5 DEF Ordered, Waiting
<1>5. ASSUME NEW t \in Threads, Take(t) PROVE Ordered'
  <2>1. queue[t] \in Seq(Tasks) /\ queue[t] # <<>>
    BY <1>t, <1>5 DEF Take, TypeOK
  <2>2. queue'[t] = Tail(queue[t]) /\ UNCHANGED <<nreq, recv>>
        /\ \A u \in Threads : u # t => queue'[u] = queue[u]
    BY <1>t, <1>5 DEF Take, TypeOK
  <2>3. \A i \in Waiting(t)' : i + 1 \in Waiting(t) /\ queue'[t][i] = queue[t][i + 1]
                                /\ i \in Nat \ {0}
    BY <2>1, <2>2, PopFacts DEF Waiting
  <2>4. \A u \in Threads : u # t => Waiting(u)' = Waiting(u)
    BY <2>2 DEF Waiting
  <2>5. \A i, j \in Waiting(t)' : i < j => queue'[t][i].id < queue'[t][j].id
    BY <2>3 DEF Ordered
  <2>6. \A u \in Threads : \A i \in Waiting(u)' :
          \E j \in Waiting(u) : queue'[u][i] = queue[u][j]
    <3> TAKE u \in Threads
    <3>1. CASE u = t
      BY <2>3, <3>1
    <3>2. CASE u # t
      BY <2>2, <2>4, <3>2
    <3> QED BY <3>1, <3>2
  <2>7. \A u \in Threads : \A i, j \in Waiting(u)' :
          i < j => queue'[u][i].id < queue'[u][j].id
    <3> TAKE u \in Threads
    <3>1. CASE u = t
      BY <2>5, <3>1
    <3>2. CASE u # t
      BY <2>2, <2>4, <3>2 DEF Ordered
    <3> QED BY <3>1, <3>2
  <2>8. CASE Head(queue[t]).kind # "request"
    <3>1. latest' = latest
      BY <1>5, <2>8 DEF Take
    <3> QED BY <2>2, <2>6, <2>7, <3>1 DEF Ordered
  <2>9. CASE Head(queue[t]).kind = "request"
    <3> DEFINE r == Head(queue[t])
    <3>1. /\ r \in Requests /\ r.id <= nreq /\ latest[r.acct] < r.id
          /\ 1 \in Waiting(t) /\ r = queue[t][1]
          /\ latest' = [latest EXCEPT ![r.acct] = r.id]
          /\ \A u \in Threads : \A j \in Waiting(u) :
                (queue[u][j].acct = r.acct /\ ~(u = t /\ j = 1))
                   => r.id < queue[u][j].id
      BY <1>5, <2>9, TakeFacts
    <3> HIDE DEF r
    <3>2. r.acct \in Accounts /\ latest \in [Accounts -> Nat] /\ nreq \in Nat
      BY <1>t, <3>1 DEF TypeOK, Requests
    <3>3. \A k \in Accounts : latest'[k] <= nreq
      BY <3>1, <3>2 DEF Ordered
    <3>4. \A u \in Threads : \A j \in Waiting(u) : ~(u = t /\ j = 1)
             => latest'[queue[u][j].acct] < queue[u][j].id
      BY <1>t, <3>1, <3>2, WaitingFacts DEF Ordered
    <3>5. \A u \in Threads : \A i \in Waiting(u)' :
             latest'[queue'[u][i].acct] < queue'[u][i].id
      <4> SUFFICES ASSUME NEW u \in Threads, NEW i \in Waiting(u)'
                   PROVE  latest'[queue'[u][i].acct] < queue'[u][i].id
        OBVIOUS
      <4>1. CASE u = t
        BY <2>3, <3>4, <4>1
      <4>2. CASE u # t
        BY <2>2, <2>4, <3>4, <4>2
      <4> QED BY <4>1, <4>2
    <3>6. recv.pc = "push" => /\ recv.task.id = nreq /\ latest'[recv.task.acct] < nreq
                              /\ \A u \in Threads : \A i \in Waiting(u)' :
                                    queue'[u][i].id < nreq
      <4> SUFFICES ASSUME recv.pc = "push"
                   PROVE  /\ recv.task.id = nreq /\ latest'[recv.task.acct] < nreq
                          /\ \A u \in Threads : \A i \in Waiting(u)' :
                                queue'[u][i].id < nreq
        OBVIOUS
      <4>1. r.id < nreq
        BY <3>1 DEF Ordered
      <4>2. latest'[recv.task.acct] < nreq
        <5>1. recv.task.acct \in Accounts
          BY <1>t DEF TypeOK, Idle, Requests
        <5> QED BY <3>1, <3>2, <4>1, <5>1 DEF Ordered
      <4> QED BY <2>6, <4>2 DEF Ordered
    <3>7. \A u \in Threads : \A i \in Waiting(u)' : queue'[u][i].id <= nreq
      BY <2>6 DEF Ordered
    <3> QED BY <2>2, <2>7, <3>3, <3>5, <3>6, <3>7 DEF Ordered
  <2> QED BY <2>8, <2>9
<1>6. ASSUME NEW t \in Threads, Finish(t) \/ CheckActive(t) PROVE Ordered'
  BY <1>6 DEF Finish, FinishLogin, FinishLogout, FinishOther, FinishEvent,
              CheckActive, Ordered, Waiting
<1> QED BY <1>1, <1>2, <1>3, <1>4, <1>5, <1>6 DEF Next

\* The requests of an account are begun in the order they were received,
\* across threads, logouts and recycled instances.
THEOREM RequestOrder == Spec => PerAccountOrder
<1>1. Init => OrderInv
  BY TypeInit, BelongsInit, OrderedInit DEF OrderInv, AffinityInv
<1>2. OrderInv /\ [Next]_vars => OrderInv'
  BY TypeNext, BelongsNext, OrderedNext DEF OrderInv, AffinityInv
<1>3. OrderInv /\ [Next]_vars
        => [\A k \in Accounts : latest'[k] # latest[k] => latest'[k] > latest[k]]_vars
  <2> SUFFICES ASSUME OrderInv, Next, NEW k \in Accounts, latest'[k] # latest[k]
               PROVE  latest'[k] > latest[k]
    BY DEF vars
  <2>1. PICK t \in Threads : Take(t)
    BY DEF Next, Receive, PushTask, UpdateCount, SdkEvent, Finish, FinishLogin,
           FinishLogout, FinishOther, FinishEvent, CheckActive
  <2>2. Head(queue[t]).kind = "request"
    BY <2>1 DEF Take
  <2>3. latest \in [Accounts -> Nat]
    BY DEF OrderInv, AffinityInv, TypeOK
  <2> QED BY <2>1, <2>2, <2>3, TakeFacts DEF Requests
<1> QED BY <1>1, <1>2, <1>3, PTL DEF Spec, PerAccountOrder

-----------------------------------------------------------------------------
(* The count of a thread and its backlog.                                  *)

\* The positions of the requests in a buffer.
RequestsIn(q) == {i \in DOMAIN q : q[i].kind = "request"}

\* The waiting requests of a buffer are finitely many, so they can be counted.
LEMMA BacklogFinite ==
    ASSUME NEW q \in Seq(Tasks)
    PROVE  /\ IsFiniteSet(RequestsIn(q))
           /\ Cardinality(RequestsIn(q)) \in Nat
           /\ Cardinality(RequestsIn(q)) <= Len(q)
<1>1. Len(q) \in Nat /\ RequestsIn(q) \subseteq 1 .. Len(q)
  BY DEF RequestsIn
<1>2. IsFiniteSet(1 .. Len(q)) /\ Cardinality(1 .. Len(q)) = Len(q)
  BY <1>1, IntervalFacts
<1> QED BY <1>1, <1>2, FS_Subset, FS_CardinalityType

\* A buffer whose requests are found, shifted, in another has no more of them.
LEMMA ShiftedBacklog ==
    ASSUME NEW q \in Seq(Tasks), NEW r \in Seq(Tasks),
           \/ \A i \in RequestsIn(r) : i + 1 \in RequestsIn(q)
           \/ \A i \in RequestsIn(r) : i - 1 \in RequestsIn(q)
    PROVE  Cardinality(RequestsIn(r)) <= Cardinality(RequestsIn(q))
<1>1. PICK n \in Int : \A i \in RequestsIn(r) : i + n \in RequestsIn(q)
  <2>1. CASE \A i \in RequestsIn(r) : i + 1 \in RequestsIn(q)
    BY <2>1
  <2>2. CASE \A i \in RequestsIn(r) : i - 1 \in RequestsIn(q)
    <3>1. \A i \in RequestsIn(r) : i + (-1) = i - 1
      BY DEF RequestsIn
    <3>2. -1 \in Int /\ \A i \in RequestsIn(r) : i + (-1) \in RequestsIn(q)
      BY <2>2, <3>1
    <3> QED BY <3>2
  <2> QED BY <2>1, <2>2
<1> DEFINE f == [i \in RequestsIn(r) |-> i + n]
<1>2. f \in Injection(RequestsIn(r), RequestsIn(q))
  BY <1>1 DEF RequestsIn, Injection, IsInjective
<1> QED BY <1>2, BacklogFinite, FS_Injection

\* No request waits and every count is zero.
LEMMA BacklogInit == Init => CountCoversBacklog
<1> SUFFICES ASSUME Init, NEW t \in Threads
             PROVE  Cardinality(Waiting(t)) <= count[t]
  BY DEF CountCoversBacklog, Init, Idle
<1>1. Waiting(t) = {} /\ count[t] = 0
  BY DEF Init, Waiting
<1> QED BY <1>1, FS_EmptySet

\* The length is read after the push and written before the next one; in
\* between, buffers only shrink by requests and grow by events.
LEMMA BacklogNext == TypeOK /\ CountCoversBacklog /\ [Next]_vars => CountCoversBacklog'
<1> SUFFICES ASSUME TypeOK, CountCoversBacklog, Next PROVE CountCoversBacklog'
  BY DEF CountCoversBacklog, Waiting, vars
<1> DEFINE Backlog(q) == Cardinality(RequestsIn(q))
<1>1. /\ \A t \in Threads : queue[t] \in Seq(Tasks) /\ count[t] \in Nat
      /\ \A t \in Threads :
            Backlog(queue[t]) <= IF recv.pc = "update" /\ recv.thread = t
                                 THEN recv.size ELSE count[t]
  BY DEF CountCoversBacklog, Waiting, RequestsIn, TypeOK
<1>2. SUFFICES ASSUME NEW t \in Threads
               PROVE  Backlog(queue'[t]) <= IF recv'.pc = "update" /\ recv'.thread = t
                                            THEN recv'.size ELSE count'[t]
  BY DEF CountCoversBacklog, Waiting, RequestsIn
<1> DEFINE Goal == Backlog(queue'[t]) <= IF recv'.pc = "update" /\ recv'.thread = t
                                         THEN recv'.size ELSE count'[t]
           Smaller == Backlog(queue'[t]) <= Backlog(queue[t])
<1>3. queue'[t] \in Seq(Tasks) /\ Backlog(queue'[t]) \in Nat /\ Backlog(queue[t]) \in Nat
  BY <1>1, TypeNext, BacklogFinite DEF TypeOK
<1>4. ASSUME Smaller, UNCHANGED <<count, recv>> PROVE Goal
  BY <1>1, <1>3, <1>4 DEF TypeOK, Idle
<1>5. ASSUME NEW k \in Accounts, Receive(k) PROVE Goal
  BY <1>1, <1>5 DEF Receive, Idle
<1>6. CASE PushTask
  <2>1. CASE recv.thread = t
    <3>1. recv'.pc = "update" /\ recv'.thread = t /\ recv'.size = Len(queue'[t])
      BY <1>6, <2>1 DEF PushTask
    <3> QED BY <1>3, <3>1, BacklogFinite
  <2>2. CASE recv.thread # t
    BY <1>1, <1>6, <2>2 DEF PushTask, TypeOK
  <2> QED BY <2>1, <2>2
<1>7. CASE UpdateCount
  <2>1. CASE recv.thread = t
    BY <1>1, <1>7, <2>1 DEF UpdateCount, TypeOK, Idle
  <2>2. CASE recv.thread # t
    BY <1>1, <1>7, <2>2 DEF UpdateCount, TypeOK, Idle
  <2> QED BY <2>1, <2>2
<1>8. ASSUME NEW u \in Threads, SdkEvent(u) PROVE Goal
  <2>1. Smaller
    <3>1. CASE u = t
      <4> PICK k \in Users(t) :
            queue' = [queue EXCEPT ![t] = <<[kind |-> "event", acct |-> k]>> \o @]
        BY <1>8, <3>1 DEF SdkEvent
      <4> DEFINE e == [kind |-> "event", acct |-> k]
      <4>1. e \in Tasks /\ e.kind # "request" /\ queue'[t] = <<e>> \o queue[t]
        BY DEF Users, Tasks, Events, TypeOK
      <4> HIDE DEF e
      <4>2. \A i \in RequestsIn(queue'[t]) : i - 1 \in RequestsIn(queue[t])
        BY <1>1, <4>1, PushFrontFacts DEF RequestsIn
      <4> QED BY <1>1, <1>3, <4>2, ShiftedBacklog
    <3>2. CASE u # t
      BY <1>3, <1>8, <3>2 DEF SdkEvent, TypeOK
    <3> QED BY <3>1, <3>2
  <2>2. UNCHANGED <<count, recv>>
    BY <1>8 DEF SdkEvent
  <2> QED BY <1>4, <2>1, <2>2
<1>9. ASSUME NEW u \in Threads, Take(u) PROVE Goal
  <2>1. Smaller
    <3>1. CASE u = t
      <4>1. queue[t] # <<>> /\ queue'[t] = Tail(queue[t])
        BY <1>9, <3>1 DEF Take, TypeOK
      <4>2. \A i \in RequestsIn(queue'[t]) : i + 1 \in RequestsIn(queue[t])
        BY <1>1, <4>1, PopFacts DEF RequestsIn
      <4> QED BY <1>1, <1>3, <4>2, ShiftedBacklog
    <3>2. CASE u # t
      BY <1>3, <1>9, <3>2 DEF Take, TypeOK
    <3> QED BY <3>1, <3>2
  <2>2. UNCHANGED <<count, recv>>
    BY <1>9 DEF Take
  <2> QED BY <1>4, <2>1, <2>2
<1>10. ASSUME NEW u \in Threads, Finish(u) PROVE Goal
  <2>1. UNCHANGED <<count, queue, recv>>
    <3>1. CASE FinishLogout(u)
      <4>1. cur[u].acct \in Accounts
        BY <3>1 DEF FinishLogout, TypeOK, NoTask, Tasks, Requests, Events
      <4> QED BY <3>1, <4>1, DelSelectNothing DEF FinishLogout
    <3> QED BY <1>10, <3>1 DEF Finish, FinishLogin, FinishOther, FinishEvent
  <2> QED BY <1>3, <1>4, <2>1
<1>11. ASSUME NEW u \in Threads, CheckActive(u) PROVE Goal
  BY <1>3, <1>4, <1>11 DEF CheckActive
<1> QED BY <1>5, <1>6, <1>7, <1>8, <1>9, <1>10, <1>11 DEF Next

\* The count by which new_thread() chooses never understates the requests that
\* wait for a thread, but for the one just being handed over.
THEOREM CountIsBound == Spec => []CountCoversBacklog
<1>1. Init => TypeOK /\ CountCoversBacklog
  BY TypeInit, BacklogInit
<1>2. TypeOK /\ CountCoversBacklog /\ [Next]_vars => (TypeOK /\ CountCoversBacklog)'
  BY TypeNext, BacklogNext
<1> QED BY <1>1, <1>2, PTL DEF Spec
=============================================================================
