---------------------------- MODULE ThreadSelect ----------------------------
(***************************************************************************)
(* How the trade gateway spreads its customers over processing threads:    *)
(* recv_thread::on_recv picks a thread for an account                      *)
(* (proc_thread_select), pushes the request into that thread's buffer      *)
(* (user_request_buffer) and notes the length of the buffer.  These are    *)
(* three critical sections of two mutexes; the threads run between them.   *)
(*                                                                         *)
(* A processing thread is reduced to what the dispatch depends on: the     *)
(* accounts it has in its map, and which request it is working on.  Module *)
(* TradeWorker models one thread in full.                                  *)
(***************************************************************************)
EXTENDS Naturals, Sequences, FiniteSets

CONSTANTS Accounts, Threads, NoThread, NoAccount,
          MaxRequests,  \* bound: requests received in a behaviour
          MaxEvents     \* bound: events of the SDK in a behaviour

ASSUME NamesAssumption == NoThread \notin Threads /\ NoAccount \notin Accounts
ASSUME BoundsAssumption == MaxRequests \in Nat /\ MaxEvents \in Nat

VARIABLES
    selectMap, \* _select_map: account -> thread
    count,     \* _thread_count_map: the "number of users" of a thread
    queue,     \* each thread's _request_buffer
    recv,      \* the receiving thread, inside on_recv
    cur,       \* the task a thread has popped and not finished
    holds,     \* the accounts in a thread's _user_interface_map
    nreq, nev, \* requests and events so far; a request's number is its id
    latest     \* history: the last request of an account a thread began

vars == <<selectMap, count, queue, recv, cur, holds, nreq, nev, latest>>

Requests == [kind : {"request"}, id : Nat \ {0}, acct : Accounts,
             type : {"login", "logout", "other"}]
Events == [kind : {"event"}, acct : Accounts]
Tasks == Requests \cup Events

NoTask == [kind |-> "none"]
Idle == [pc |-> "idle"]

Selected(k) == selectMap[k] # NoThread

\* Accounts that would call a thread theirs: what _thread_count_map is named for.
Users(t) == {k \in Accounts : selectMap[k] = t}

Waiting(t) == {i \in DOMAIN queue[t] : queue[t][i].kind = "request"}

Init ==
    /\ selectMap = [k \in Accounts |-> NoThread]
    /\ count = [t \in Threads |-> 0]
    /\ queue = [t \in Threads |-> <<>>]
    /\ recv = Idle
    /\ cur = [t \in Threads |-> NoTask]
    /\ holds = [t \in Threads |-> {}]
    /\ nreq = 0 /\ nev = 0
    /\ latest = [k \in Accounts |-> 0]

-----------------------------------------------------------------------------
(* The receiving thread.                                                   *)

\* new_thread(): any thread with the least count; the map is not ordered.
NewThread == {t \in Threads : \A u \in Threads : count[t] <= count[u]}

\* Mutant of GetSelect: the choice is not remembered.
GetSelect_Forgets(k, t) ==
    /\ t \in IF Selected(k) THEN {selectMap[k]} ELSE NewThread
    /\ UNCHANGED selectMap

\* get_select(): the thread the account had before, else a new one.
GetSelect(k, t) ==
    /\ t \in IF Selected(k) THEN {selectMap[k]} ELSE NewThread
    /\ selectMap' = [selectMap EXCEPT ![k] = t]

\* on_recv() up to the return of get_select
Receive(k) ==
    /\ recv = Idle /\ nreq < MaxRequests
    /\ nreq' = nreq + 1
    /\ \E t \in Threads, y \in {"login", "logout", "other"} :
         /\ GetSelect(k, t)
         /\ recv' = [pc |-> "push", thread |-> t,
                     task |-> [kind |-> "request", id |-> nreq + 1,
                               acct |-> k, type |-> y]]
    /\ UNCHANGED <<count, queue, cur, holds, nev, latest>>

\* Mutant of PushTask: the length is read before the task is added.
PushTask_SizeFirst ==
    /\ recv.pc = "push"
    /\ LET t == recv.thread
       IN  /\ queue' = [queue EXCEPT ![t] = Append(@, recv.task)]
           /\ recv' = [pc |-> "update", thread |-> t, size |-> Len(queue[t])]
    /\ UNCHANGED <<selectMap, count, cur, holds, nreq, nev, latest>>

\* user_request_buffer::push, which reports the length of the buffer
PushTask ==
    /\ recv.pc = "push"
    /\ LET t == recv.thread
       IN  /\ queue' = [queue EXCEPT ![t] = Append(@, recv.task)]
           /\ recv' = [pc |-> "update", thread |-> t, size |-> Len(queue'[t])]
    /\ UNCHANGED <<selectMap, count, cur, holds, nreq, nev, latest>>

\* Mutant of UpdateCount: neither the new request nor the one the thread is
\* working on is counted.
UpdateCount_Others ==
    /\ recv.pc = "update"
    /\ count' = [count EXCEPT ![recv.thread] =
                    IF cur[recv.thread] = NoTask THEN recv.size - 1 ELSE recv.size - 2]
    /\ recv' = Idle
    /\ UNCHANGED <<selectMap, queue, cur, holds, nreq, nev, latest>>

\* update_thread_user_count(), and on_recv returns
UpdateCount ==
    /\ recv.pc = "update"
    /\ count' = [count EXCEPT ![recv.thread] = recv.size]
    /\ recv' = Idle
    /\ UNCHANGED <<selectMap, queue, cur, holds, nreq, nev, latest>>

-----------------------------------------------------------------------------
(* The processing threads and the SDK.                                     *)

\* on_callback_task(): an event for an account the thread has served jumps its
\* queue; the instance may have been taken from the account in the meantime.
SdkEvent(t) ==
    /\ nev < MaxEvents
    /\ \E k \in Users(t) :
         /\ latest[k] # 0
         /\ queue' = [queue EXCEPT ![t] = <<[kind |-> "event", acct |-> k]>> \o @]
    /\ nev' = nev + 1
    /\ UNCHANGED <<selectMap, count, recv, cur, holds, nreq, latest>>

\* Mutant of Take: the whole buffer is taken and only its first task kept.
Take_Swap(t) ==
    /\ cur[t] = NoTask /\ queue[t] # <<>>
    /\ LET task == Head(queue[t])
       IN  /\ cur' = [cur EXCEPT ![t] = task]
           /\ latest' = IF task.kind = "request"
                        THEN [latest EXCEPT ![task.acct] = task.id]
                        ELSE latest
    /\ queue' = [queue EXCEPT ![t] = <<>>]
    /\ UNCHANGED <<selectMap, count, recv, holds, nreq, nev>>

\* user_request_buffer::pop
Take(t) ==
    /\ cur[t] = NoTask /\ queue[t] # <<>>
    /\ LET task == Head(queue[t])
       IN  /\ cur' = [cur EXCEPT ![t] = task]
           /\ latest' = IF task.kind = "request"
                        THEN [latest EXCEPT ![task.acct] = task.id]
                        ELSE latest
    /\ queue' = [queue EXCEPT ![t] = Tail(@)]
    /\ UNCHANGED <<selectMap, count, recv, holds, nreq, nev>>

\* del_select() for a name that may not be an account at all
DelSelect(name) ==
    IF name \in Accounts /\ selectMap[name] # NoThread
    THEN /\ selectMap' = [selectMap EXCEPT ![name] = NoThread]
         /\ count' = [count EXCEPT ![selectMap[name]] = IF @ > 0 THEN @ - 1 ELSE @]
    ELSE UNCHANGED <<selectMap, count>>

\* Mutant of NameToDelete: the name is read before logout().
NameToDelete_Kept(k) == k

\* get_login_accout() in the cases LOGOUT and EXIT, after the instance's
\* logout(): release() has cleared the name already (gd_trade.cpp:164).
NameToDelete(k) == NoAccount

Done(t) == cur' = [cur EXCEPT ![t] = NoTask]

\* A login of an account without instance gets one, unless they are used up.
FinishLogin(t) ==
    /\ cur[t].kind = "request" /\ cur[t].type = "login"
    /\ \/ holds' = [holds EXCEPT ![t] = @ \cup {cur[t].acct}]
       \/ cur[t].acct \notin holds[t] /\ UNCHANGED holds
    /\ Done(t)
    /\ UNCHANGED <<selectMap, count, queue, recv, nreq, nev, latest>>

\* A logout gives the instance back, if the account has one that is logged in.
FinishLogout(t) ==
    /\ cur[t].kind = "request" /\ cur[t].type = "logout"
    /\ \/ /\ cur[t].acct \in holds[t]
          /\ holds' = [holds EXCEPT ![t] = @ \ {cur[t].acct}]
          /\ DelSelect(NameToDelete(cur[t].acct))
       \/ UNCHANGED <<holds, selectMap, count>>
    /\ Done(t)
    /\ UNCHANGED <<queue, recv, nreq, nev, latest>>

\* The other requests leave the map alone.
FinishOther(t) ==
    /\ cur[t].kind = "request" /\ cur[t].type = "other"
    /\ Done(t)
    /\ UNCHANGED <<selectMap, count, queue, recv, holds, nreq, nev, latest>>

\* process_callback(): a failed login gives the instance back, without
\* del_select; every other event leaves the map alone.
FinishEvent(t) ==
    /\ cur[t].kind = "event"
    /\ \/ holds' = [holds EXCEPT ![t] = @ \ {cur[t].acct}]
       \/ UNCHANGED holds
    /\ Done(t)
    /\ UNCHANGED <<selectMap, count, queue, recv, nreq, nev, latest>>

\* check_active(): idle instances go back to the store, without del_select.
CheckActive(t) ==
    /\ cur[t] = NoTask /\ holds[t] # {}
    /\ \E gone \in SUBSET holds[t] : holds' = [holds EXCEPT ![t] = @ \ gone]
    /\ UNCHANGED <<selectMap, count, queue, recv, cur, nreq, nev, latest>>

Finish(t) == FinishLogin(t) \/ FinishLogout(t) \/ FinishOther(t) \/ FinishEvent(t)

-----------------------------------------------------------------------------
Next ==
    \/ \E k \in Accounts : Receive(k)
    \/ PushTask \/ UpdateCount
    \/ \E t \in Threads : SdkEvent(t) \/ Take(t) \/ Finish(t) \/ CheckActive(t)

Spec == Init /\ [][Next]_vars

(***************************************************************************)
(* on_recv runs to its end, and the loop of a processing thread pops and   *)
(* works again and again: no critical section here waits for anything but  *)
(* another short critical section.                                         *)
(***************************************************************************)
Fairness ==
    /\ WF_vars(PushTask) /\ WF_vars(UpdateCount)
    /\ \A t \in Threads : WF_vars(Take(t)) /\ WF_vars(Finish(t))

FairSpec == Spec /\ Fairness

-----------------------------------------------------------------------------
(* Properties.                                                             *)

\* Every variable holds a value of its type.
TypeOK ==
    /\ selectMap \in [Accounts -> Threads \cup {NoThread}]
    /\ count \in [Threads -> Nat]
    /\ queue \in [Threads -> Seq(Tasks)]
    /\ recv \in {Idle} \cup [pc : {"push"}, thread : Threads, task : Requests]
                       \cup [pc : {"update"}, thread : Threads, size : Nat]
    /\ cur \in [Threads -> Tasks \cup {NoTask}]
    /\ holds \in [Threads -> SUBSET Accounts]
    /\ nreq \in Nat /\ nev \in Nat
    /\ latest \in [Accounts -> Nat]

\* A customer belongs to one thread: no two threads have an instance for him,
\* or work on requests of his at once.  Nothing but the dispatch keeps the
\* private maps of the threads disjoint.
OneThreadPerAccount ==
    \A t, u \in Threads : t # u =>
        /\ holds[t] \cap holds[u] = {}
        /\ (cur[t].kind = "request" /\ cur[u].kind = "request")
              => cur[t].acct # cur[u].acct

\* The requests of a customer are begun in the order they were received.
PerAccountOrder ==
    [][\A k \in Accounts : latest'[k] # latest[k] => latest'[k] > latest[k]]_vars

\* The count new_thread() compares never understates the requests waiting for
\* a thread, once it has been written: it is written after the push
\* (recv_thread.cpp:107-109), and until then the length that was read bounds them.
CountCoversBacklog ==
    \A t \in Threads :
        Cardinality(Waiting(t)) <= IF recv.pc = "update" /\ recv.thread = t
                                   THEN recv.size
                                   ELSE count[t]

\* A request that was received is begun by a thread.
RequestBegun ==
    \A i \in 1 .. MaxRequests :
        (recv.pc = "push" /\ recv.task.id = i) ~> (\E k \in Accounts : latest[k] = i)
=============================================================================
