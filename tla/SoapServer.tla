----------------------------- MODULE SoapServer -----------------------------
(***************************************************************************)
(* The SOAP front end of the trade process (c++/trunk/pemc/cgi/src): the   *)
(* thread accept_thread puts the sockets it accepts into soap_buffer; each *)
(* proc_thread takes one, reads the call, and has its                      *)
(* activemq_sync_producer (c++/trunk/tools/activemq/producer) send the     *)
(* request to the queue of the trade process and wait for the message on   *)
(* the thread's own response queue whose correlation id is that of the     *)
(* request.  The queues belong to the broker and outlive the front end;    *)
(* the trade process may answer late, after the front end has answered 408 *)
(* or has been started again, or not at all.                               *)
(*                                                                         *)
(* A call is a connection with the one request its client sends on it, so  *)
(* the id made by uuid_generate_time_safe is represented by the call.      *)
(***************************************************************************)
EXTENDS Integers, Sequences, FiniteSets

CONSTANTS Calls,
          Silent,   \* calls whose client connects and sends nothing
          Workers,  \* the processing threads, MAX_THR of them
          NoCall,
          MaxQueue, \* MAX_QUEUE
          MaxFaults \* bound: restarts and messages delivered twice

ASSUME ServerAssumption ==
    /\ Silent \subseteq Calls /\ NoCall \notin Calls
    /\ MaxQueue \in Nat \ {0} /\ MaxFaults \in Nat

VARIABLES
    state,    \* what each client sees of its call
    got,      \* the call whose answer the client was given
    hand,     \* s, in accept_thread_func
    queue,    \* _soap_map
    pc,       \* where each processing thread is
    serving,  \* ptr_soap_loop->socket
    requests, \* requests at the broker or in the trade process
    replies,  \* the response queue of each processing thread
    faults

procVars == <<pc, serving>>
mqVars == <<requests, replies>>
vars == <<state, got, hand, queue, procVars, mqVars, faults>>

Over == {"answered", "failed", "reset"}
Request(c, w) == [call |-> c, to |-> w]

Init ==
    /\ state = [c \in Calls |-> "new"]
    /\ got = [c \in Calls |-> NoCall]
    /\ hand = NoCall /\ queue = <<>>
    /\ pc = [w \in Workers |-> "pop"]
    /\ serving = [w \in Workers |-> NoCall]
    /\ requests = {} /\ replies = [w \in Workers |-> <<>>]
    /\ faults = 0

-----------------------------------------------------------------------------
(* The accept thread and the buffer.                                       *)

\* A client connects; the kernel keeps the connection in the listen backlog.
Connect(c) ==
    /\ state[c] = "new"
    /\ state' = [state EXCEPT ![c] = "connected"]
    /\ UNCHANGED <<got, hand, queue, procVars, mqVars, faults>>

\* soap_accept returns a valid socket.  (When it fails the loop goes on.)
Accept(c) ==
    /\ hand = NoCall /\ state[c] = "connected"
    /\ state' = [state EXCEPT ![c] = "accepted"]
    /\ hand' = c
    /\ UNCHANGED <<got, queue, procVars, mqVars, faults>>

Waiting == {w \in Workers : pc[w] = "wait"}

\* Mutant of Signalled: only the push that finds the queue empty signals.
Signalled_First(w) == w \in Waiting /\ queue = <<>>

\* pthread_cond_signal wakes one of the threads that wait in pop.
Signalled(w) == w \in Waiting

Signal ==
    \/ \E w \in Workers : Signalled(w) /\ pc' = [pc EXCEPT ![w] = "pop"]
    \/ (\A w \in Workers : ~Signalled(w)) /\ pc' = pc

\* push: a full queue refuses the socket, and signals all the same.
Push ==
    /\ hand # NoCall
    /\ IF Len(queue) < MaxQueue
       THEN queue' = Append(queue, hand) /\ hand' = NoCall
       ELSE UNCHANGED <<queue, hand>>
    /\ Signal
    /\ UNCHANGED <<state, got, serving, mqVars, faults>>

\* pop finds nothing, and waits on the condition.
Wait(w) ==
    /\ pc[w] = "pop" /\ queue = <<>>
    /\ pc' = [pc EXCEPT ![w] = "wait"]
    /\ UNCHANGED <<state, got, hand, queue, serving, mqVars, faults>>

\* A thread may return from pthread_cond_wait without a signal.
WakeUp(w) ==
    /\ pc[w] = "wait"
    /\ pc' = [pc EXCEPT ![w] = "pop"]
    /\ UNCHANGED <<state, got, hand, queue, serving, mqVars, faults>>

\* Mutant of Rest: pop_back after reading front.
Rest_Back(q) == SubSeq(q, 1, Len(q) - 1)

\* pop_front.
Rest(q) == Tail(q)

Pop(w) ==
    /\ pc[w] = "pop" /\ queue # <<>>
    /\ pc' = [pc EXCEPT ![w] = "serve"]
    /\ serving' = [serving EXCEPT ![w] = Head(queue)]
    /\ queue' = Rest(queue)
    /\ UNCHANGED <<state, got, hand, mqVars, faults>>

-----------------------------------------------------------------------------
(* soap_serve, in a processing thread.                                     *)

\* soap_serve is over: the socket is closed and the loop goes on.
Finish(w, result, answer) ==
    /\ state' = [state EXCEPT ![serving[w]] = result]
    /\ got' = [got EXCEPT ![serving[w]] = answer]
    /\ pc' = [pc EXCEPT ![w] = "pop"]
    /\ serving' = [serving EXCEPT ![w] = NoCall]

\* The call is read; ns__trade sends its request with a new correlation id.
Send(w) ==
    /\ pc[w] = "serve" /\ serving[w] \notin Silent
    /\ requests' = requests \cup {Request(serving[w], w)}
    /\ pc' = [pc EXCEPT ![w] = "receive"]
    /\ UNCHANGED <<state, got, hand, queue, serving, replies, faults>>

\* send_message meets a CMSException: 408.
SendFails(w) ==
    /\ pc[w] = "serve" /\ serving[w] \notin Silent
    /\ Finish(w, "failed", NoCall)
    /\ UNCHANGED <<hand, queue, mqVars, faults>>

\* The client closes the connection without having sent a call.
HangUp(w) ==
    /\ pc[w] = "serve" /\ serving[w] \in Silent
    /\ Finish(w, "reset", NoCall)
    /\ UNCHANGED <<hand, queue, mqVars, faults>>

\* Mutant of Matches: the next message is taken for the answer.
Matches_Any(w) == TRUE

\* The message at the front has the correlation id of the thread's request.
Matches(w) == Head(replies[w]) = serving[w]

Answer(w) ==
    /\ pc[w] = "receive" /\ replies[w] # <<>> /\ Matches(w)
    /\ Finish(w, "answered", Head(replies[w]))
    /\ replies' = [replies EXCEPT ![w] = Tail(@)]
    /\ UNCHANGED <<hand, queue, requests, faults>>

\* The message answers an earlier call: it is dropped, and the wait for
\* another 3000 ms begins.
DropStale(w) ==
    /\ pc[w] = "receive" /\ replies[w] # <<>> /\ ~Matches(w)
    /\ replies' = [replies EXCEPT ![w] = Tail(@)]
    /\ UNCHANGED <<state, got, hand, queue, procVars, requests, faults>>

\* receive returns NULL: no message came in 3000 ms.  408.
TimedOut(w) ==
    /\ pc[w] = "receive" /\ replies[w] = <<>>
    /\ Finish(w, "failed", NoCall)
    /\ UNCHANGED <<hand, queue, mqVars, faults>>

-----------------------------------------------------------------------------
(* The trade process, and failures.                                        *)

Reply(r) == replies' = [replies EXCEPT ![r.to] = Append(@, r.call)]

\* The trade process answers a request, in whatever order and however late.
TradeAnswers(r) ==
    /\ Reply(r) /\ requests' = requests \ {r}
    /\ UNCHANGED <<state, got, hand, queue, procVars, faults>>

\* It drops a request it cannot parse, or has to give up.
TradeDrops(r) ==
    /\ requests' = requests \ {r}
    /\ UNCHANGED <<state, got, hand, queue, procVars, replies, faults>>

\* The failover transport delivers a request again after a reconnection: it
\* is answered, and will be once more.
DeliveredTwice(r) ==
    /\ faults < MaxFaults /\ faults' = faults + 1
    /\ Reply(r)
    /\ UNCHANGED <<state, got, hand, queue, procVars, requests>>

\* onException ends the process: its connections are reset, the queues of the
\* broker are as they were.  It is started again.
Restart ==
    /\ faults < MaxFaults /\ faults' = faults + 1
    /\ state' = [c \in Calls |->
                    IF state[c] \in {"connected", "accepted"} THEN "reset"
                    ELSE state[c]]
    /\ hand' = NoCall /\ queue' = <<>>
    /\ pc' = [w \in Workers |-> "pop"]
    /\ serving' = [w \in Workers |-> NoCall]
    /\ UNCHANGED <<got, mqVars>>

-----------------------------------------------------------------------------
Serve(w) ==
    \/ Wait(w) \/ Pop(w) \/ Send(w) \/ SendFails(w)
    \/ Answer(w) \/ DropStale(w) \/ TimedOut(w)

Next ==
    \/ \E c \in Calls : Connect(c) \/ Accept(c)
    \/ Push
    \/ \E w \in Workers : Serve(w) \/ WakeUp(w) \/ HangUp(w)
    \/ \E r \in requests : TradeAnswers(r) \/ TradeDrops(r) \/ DeliveredTwice(r)
    \/ Restart

Spec == Init /\ [][Next]_vars

\* The threads of the front end run.  Nothing is assumed of clients, of the
\* trade process, or of wake-ups without a signal.
Fairness ==
    /\ WF_vars(\E c \in Calls : Accept(c))
    /\ WF_vars(Push)
    /\ \A w \in Workers : WF_vars(Serve(w))

FairSpec == Spec /\ Fairness

-----------------------------------------------------------------------------
(* Properties.                                                             *)

TypeOK ==
    /\ state \in [Calls -> {"new", "connected", "accepted"} \cup Over]
    /\ got \in [Calls -> Calls \cup {NoCall}]
    /\ hand \in Calls \cup {NoCall}
    /\ queue \in Seq(Calls)
    /\ pc \in [Workers -> {"pop", "wait", "serve", "receive"}]
    /\ serving \in [Workers -> Calls \cup {NoCall}]
    /\ requests \subseteq [call : Calls, to : Workers]
    /\ replies \in [Workers -> Seq(Calls)]
    /\ faults \in 0 .. MaxFaults

\* The places where a call is held: the accept thread, positions of the queue,
\* processing threads.
Holders(c) ==
    {<<"hand", h>> : h \in {hand} \cap {c}}
        \cup {<<"queue", i>> : i \in {j \in DOMAIN queue : queue[j] = c}}
        \cup {<<"thread", w>> : w \in {v \in Workers : serving[v] = c}}

\* A socket that was accepted and not answered is held in one place, and none
\* is held after its connection is over: two threads never write to the same
\* connection (which may be another client's by then), and no connection is
\* forgotten between accept, push, pop and the threads.
OneHolder ==
    \A c \in Calls :
        /\ state[c] = "accepted" <=> Holders(c) # {}
        /\ \A p, q \in Holders(c) : p = q

\* What a client is answered is the answer to its own request, however late
\* the answers to earlier ones come, in this run of the front end or after a
\* restart, when the new thread of the same number reads the old one's queue.
OwnAnswer ==
    \A c \in Calls :
        IF state[c] = "answered" THEN got[c] = c ELSE got[c] = NoCall

\* A client that connects and sends a call is answered, or told 408, or sees
\* its connection reset, as long as fewer clients keep silent than there are
\* threads: gsoap's receive timeout is not set, so each of them holds one.
Served ==
    Cardinality(Silent) < Cardinality(Workers) =>
        \A c \in Calls \ Silent : state[c] = "connected" ~> state[c] \in Over
=============================================================================
