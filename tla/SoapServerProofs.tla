--------------------------- MODULE SoapServerProofs ---------------------------
(***************************************************************************)
(* No connection of the SOAP server is lost, shared or answered with       *)
(* another's answer, for any number of threads, calls and failures.        *)
(***************************************************************************)
EXTENDS SoapServer, BufferLemmas

\* A thread has a socket while it serves.
Serving ==
    \A w \in Workers : pc[w] \in {"serve", "receive"} <=> serving[w] # NoCall

\* No socket is in two places.
Apart ==
    /\ \A i \in DOMAIN queue : queue[i] # hand
    /\ \A i, j \in DOMAIN queue : queue[i] = queue[j] => i = j
    /\ \A w \in Workers : serving[w] # NoCall =>
          /\ serving[w] # hand
          /\ \A i \in DOMAIN queue : queue[i] # serving[w]
          /\ \A v \in Workers : serving[v] = serving[w] => v = w

Held(c) ==
    \/ c = hand
    \/ \E i \in DOMAIN queue : queue[i] = c
    \/ \E w \in Workers : serving[w] = c

\* The sockets in some place are the accepted ones.
AcceptedHeld == \A c \in Calls : state[c] = "accepted" <=> Held(c)

\* TypeOK and OneHolder are inductive only with where each socket is.
Inv == TypeOK /\ Serving /\ Apart /\ AcceptedHeld /\ OwnAnswer

LEMMA InitInv == Init => Inv
<1> SUFFICES ASSUME Init PROVE Inv
  OBVIOUS
<1>1. TypeOK
  BY ServerAssumption DEF Init, TypeOK
<1>2. Serving /\ Apart /\ AcceptedHeld /\ OwnAnswer
  BY ServerAssumption DEF Init, Serving, Apart, AcceptedHeld, Held, OwnAnswer
<1> QED BY <1>1, <1>2 DEF Inv

-----------------------------------------------------------------------------
\* One lemma per group of actions.

LEMMA ConnectInv ==
    ASSUME Inv, NEW c \in Calls, Connect(c)
    PROVE  Inv'
<1> USE DEF Inv, Connect, procVars, mqVars
<1>1. TypeOK'
  BY DEF TypeOK
<1>2. Serving' /\ Apart'
  BY DEF Serving, Apart
<1>3. AcceptedHeld'
  BY DEF AcceptedHeld, Held, TypeOK
<1>4. OwnAnswer'
  BY DEF OwnAnswer, TypeOK
<1> QED BY <1>1, <1>2, <1>3, <1>4

LEMMA AcceptInv ==
    ASSUME Inv, NEW c \in Calls, Accept(c)
    PROVE  Inv'
<1> USE DEF Inv, Accept, procVars, mqVars
<1>0. c # NoCall /\ ~Held(c)
  BY ServerAssumption DEF AcceptedHeld
<1>1. TypeOK'
  BY DEF TypeOK
<1>2. Serving'
  BY DEF Serving
<1>3. Apart'
  BY <1>0, ServerAssumption DEF Apart, Held
<1>4. AcceptedHeld'
  BY ServerAssumption DEF AcceptedHeld, Held, TypeOK
<1>5. OwnAnswer'
  BY DEF OwnAnswer, TypeOK
<1> QED BY <1>1, <1>2, <1>3, <1>4, <1>5

\* A signal changes where threads wait, and nothing else of them.
LEMMA SignalFacts ==
    ASSUME Inv, Signal, serving' = serving
    PROVE  /\ pc' \in [Workers -> {"pop", "wait", "serve", "receive"}]
           /\ Serving'
<1>1. CASE pc' = pc
  BY <1>1 DEF Inv, TypeOK, Serving
<1>2. CASE \E w \in Workers : Signalled(w) /\ pc' = [pc EXCEPT ![w] = "pop"]
  BY <1>2 DEF Inv, TypeOK, Serving, Signalled, Waiting
<1> QED BY <1>1, <1>2 DEF Signal

LEMMA PushInv ==
    ASSUME Inv, Push
    PROVE  Inv'
<1>0. /\ pc' \in [Workers -> {"pop", "wait", "serve", "receive"}]
      /\ Serving'
  BY SignalFacts DEF Push
<1>1. hand \in Calls /\ queue \in Seq(Calls) /\ hand # NoCall /\ NoCall \notin Calls
  BY ServerAssumption DEF Inv, TypeOK, Push
<1>2. CASE queue' = Append(queue, hand) /\ hand' = NoCall
  <2>1. /\ queue' \in Seq(Calls)
        /\ \A i \in DOMAIN queue' :
              \/ i \in DOMAIN queue /\ queue'[i] = queue[i]
              \/ i = Len(queue) + 1 /\ queue'[i] = hand
    BY <1>1, <1>2, PushFacts
  <2>2. /\ \A i \in DOMAIN queue : i \in DOMAIN queue' /\ queue'[i] = queue[i]
        /\ Len(queue) + 1 \in DOMAIN queue' /\ queue'[Len(queue) + 1] = hand
        /\ \A i \in DOMAIN queue' : queue'[i] \in Calls
    BY <1>1, <1>2
  <2>3. TypeOK'
    BY <1>0, <1>2, <2>1 DEF Inv, TypeOK, Push, mqVars
  <2>4. Apart'
    <3>1. \A i \in DOMAIN queue' : queue'[i] # hand'
      BY <1>1, <1>2, <2>2
    <3>2. \A i, j \in DOMAIN queue' : queue'[i] = queue'[j] => i = j
      BY <1>1, <2>1 DEF Inv, Apart
    <3>3. \A w \in Workers : serving'[w] # NoCall =>
             /\ serving'[w] # hand'
             /\ \A i \in DOMAIN queue' : queue'[i] # serving'[w]
             /\ \A v \in Workers : serving'[v] = serving'[w] => v = w
      BY <1>1, <1>2, <2>1 DEF Inv, Apart, Push
    <3> QED BY <3>1, <3>2, <3>3 DEF Apart
  <2>5. \A c \in Calls : Held(c)' <=> Held(c)
    BY <1>1, <1>2, <2>1, <2>2 DEF Held, Push
  <2>6. AcceptedHeld' /\ OwnAnswer'
    BY <2>5 DEF Inv, AcceptedHeld, OwnAnswer, Push
  <2> QED BY <1>0, <2>3, <2>4, <2>6 DEF Inv
<1>3. CASE UNCHANGED <<queue, hand>>
  <2>1. TypeOK'
    BY <1>0, <1>3 DEF Inv, TypeOK, Push, mqVars
  <2>2. Apart' /\ AcceptedHeld' /\ OwnAnswer'
    BY <1>3 DEF Inv, Apart, AcceptedHeld, Held, OwnAnswer, Push
  <2> QED BY <1>0, <2>1, <2>2 DEF Inv
<1> QED BY <1>2, <1>3 DEF Push

\* A thread waits, or stops waiting.
LEMMA WaitInv ==
    ASSUME Inv, NEW w \in Workers, Wait(w) \/ WakeUp(w)
    PROVE  Inv'
<1> USE DEF Inv, Wait, WakeUp, mqVars
<1>1. TypeOK'
  BY DEF TypeOK
<1>2. Serving'
  BY DEF Serving, TypeOK
<1>3. Apart' /\ AcceptedHeld' /\ OwnAnswer'
  BY DEF Apart, AcceptedHeld, Held, OwnAnswer
<1> QED BY <1>1, <1>2, <1>3

LEMMA PopInv ==
    ASSUME Inv, NEW w \in Workers, Pop(w)
    PROVE  Inv'
<1>1. queue \in Seq(Calls) /\ queue # <<>> /\ serving[w] = NoCall /\ NoCall \notin Calls
  BY ServerAssumption DEF Inv, TypeOK, Serving, Pop
<1>2. /\ Head(queue) \in Calls /\ queue' \in Seq(Calls)
      /\ 1 \in DOMAIN queue /\ Head(queue) = queue[1]
      /\ \A i \in DOMAIN queue' : i + 1 \in DOMAIN queue /\ queue'[i] = queue[i + 1]
  BY <1>1, PopFacts DEF Pop, Rest
<1>3. \A i \in DOMAIN queue : i # 1 => i - 1 \in DOMAIN queue' /\ queue'[i - 1] = queue[i]
  <2> SUFFICES ASSUME NEW i \in DOMAIN queue, i # 1
               PROVE  i - 1 \in DOMAIN queue' /\ queue'[i - 1] = queue[i]
    OBVIOUS
  <2>1. /\ Len(queue) \in Nat /\ DOMAIN queue = 1 .. Len(queue)
        /\ queue' = Tail(queue)
    BY <1>1 DEF Pop, Rest
  <2>2. DOMAIN queue' = 1 .. (Len(queue) - 1)
        /\ \A j \in 1 .. (Len(queue) - 1) : queue'[j] = queue[j + 1]
    BY <1>1, <2>1
  <2>3. i \in Nat /\ i - 1 \in 1 .. (Len(queue) - 1) /\ (i - 1) + 1 = i
    BY <2>1
  <2> QED BY <2>2, <2>3
<1>4. \A v \in Workers : serving'[v] = IF v = w THEN Head(queue) ELSE serving[v]
  BY DEF Inv, TypeOK, Pop
<1>5. TypeOK'
  BY <1>2 DEF Inv, TypeOK, Pop, mqVars
<1>6. Serving'
  BY <1>1, <1>2, <1>4 DEF Inv, TypeOK, Serving, Pop
<1>7. Apart'
  <2>1. \A i \in DOMAIN queue' : i \in Nat /\ queue'[i] # hand /\ queue'[i] # Head(queue)
    <3>1. DOMAIN queue' \subseteq Nat
      BY <1>2
    <3> QED BY <1>2, <3>1 DEF Inv, Apart
  <2>2. \A i, j \in DOMAIN queue' : queue'[i] = queue'[j] => i = j
    BY <1>2, <2>1 DEF Inv, Apart
  <2>3. \A v \in Workers : serving'[v] # NoCall =>
           /\ serving'[v] # hand
           /\ \A i \in DOMAIN queue' : queue'[i] # serving'[v]
           /\ \A u \in Workers : serving'[u] = serving'[v] => u = v
    BY <1>2, <1>4, <2>1 DEF Inv, Apart
  <2> QED BY <2>1, <2>2, <2>3 DEF Apart, Pop
<1>8. \A c \in Calls : Held(c)' <=> Held(c)
  <2> SUFFICES ASSUME NEW c \in Calls PROVE Held(c)' <=> Held(c)
    OBVIOUS
  <2>0. hand' = hand
    BY DEF Pop
  <2>1. (\E i \in DOMAIN queue : queue[i] = c)
           <=> c = Head(queue) \/ \E i \in DOMAIN queue' : queue'[i] = c
    BY <1>2, <1>3
  <2>2. (\E v \in Workers : serving'[v] = c)
           <=> c = Head(queue) \/ \E v \in Workers : serving[v] = c
    BY <1>1, <1>4
  <2> QED BY <2>0, <2>1, <2>2 DEF Held
<1>9. AcceptedHeld' /\ OwnAnswer'
  BY <1>8 DEF Inv, AcceptedHeld, OwnAnswer, Pop
<1> QED BY <1>5, <1>6, <1>7, <1>9 DEF Inv

\* The end of a connection: its thread lets go of it, and nobody else had it.
LEMMA FinishInv ==
    ASSUME Inv, NEW w \in Workers, pc[w] \in {"serve", "receive"},
           NEW result \in Over, NEW answer, Finish(w, result, answer),
           IF result = "answered" THEN answer = serving[w] ELSE answer = NoCall,
           requests' \subseteq [call : Calls, to : Workers],
           replies' \in [Workers -> Seq(Calls)],
           UNCHANGED <<hand, queue, faults>>
    PROVE  Inv'
<1>1. serving[w] \in Calls /\ NoCall \notin Calls
  BY ServerAssumption DEF Inv, TypeOK, Serving
<1>2. /\ \A c \in Calls : /\ state'[c] = IF c = serving[w] THEN result ELSE state[c]
                          /\ got'[c] = IF c = serving[w] THEN answer ELSE got[c]
      /\ \A v \in Workers : /\ serving'[v] = IF v = w THEN NoCall ELSE serving[v]
                            /\ pc'[v] = IF v = w THEN "pop" ELSE pc[v]
  BY <1>1 DEF Inv, TypeOK, Finish
<1>3. TypeOK'
  BY <1>1 DEF Inv, TypeOK, Finish, Over
<1>h. hand' = hand /\ queue' = queue
  OBVIOUS
<1>4. Serving'
  BY <1>1, <1>2 DEF Inv, Serving
<1>a. Apart'
  BY <1>h, <1>1, <1>2 DEF Inv, Apart
<1>5. AcceptedHeld'
  <2> SUFFICES ASSUME NEW c \in Calls PROVE (state'[c] = "accepted") <=> Held(c)'
    BY DEF AcceptedHeld
  <2>1. CASE c = serving[w]
    <3>1. state'[c] # "accepted"
      BY <1>2, <2>1 DEF Over
    <3>2. ~Held(c)'
      BY <1>h, <1>1, <1>2, <2>1 DEF Inv, Apart, Held
    <3> QED BY <3>1, <3>2
  <2>2. CASE c # serving[w]
    <3>0. (\E v \in Workers : serving'[v] = c) <=> \E v \in Workers : serving[v] = c
      <4>1. \A v \in Workers : serving'[v] = IF v = w THEN NoCall ELSE serving[v]
        BY <1>2
      <4>2. c # NoCall
        BY <1>1
      <4>3. \A v \in Workers : serving'[v] = c <=> serving[v] = c
        BY <4>1, <4>2, <2>2
      <4> QED BY <4>3
    <3>1. Held(c)' <=> Held(c)
      BY <1>h, <3>0 DEF Held
    <3> QED BY <1>2, <2>2, <3>1 DEF Inv, AcceptedHeld
  <2> QED BY <2>1, <2>2
<1>6. OwnAnswer'
  BY <1>1, <1>2 DEF Inv, OwnAnswer, Over
<1> QED BY <1>3, <1>4, <1>a, <1>5, <1>6 DEF Inv

\* What happens to the queues of the broker leaves the connections alone.
LEMMA QueuesInv ==
    ASSUME Inv, requests' \subseteq [call : Calls, to : Workers],
           replies' \in [Workers -> Seq(Calls)], faults' \in 0 .. MaxFaults,
           UNCHANGED <<state, got, hand, queue, serving>>,
           \/ pc' = pc
           \/ \E w \in Workers : pc[w] = "serve" /\ pc' = [pc EXCEPT ![w] = "receive"]
    PROVE  Inv'
<1>1. TypeOK'
  BY DEF Inv, TypeOK
<1>2. Serving'
  BY DEF Inv, TypeOK, Serving
<1>3. Apart' /\ AcceptedHeld' /\ OwnAnswer'
  BY DEF Inv, Apart, AcceptedHeld, Held, OwnAnswer
<1> QED BY <1>1, <1>2, <1>3 DEF Inv

LEMMA ServeInv ==
    ASSUME Inv, NEW w \in Workers, Serve(w) \/ HangUp(w)
    PROVE  Inv'
<1>0. /\ requests \subseteq [call : Calls, to : Workers]
      /\ replies \in [Workers -> Seq(Calls)] /\ faults \in 0 .. MaxFaults
      /\ pc[w] \in {"serve", "receive"} => serving[w] \in Calls
  BY DEF Inv, TypeOK, Serving
<1>1. replies[w] # <<>> =>
         [replies EXCEPT ![w] = Tail(@)] \in [Workers -> Seq(Calls)]
  <2>1. replies[w] # <<>> => Tail(replies[w]) \in Seq(Calls)
    BY <1>0, PopFacts
  <2> QED BY <1>0, <2>1
<1>2. CASE Wait(w)
  BY <1>2, WaitInv
<1>3. CASE Pop(w)
  BY <1>3, PopInv
<1>4. CASE Send(w)
  <2>1. requests' \subseteq [call : Calls, to : Workers]
    BY <1>0, <1>4 DEF Send, Request
  <2> QED BY <1>0, <1>4, <2>1, QueuesInv DEF Send
<1>5. CASE SendFails(w) \/ TimedOut(w)
  <2>1. Finish(w, "failed", NoCall)
    BY <1>5 DEF SendFails, TimedOut
  <2> QED BY <1>0, <1>5, <2>1, FinishInv DEF SendFails, TimedOut, mqVars, Over
<1>6. CASE HangUp(w)
  <2>1. Finish(w, "reset", NoCall)
    BY <1>6 DEF HangUp
  <2> QED BY <1>0, <1>6, <2>1, FinishInv DEF HangUp, mqVars, Over
<1>7. CASE Answer(w)
  <2>1. Finish(w, "answered", serving[w])
    BY <1>7 DEF Answer, Matches
  <2> QED BY <1>0, <1>1, <1>7, <2>1, FinishInv DEF Answer, Over
<1>8. CASE DropStale(w)
  BY <1>0, <1>1, <1>8, QueuesInv DEF DropStale, procVars
<1> QED BY <1>2, <1>3, <1>4, <1>5, <1>6, <1>7, <1>8 DEF Serve

\* The trade process takes a request and may answer it.
LEMMA TradeInv ==
    ASSUME Inv, NEW r \in requests,
           TradeAnswers(r) \/ TradeDrops(r) \/ DeliveredTwice(r)
    PROVE  Inv'
<1>0. /\ requests \subseteq [call : Calls, to : Workers]
      /\ replies \in [Workers -> Seq(Calls)] /\ faults \in 0 .. MaxFaults
      /\ r.call \in Calls /\ r.to \in Workers
  BY DEF Inv, TypeOK
<1>1. [replies EXCEPT ![r.to] = Append(@, r.call)] \in [Workers -> Seq(Calls)]
  <2>1. Append(replies[r.to], r.call) \in Seq(Calls)
    BY <1>0
  <2> QED BY <1>0, <2>1
<1>2. requests' \subseteq [call : Calls, to : Workers]
  BY <1>0 DEF TradeAnswers, TradeDrops, DeliveredTwice
<1>3. faults' \in 0 .. MaxFaults
  BY <1>0, ServerAssumption DEF TradeAnswers, TradeDrops, DeliveredTwice
<1>4. replies' \in [Workers -> Seq(Calls)]
  BY <1>0, <1>1 DEF TradeAnswers, TradeDrops, DeliveredTwice, Reply
<1> QED BY <1>2, <1>3, <1>4, QueuesInv
        DEF TradeAnswers, TradeDrops, DeliveredTwice, procVars

LEMMA RestartInv ==
    ASSUME Inv, Restart
    PROVE  Inv'
<1>1. TypeOK'
  BY ServerAssumption DEF Inv, TypeOK, Restart, Over, mqVars
<1>2. Serving' /\ Apart'
  BY DEF Serving, Apart, Restart
<1>3. AcceptedHeld'
  BY ServerAssumption DEF AcceptedHeld, Held, Restart
<1>4. OwnAnswer'
  BY DEF Inv, OwnAnswer, Restart
<1> QED BY <1>1, <1>2, <1>3, <1>4 DEF Inv

LEMMA StepInv == Inv /\ [Next]_vars => Inv'
<1> SUFFICES ASSUME Inv, [Next]_vars PROVE Inv'
  OBVIOUS
<1>1. CASE UNCHANGED vars
  BY <1>1 DEF Inv, TypeOK, Serving, Apart, AcceptedHeld, Held, OwnAnswer,
              vars, procVars, mqVars
<1>2. CASE Next
  BY <1>2, ConnectInv, AcceptInv, PushInv, ServeInv, WaitInv, TradeInv,
     RestartInv DEF Next
<1> QED BY <1>1, <1>2

LEMMA Invariant == Spec => []Inv
  BY InitInv, StepInv, PTL DEF Spec

-----------------------------------------------------------------------------
\* The variables keep their types.
THEOREM TypeCorrect == Spec => []TypeOK
<1>1. Inv => TypeOK
  BY DEF Inv
<1> QED BY <1>1, Invariant, PTL

\* A socket accepted and not answered is in one place; no other socket is in
\* any: two threads never serve the same connection and none is forgotten.
THEOREM OneHolderEach == Spec => []OneHolder
<1>1. Inv => OneHolder
  <2> SUFFICES ASSUME Inv, NEW c \in Calls
               PROVE  /\ state[c] = "accepted" <=> Holders(c) # {}
                      /\ \A p, q \in Holders(c) : p = q
    BY DEF OneHolder
  <2>0. c # NoCall
    BY ServerAssumption
  <2>1. Held(c) <=> Holders(c) # {}
    BY DEF Held, Holders
  <2>2. \A p \in Holders(c) :
           \/ p = <<"hand", hand>> /\ hand = c
           \/ \E i \in DOMAIN queue : p = <<"queue", i>> /\ queue[i] = c
           \/ \E w \in Workers : p = <<"thread", w>> /\ serving[w] = c
    BY DEF Holders
  <2>3. ASSUME NEW p \in Holders(c), NEW q \in Holders(c) PROVE p = q
    BY <2>0, <2>2 DEF Inv, Apart
  <2> QED BY <2>1, <2>3 DEF Inv, AcceptedHeld
<1> QED BY <1>1, Invariant, PTL

\* A client is answered with the answer to its own request, whatever late,
\* repeated or left-over messages its thread's queue holds.
THEOREM AnswersAreOwn == Spec => []OwnAnswer
<1>1. Inv => OwnAnswer
  BY DEF Inv
<1> QED BY <1>1, Invariant, PTL
=============================================================================
