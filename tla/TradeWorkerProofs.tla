------------------------- MODULE TradeWorkerProofs -------------------------
(***************************************************************************)
(* Proofs about TradeWorker, for every set of accounts, every limit and    *)
(* every behaviour of the environment.                                     *)
(*                                                                         *)
(* InstanceLimit is not inductive: the code tests the size of the map and  *)
(* not the number of objects.  With EachInstanceOnce, the map is a         *)
(* bijection to the objects whenever the store is empty, and the test      *)
(* counts objects after all.                                               *)
(*                                                                         *)
(* The last part is about the sessions (OwnSession, SpareLoggedOut,        *)
(* NoInvalidPointer).  They hold if the environment is Orderly and depend  *)
(* on each other: a NULL interface is out of reach because an instance     *)
(* that counts as logged in is its customer's own, and that is kept        *)
(* because a login passes from the buffer to the SDK and back as a single  *)
(* token, with the account mapped to the waiting instance all the time.    *)
(***************************************************************************)
EXTENDS TradeWorker, BufferLemmas

PoolTypeOK ==
    /\ interfaceMap \in [Accounts -> Trades \cup {None}]
    /\ interfaceStore \in Seq(Trades)
    /\ created \in Nat

\* The inductive invariant of the map, the store and the limit.
PoolInv == PoolTypeOK /\ EachInstanceOnce /\ InstanceLimit

-----------------------------------------------------------------------------
(* The three ways in which the pool changes.                               *)

\* An account without instance gets the last one of the store.
TakeSpare(k) ==
    /\ k \in Accounts \ Mapped /\ interfaceStore # <<>>
    /\ interfaceMap' = [interfaceMap EXCEPT ![k] = interfaceStore[Len(interfaceStore)]]
    /\ interfaceStore' = SubSeq(interfaceStore, 1, Len(interfaceStore) - 1)
    /\ UNCHANGED created

\* An account without instance gets a new one.
MakeNew(k) ==
    /\ k \in Accounts \ Mapped /\ interfaceStore = <<>>
    /\ Cardinality(Mapped) < MapCap
    /\ interfaceMap' = [interfaceMap EXCEPT ![k] = created + 1]
    /\ created' = created + 1
    /\ UNCHANGED interfaceStore

\* The instances of the accounts K go back to the store in the order p.
PutBack(K, p) ==
    /\ K \subseteq Mapped
    /\ p \in Seq({interfaceMap[k] : k \in K})
    /\ \A t \in {interfaceMap[k] : k \in K} : \E i \in DOMAIN p : p[i] = t
    /\ \A i, j \in DOMAIN p : p[i] = p[j] => i = j
    /\ interfaceMap' = [k \in Accounts |-> IF k \in K THEN None ELSE interfaceMap[k]]
    /\ interfaceStore' = interfaceStore \o p
    /\ UNCHANGED created

\* The numbers of instances are positive, so None is not one of them.
LEMMA TradesFacts == None \notin Trades /\ Trades \subseteq Nat \ {0}
  BY CapAssumption DEF Trades, None

\* Serving an account from the top of the store keeps the pool's invariant.
LEMMA TakeSpareSafe ==
    ASSUME PoolInv, NEW k, TakeSpare(k)
    PROVE  PoolInv' /\ Pool!Assign(k)
<1> DEFINE n == Len(interfaceStore)
           t == interfaceStore[n]
<1>1. /\ interfaceStore' \in Seq(Trades) /\ DOMAIN interfaceStore' = 1 .. (n - 1)
      /\ \A i \in DOMAIN interfaceStore' : interfaceStore'[i] = interfaceStore[i]
      /\ n \in Nat \ {0} /\ DOMAIN interfaceStore = 1 .. n /\ t \in Trades
  BY PopBackFacts DEF PoolInv, PoolTypeOK, TakeSpare
<1>2. interfaceMap' = [interfaceMap EXCEPT ![k] = t] /\ k \in Accounts /\ t # None
      /\ k \notin Mapped
  BY <1>1, TradesFacts DEF TakeSpare
<1> HIDE DEF n, t
<1>3. interfaceMap' \in [Accounts -> Trades \cup {None}] /\ created' = created
  BY <1>1, <1>2 DEF PoolInv, PoolTypeOK, TakeSpare
<1>4. Mapped' = Mapped \cup {k} /\ interfaceMap'[k] = t
      /\ \A j \in Mapped : j # k /\ interfaceMap'[j] = interfaceMap[j]
  BY <1>2 DEF PoolInv, PoolTypeOK, Mapped
<1>5. t \in Stored /\ Stored' = Stored \ {t}
  <2>1. \A i \in DOMAIN interfaceStore : interfaceStore[i] = t => i = n
    BY <1>1 DEF PoolInv, EachInstanceOnce, n, t
  <2>2. t \in Stored
    BY <1>1 DEF Stored, t, n
  <2>3. Stored' \subseteq Stored \ {t}
    BY <1>1, <2>1 DEF Stored
  <2>4. Stored \ {t} \subseteq Stored'
    <3> SUFFICES ASSUME NEW i \in DOMAIN interfaceStore, interfaceStore[i] # t
                 PROVE  interfaceStore[i] \in Stored'
      BY DEF Stored
    <3>1. i # n /\ i \in DOMAIN interfaceStore'
      BY <1>1 DEF t
    <3> QED BY <1>1, <3>1 DEF Stored
  <2> QED BY <2>2, <2>3, <2>4
<1>6. EachInstanceOnce'
  <2>1. \A j \in Mapped : interfaceMap[j] # t
    BY <1>5 DEF PoolInv, EachInstanceOnce
  <2>2. \A i, j \in Mapped' : interfaceMap'[i] = interfaceMap'[j] => i = j
    BY <1>4, <2>1 DEF PoolInv, EachInstanceOnce
  <2>3. \A i, j \in DOMAIN interfaceStore' :
           interfaceStore'[i] = interfaceStore'[j] => i = j
    BY <1>1 DEF PoolInv, EachInstanceOnce
  <2>4. \A j \in Mapped' : interfaceMap'[j] \notin Stored'
    BY <1>4, <1>5 DEF PoolInv, EachInstanceOnce
  <2>5. {interfaceMap'[j] : j \in Mapped'} = {interfaceMap[j] : j \in Mapped} \cup {t}
    BY <1>4
  <2>6. {interfaceMap'[j] : j \in Mapped'} \cup Stored' = 1 .. created'
    BY <1>3, <1>5, <2>5 DEF PoolInv, EachInstanceOnce
  <2> QED BY <2>2, <2>3, <2>4, <2>6 DEF EachInstanceOnce
<1>7. PoolInv'
  BY <1>1, <1>3, <1>6 DEF PoolInv, PoolTypeOK, InstanceLimit
<1>8. Pool!Assign(k)
  BY <1>2, <1>3, <1>5 DEF Pool!Assign, Pool!Served, Mapped, None
<1> QED BY <1>7, <1>8

\* A new instance is made only when the store is empty and the map below its
\* limit: the pool's invariant, and with it the limit on objects, is kept.
LEMMA MakeNewSafe ==
    ASSUME PoolInv, NEW k, MakeNew(k)
    PROVE  PoolInv' /\ Pool!Make(k) /\ created + 1 \in Trades
<1>1. Stored = {} /\ {interfaceMap[j] : j \in Mapped} = 1 .. created
  BY DEF PoolInv, EachInstanceOnce, MakeNew, Stored
<1>2. created < MapCap
  <2> DEFINE f == [j \in Mapped |-> interfaceMap[j]]
  <2>1. f \in Injection(Mapped, 1 .. created) /\ f \in Surjection(Mapped, 1 .. created)
    BY <1>1 DEF PoolInv, EachInstanceOnce, Injection, IsInjective, Surjection
  <2>2. IsFiniteSet(1 .. created) /\ Cardinality(1 .. created) = created
    BY IntervalFacts DEF PoolInv, PoolTypeOK
  <2>3. Cardinality(Mapped) = created
    BY <2>1, <2>2, FS_Injection
  <2> QED BY <2>3 DEF MakeNew
<1>3. created + 1 \in Trades /\ created + 1 # None /\ created \in Nat
  BY <1>2, CapAssumption DEF Trades, None, PoolInv, PoolTypeOK
<1>4. interfaceMap' \in [Accounts -> Trades \cup {None}]
  BY <1>3 DEF MakeNew, PoolInv, PoolTypeOK
<1>5. Mapped' = Mapped \cup {k} /\ interfaceMap'[k] = created + 1
      /\ \A j \in Mapped : j # k /\ interfaceMap'[j] = interfaceMap[j]
  BY <1>3 DEF MakeNew, PoolInv, PoolTypeOK, Mapped
<1>6. EachInstanceOnce'
  <2>1. \A j \in Mapped : interfaceMap[j] # created + 1
    BY <1>1, <1>3
  <2>2. \A i, j \in Mapped' : interfaceMap'[i] = interfaceMap'[j] => i = j
    BY <1>5, <2>1 DEF PoolInv, EachInstanceOnce
  <2>3. interfaceStore' = <<>> /\ Stored' = {}
    BY <1>1 DEF MakeNew, Stored
  <2>4. {interfaceMap'[j] : j \in Mapped'} = {interfaceMap[j] : j \in Mapped} \cup {created + 1}
    BY <1>5
  <2>5. {interfaceMap'[j] : j \in Mapped'} = 1 .. created'
    <3>1. created' = created + 1 /\ (1 .. created) \cup {created + 1} = 1 .. (created + 1)
      BY <1>3 DEF MakeNew
    <3> QED BY <1>1, <2>4, <3>1
  <2> QED BY <2>2, <2>3, <2>5 DEF EachInstanceOnce
<1>7. PoolInv'
  BY <1>2, <1>3, <1>4, <1>6, CapAssumption
  DEF PoolInv, PoolTypeOK, InstanceLimit, MakeNew
<1>8. Pool!Make(k)
  BY <1>1, <1>2, <1>5 DEF Pool!Make, Pool!Served, MakeNew, Mapped, None, Stored
<1> QED BY <1>3, <1>7, <1>8

\* Taking accounts out of the map and appending their instances, each once,
\* to the store keeps the pool's invariant.
LEMMA PutBackSafe ==
    ASSUME PoolInv, NEW K, NEW p, PutBack(K, p)
    PROVE  PoolInv' /\ Pool!GiveBack(K) /\ K \in SUBSET Pool!Served
<1> DEFINE back == {interfaceMap[k] : k \in K}
           n == Len(interfaceStore)
<1>1. /\ back \subseteq Trades /\ p \in Seq(Trades) /\ K \subseteq Accounts
      /\ \A i \in DOMAIN p : p[i] \in back
  BY DEF PutBack, PoolInv, PoolTypeOK, Mapped
<1>2. /\ interfaceStore' \in Seq(Trades)
      /\ \A i \in DOMAIN interfaceStore :
            i \in DOMAIN interfaceStore' /\ interfaceStore'[i] = interfaceStore[i]
      /\ \A i \in DOMAIN p :
            n + i \in DOMAIN interfaceStore' /\ interfaceStore'[n + i] = p[i]
      /\ \A i \in DOMAIN interfaceStore' :
            \/ i \in DOMAIN interfaceStore /\ interfaceStore'[i] = interfaceStore[i]
            \/ i - n \in DOMAIN p /\ interfaceStore'[i] = p[i - n]
      /\ n \in Nat /\ \A i \in DOMAIN interfaceStore' : i \in Nat
  BY <1>1, ConcatFacts DEF PutBack, PoolInv, PoolTypeOK
<1>3. interfaceMap' \in [Accounts -> Trades \cup {None}]
      /\ Mapped' = Mapped \ K /\ \A j \in Mapped' : interfaceMap'[j] = interfaceMap[j]
  BY DEF PutBack, PoolInv, PoolTypeOK, Mapped, None
<1>4. Stored' = Stored \cup back
  <2>1. Stored' \subseteq Stored \cup back
    <3> SUFFICES ASSUME NEW t \in Stored' PROVE t \in Stored \cup back
      OBVIOUS
    <3>1. PICK i \in DOMAIN interfaceStore' : interfaceStore'[i] = t
      BY DEF Stored
    <3>2. CASE i \in DOMAIN interfaceStore /\ interfaceStore'[i] = interfaceStore[i]
      BY <3>1, <3>2 DEF Stored
    <3>3. CASE i - n \in DOMAIN p /\ interfaceStore'[i] = p[i - n]
      BY <1>1, <3>1, <3>3
    <3> QED BY <1>2, <3>2, <3>3
  <2>2. Stored \subseteq Stored'
    BY <1>2 DEF Stored
  <2>3. back \subseteq Stored'
    <3> SUFFICES ASSUME NEW t \in back PROVE t \in Stored'
      OBVIOUS
    <3>1. PICK i \in DOMAIN p : p[i] = t
      BY DEF PutBack
    <3> QED BY <1>2, <3>1 DEF Stored
  <2> QED BY <2>1, <2>2, <2>3
<1>5. \A t \in back : t \notin Stored
  BY DEF PutBack, PoolInv, EachInstanceOnce
<1>6. EachInstanceOnce'
  <2>1. \A i, j \in Mapped' : interfaceMap'[i] = interfaceMap'[j] => i = j
    BY <1>3 DEF PoolInv, EachInstanceOnce
  <2>2. \A i, j \in DOMAIN interfaceStore' :
           interfaceStore'[i] = interfaceStore'[j] => i = j
    <3> SUFFICES ASSUME NEW i \in DOMAIN interfaceStore', NEW j \in DOMAIN interfaceStore',
                        interfaceStore'[i] = interfaceStore'[j]
                 PROVE  i = j
      OBVIOUS
    <3>1. CASE i \in DOMAIN interfaceStore /\ interfaceStore'[i] = interfaceStore[i]
               /\ j \in DOMAIN interfaceStore /\ interfaceStore'[j] = interfaceStore[j]
      BY <3>1 DEF PoolInv, EachInstanceOnce
    <3>2. CASE i - n \in DOMAIN p /\ interfaceStore'[i] = p[i - n]
               /\ j - n \in DOMAIN p /\ interfaceStore'[j] = p[j - n]
      <4>1. i - n = j - n
        BY <3>2 DEF PutBack
      <4> QED BY <1>2, <4>1
    <3>3. CASE interfaceStore'[i] \in Stored /\ interfaceStore'[j] \in back
      BY <1>5, <3>3
    <3>4. CASE interfaceStore'[j] \in Stored /\ interfaceStore'[i] \in back
      BY <1>5, <3>4
    <3> QED BY <1>1, <1>2, <3>1, <3>2, <3>3, <3>4 DEF Stored
  <2>3. \A j \in Mapped' : interfaceMap'[j] \notin Stored'
    <3> SUFFICES ASSUME NEW j \in Mapped' PROVE interfaceMap'[j] \notin Stored'
      OBVIOUS
    <3>1. j \in Mapped /\ j \notin K /\ interfaceMap'[j] = interfaceMap[j]
      BY <1>3
    <3>2. interfaceMap[j] \notin Stored
      BY <3>1 DEF PoolInv, EachInstanceOnce
    <3>3. interfaceMap[j] \notin back
      BY <3>1 DEF PoolInv, EachInstanceOnce, PutBack
    <3> QED BY <1>4, <3>1, <3>2, <3>3
  <2>4. {interfaceMap'[j] : j \in Mapped'} \cup back = {interfaceMap[j] : j \in Mapped}
    <3>1. Mapped = Mapped' \cup K
      BY <1>3 DEF PutBack
    <3>2. {interfaceMap'[j] : j \in Mapped'} = {interfaceMap[j] : j \in Mapped'}
      BY <1>3
    <3> QED BY <3>1, <3>2
  <2>5. {interfaceMap'[j] : j \in Mapped'} \cup Stored' = 1 .. created'
    BY <1>4, <2>4 DEF PoolInv, EachInstanceOnce, PutBack
  <2> QED BY <2>1, <2>2, <2>3, <2>5 DEF EachInstanceOnce
<1>7. PoolInv'
  BY <1>2, <1>3, <1>6 DEF PoolInv, PoolTypeOK, InstanceLimit, PutBack
<1>8. Pool!GiveBack(K)
  BY <1>4 DEF Pool!GiveBack, PutBack, None
<1>9. K \in SUBSET Pool!Served
  BY DEF Pool!Served, PutBack, Mapped, None
<1> QED BY <1>7, <1>8, <1>9

-----------------------------------------------------------------------------
(* Every change of the pool is one of the three.                           *)

RestTypeOK ==
    /\ trade \in [Trades -> Instances]
    /\ queue \in Seq(Requests \cup Callbacks)
    /\ nreq \in Nat
    /\ replies \in SUBSET Responses
    /\ up \in BOOLEAN

WorkerInv == PoolInv /\ RestTypeOK

\* The task at the front is what its kind says.
LEMMA FrontFacts ==
    ASSUME RestTypeOK
    PROVE  /\ Front("request") => Head(queue) \in Requests
           /\ Front("callback") => Head(queue) \in Callbacks
           /\ up /\ queue # <<>> => Tail(queue) \in Seq(Requests \cup Callbacks)
  BY PopFacts DEF RestTypeOK, Front, Requests, Callbacks

\* One instance goes back to the store.
LEMMA PutBackOne ==
    ASSUME PoolInv, NEW k \in Mapped,
           interfaceMap' = [interfaceMap EXCEPT ![k] = None],
           interfaceStore' = Append(interfaceStore, interfaceMap[k]),
           UNCHANGED created
    PROVE  PutBack({k}, <<interfaceMap[k]>>)
<1> DEFINE p == <<interfaceMap[k]>>
<1>1. {interfaceMap[j] : j \in {k}} = {interfaceMap[k]} /\ k \in Accounts
  BY DEF Mapped
<1>2. p \in Seq({interfaceMap[k]}) /\ DOMAIN p = {1} /\ p[1] = interfaceMap[k]
  OBVIOUS
<1>3. interfaceStore' = interfaceStore \o p
  BY DEF PoolInv, PoolTypeOK
<1>4. interfaceMap' = [j \in Accounts |-> IF j \in {k} THEN None ELSE interfaceMap[j]]
  BY DEF PoolInv, PoolTypeOK
<1> HIDE DEF p
<1>5. PutBack({k}, p)
  BY <1>1, <1>2, <1>3, <1>4 DEF PutBack
<1> QED BY <1>5 DEF p

\* check_active puts the instances of the accounts that are gone back, each once.
LEMMA PutBackGone ==
    ASSUME WorkerInv, CheckActive
    PROVE  \E p : PutBack(Gone, p)
<1> USE DEF WorkerInv
<1> DEFINE S == {interfaceMap[k] : k \in Gone}
<1>1. PICK p \in Orders(S) : interfaceStore' = interfaceStore \o p
  BY DEF CheckActive
<1>2. S \subseteq 1 .. created /\ Gone \subseteq Mapped
  BY DEF PoolInv, EachInstanceOnce, Gone
<1>3. Cardinality(S) \in Nat
  BY <1>2, IntervalFacts, FS_Subset, FS_CardinalityType DEF PoolInv, PoolTypeOK
<1> HIDE DEF S
<1>4. /\ p \in Seq(S)
      /\ \A t \in S : \E i \in DOMAIN p : p[i] = t
      /\ \A i, j \in DOMAIN p : p[i] = p[j] => i = j
  <2>1. p \in [1 .. Cardinality(S) -> S]
    BY <1>1 DEF Orders
  <2>2. p \in Seq(S)
    BY <1>3, <2>1, FunctionIsBuffer
  <2> QED BY <1>1, <2>2 DEF Orders
<1>5. PutBack(Gone, p)
  BY <1>1, <1>2, <1>4 DEF CheckActive, PutBack, S
<1> QED BY <1>5

\* What any step does to the pool: nothing, take, make, or put back.
LEMMA PoolStep ==
    ASSUME WorkerInv, Next
    PROVE  \/ UNCHANGED pool
           \/ \E k : TakeSpare(k)
           \/ \E k : MakeNew(k)
           \/ \E K, p : PutBack(K, p)
<1> USE DEF WorkerInv
<1>1. CASE \/ \E k \in Accounts : Arrive(k)
           \/ \E t \in Trades : SdkAnswer(t) \/ Kick(t) \/ Elapse(t)
           \/ ServeLoginAgain \/ ServeRefused \/ ServeQuery \/ ServeOrder
           \/ ServeSilent \/ ServePoll
           \/ CallbackUnknown \/ CallbackDeliver \/ HeartBeat
  BY <1>1 DEF Arrive, Push, SdkAnswer, Kick, Elapse, ServeLoginAgain, ServeRefused,
              ServeQuery, ServeOrder, ServeSilent, ServePoll, Refuse, CallbackUnknown, CallbackDeliver,
              HeartBeat, Crash, pool
<1>2. CASE ServeLoginStored
  BY <1>2, FrontFacts DEF ServeLoginStored, TakeSpare, Requests
<1>3. CASE ServeLoginCreate
  BY <1>3, FrontFacts DEF ServeLoginCreate, MakeNew, Requests
<1>4. CASE ServeLogout
  <2> DEFINE t == interfaceMap[Head(queue).acct]
             j == trade[t].acct
  <2>1. \/ UNCHANGED pool
        \/ /\ j \in Mapped /\ interfaceMap[j] = t
           /\ interfaceMap' = [interfaceMap EXCEPT ![j] = None]
           /\ interfaceStore' = Append(interfaceStore, t)
           /\ UNCHANGED created
    BY <1>4 DEF ServeLogout, Crash, pool
  <2> QED BY <2>1, PutBackOne
<1>5. CASE CallbackLoginFailed
  BY <1>5, PutBackOne DEF CallbackLoginFailed
<1>6. CASE CheckActive
  BY <1>6, PutBackGone
<1> QED BY <1>1, <1>2, <1>3, <1>4, <1>5, <1>6
        DEF Next, ProcessRequest, ProcessCallback

\* The pool's invariant is kept by every step.
LEMMA PoolInvNext ==
    ASSUME WorkerInv, [Next]_vars
    PROVE  PoolInv' /\ [Pool!PoolNext]_(Pool!poolVars)
<1>1. CASE UNCHANGED vars \/ UNCHANGED pool
  <2>1. UNCHANGED pool
    BY <1>1 DEF vars, pool
  <2>2. PoolInv'
    BY <2>1 DEF WorkerInv, PoolInv, PoolTypeOK, EachInstanceOnce, InstanceLimit,
                Mapped, Stored, pool
  <2>3. UNCHANGED Pool!poolVars
    BY <2>1 DEF Pool!poolVars, Stored, pool
  <2> QED BY <2>2, <2>3
<1>2. CASE \E k : TakeSpare(k)
  <2> PICK k : TakeSpare(k)
    BY <1>2
  <2>1. PoolInv' /\ Pool!Assign(k) /\ k \in Accounts
    BY TakeSpareSafe DEF WorkerInv, TakeSpare
  <2> QED BY <2>1 DEF Pool!PoolNext
<1>3. CASE \E k : MakeNew(k)
  <2> PICK k : MakeNew(k)
    BY <1>3
  <2>1. PoolInv' /\ Pool!Make(k) /\ k \in Accounts
    BY MakeNewSafe DEF WorkerInv, MakeNew
  <2> QED BY <2>1 DEF Pool!PoolNext
<1>4. CASE \E K, p : PutBack(K, p)
  <2> PICK K, p : PutBack(K, p)
    BY <1>4
  <2>1. PoolInv' /\ Pool!GiveBack(K) /\ K \in SUBSET Pool!Served
    BY PutBackSafe DEF WorkerInv
  <2> QED BY <2>1 DEF Pool!PoolNext
<1> QED BY <1>1, <1>2, <1>3, <1>4, PoolStep

-----------------------------------------------------------------------------
(* The methods of gd_trade keep an instance an instance.                   *)

\* A newly constructed gd_trade is an instance record.
LEMMA NewInstanceType == NewInstance \in Instances
  BY DEF NewInstance, Instances

\* Setting the status keeps the type of an instance.
LEMMA StatusType ==
    ASSUME NEW g \in Instances
    PROVE  SetLogoutStatus(g) \in Instances /\ SetLoginStatus(g) \in Instances
           /\ HeartBeatFailed(g) \in Instances
  BY DEF SetLogoutStatus, SetLoginStatus, HeartBeatFailed, Instances

\* init() keeps the type of an instance.
LEMMA InitInterfaceType ==
    ASSUME NEW g \in Instances, NEW networkOk \in BOOLEAN
    PROVE  InitInterface(g, networkOk) \in Instances
<1>1. [g EXCEPT !.iface = TRUE] \in Instances
  BY DEF Instances
<1> QED BY <1>1, StatusType DEF InitInterface

\* Sending a request to the SDK keeps the type of an instance.
LEMMA SendOrderType ==
    ASSUME NEW g \in Instances, NEW op \in Types \cap LaterTypes,
           NEW sid \in Nat \ {0}, NEW k \in Accounts, NEW accepted \in BOOLEAN
    PROVE  SendOrder(g, op, sid, k, accepted) \in Instances
<1> DEFINE more == g.pend \cup {[op |-> op, sid |-> sid, for |-> k]}
<1>1. [op |-> op, sid |-> sid, for |-> k] \in PendingCalls
  BY DEF PendingCalls
<1>2. more \in SUBSET PendingCalls
  BY <1>1 DEF Instances
<1>3. SendOrder(g, op, sid, k, accepted) \in {g, [g EXCEPT !.pend = more]}
  BY DEF SendOrder
<1> HIDE DEF more
<1>4. [g EXCEPT !.pend = more] \in Instances
  BY <1>2 DEF Instances
<1> QED BY <1>3, <1>4

\* login() keeps the type of an instance.
LEMMA DoLoginType ==
    ASSUME NEW g \in Instances, NEW k \in Accounts, NEW sid \in Nat \ {0},
           NEW accepted \in BOOLEAN
    PROVE  DoLogin(g, k, sid, accepted) \in Instances
<1> DEFINE more == IF accepted
                   THEN g.pend \cup {[op |-> "login", sid |-> sid, for |-> k]}
                   ELSE g.pend
<1>1. [op |-> "login", sid |-> sid, for |-> k] \in PendingCalls
  BY DEF PendingCalls
<1>2. more \in SUBSET PendingCalls
  BY <1>1 DEF Instances
<1>3. DoLogin(g, k, sid, accepted) \in {g, [g EXCEPT !.acct = k, !.pend = more]}
  BY DEF DoLogin
<1> HIDE DEF more
<1>4. [g EXCEPT !.acct = k, !.pend = more] \in Instances
  BY <1>2 DEF Instances
<1> QED BY <1>3, <1>4

\* logout() keeps the type of an instance.
LEMMA LogoutType ==
    ASSUME NEW g \in Instances, NEW released \in BOOLEAN
    PROVE  Logout(g, released) \in Instances
<1> DEFINE out == [SetLogoutStatus(g) EXCEPT !.acct = NoAccount]
<1>1. out \in Instances
  BY StatusType DEF Instances
<1>2. Logout(g, released)
        \in {out, [out EXCEPT !.iface = FALSE, !.pend = {}, !.sess = NoAccount]}
  BY DEF Logout
<1> HIDE DEF out
<1>3. [out EXCEPT !.iface = FALSE, !.pend = {}, !.sess = NoAccount] \in Instances
  BY <1>1 DEF Instances
<1> QED BY <1>1, <1>2, <1>3

\* Filing an event keeps the type of an instance: a named event has a sid.
LEMMA OnCallbackType ==
    ASSUME NEW g \in Instances, NEW cb \in Callbacks
    PROVE  OnCallback(g, cb) \in Instances
<1> DEFINE h == IF cb.ev # "login" THEN g
                ELSE IF cb.success THEN SetLoginStatus(g) ELSE SetLogoutStatus(g)
           r == [sid |-> cb.sid]
<1>1. h \in Instances
  BY StatusType
<1>2. OnCallback(g, cb) = IF cb.named THEN [h EXCEPT !.slot[cb.ev] = r] ELSE h
  BY DEF OnCallback
<1>3. CASE cb.named
  <2>1. r \in Replies /\ cb.ev \in ResultTypes
    BY <1>3 DEF Replies, Callbacks
  <2> HIDE DEF h, r
  <2> QED BY <1>1, <1>2, <1>3, <2>1 DEF Instances
<1>4. CASE ~cb.named
  BY <1>1, <1>2, <1>4
<1> QED BY <1>3, <1>4

-----------------------------------------------------------------------------
(* Type correctness of what is not the pool.                               *)

\* Popping a request and responding to it keeps the types of the buffer and
\* the responses.
LEMMA RespondType ==
    ASSUME RestTypeOK, Front("request"), NEW ok \in BOOLEAN,
           Respond(Head(queue), ok)
    PROVE  /\ queue' \in Seq(Requests \cup Callbacks)
           /\ nreq' \in Nat /\ replies' \in SUBSET Responses /\ up' \in BOOLEAN
<1> DEFINE r == Head(queue)
           a == [id |-> r.id, acct |-> r.acct, type |-> r.type, ok |-> ok]
<1>1. r \in Requests /\ Tail(queue) \in Seq(Requests \cup Callbacks)
  BY FrontFacts DEF Front
<1>2. a \in Responses
  BY <1>1 DEF Requests, Responses
<1>3. replies' = replies \cup {a}
  BY DEF Respond
<1> QED BY <1>1, <1>2, <1>3 DEF Respond, RestTypeOK

\* An event pushed at the front is a task of the buffer.
LEMMA PushFrontType ==
    ASSUME RestTypeOK, NEW cb \in Callbacks, queue' = <<cb>> \o queue
    PROVE  queue' \in Seq(Requests \cup Callbacks)
  BY PushFrontFacts DEF RestTypeOK

\* The answer to a request that can be polled for is filed under a result type,
\* or nowhere.
LEMMA FiledType ==
    ASSUME NEW type \in Types, type = "login" \/ Serve(type) = "later"
    PROVE  FiledFor(type) \in ResultTypes \cup {NoType}
<1>1. CASE type = "login"
  BY <1>1 DEF FiledFor, ResultTypes
<1>2. CASE type # "login"
  BY <1>2, TypesAssumption DEF FiledFor, ResultTypes, LaterTypes
<1> QED BY <1>1, <1>2

\* A request that arrives is well formed.
LEMMA ArrivePushes ==
    ASSUME RestTypeOK, NEW k \in Accounts, Arrive(k)
    PROVE  \E type \in Types, ask \in Types \cup ResultTypes, sid \in Nat :
              Push(k, type, ask, sid)
<1>1. "login" \in ResultTypes /\ 0 \in Nat
  BY DEF ResultTypes
<1>2. ASSUME NEW type, NEW ask \in Types \cup ResultTypes, NEW sid \in Nat,
             Push(k, type, ask, sid)
      PROVE  type \in Types
  BY <1>2 DEF Push
<1>3. CASE Push(k, "login", "login", 0)
  BY <1>1, <1>2, <1>3
<1>4. CASE \E y \in Types \ {"login", "get.result"} : Push(k, y, "login", 0)
  BY <1>1, <1>4
<1>5. ASSUME NEW r \in replies, r.type = "login" \/ Serve(r.type) = "later",
             NEW ask \in {r.type, FiledFor(r.type)} \ {NoType},
             Push(k, "get.result", ask, r.id)
      PROVE  \E type \in Types, y \in Types \cup ResultTypes, sid \in Nat :
                Push(k, type, y, sid)
  <2>1. r.id \in Nat /\ r.type \in Types
    BY DEF RestTypeOK, Responses
  <2>2. ask \in Types \cup ResultTypes
    BY <1>5, <2>1, FiledType
  <2> QED BY <1>2, <1>5, <2>1, <2>2
<1> QED BY <1>3, <1>4, <1>5 DEF Arrive

\* The arrival of a request keeps the types.
LEMMA ArriveType ==
    ASSUME RestTypeOK, NEW k \in Accounts, Arrive(k)
    PROVE  RestTypeOK'
<1>1. PICK type \in Types, ask \in Types \cup ResultTypes, sid \in Nat :
         Push(k, type, ask, sid)
  BY ArrivePushes
<1> DEFINE r == [kind |-> "request", id |-> nreq + 1, acct |-> k, type |-> type,
                 ask |-> ask, sid |-> sid]
<1>2. r \in Requests /\ nreq + 1 \in Nat
  BY DEF Requests, RestTypeOK
<1>3. queue' = Append(queue, r) /\ nreq' = nreq + 1
      /\ UNCHANGED <<trade, replies, up>>
  BY <1>1 DEF Push
<1> HIDE DEF r
<1>4. queue' \in Seq(Requests \cup Callbacks)
  BY <1>2, <1>3, PushFacts DEF RestTypeOK
<1> QED BY <1>2, <1>3, <1>4 DEF RestTypeOK

\* What the SDK's threads push is well formed.
LEMMA SdkPushesFront ==
    ASSUME RestTypeOK, NEW t \in Trades, SdkAnswer(t) \/ Kick(t)
    PROVE  \/ \E cb \in Callbacks : queue' = <<cb>> \o queue
           \/ UNCHANGED queue
<1>1. trade[t] \in Instances
  BY DEF RestTypeOK
<1>2. trade[t].acct \in Accounts \cup {NoAccount} /\ trade[t].pend \subseteq PendingCalls
  BY <1>1 DEF Instances
<1>3. CASE SdkAnswer(t)
  <2>1. PICK p \in trade[t].pend, code \in {"ok", "drop", "fail"} :
          \/ queue' = <<LoginEvent(trade[t], p.sid, code)>> \o queue
          \/ /\ p.op # "login" /\ Answered(p.op)
             /\ queue' = <<OrderEvent(trade[t], p.op, p.sid, code)>> \o queue
          \/ UNCHANGED queue
    BY <1>3 DEF SdkAnswer
  <2>2. p \in PendingCalls
    BY <1>2
  <2>3. LoginEvent(trade[t], p.sid, code) \in Callbacks
    BY <1>2, <2>2 DEF LoginEvent, Callbacks, PendingCalls, ResultTypes
  <2>4. ASSUME p.op # "login", Answered(p.op)
        PROVE  OrderEvent(trade[t], p.op, p.sid, code) \in Callbacks
    <3>1. Filed(p.op) \in ResultTypes
      BY <2>2, <2>4 DEF Answered, PendingCalls, ResultTypes
    <3> QED BY <1>2, <2>2, <3>1 DEF OrderEvent, Callbacks, PendingCalls
  <2> QED BY <2>1, <2>3, <2>4
<1>4. CASE Kick(t)
  <2>1. LoginEvent(trade[t], 0, "drop") \in Callbacks
    BY <1>2 DEF LoginEvent, Callbacks, ResultTypes
  <2> QED BY <1>4, <2>1 DEF Kick
<1> QED BY <1>3, <1>4

\* The events of the SDK and the clock keep the types.
LEMMA SdkType ==
    ASSUME RestTypeOK, NEW t \in Trades, SdkAnswer(t) \/ Kick(t) \/ Elapse(t)
    PROVE  RestTypeOK'
<1> USE DEF RestTypeOK
<1>1. trade[t] \in Instances
  OBVIOUS
<1>2. trade[t].acct \in Accounts \cup {NoAccount}
  BY <1>1 DEF Instances
<1>3. CASE SdkAnswer(t)
  <2> PICK p \in trade[t].pend, code \in {"ok", "drop", "fail"} :
        LET h == [trade[t] EXCEPT !.pend = @ \ {p}]
        IN  \/ /\ p.op = "login" /\ (code = "drop" => "drop" \in Env)
               /\ trade' = [trade EXCEPT ![t] =
                        IF code = "ok" THEN [h EXCEPT !.sess = p.for] ELSE h]
               /\ queue' = <<LoginEvent(trade[t], p.sid, code)>> \o queue
            \/ /\ p.op # "login" /\ code # "drop"
               /\ trade' = [trade EXCEPT ![t] = h]
               /\ queue' = IF Answered(p.op)
                           THEN <<OrderEvent(trade[t], p.op, p.sid, code)>> \o queue
                           ELSE queue
    BY <1>3 DEF SdkAnswer
  <2> DEFINE rest == trade[t].pend \ {p}
             h == [trade[t] EXCEPT !.pend = rest]
  <2>1. p \in PendingCalls /\ rest \in SUBSET PendingCalls
    BY <1>1 DEF Instances
  <2>2. h \in Instances /\ [h EXCEPT !.sess = p.for] \in Instances
    <3> HIDE DEF rest
    <3> QED BY <1>1, <2>1 DEF Instances, PendingCalls
  <2>5. queue' \in Seq(Requests \cup Callbacks)
    BY <1>3, SdkPushesFront, PushFrontType
  <2>6. trade' \in [Trades -> Instances]
    <3>1. \E g \in Instances : trade' = [trade EXCEPT ![t] = g]
      BY <2>2
    <3> QED BY <3>1
  <2> QED BY <1>3, <2>5, <2>6 DEF SdkAnswer
<1>4. CASE Kick(t)
  <2>2. queue' \in Seq(Requests \cup Callbacks)
    BY <1>4, SdkPushesFront, PushFrontType
  <2>3. [trade[t] EXCEPT !.sess = NoAccount] \in Instances
    BY <1>1 DEF Instances
  <2> QED BY <1>4, <2>2, <2>3 DEF Kick
<1>5. CASE Elapse(t)
  <2>1. [trade[t] EXCEPT !.stale = TRUE] \in Instances
    BY <1>1 DEF Instances
  <2> QED BY <1>5, <2>1 DEF Elapse
<1> QED BY <1>3, <1>4, <1>5

\* case LOGIN, wherever the instance comes from
LEMMA LoginOnType ==
    ASSUME RestTypeOK, Front("request"), NEW t \in Trades, LoginOn(t, Head(queue))
    PROVE  RestTypeOK'
<1> DEFINE r == Head(queue)
<1>1. r \in Requests /\ trade[t] \in Instances
  BY FrontFacts DEF RestTypeOK
<1>2. CASE Respond(r, FALSE) /\ UNCHANGED trade
  BY <1>2, RespondType DEF RestTypeOK
<1>3. ASSUME NEW networkOk \in BOOLEAN, NEW accepted \in BOOLEAN,
             trade' = [trade EXCEPT ![t] =
                  DoLogin(InitInterface(trade[t], networkOk), r.acct, r.id, accepted)],
             Respond(r, LoginOk(InitInterface(trade[t], networkOk), accepted))
      PROVE  RestTypeOK'
  <2>1. DoLogin(InitInterface(trade[t], networkOk), r.acct, r.id, accepted) \in Instances
    <3>1. InitInterface(trade[t], networkOk) \in Instances
      BY <1>1, InitInterfaceType
    <3>2. r.acct \in Accounts /\ r.id \in Nat \ {0}
      BY <1>1 DEF Requests
    <3> QED BY <3>1, <3>2, DoLoginType
  <2>2. LoginOk(InitInterface(trade[t], networkOk), accepted) \in BOOLEAN
    BY DEF LoginOk
  <2>3. trade' \in [Trades -> Instances]
    BY <1>3, <2>1 DEF RestTypeOK
  <2> QED BY <1>3, <2>2, <2>3, RespondType DEF RestTypeOK
<1> QED BY <1>2, <1>3 DEF LoginOn

\* The instance of a mapped account is an instance.
LEMMA MappedFacts ==
    ASSUME WorkerInv, NEW k \in Mapped
    PROVE  interfaceMap[k] \in Trades /\ trade[interfaceMap[k]] \in Instances
  BY DEF WorkerInv, PoolInv, PoolTypeOK, RestTypeOK, Mapped

\* Serving a request keeps the types.
LEMMA RequestType ==
    ASSUME WorkerInv, ProcessRequest
    PROVE  RestTypeOK'
<1> DEFINE r == Head(queue)
           t == interfaceMap[r.acct]
<1>0. RestTypeOK
  BY DEF WorkerInv
<1>1. Front("request") /\ r \in Requests
  BY <1>0, FrontFacts
  DEF ProcessRequest, ServeLoginAgain, ServeLoginStored, ServeLoginCreate,
      ServeRefused, ServeLogout, ServeQuery, ServeOrder, ServeSilent,
      ServePoll, LoggedIn
<1>2. ASSUME Crash PROVE RestTypeOK'
  BY <1>0, <1>2 DEF Crash, RestTypeOK
<1>3. ASSUME NEW ok \in BOOLEAN, Respond(r, ok), UNCHANGED trade PROVE RestTypeOK'
  BY <1>0, <1>1, <1>3, RespondType DEF RestTypeOK
<1>4. ASSUME NEW ok \in BOOLEAN, Respond(r, ok), NEW u \in Trades, NEW g \in Instances,
             trade' = [trade EXCEPT ![u] = g]
      PROVE  RestTypeOK'
  <2>1. trade' \in [Trades -> Instances]
    BY <1>0, <1>4 DEF RestTypeOK
  <2> QED BY <1>0, <1>1, <1>4, <2>1, RespondType DEF RestTypeOK
<1>5. CASE ServeLoginAgain
  <2>1. r.acct \in Mapped /\ LoginOn(t, r)
    BY <1>5 DEF ServeLoginAgain
  <2> QED BY <1>0, <1>1, <2>1, LoginOnType, MappedFacts
<1>6. CASE ServeLoginStored
  <2>1. interfaceStore[Len(interfaceStore)] \in Trades
    BY <1>6, PopBackFacts DEF ServeLoginStored, WorkerInv, PoolInv, PoolTypeOK
  <2> QED BY <1>0, <1>1, <1>6, <2>1, LoginOnType DEF ServeLoginStored
<1>7. CASE ServeLoginCreate
  <2>1. MakeNew(r.acct)
    BY <1>1, <1>7 DEF ServeLoginCreate, MakeNew, Requests
  <2>2. created + 1 \in Trades
    BY <2>1, MakeNewSafe DEF WorkerInv
  <2> QED BY <1>0, <1>1, <1>7, <2>2, LoginOnType DEF ServeLoginCreate
<1>8. CASE ServeRefused
  BY <1>3, <1>8 DEF ServeRefused
<1>9. ASSUME NEW type, LoggedIn(type) PROVE t \in Trades /\ trade[t] \in Instances
  BY <1>9, MappedFacts DEF LoggedIn
<1>10. CASE ServeLogout
  <2>1. t \in Trades /\ trade[t] \in Instances
    BY <1>9, <1>10 DEF ServeLogout
  <2>2. \/ Crash
        \/ Respond(r, FALSE) /\ UNCHANGED trade
        \/ \E released \in BOOLEAN :
              trade' = [trade EXCEPT ![t] = Logout(trade[t], released)] /\ Respond(r, TRUE)
    BY <1>10 DEF ServeLogout
  <2>3. \A released \in BOOLEAN : Logout(trade[t], released) \in Instances
    BY <2>1, LogoutType
  <2> QED BY <1>2, <1>3, <1>4, <2>1, <2>2, <2>3
<1>11. CASE ServeQuery \/ ServeSilent
  <2>1. Crash \/ \E ok \in BOOLEAN : Respond(r, ok) /\ UNCHANGED trade
    BY <1>11 DEF ServeQuery, ServeSilent, Refuse
  <2> QED BY <1>2, <1>3, <2>1
<1>12. CASE ServeOrder
  <2>1. t \in Trades /\ trade[t] \in Instances
    BY <1>9, <1>12 DEF ServeOrder
  <2>2. \/ Crash
        \/ Respond(r, FALSE) /\ UNCHANGED trade
        \/ \E accepted \in BOOLEAN :
              /\ trade' = [trade EXCEPT ![t] =
                             SendOrder(trade[t], r.type, r.id, r.acct, accepted)]
              /\ Respond(r, accepted)
    BY <1>12 DEF ServeOrder, Refuse
  <2>3. r.type \in Types \cap LaterTypes
    BY <1>1, <1>12, TypesAssumption DEF ServeOrder, LoggedIn, Requests, LaterTypes
  <2>4. \A accepted \in BOOLEAN :
           SendOrder(trade[t], r.type, r.id, r.acct, accepted) \in Instances
    BY <1>1, <2>1, <2>3, SendOrderType DEF Requests
  <2> QED BY <1>2, <1>3, <1>4, <2>1, <2>2, <2>4
<1>13. CASE ServePoll
  <2>1. HasResponse(trade[t], r.ask, r.sid) \in BOOLEAN
    BY DEF HasResponse
  <2> QED BY <1>3, <1>13, <2>1 DEF ServePoll
<1> QED BY <1>5, <1>6, <1>7, <1>8, <1>10, <1>11, <1>12, <1>13 DEF ProcessRequest

\* Serving a request ends in one response, or in a crash.
LEMMA RespondsOnce ==
    ASSUME ProcessRequest
    PROVE  Front("request") /\ (Crash \/ \E ok \in BOOLEAN : Respond(Head(queue), ok))
<1>1. ASSUME NEW t, LoginOn(t, Head(queue))
      PROVE  \E ok \in BOOLEAN : Respond(Head(queue), ok)
  BY <1>1 DEF LoginOn, LoginOk
<1>2. CASE ServeLoginAgain \/ ServeLoginStored \/ ServeLoginCreate
  BY <1>1, <1>2 DEF ServeLoginAgain, ServeLoginStored, ServeLoginCreate
<1>3. CASE ServeRefused \/ ServeQuery \/ ServeSilent
  BY <1>3 DEF ServeRefused, ServeQuery, ServeSilent, Refuse, LoggedIn
<1>4. CASE ServeLogout \/ ServeOrder
  BY <1>4 DEF ServeLogout, ServeOrder, Refuse, LoggedIn
<1>5. CASE ServePoll
  BY <1>5 DEF ServePoll, LoggedIn, HasResponse
<1> QED BY <1>2, <1>3, <1>4, <1>5 DEF ProcessRequest

\* Serving an event, the heartbeat and check_active keep the types.
LEMMA OtherType ==
    ASSUME WorkerInv, ProcessCallback \/ HeartBeat \/ CheckActive
    PROVE  RestTypeOK'
<1>0. RestTypeOK
  BY DEF WorkerInv
<1>1. CASE CallbackUnknown \/ CallbackLoginFailed
  BY <1>0, <1>1, FrontFacts
  DEF CallbackUnknown, CallbackLoginFailed, Front, RestTypeOK
<1>2. CASE CallbackDeliver
  <2> DEFINE cb == Head(queue)
             t == interfaceMap[cb.acct]
  <2>1. cb \in Callbacks /\ Tail(queue) \in Seq(Requests \cup Callbacks)
    BY <1>0, <1>2, FrontFacts DEF CallbackDeliver, Front
  <2>2. t \in Trades /\ trade[t] \in Instances
    BY <1>2, MappedFacts DEF CallbackDeliver
  <2>3. OnCallback(trade[t], cb) \in Instances
    BY <2>1, <2>2, OnCallbackType
  <2>4. trade' \in [Trades -> Instances]
    BY <1>0, <1>2, <2>2, <2>3 DEF CallbackDeliver, RestTypeOK
  <2> QED BY <1>0, <1>2, <2>1, <2>4 DEF CallbackDeliver, RestTypeOK
<1>3. CASE HeartBeat
  <2>1. CASE Crash
    BY <1>0, <2>1 DEF Crash, RestTypeOK
  <2>2. ASSUME NEW failed,
               trade' = [t \in Trades |-> IF t \in failed THEN HeartBeatFailed(trade[t])
                                          ELSE trade[t]],
               UNCHANGED <<queue, nreq, replies, up>>
        PROVE  RestTypeOK'
    <3>1. \A t \in Trades : HeartBeatFailed(trade[t]) \in Instances
      BY <1>0, StatusType DEF RestTypeOK
    <3> QED BY <1>0, <2>2, <3>1 DEF RestTypeOK
  <2> QED BY <1>3, <2>1, <2>2 DEF HeartBeat
<1>4. CASE CheckActive
  BY <1>0, <1>4 DEF CheckActive, RestTypeOK
<1> QED BY <1>1, <1>2, <1>3, <1>4 DEF ProcessCallback

-----------------------------------------------------------------------------
(* The theorems.                                                           *)

\* The worker starts with InitCap instances in its store and no customer.
LEMMA WorkerInvInit == Init => WorkerInv
<1> SUFFICES ASSUME Init PROVE WorkerInv
  OBVIOUS
<1>1. interfaceStore = [i \in 1 .. InitCap |-> i] /\ created = InitCap
      /\ InitCap \in Nat /\ InitCap <= MapCap /\ 1 .. InitCap \subseteq Trades
  BY CapAssumption DEF Init, Trades
<1>2. interfaceStore \in Seq(Trades)
  <2>1. interfaceStore \in [1 .. InitCap -> Trades]
    BY <1>1
  <2> QED BY <1>1, <2>1, FunctionIsBuffer
<1>3. Mapped = {} /\ Stored = 1 .. created
  BY <1>1 DEF Init, Mapped, Stored
<1>4. PoolInv
  BY <1>1, <1>2, <1>3
  DEF PoolInv, PoolTypeOK, EachInstanceOnce, InstanceLimit, Init, None
<1>5. RestTypeOK
  BY NewInstanceType DEF Init, RestTypeOK
<1> QED BY <1>4, <1>5 DEF WorkerInv

\* The inductive invariant is kept by every step.
LEMMA WorkerInvNext == WorkerInv /\ [Next]_vars => WorkerInv'
<1> SUFFICES ASSUME WorkerInv, [Next]_vars PROVE WorkerInv'
  OBVIOUS
<1>1. PoolInv'
  BY PoolInvNext
<1>2. RestTypeOK'
  <2>0. RestTypeOK
    BY DEF WorkerInv
  <2>1. CASE UNCHANGED vars
    BY <2>0, <2>1 DEF RestTypeOK, vars
  <2>2. CASE Next
    BY <2>0, <2>2, ArriveType, SdkType, RequestType, OtherType DEF Next
  <2> QED BY <2>1, <2>2
<1> QED BY <1>1, <1>2 DEF WorkerInv

\* Every reachable state is well typed; in particular a new instance is always
\* one of the MapCap + 1 the model provides.
THEOREM TypeCorrect == Spec => []TypeOK
<1>1. WorkerInv => TypeOK
  BY DEF WorkerInv, PoolInv, PoolTypeOK, RestTypeOK, TypeOK
<1> QED BY <1>1, WorkerInvInit, WorkerInvNext, PTL DEF Spec

\* No instance is lost or serves two accounts, whatever the events do.
THEOREM InstancesConserved == Spec => []EachInstanceOnce
<1>1. WorkerInv => EachInstanceOnce
  BY DEF WorkerInv, PoolInv
<1> QED BY <1>1, WorkerInvInit, WorkerInvNext, PTL DEF Spec

\* A thread never has more instances than the limit, though it only ever tests
\* the number of accounts in its map.
THEOREM LimitHolds == Spec => []InstanceLimit
<1>1. WorkerInv => InstanceLimit
  BY DEF WorkerInv, PoolInv
<1> QED BY <1>1, WorkerInvInit, WorkerInvNext, PTL DEF Spec

\* The thread implements the abstract pool: each of its steps is an assignment,
\* a new instance, a return of instances, or no step of the pool at all.
THEOREM Refinement == Spec => PoolRefined
<1>1. Init => Pool!PoolInit
  <2> SUFFICES ASSUME Init PROVE Pool!PoolInit
    OBVIOUS
  <2>1. Stored = 1 .. InitCap
    BY DEF Init, Stored
  <2> QED BY <2>1 DEF Init, Pool!PoolInit, None
<1>2. WorkerInv /\ [Next]_vars => [Pool!PoolNext]_(Pool!poolVars)
  BY PoolInvNext
<1> QED BY <1>1, <1>2, WorkerInvInit, WorkerInvNext, PTL
        DEF Spec, PoolRefined, Pool!PoolSpec

-----------------------------------------------------------------------------
(* The order of the responses.                                             *)

\* The first c tasks are events, the others the latest requests.
EventsBefore(c) ==
    /\ \A i \in 1 .. c : queue[i].kind = "callback"
    /\ \A i \in (c + 1) .. Len(queue) :
          queue[i].kind = "request" /\ queue[i].id = nreq - Len(queue) + i
    /\ {r.id : r \in replies} = 1 .. (nreq - (Len(queue) - c))
    /\ \A r, s \in replies : r.id = s.id => r = s

\* A request appended with the next number keeps the requests in order.
LEMMA PushKeepsOrder ==
    ASSUME RestTypeOK, AnsweredInOrder, NEW r \in Requests, r.id = nreq + 1,
           queue' = Append(queue, r), nreq' = nreq + 1, UNCHANGED replies
    PROVE  AnsweredInOrder'
<1> PICK c \in 0 .. Len(queue) : EventsBefore(c)
  BY DEF AnsweredInOrder, EventsBefore
<1>1. queue \in Seq(Requests \cup Callbacks) /\ Len(queue) \in Nat /\ nreq \in Nat
  BY DEF RestTypeOK
<1>2. Len(queue') = Len(queue) + 1 /\ queue'[Len(queue) + 1] = r
      /\ \A i \in 1 .. Len(queue) : queue'[i] = queue[i]
  BY <1>1
<1>3. \A i \in 1 .. c : queue'[i].kind = "callback"
  BY <1>1, <1>2 DEF EventsBefore
<1>4. ASSUME NEW i \in (c + 1) .. Len(queue')
      PROVE  queue'[i].kind = "request" /\ queue'[i].id = nreq' - Len(queue') + i
  <2>1. CASE i = Len(queue) + 1
    BY <1>1, <1>2, <2>1 DEF Requests
  <2>2. CASE i \in (c + 1) .. Len(queue)
    <3>1. queue[i].kind = "request" /\ queue[i].id = nreq - Len(queue) + i
      BY <2>2 DEF EventsBefore
    <3> QED BY <1>1, <1>2, <2>2, <3>1
  <2> QED BY <1>1, <1>2, <2>1, <2>2
<1>5. nreq' - (Len(queue') - c) = nreq - (Len(queue) - c) /\ c \in 0 .. Len(queue')
  BY <1>1, <1>2
<1> QED BY <1>3, <1>4, <1>5 DEF AnsweredInOrder, EventsBefore

\* An event pushed at the front leaves the requests where they were.
LEMMA PushFrontKeepsOrder ==
    ASSUME RestTypeOK, AnsweredInOrder, NEW cb \in Callbacks,
           queue' = <<cb>> \o queue, UNCHANGED <<nreq, replies>>
    PROVE  AnsweredInOrder'
<1> PICK c \in 0 .. Len(queue) : EventsBefore(c)
  BY DEF AnsweredInOrder, EventsBefore
<1>1. queue \in Seq(Requests \cup Callbacks) /\ Len(queue) \in Nat /\ nreq \in Nat
  BY DEF RestTypeOK
<1>2. Len(queue') = Len(queue) + 1 /\ queue'[1] = cb
      /\ \A i \in 2 .. Len(queue') : queue'[i] = queue[i - 1]
  BY <1>1
<1>3. cb.kind = "callback"
  BY DEF Callbacks
<1>4. \A i \in 1 .. (c + 1) : queue'[i].kind = "callback"
  BY <1>1, <1>2, <1>3 DEF EventsBefore
<1>5. ASSUME NEW i \in (c + 1 + 1) .. Len(queue')
      PROVE  queue'[i].kind = "request" /\ queue'[i].id = nreq - Len(queue') + i
  <2>1. i - 1 \in (c + 1) .. Len(queue) /\ queue'[i] = queue[i - 1]
    BY <1>1, <1>2
  <2>2. queue[i - 1].kind = "request" /\ queue[i - 1].id = nreq - Len(queue) + (i - 1)
    BY <2>1 DEF EventsBefore
  <2> QED BY <1>1, <1>2, <2>1, <2>2
<1>6. nreq - (Len(queue') - (c + 1)) = nreq - (Len(queue) - c)
      /\ c + 1 \in 0 .. Len(queue')
  BY <1>1, <1>2
<1> QED BY <1>4, <1>5, <1>6 DEF AnsweredInOrder, EventsBefore

\* What pop leaves, whatever the task.
LEMMA PopPositions ==
    ASSUME RestTypeOK, queue # <<>>, queue' = Tail(queue)
    PROVE  /\ Len(queue) \in Nat \ {0} /\ nreq \in Nat /\ Head(queue) = queue[1]
           /\ Len(queue') = Len(queue) - 1
           /\ \A i \in 1 .. Len(queue') : queue'[i] = queue[i + 1]
  BY DEF RestTypeOK

\* Popping an event leaves the requests where they were.
LEMMA PopEventKeepsOrder ==
    ASSUME RestTypeOK, AnsweredInOrder, Front("callback"),
           queue' = Tail(queue), UNCHANGED <<nreq, replies>>
    PROVE  AnsweredInOrder'
<1> PICK c \in 0 .. Len(queue) : EventsBefore(c)
  BY DEF AnsweredInOrder, EventsBefore
<1>1. /\ Len(queue) \in Nat \ {0} /\ nreq \in Nat /\ Head(queue) = queue[1]
      /\ Len(queue') = Len(queue) - 1
      /\ \A i \in 1 .. Len(queue') : queue'[i] = queue[i + 1]
  BY PopPositions DEF Front
<1>2. c # 0
  BY <1>1 DEF EventsBefore, Front
<1>3. \A i \in 1 .. (c - 1) : queue'[i].kind = "callback"
  BY <1>1, <1>2 DEF EventsBefore
<1>4. ASSUME NEW i \in (c - 1 + 1) .. Len(queue')
      PROVE  queue'[i].kind = "request" /\ queue'[i].id = nreq - Len(queue') + i
  <2>1. i + 1 \in (c + 1) .. Len(queue) /\ queue'[i] = queue[i + 1]
    BY <1>1, <1>2
  <2>2. queue[i + 1].kind = "request" /\ queue[i + 1].id = nreq - Len(queue) + (i + 1)
    BY <2>1 DEF EventsBefore
  <2>3. nreq - Len(queue') + i = nreq - Len(queue) + (i + 1)
    BY <1>1, <2>1
  <2> QED BY <2>1, <2>2, <2>3
<1>5. nreq - (Len(queue') - (c - 1)) = nreq - (Len(queue) - c)
      /\ c - 1 \in 0 .. Len(queue')
  BY <1>1, <1>2
<1> QED BY <1>3, <1>4, <1>5 DEF AnsweredInOrder, EventsBefore

\* Popping a request and answering it moves its number from the waiting
\* requests to the answered ones.
LEMMA RespondKeepsOrder ==
    ASSUME RestTypeOK, AnsweredInOrder, Front("request"), NEW ok,
           Respond(Head(queue), ok)
    PROVE  AnsweredInOrder'
<1> PICK c \in 0 .. Len(queue) : EventsBefore(c)
  BY DEF AnsweredInOrder, EventsBefore
<1> DEFINE r == Head(queue)
           a == [id |-> r.id, acct |-> r.acct, type |-> r.type, ok |-> ok]
           n == nreq - Len(queue)
<1>1. /\ Len(queue) \in Nat \ {0} /\ nreq \in Nat /\ Head(queue) = queue[1]
      /\ Len(queue') = Len(queue) - 1
      /\ \A i \in 1 .. Len(queue') : queue'[i] = queue[i + 1]
  BY PopPositions DEF Front, Respond
<1>2. c = 0
  BY <1>1 DEF EventsBefore, Front
<1>3. r.id = n + 1 /\ r.id \in Nat \ {0} /\ n \in Nat
  <2>1. r.id = n + 1
    BY <1>1, <1>2 DEF EventsBefore
  <2>2. r.id \in Nat \ {0}
    BY FrontFacts DEF Requests
  <2> QED BY <1>1, <2>1, <2>2
<1>4. replies' = replies \cup {a} /\ nreq' = nreq /\ a.id = r.id
  BY DEF Respond
<1>5. {s.id : s \in replies} = 1 .. n
  BY <1>1, <1>2 DEF EventsBefore
<1> HIDE DEF r, a, n
<1>6. {s.id : s \in replies'} = 1 .. (nreq' - (Len(queue') - 0))
  <2>1. {s.id : s \in replies'} = (1 .. n) \cup {n + 1}
    BY <1>3, <1>4, <1>5
  <2>2. nreq' - (Len(queue') - 0) = n + 1
    BY <1>1, <1>4 DEF n
  <2> QED BY <1>3, <2>1, <2>2
<1>7. \A s, u \in replies' : s.id = u.id => s = u
  <2>1. \A s \in replies : s.id # a.id
    <3>1. \A s \in replies : s.id \in 1 .. n
      BY <1>5
    <3>2. n + 1 \notin 1 .. n
      BY <1>3
    <3> QED BY <1>3, <1>4, <3>1, <3>2
  <2> QED BY <1>4, <2>1 DEF EventsBefore
<1>8. ASSUME NEW i \in (0 + 1) .. Len(queue')
      PROVE  queue'[i].kind = "request" /\ queue'[i].id = nreq' - Len(queue') + i
  <2>1. i + 1 \in (c + 1) .. Len(queue) /\ queue'[i] = queue[i + 1]
    BY <1>1, <1>2
  <2>2. queue[i + 1].kind = "request" /\ queue[i + 1].id = nreq - Len(queue) + (i + 1)
    BY <2>1 DEF EventsBefore
  <2> QED BY <1>1, <1>4, <2>1, <2>2
<1>9. \A i \in 1 .. 0 : queue'[i].kind = "callback"
  OBVIOUS
<1>10. 0 \in 0 .. Len(queue')
  BY <1>1
<1> QED BY <1>6, <1>7, <1>8, <1>9, <1>10 DEF AnsweredInOrder

\* Nothing has arrived and nothing has been answered.
LEMMA OrderInit == Init => AnsweredInOrder
<1> SUFFICES ASSUME Init PROVE AnsweredInOrder
  OBVIOUS
<1>1. queue = <<>> /\ nreq = 0 /\ replies = {} /\ Len(queue) = 0
  BY DEF Init
<1>2. EventsBefore(0)
  BY <1>1 DEF EventsBefore
<1> QED BY <1>1, <1>2 DEF AnsweredInOrder, EventsBefore

\* Every step keeps the requests in order of arrival and answered once.
LEMMA OrderNext == WorkerInv /\ AnsweredInOrder /\ [Next]_vars => AnsweredInOrder'
<1> SUFFICES ASSUME WorkerInv, AnsweredInOrder, [Next]_vars PROVE AnsweredInOrder'
  OBVIOUS
<1>0. RestTypeOK
  BY DEF WorkerInv
<1>1. ASSUME UNCHANGED <<queue, nreq, replies>> PROVE AnsweredInOrder'
  BY <1>1 DEF AnsweredInOrder
<1>2. ASSUME NEW k \in Accounts, Arrive(k) PROVE AnsweredInOrder'
  <2>1. PICK type \in Types, ask \in Types \cup ResultTypes, sid \in Nat :
           Push(k, type, ask, sid)
    BY <1>0, <1>2, ArrivePushes
  <2> DEFINE r == [kind |-> "request", id |-> nreq + 1, acct |-> k, type |-> type,
                   ask |-> ask, sid |-> sid]
  <2>2. r \in Requests /\ r.id = nreq + 1
    BY <1>0 DEF Requests, RestTypeOK
  <2>3. queue' = Append(queue, r) /\ nreq' = nreq + 1 /\ UNCHANGED replies
    BY <2>1 DEF Push
  <2> HIDE DEF r
  <2> QED BY <1>0, <2>2, <2>3, PushKeepsOrder
<1>3. ASSUME NEW t \in Trades, SdkAnswer(t) \/ Kick(t) \/ Elapse(t)
      PROVE  AnsweredInOrder'
  <2>1. CASE Elapse(t)
    BY <1>1, <2>1 DEF Elapse
  <2>2. CASE SdkAnswer(t) \/ Kick(t)
    <3>1. (\E cb \in Callbacks : queue' = <<cb>> \o queue) \/ UNCHANGED queue
      BY <1>0, <2>2, SdkPushesFront
    <3>2. UNCHANGED <<nreq, replies>>
      BY <2>2 DEF SdkAnswer, Kick
    <3> QED BY <1>0, <1>1, <3>1, <3>2, PushFrontKeepsOrder
  <2> QED BY <1>3, <2>1, <2>2
<1>4. CASE ProcessRequest
  <2>1. Front("request") /\ (Crash \/ \E ok \in BOOLEAN : Respond(Head(queue), ok))
    BY <1>4, RespondsOnce
  <2> QED BY <1>0, <1>1, <2>1, RespondKeepsOrder DEF Crash
<1>5. CASE ProcessCallback
  BY <1>0, <1>5, PopEventKeepsOrder
  DEF ProcessCallback, CallbackUnknown, CallbackLoginFailed, CallbackDeliver
<1>6. CASE HeartBeat \/ CheckActive \/ UNCHANGED vars
  BY <1>1, <1>6 DEF HeartBeat, Crash, CheckActive, vars
<1> QED BY <1>2, <1>3, <1>4, <1>5, <1>6 DEF Next

\* Requests are answered once each and in the order of arrival, however many
\* events overtake them.
THEOREM ResponseOrder == Spec => []AnsweredInOrder
<1>1. Init => WorkerInv /\ AnsweredInOrder
  BY WorkerInvInit, OrderInit
<1>2. WorkerInv /\ AnsweredInOrder /\ [Next]_vars => (WorkerInv /\ AnsweredInOrder)'
  BY WorkerInvNext, OrderNext
<1> QED BY <1>1, <1>2, PTL DEF Spec
-----------------------------------------------------------------------------
(* The sessions, when clients and SDK are orderly: no customer logs in     *)
(* again before he is answered, no event DROPUSER or LOGACCERR comes, and  *)
(* check_active does not run while a login is under way.                   *)

Orderly == Env \cap {"overlap", "late", "drop"} = {}

\* A task of the buffer that belongs to a login: the request or the event.
LoginTask(x) ==
    \/ x.kind = "request" /\ x.type = "login"
    \/ x.kind = "callback" /\ x.ev = "login"

\* The account is mapped to the instance, which has an interface and waits for
\* the answer to the account's login.
Awaits(k, t) ==
    /\ k \in Mapped /\ interfaceMap[k] = t
    /\ trade[t].acct = k /\ trade[t].status = "out" /\ trade[t].iface

\* A customer has one login task at a time.
OneLoginTask ==
    \A i, j \in DOMAIN queue :
        LoginTask(queue[i]) /\ LoginTask(queue[j]) /\ queue[i].acct = queue[j].acct => i = j

\* While the SDK has a login, nothing of that customer's login is in the buffer.
PendingLogins ==
    \A t \in Trades : \A p \in trade[t].pend :
        p.op = "login" =>
            /\ Awaits(p.for, t)
            /\ \A r \in trade[t].pend : r.op = "login" => r = p
            /\ \A x \in Queued : LoginTask(x) => x.acct # p.for

\* The event that answers a login finds the instance that waits for it, with
\* the customer's session if it succeeded.
LoginEvents ==
    \A x \in Queued :
        x.kind = "callback" /\ x.ev = "login" =>
            /\ Awaits(x.acct, interfaceMap[x.acct])
            /\ x.success => trade[interfaceMap[x.acct]].sess = x.acct

FreshUntouched == \A t \in Trades : t > created => trade[t] = NewInstance

SessionInv ==
    /\ OneLoginTask /\ PendingLogins /\ LoginEvents /\ FreshUntouched
    /\ OwnSession /\ SpareLoggedOut /\ NoInvalidPointer

\* A login is no order.
LEMMA LoginNotLater == "login" \notin LaterTypes
<1>1. \A r \in Table : r.type = "login" => r.serve = "login"
  BY DEF Table, Session, AccountQueries, MarketConf, LimitConf, DeliveryConf,
           PositionQueries, OrderQueries, TotalQuery, QueryById, Unknown,
           OpenMarket, CloseMarket, CloseMany, OpenLimit, CloseLimit, LimitRevoke,
           OpenDelivery, HoldPositionReport, ClosePositionReport, LimitOrderReport,
           Money, Passwords, FundFlow, SignResult, PayForward, AllowLogin, Poll,
           Now, Later, Other
<1>2. \E r \in Table : r.type = "login"
  <2>1. Other("login", "login", TRUE) \in Table
    BY DEF Table, Session
  <2> QED BY <2>1 DEF Other
<1>3. Row("login") \in Table /\ Row("login").type = "login"
  BY <1>2 DEF Row
<1> QED BY <1>1, <1>3 DEF LaterTypes, Serve

\* Every order has an event that answers it, and no such event is filed as a
\* login.
LEMMA FiledNotLogin == \A y \in LaterTypes : Filed(y) # "login"
<1> DEFINE answers == {"OPENMARKETORDER", "CLOSEMARKETORDER", "OPENLIMITORDER",
           "LIMITCLOSEPOSITION", "LIMITREVOKE", "MONEYINOUT", "MONEYQUERY",
           "HOLDPOSITIONREPORT", "CLOSEPOSITIONREPORT", "LIMITORDERREPORT", "PWDMODIFY",
           "FUNDFLOWQUERY", "OPENDELIVERYORDER", "SIGNRESULTNOTIFYQUERY", "PAYFORWARD",
           "CUSTOMERALLOWLOGIN"}
<1>1. \A r \in Table : r.serve = "later" => \E e \in Events : e.event = r.event
  <2>1. \A r \in Table : r.serve = "later" => r.event \in answers
    BY DEF Table, Session, AccountQueries, MarketConf, LimitConf, DeliveryConf,
           PositionQueries, OrderQueries, TotalQuery, QueryById, Unknown,
           OpenMarket, CloseMarket, CloseMany, OpenLimit, CloseLimit, LimitRevoke,
           OpenDelivery, HoldPositionReport, ClosePositionReport, LimitOrderReport,
           Money, Passwords, FundFlow, SignResult, PayForward, AllowLogin, Poll,
           Now, Later, Other
  <2>2. answers \subseteq {e.event : e \in Events}
    <3> DEFINE of(G) == {e.event : e \in G}
    <3>1. of(OrderEvents) = {"OPENMARKETORDER", "CLOSEMARKETORDER", "OPENLIMITORDER",
                             "LIMITCLOSEPOSITION", "LIMITREVOKE"}
      BY DEF OrderEvents
    <3>2. of(MoneyEvents) = {"MONEYINOUT", "MONEYQUERY"}
      BY DEF MoneyEvents
    <3>3. /\ of(HoldPositionEvents) = {"HOLDPOSITIONREPORT"}
          /\ of(DroppedEvents) = {"CUSTOMERALLOWLOGIN"}
      BY DEF HoldPositionEvents, DroppedEvents
    <3>4. of(ReportEvents) = {"CLOSEPOSITIONREPORT", "LIMITORDERREPORT"}
      BY DEF ReportEvents
    <3>5. of(AccountEvents) = {"PWDMODIFY", "FUNDFLOWQUERY"}
      BY DEF AccountEvents
    <3>6. of(BankEvents) = {"OPENDELIVERYORDER", "SIGNRESULTNOTIFYQUERY", "PAYFORWARD"}
      BY DEF BankEvents
    <3>7. \A G \in {OrderEvents, MoneyEvents, HoldPositionEvents, ReportEvents,
                    AccountEvents, BankEvents, DroppedEvents} : of(G) \subseteq of(Events)
      BY DEF Events
    <3> HIDE DEF of
    <3>8. answers = UNION {of(OrderEvents), of(MoneyEvents), of(HoldPositionEvents),
                           of(ReportEvents), of(AccountEvents), of(BankEvents),
                           of(DroppedEvents)}
      BY <3>1, <3>2, <3>3, <3>4, <3>5, <3>6
    <3>9. of(Events) = {e.event : e \in Events}
      BY DEF of
    <3> QED BY <3>7, <3>8, <3>9
  <2> QED BY <2>1, <2>2
<1>2. \A e \in Events : e.filed # "login"
  BY DEF Events, OrderEvents, MoneyEvents, HoldPositionEvents,
                 ReportEvents, AccountEvents, BankEvents, DroppedEvents, NoType
<1>3. ASSUME NEW y \in LaterTypes PROVE Filed(y) \in {e.filed : e \in Events}
  <2>1. Row(y) \in Table /\ Row(y).serve = "later"
    BY DEF LaterTypes, Row, Serve, RequestTypes
  <2>2. \E e \in Events : e.event = Row(y).event
    BY <1>1, <2>1
  <2> QED BY <2>2 DEF Filed
<1> QED BY <1>2, <1>3

\* A task that is taken leaves the others, and nothing else of its login.
LEMMA TakeTask ==
    ASSUME RestTypeOK, OneLoginTask, queue # <<>>, queue' = Tail(queue)
    PROVE  /\ OneLoginTask' /\ Queued' \subseteq Queued /\ Head(queue) \in Queued
           /\ LoginTask(Head(queue)) =>
                 \A x \in Queued' : LoginTask(x) => x.acct # Head(queue).acct
<1>1. /\ Len(queue) \in Nat \ {0} /\ DOMAIN queue = 1 .. Len(queue)
      /\ DOMAIN queue' = 1 .. (Len(queue) - 1) /\ Head(queue) = queue[1]
      /\ \A i \in DOMAIN queue' : i + 1 \in DOMAIN queue /\ queue'[i] = queue[i + 1]
  BY DEF RestTypeOK
<1>2. Queued' \subseteq Queued /\ Head(queue) \in Queued
  BY <1>1 DEF Queued
<1>3. ASSUME NEW i \in DOMAIN queue', NEW j \in DOMAIN queue',
             LoginTask(queue'[i]), LoginTask(queue'[j]), queue'[i].acct = queue'[j].acct
      PROVE  i = j
  <2>1. i + 1 = j + 1
    BY <1>1, <1>3 DEF OneLoginTask
  <2> QED BY <1>1, <2>1
<1>4. ASSUME LoginTask(Head(queue)), NEW i \in DOMAIN queue', LoginTask(queue'[i])
      PROVE  queue'[i].acct # Head(queue).acct
  <2> SUFFICES ASSUME queue'[i].acct = Head(queue).acct PROVE FALSE
    OBVIOUS
  <2>1. i + 1 = 1
    BY <1>1, <1>4 DEF OneLoginTask
  <2> QED BY <1>1, <2>1
<1>5. OneLoginTask'
  BY <1>3 DEF OneLoginTask, LoginTask
<1>6. LoginTask(Head(queue)) =>
         \A x \in Queued' : LoginTask(x) => x.acct # Head(queue).acct
  BY <1>4 DEF Queued
<1> QED BY <1>2, <1>5, <1>6

\* A task that is added, at whatever end, is the only one of its login if there
\* was none.
LEMMA AddTask ==
    ASSUME RestTypeOK, OneLoginTask, NEW x \in Requests \cup Callbacks,
           queue' = Append(queue, x) \/ queue' = <<x>> \o queue,
           LoginTask(x) => \A y \in Queued : LoginTask(y) => y.acct # x.acct
    PROVE  OneLoginTask' /\ Queued' = Queued \cup {x}
<1>0. queue \in Seq(Requests \cup Callbacks)
  BY DEF RestTypeOK
<1>1. CASE queue' = Append(queue, x)
  <2>1. /\ Len(queue) \in Nat /\ DOMAIN queue = 1 .. Len(queue)
        /\ DOMAIN queue' = 1 .. (Len(queue) + 1) /\ queue'[Len(queue) + 1] = x
        /\ \A i \in DOMAIN queue : queue'[i] = queue[i]
    BY <1>0, <1>1
  <2>2. \A i \in DOMAIN queue' : i \in DOMAIN queue \/ i = Len(queue) + 1
    BY <2>1
  <2>3. Queued' = Queued \cup {x}
    <3>1. Queued' \subseteq Queued \cup {x}
      BY <2>1, <2>2 DEF Queued
    <3>2. Queued \cup {x} \subseteq Queued'
      <4>1. \A i \in DOMAIN queue : i \in DOMAIN queue'
        BY <2>1
      <4>2. Len(queue) + 1 \in DOMAIN queue'
        BY <2>1
      <4> QED BY <2>1, <4>1, <4>2 DEF Queued
    <3> QED BY <3>1, <3>2
  <2>4. \A i, j \in DOMAIN queue' :
           LoginTask(queue'[i]) /\ LoginTask(queue'[j]) /\ queue'[i].acct = queue'[j].acct
               => i = j
    <3>1. \A i \in DOMAIN queue : queue[i] \in Queued
      BY DEF Queued
    <3> QED BY <2>1, <2>2, <3>1 DEF OneLoginTask
  <2> QED BY <2>3, <2>4 DEF OneLoginTask, LoginTask
<1>2. CASE queue' = <<x>> \o queue
  <2>1. /\ Len(queue) \in Nat /\ DOMAIN queue = 1 .. Len(queue)
        /\ DOMAIN queue' = 1 .. (Len(queue) + 1) /\ queue'[1] = x
        /\ \A i \in DOMAIN queue : i + 1 \in DOMAIN queue' /\ queue'[i + 1] = queue[i]
    BY <1>0, <1>2
  <2>2. \A i \in DOMAIN queue' :
           i = 1 \/ (i - 1 \in DOMAIN queue /\ queue'[i] = queue[i - 1])
    BY <1>0, <1>2, PushFrontFacts
  <2>3. Queued' = Queued \cup {x}
    <3>1. Queued' \subseteq Queued \cup {x}
      BY <2>1, <2>2 DEF Queued
    <3>2. Queued \cup {x} \subseteq Queued'
      <4>1. 1 \in DOMAIN queue'
        BY <2>1
      <4> QED BY <2>1, <4>1 DEF Queued
    <3> QED BY <3>1, <3>2
  <2>4. ASSUME NEW i \in DOMAIN queue', NEW j \in DOMAIN queue',
               LoginTask(queue'[i]), LoginTask(queue'[j]), queue'[i].acct = queue'[j].acct
        PROVE  i = j
    <3>1. \A n \in DOMAIN queue : queue[n] \in Queued
      BY DEF Queued
    <3>2. CASE i = 1 \/ j = 1
      BY <2>1, <2>2, <2>4, <3>1, <3>2
    <3>3. CASE i # 1 /\ j # 1
      <4>1. i - 1 = j - 1
        BY <2>2, <2>4, <3>3 DEF OneLoginTask
      <4> QED BY <2>1, <4>1
    <3> QED BY <3>2, <3>3
  <2> QED BY <2>3, <2>4 DEF OneLoginTask, LoginTask
<1> QED BY <1>1, <1>2

\* A step that gives nobody an instance, a session or a login.
Calmer(g, h) ==
    /\ h.status \in {g.status, "out"}
    /\ h.acct = g.acct /\ h.iface = g.iface /\ h.sess = g.sess
    /\ \A p \in h.pend : p.op = "login" => p \in g.pend

LEMMA CalmStep ==
    ASSUME WorkerInv, SessionInv, UNCHANGED <<pool, up>>, OneLoginTask',
           \A x \in Queued' :
               LoginTask(x) => \/ x \in Queued
                               \/ x.kind = "request" /\ ~LoginOutstanding(x.acct),
           \A t \in Trades : Calmer(trade[t], trade'[t]),
           \A t \in Trades : t > created => trade'[t] = trade[t]
    PROVE  SessionInv'
<1>0. UNCHANGED <<interfaceMap, interfaceStore, created, up>> /\ Mapped' = Mapped
      /\ Stored' = Stored
  BY DEF pool, Mapped, Stored
<1>1. \A k \in Mapped : interfaceMap[k] \in Trades
  BY MappedFacts
<1>2. Stored \subseteq Trades
  BY DEF WorkerInv, PoolInv, PoolTypeOK, Stored
<1>3. \A k : \A t \in Trades : Awaits(k, t) => Awaits(k, t)'
  BY <1>0 DEF Awaits, Calmer
<1>4. PendingLogins'
  <2> SUFFICES ASSUME NEW t \in Trades, NEW p \in trade'[t].pend, p.op = "login"
               PROVE  /\ Awaits(p.for, t)'
                      /\ \A r \in trade'[t].pend : r.op = "login" => r = p
                      /\ \A x \in Queued' : LoginTask(x) => x.acct # p.for
    BY DEF PendingLogins, LoginTask
  <2>1. p \in trade[t].pend /\ \A r \in trade'[t].pend : r.op = "login" => r \in trade[t].pend
    BY DEF Calmer
  <2>2. /\ Awaits(p.for, t)
        /\ \A r \in trade[t].pend : r.op = "login" => r = p
        /\ \A x \in Queued : LoginTask(x) => x.acct # p.for
    BY <2>1 DEF SessionInv, PendingLogins
  <2> PICK k : k = p.for
    OBVIOUS
  <2>3. Awaits(k, t)'
    BY <1>3, <2>2
  <2>4. LoginOutstanding(k)
    BY <2>1 DEF LoginOutstanding
  <2>5. \A x \in Queued' : LoginTask(x) => x.acct # k
    BY <2>2, <2>4
  <2> QED BY <2>1, <2>2, <2>3, <2>5 DEF Awaits
<1>5. LoginEvents'
  <2> SUFFICES ASSUME NEW x \in Queued', x.kind = "callback", x.ev = "login"
               PROVE  /\ Awaits(x.acct, interfaceMap[x.acct])'
                      /\ x.success => trade'[interfaceMap'[x.acct]].sess = x.acct
    BY DEF LoginEvents
  <2> PICK k : k = x.acct
    OBVIOUS
  <2> PICK t : t = interfaceMap[k]
    OBVIOUS
  <2>1. x \in Queued
    BY DEF LoginTask
  <2>2. Awaits(k, t) /\ (x.success => trade[t].sess = k)
    BY <2>1 DEF SessionInv, LoginEvents
  <2>3. t \in Trades
    BY <1>1, <2>2 DEF Awaits
  <2>4. Awaits(k, t)' /\ trade'[t].sess = trade[t].sess
    BY <1>3, <2>2, <2>3 DEF Calmer
  <2> QED BY <1>0, <2>2, <2>4 DEF Awaits
<1>6. OwnSession'
  BY <1>0, <1>1 DEF SessionInv, OwnSession, Calmer
<1>7. SpareLoggedOut'
  BY <1>0, <1>2 DEF SessionInv, SpareLoggedOut, Calmer
<1>8. FreshUntouched' /\ NoInvalidPointer'
  BY <1>0 DEF SessionInv, FreshUntouched, NoInvalidPointer
<1> QED BY <1>4, <1>5, <1>6, <1>7, <1>8 DEF SessionInv
\* login() leaves a logged-in instance alone; another one waits, with the
\* interface and the account of the request, and the SDK may have the login.
LEMMA LoginFacts ==
    ASSUME NEW g \in Instances, NEW k \in Accounts, NEW sid, NEW networkOk, NEW accepted,
           InitOk(g, networkOk), g.status = "in" => g.iface,
           NEW h, h = DoLogin(InitInterface(g, networkOk), k, sid, accepted)
    PROVE  \/ g.status = "in" /\ h = g
           \/ /\ g.status = "out" /\ h.status = "out" /\ h.iface /\ h.acct = k
              /\ h.pend \subseteq g.pend \cup {[op |-> "login", sid |-> sid, for |-> k]}
<1> DEFINE f == InitInterface(g, networkOk)
           more == IF accepted
                   THEN f.pend \cup {[op |-> "login", sid |-> sid, for |-> k]}
                   ELSE f.pend
<1>1. g.status \in {"in", "out"} /\ g.iface \in BOOLEAN
  BY DEF Instances
<1>2. \/ f = g /\ g.iface
      \/ /\ ~g.iface /\ f = SetLogoutStatus([g EXCEPT !.iface = TRUE])
  BY DEF InitOk, InitInterface
<1>3. CASE g.status = "in"
  BY <1>2, <1>3 DEF DoLogin
<1>4. CASE g.status = "out"
  <2>1. f.status = "out" /\ f.iface /\ f.pend = g.pend /\ f \in Instances
    BY <1>2, <1>4 DEF SetLogoutStatus, Instances
  <2> HIDE DEF f
  <2>2. h = [f EXCEPT !.acct = k, !.pend = more]
    BY <2>1 DEF DoLogin, f
  <2>3. more \subseteq g.pend \cup {[op |-> "login", sid |-> sid, for |-> k]}
    BY <2>1
  <2> HIDE DEF more
  <2>4. h.status = f.status /\ h.iface = f.iface /\ h.acct = k /\ h.pend = more
    BY <2>1, <2>2 DEF Instances
  <2> QED BY <1>4, <2>1, <2>3, <2>4
<1> QED BY <1>1, <1>3, <1>4

\* An event decides on the status if it answers a login, and fills a slot.
LEMMA DeliverFacts ==
    ASSUME NEW g \in Instances, NEW cb \in Callbacks, NEW h, h = OnCallback(g, cb)
    PROVE  /\ h.acct = g.acct /\ h.iface = g.iface /\ h.sess = g.sess /\ h.pend = g.pend
           /\ cb.ev # "login" => h.status = g.status
           /\ cb.ev = "login" /\ cb.success => h.status = "in"
<1> DEFINE f == IF cb.ev # "login" THEN g
                ELSE IF cb.success THEN SetLoginStatus(g) ELSE SetLogoutStatus(g)
<1>1. /\ f.acct = g.acct /\ f.iface = g.iface /\ f.sess = g.sess /\ f.pend = g.pend
      /\ cb.ev # "login" => f.status = g.status
      /\ cb.ev = "login" /\ cb.success => f.status = "in"
  BY DEF SetLoginStatus, SetLogoutStatus, Instances
<1>2. f \in Instances
  BY StatusType
<1>3. h = IF cb.named THEN [f EXCEPT !.slot[cb.ev] = [sid |-> cb.sid]] ELSE f
  BY DEF OnCallback
<1> HIDE DEF f
<1>4. /\ h.acct = f.acct /\ h.iface = f.iface /\ h.sess = f.sess /\ h.pend = f.pend
      /\ h.status = f.status
  BY <1>2, <1>3 DEF Instances
<1> QED BY <1>1, <1>4

\* Nobody but the account at the front of the buffer is touched by its login:
\* the SDK has no login of that account, and none on its instance.
LEMMA NoneOnInstance ==
    ASSUME SessionInv, NEW k, NEW t, NEW x \in Queued, LoginTask(x), x.acct = k,
           \A j \in Mapped : interfaceMap[j] = t => j = k
    PROVE  \A u \in Trades : \A p \in trade[u].pend :
              p.op = "login" => u # t /\ p.for # k
  BY DEF SessionInv, PendingLogins, Awaits
\* A login is served on the account's own instance, or on one that nobody has.
LEMMA LoginStep ==
    ASSUME WorkerInv, SessionInv, NEW k \in Accounts, NEW t \in Trades,
           Front("request"), Head(queue).type = "login", Head(queue).acct = k,
           LoginOn(t, Head(queue)),
           \/ k \in Mapped /\ interfaceMap[k] = t
           \/ k \notin Mapped /\ trade[t].status = "out",
           \A j \in Mapped : interfaceMap[j] = t => j = k,
           interfaceMap' = [interfaceMap EXCEPT ![k] = t],
           Stored' \subseteq Stored \ {t},
           \A u \in Trades : u > created' => u > created /\ u # t
    PROVE  SessionInv'
<1> DEFINE r == Head(queue)
           new == [op |-> "login", sid |-> r.id, for |-> k]
<1>0. RestTypeOK /\ trade[t] \in Instances
  BY DEF WorkerInv, RestTypeOK
<1>1. queue # <<>> /\ queue' = Tail(queue) /\ up' = up /\ r.kind = "request"
  BY DEF Front, LoginOn, Respond
<1>2. /\ OneLoginTask' /\ Queued' \subseteq Queued /\ r \in Queued
      /\ LoginTask(r) /\ r.acct = k
      /\ \A x \in Queued' : LoginTask(x) => x.acct # k
  BY <1>0, <1>1, TakeTask DEF SessionInv, LoginTask
<1>3. /\ Mapped' = Mapped \cup {k} /\ interfaceMap'[k] = t
      /\ \A j \in Accounts \ {k} : interfaceMap'[j] = interfaceMap[j]
      /\ \A j \in Mapped : interfaceMap[j] \in Trades
  BY MappedFacts, TradesFacts DEF WorkerInv, PoolInv, PoolTypeOK, Mapped
<1>4. \A u \in Trades : \A p \in trade[u].pend : p.op = "login" => u # t /\ p.for # k
  <2> HIDE DEF r
  <2> QED BY <1>2, NoneOnInstance
<1>5. \A u \in Trades \ {t} : trade'[u] = trade[u]
  BY <1>0 DEF LoginOn, RestTypeOK
<1>6. \/ trade'[t] = trade[t]
      \/ /\ trade[t].status = "out" /\ trade'[t].status = "out" /\ trade'[t].iface
         /\ trade'[t].acct = k /\ trade'[t].pend \subseteq trade[t].pend \cup {new}
  <2>1. trade[t].status = "in" => trade[t].iface
    BY DEF SessionInv, OwnSession
  <2>2. trade'[t] = trade[t]
        \/ \E networkOk, accepted \in BOOLEAN :
              /\ InitOk(trade[t], networkOk)
              /\ trade'[t] = DoLogin(InitInterface(trade[t], networkOk), k, r.id, accepted)
    BY <1>0 DEF LoginOn, RestTypeOK
  <2> QED BY <1>0, <2>1, <2>2, LoginFacts
<1> HIDE DEF r
<1>7. \A j \in Mapped : \A u \in Trades : u # t /\ j # k /\ Awaits(j, u) => Awaits(j, u)'
  BY <1>3, <1>5 DEF Awaits, Mapped
<1>8. PendingLogins'
  <2> SUFFICES ASSUME NEW u \in Trades, NEW p \in trade'[u].pend, p.op = "login"
               PROVE  /\ Awaits(p.for, u)'
                      /\ \A q \in trade'[u].pend : q.op = "login" => q = p
                      /\ \A x \in Queued' : LoginTask(x) => x.acct # p.for
    BY DEF PendingLogins, LoginTask
  <2> PICK j : j = p.for
    OBVIOUS
  <2>1. CASE u # t
    <3>1. /\ Awaits(j, u) /\ j # k /\ j \in Mapped
          /\ \A q \in trade[u].pend : q.op = "login" => q = p
          /\ \A x \in Queued : LoginTask(x) => x.acct # j
      BY <1>4, <1>5, <2>1 DEF SessionInv, PendingLogins, Awaits
    <3>2. Awaits(j, u)'
      BY <1>7, <2>1, <3>1
    <3> QED BY <1>2, <1>5, <2>1, <3>1, <3>2 DEF Awaits
  <2>2. CASE u = t
    <3>1. \A q \in trade'[t].pend : q.op = "login" => q = new
      BY <1>4, <1>6
    <3>2. j = k /\ trade'[t].status = "out" /\ trade'[t].iface /\ trade'[t].acct = k
      BY <1>4, <1>6, <2>2, <3>1
    <3>3. Awaits(j, u)'
      BY <1>3, <2>2, <3>2 DEF Awaits
    <3> QED BY <1>2, <2>2, <3>1, <3>2, <3>3 DEF Awaits
  <2> QED BY <2>1, <2>2
<1>9. LoginEvents'
  <2> SUFFICES ASSUME NEW x \in Queued', x.kind = "callback", x.ev = "login"
               PROVE  /\ Awaits(x.acct, interfaceMap[x.acct])'
                      /\ x.success => trade'[interfaceMap'[x.acct]].sess = x.acct
    BY DEF LoginEvents
  <2> PICK j : j = x.acct
    OBVIOUS
  <2> PICK u : u = interfaceMap[j]
    OBVIOUS
  <2>1. x \in Queued /\ j # k
    BY <1>2 DEF LoginTask
  <2>2. Awaits(j, u) /\ (x.success => trade[u].sess = j)
    BY <2>1 DEF SessionInv, LoginEvents
  <2>3. j \in Mapped /\ u \in Trades /\ u # t
    BY <1>3, <2>1, <2>2 DEF Awaits
  <2>4. Awaits(j, u)' /\ interfaceMap'[j] = u /\ trade'[u] = trade[u]
    BY <1>3, <1>5, <1>7, <2>1, <2>2, <2>3 DEF Mapped
  <2> QED BY <2>2, <2>4 DEF Awaits
<1>10. OwnSession'
  <2> SUFFICES ASSUME NEW j \in Mapped',
                      trade'[interfaceMap'[j]].status = "in"
               PROVE  LET g == trade'[interfaceMap'[j]]
                      IN  g.acct = j /\ g.iface /\ g.sess \in {j, NoAccount}
    BY DEF OwnSession
  <2>1. CASE j = k
    <3>1. trade'[t] = trade[t] /\ trade[t].status = "in"
      BY <1>3, <1>6, <2>1
    <3> QED BY <1>3, <2>1, <3>1 DEF SessionInv, OwnSession
  <2>2. CASE j # k
    <3>1. j \in Mapped /\ interfaceMap'[j] = interfaceMap[j] /\ interfaceMap[j] # t
          /\ interfaceMap[j] \in Trades
      BY <1>3, <2>2 DEF Mapped
    <3>2. trade'[interfaceMap'[j]] = trade[interfaceMap[j]]
      BY <1>5, <3>1
    <3> QED BY <3>1, <3>2 DEF SessionInv, OwnSession
  <2> QED BY <2>1, <2>2
<1>11. SpareLoggedOut'
  <2>1. Stored \subseteq Trades
    BY DEF WorkerInv, PoolInv, PoolTypeOK, Stored
  <2> QED BY <1>5, <2>1 DEF SessionInv, SpareLoggedOut
<1>12. FreshUntouched'
  BY <1>5 DEF SessionInv, FreshUntouched
<1>13. NoInvalidPointer'
  BY <1>1 DEF SessionInv, NoInvalidPointer
<1> QED BY <1>2, <1>8, <1>9, <1>10, <1>11, <1>12, <1>13 DEF SessionInv
\* Instances go back to the store logged out, and with no login of theirs in
\* the buffer or with the SDK.
LEMMA LeaveStep ==
    ASSUME WorkerInv, SessionInv, NEW K, NEW p, PutBack(K, p), UNCHANGED up,
           OneLoginTask', Queued' \subseteq Queued,
           \A x \in Queued' : x.kind = "callback" /\ x.ev = "login" => x.acct \notin K,
           \A t \in Trades : \/ trade'[t] = trade[t]
                             \/ \E k \in K : t = interfaceMap[k],
           \A k \in K : /\ trade'[interfaceMap[k]].status = "out"
                        /\ \A q \in trade'[interfaceMap[k]].pend : q.op # "login"
    PROVE  SessionInv'
<1>1. Pool!GiveBack(K)
  BY PutBackSafe DEF WorkerInv
<1>2. /\ K \subseteq Mapped /\ Mapped' = Mapped \ K
      /\ \A j \in Mapped' : interfaceMap'[j] = interfaceMap[j]
      /\ Stored' = Stored \cup {interfaceMap[k] : k \in K}
      /\ created' = created
  BY <1>1 DEF Pool!GiveBack, PutBack, Mapped, None
<1>3. /\ \A j \in Mapped : interfaceMap[j] \in Trades /\ interfaceMap[j] <= created
      /\ \A i, j \in Mapped : interfaceMap[i] = interfaceMap[j] => i = j
      /\ Stored \subseteq Trades /\ created \in Nat
  <2>1. \A j \in Mapped : interfaceMap[j] \in 1 .. created
    BY DEF WorkerInv, PoolInv, EachInstanceOnce
  <2> QED BY <2>1, MappedFacts DEF WorkerInv, PoolInv, PoolTypeOK, EachInstanceOnce, Stored
<1>4. \A t \in Trades : (\A k \in K : t # interfaceMap[k]) => trade'[t] = trade[t]
  OBVIOUS
<1>5. \A j \in Mapped' : trade'[interfaceMap[j]] = trade[interfaceMap[j]]
  BY <1>2, <1>3, <1>4
<1>6. \A j \in Mapped' : \A t : Awaits(j, t) => Awaits(j, t)'
  BY <1>2, <1>5 DEF Awaits
<1>7. PendingLogins'
  <2> SUFFICES ASSUME NEW t \in Trades, NEW q \in trade'[t].pend, q.op = "login"
               PROVE  /\ Awaits(q.for, t)'
                      /\ \A r \in trade'[t].pend : r.op = "login" => r = q
                      /\ \A x \in Queued' : LoginTask(x) => x.acct # q.for
    BY DEF PendingLogins, LoginTask
  <2> PICK j : j = q.for
    OBVIOUS
  <2>1. \A k \in K : t # interfaceMap[k]
    OBVIOUS
  <2>2. trade'[t] = trade[t]
    BY <1>4, <2>1
  <2>3. /\ Awaits(j, t) /\ \A r \in trade[t].pend : r.op = "login" => r = q
        /\ \A x \in Queued : LoginTask(x) => x.acct # j
    BY <2>2 DEF SessionInv, PendingLogins
  <2>4. j \in Mapped'
    BY <1>2, <2>1, <2>3 DEF Awaits
  <2>5. Awaits(j, t)'
    BY <1>6, <2>3, <2>4
  <2> QED BY <2>2, <2>3, <2>5 DEF Awaits
<1>8. LoginEvents'
  <2> SUFFICES ASSUME NEW x \in Queued', x.kind = "callback", x.ev = "login"
               PROVE  /\ Awaits(x.acct, interfaceMap[x.acct])'
                      /\ x.success => trade'[interfaceMap'[x.acct]].sess = x.acct
    BY DEF LoginEvents
  <2> PICK j : j = x.acct
    OBVIOUS
  <2> PICK t : t = interfaceMap[j]
    OBVIOUS
  <2>1. Awaits(j, t) /\ (x.success => trade[t].sess = j)
    BY DEF SessionInv, LoginEvents
  <2>2. j \in Mapped'
    BY <1>2, <2>1 DEF Awaits
  <2>3. Awaits(j, t)' /\ interfaceMap'[j] = t /\ trade'[t] = trade[t]
    BY <1>2, <1>5, <1>6, <2>1, <2>2
  <2> QED BY <2>1, <2>3 DEF Awaits
<1>9. OwnSession'
  BY <1>2, <1>5 DEF SessionInv, OwnSession
<1>10. SpareLoggedOut'
  <2> SUFFICES ASSUME NEW t \in Stored' PROVE trade'[t].status = "out"
    BY DEF SpareLoggedOut
  <2>1. CASE \E k \in K : t = interfaceMap[k]
    BY <2>1
  <2>2. CASE \A k \in K : t # interfaceMap[k]
    <3>1. t \in Stored /\ trade'[t] = trade[t]
      BY <1>2, <1>3, <1>4, <2>2
    <3> QED BY <3>1 DEF SessionInv, SpareLoggedOut
  <2> QED BY <2>1, <2>2
<1>11. FreshUntouched'
  <2> SUFFICES ASSUME NEW t \in Trades, t > created PROVE trade'[t] = NewInstance
    BY <1>2 DEF FreshUntouched
  <2>1. \A k \in K : t # interfaceMap[k]
    <3> SUFFICES ASSUME NEW k \in K, t = interfaceMap[k] PROVE FALSE
      OBVIOUS
    <3>1. t <= created /\ t \in Nat /\ created \in Nat
      BY <1>2, <1>3, TradesFacts
    <3> QED BY <3>1
  <2> QED BY <1>4, <2>1 DEF SessionInv, FreshUntouched
<1>12. NoInvalidPointer'
  BY DEF SessionInv, NoInvalidPointer
<1> QED BY <1>7, <1>8, <1>9, <1>10, <1>11, <1>12 DEF SessionInv
\* The instance of one account changes, and what the SDK and the buffer hold
\* for the logins of the others stays.
LEMMA OneInstanceStep ==
    ASSUME WorkerInv, SessionInv, NEW k \in Mapped, UNCHANGED <<pool, up>>,
           OneLoginTask',
           \A t \in Trades : t # interfaceMap[k] => trade'[t] = trade[t],
           \A p \in trade'[interfaceMap[k]].pend : p.op # "login",
           \A x \in Queued' : x.kind = "callback" /\ x.ev = "login" =>
               \/ x \in Queued /\ x.acct # k
               \/ /\ x.acct = k /\ Awaits(k, interfaceMap[k])'
                  /\ x.success => trade'[interfaceMap[k]].sess = k,
           \A x \in Queued' : LoginTask(x) => x \in Queued \/ x.acct = k,
           trade'[interfaceMap[k]].status = "in" =>
               /\ trade'[interfaceMap[k]].acct = k /\ trade'[interfaceMap[k]].iface
               /\ trade'[interfaceMap[k]].sess \in {k, NoAccount}
    PROVE  SessionInv'
<1>1. PICK t : t = interfaceMap[k]
  OBVIOUS
<1>2. /\ interfaceMap' = interfaceMap /\ created' = created /\ up' = up
      /\ Mapped' = Mapped /\ Stored' = Stored
  BY DEF pool, Mapped, Stored
<1>3. /\ \A j \in Mapped : interfaceMap[j] \in Trades /\ interfaceMap[j] <= created
      /\ \A j \in Mapped : interfaceMap[j] = t => j = k
      /\ Stored \subseteq Trades \ {t} /\ created \in Nat
  <2>1. \A j \in Mapped : interfaceMap[j] \in 1 .. created
    BY DEF WorkerInv, PoolInv, EachInstanceOnce
  <2> QED BY <1>1, <2>1, MappedFacts
  DEF WorkerInv, PoolInv, PoolTypeOK, EachInstanceOnce, Stored
<1>4. \A j : \A u \in Trades : u # t /\ Awaits(j, u) => Awaits(j, u)'
  BY <1>1, <1>2 DEF Awaits
<1>5. PendingLogins'
  <2> SUFFICES ASSUME NEW u \in Trades, NEW p \in trade'[u].pend, p.op = "login"
               PROVE  /\ Awaits(p.for, u)'
                      /\ \A q \in trade'[u].pend : q.op = "login" => q = p
                      /\ \A x \in Queued' : LoginTask(x) => x.acct # p.for
    BY DEF PendingLogins, LoginTask
  <2> PICK j : j = p.for
    OBVIOUS
  <2>1. u # t /\ trade'[u] = trade[u]
    BY <1>1
  <2>2. /\ Awaits(j, u) /\ \A q \in trade[u].pend : q.op = "login" => q = p
        /\ \A x \in Queued : LoginTask(x) => x.acct # j
    BY <2>1 DEF SessionInv, PendingLogins
  <2>3. j # k
    BY <1>1, <2>1, <2>2 DEF Awaits
  <2>4. Awaits(j, u)'
    BY <1>4, <2>1, <2>2
  <2> QED BY <2>1, <2>2, <2>3, <2>4 DEF Awaits
<1>6. LoginEvents'
  <2> SUFFICES ASSUME NEW x \in Queued', x.kind = "callback", x.ev = "login"
               PROVE  /\ Awaits(x.acct, interfaceMap[x.acct])'
                      /\ x.success => trade'[interfaceMap'[x.acct]].sess = x.acct
    BY DEF LoginEvents
  <2>1. CASE x.acct = k
    BY <1>2, <2>1 DEF Awaits
  <2>2. CASE x \in Queued /\ x.acct # k
    <3> PICK j : j = x.acct
      OBVIOUS
    <3> PICK u : u = interfaceMap[j]
      OBVIOUS
    <3>1. Awaits(j, u) /\ (x.success => trade[u].sess = j)
      BY <2>2 DEF SessionInv, LoginEvents
    <3>2. u \in Trades /\ u # t
      BY <1>3, <2>2, <3>1 DEF Awaits
    <3>3. Awaits(j, u)' /\ trade'[u] = trade[u]
      BY <1>1, <1>4, <3>1, <3>2
    <3> QED BY <1>2, <3>1, <3>3 DEF Awaits
  <2> QED BY <2>1, <2>2
<1>7. OwnSession'
  <2> SUFFICES ASSUME NEW j \in Mapped,
                      trade'[interfaceMap[j]].status = "in"
               PROVE  LET g == trade'[interfaceMap[j]]
                      IN  g.acct = j /\ g.iface /\ g.sess \in {j, NoAccount}
    BY <1>2 DEF OwnSession
  <2>1. CASE j # k
    <3>1. trade'[interfaceMap[j]] = trade[interfaceMap[j]]
      BY <1>1, <1>3, <2>1
    <3> QED BY <3>1 DEF SessionInv, OwnSession
  <2> QED BY <2>1
<1>8. SpareLoggedOut'
  BY <1>1, <1>2, <1>3 DEF SessionInv, SpareLoggedOut
<1>9. FreshUntouched'
  <2> SUFFICES ASSUME NEW u \in Trades, u > created PROVE trade'[u] = NewInstance
    BY <1>2 DEF FreshUntouched
  <2>1. u # t
    <3> SUFFICES ASSUME u = interfaceMap[k] PROVE FALSE
      BY <1>1
    <3>1. u <= created /\ u \in Nat /\ created \in Nat
      BY <1>3, TradesFacts
    <3> QED BY <3>1
  <2> QED BY <1>1, <2>1 DEF SessionInv, FreshUntouched
<1>10. NoInvalidPointer'
  BY <1>2 DEF SessionInv, NoInvalidPointer
<1> QED BY <1>5, <1>6, <1>7, <1>8, <1>9, <1>10 DEF SessionInv
-----------------------------------------------------------------------------
(* The steps, one by one.                                                  *)

\* An orderly client sends a login when nothing of his last one is left.
LEMMA ArriveSession ==
    ASSUME Orderly, WorkerInv, SessionInv, NEW k \in Accounts, Arrive(k)
    PROVE  SessionInv'
<1>0. RestTypeOK /\ OneLoginTask
  BY DEF WorkerInv, SessionInv
<1>1. PICK type \in Types, ask \in Types \cup ResultTypes, sid \in Nat :
         /\ Push(k, type, ask, sid)
         /\ type = "login" => ~(LoginOutstanding(k) \/ LoginQueued(k))
  <2>1. CASE Push(k, "login", "login", 0) /\ ~(LoginOutstanding(k) \/ LoginQueued(k))
    BY <2>1 DEF Push, ResultTypes
  <2>2. CASE \E y \in Types \ {"login", "get.result"} : Push(k, y, "login", 0)
    BY <2>2 DEF ResultTypes
  <2>3. ASSUME NEW r \in replies, r.type = "login" \/ Serve(r.type) = "later",
               NEW ask \in {r.type, FiledFor(r.type)} \ {NoType},
               Push(k, "get.result", ask, r.id)
        PROVE  \E sid \in Nat, y \in Types \cup ResultTypes :
                  "get.result" \in Types /\ Push(k, "get.result", y, sid)
    <3>1. r.id \in Nat /\ r.type \in Types
      BY <1>0 DEF RestTypeOK, Responses
    <3>2. ask \in Types \cup ResultTypes
      BY <2>3, <3>1, FiledType
    <3>3. "get.result" \in Types
      BY <2>3 DEF Push
    <3> QED BY <2>3, <3>1, <3>2, <3>3
  <2>4. "overlap" \notin Env
    BY DEF Orderly
  <2> QED BY <2>1, <2>2, <2>3, <2>4 DEF Arrive
<1> DEFINE r == [kind |-> "request", id |-> nreq + 1, acct |-> k, type |-> type,
                 ask |-> ask, sid |-> sid]
<1>2. r \in Requests
  BY <1>0 DEF Requests, RestTypeOK
<1>3. queue' = Append(queue, r) /\ UNCHANGED <<pool, trade, up>>
  BY <1>1 DEF Push
<1>4. r.kind = "request" /\ r.acct = k /\ (LoginTask(r) => type = "login")
  BY DEF LoginTask
<1>5. LoginTask(r) => ~LoginOutstanding(k) /\ ~LoginQueued(k)
  BY <1>1, <1>4
<1> HIDE DEF r
<1>6. LoginTask(r) => \A y \in Queued : LoginTask(y) => y.acct # r.acct
  <2> SUFFICES ASSUME LoginTask(r), NEW y \in Queued, LoginTask(y), y.acct = k PROVE FALSE
    BY <1>4
  <2> QED BY <1>5 DEF LoginTask, LoginOutstanding, LoginQueued
<1>7. OneLoginTask' /\ Queued' = Queued \cup {r}
  BY <1>0, <1>2, <1>3, <1>6, AddTask
<1>8. \A x \in Queued' :
         LoginTask(x) => \/ x \in Queued
                         \/ x.kind = "request" /\ ~LoginOutstanding(x.acct)
  BY <1>4, <1>5, <1>7
<1>9. \A t \in Trades : Calmer(trade[t], trade'[t])
  BY <1>3 DEF Calmer
<1> QED BY <1>3, <1>7, <1>8, <1>9, CalmStep

\* The SDK answers an order, or the login of the account its instance waits for.
LEMMA AnswerSession ==
    ASSUME Orderly, WorkerInv, SessionInv, NEW t \in Trades, SdkAnswer(t)
    PROVE  SessionInv'
<1>0. RestTypeOK /\ OneLoginTask /\ trade[t] \in Instances
  BY DEF WorkerInv, SessionInv, RestTypeOK
<1>1. PICK p \in trade[t].pend, code \in {"ok", "drop", "fail"} :
        LET h == [trade[t] EXCEPT !.pend = @ \ {p}]
        IN  \/ /\ p.op = "login" /\ (code = "drop" => "drop" \in Env)
               /\ trade' = [trade EXCEPT ![t] =
                        IF code = "ok" THEN [h EXCEPT !.sess = p.for] ELSE h]
               /\ queue' = <<LoginEvent(trade[t], p.sid, code)>> \o queue
            \/ /\ p.op # "login" /\ code # "drop"
               /\ trade' = [trade EXCEPT ![t] = h]
               /\ queue' = IF Answered(p.op)
                           THEN <<OrderEvent(trade[t], p.op, p.sid, code)>> \o queue
                           ELSE queue
  BY DEF SdkAnswer
<1> DEFINE h == [trade[t] EXCEPT !.pend = trade[t].pend \ {p}]
<1>2. UNCHANGED <<pool, up>> /\ p \in PendingCalls
  BY <1>0 DEF SdkAnswer, Instances
<1>3. /\ h.status = trade[t].status /\ h.acct = trade[t].acct /\ h.iface = trade[t].iface
      /\ h.sess = trade[t].sess /\ h.pend = trade[t].pend \ {p}
      /\ h \in Instances
  <2>1. trade[t].pend \ {p} \in SUBSET PendingCalls
    BY <1>0 DEF Instances
  <2> QED BY <1>0, <2>1 DEF Instances
<1>4. \A x : x \in Callbacks => x \in Requests \cup Callbacks /\ x.kind = "callback"
  BY DEF Callbacks
<1>5. CASE p.op = "login"
  <2> DEFINE g == IF code = "ok" THEN [h EXCEPT !.sess = p.for] ELSE h
             e == LoginEvent(trade[t], p.sid, code)
  <2>1. trade' = [trade EXCEPT ![t] = g] /\ queue' = <<e>> \o queue
        /\ code \in {"ok", "fail"}
    BY <1>1, <1>5 DEF Orderly
  <2>2. PICK k : k = p.for
    OBVIOUS
  <2>3. /\ Awaits(k, t) /\ \A q \in trade[t].pend : q.op = "login" => q = p
        /\ \A x \in Queued : LoginTask(x) => x.acct # k
    BY <1>5, <2>2 DEF SessionInv, PendingLogins
  <2>4. k \in Mapped /\ t = interfaceMap[k]
    BY <2>3 DEF Awaits
  <2>5. /\ g.status = "out" /\ g.acct = k /\ g.iface /\ g.pend = trade[t].pend \ {p}
        /\ code = "ok" => g.sess = k
    <3> HIDE DEF h
    <3> QED BY <1>3, <2>2, <2>3 DEF Awaits, Instances
  <2> HIDE DEF g
  <2>6. trade'[t] = g /\ \A u \in Trades : u # t => trade'[u] = trade[u]
    BY <1>0, <2>1 DEF RestTypeOK
  <2>7. e \in Callbacks /\ e.acct = k /\ (e.success => code = "ok")
    <3>1. trade[t].acct = k
      BY <2>3 DEF Awaits
    <3>2. e \in Callbacks
      BY <1>0, <1>2, <2>1 DEF LoginEvent, Callbacks, PendingCalls, ResultTypes, Instances
    <3> QED BY <2>1, <3>1, <3>2 DEF LoginEvent
  <2> HIDE DEF e
  <2>8. OneLoginTask' /\ Queued' = Queued \cup {e}
    <3>1. e \in Requests \cup Callbacks /\ \A y \in Queued : LoginTask(y) => y.acct # e.acct
      BY <2>3, <2>7
    <3> QED BY <1>0, <2>1, <3>1, AddTask
  <2>9. Awaits(k, t)'
    BY <1>2, <2>3, <2>5, <2>6 DEF Awaits, pool, Mapped
  <2>10. \A x \in Queued' : x.kind = "callback" /\ x.ev = "login" =>
               \/ x \in Queued /\ x.acct # k
               \/ /\ x.acct = k /\ Awaits(k, t)'
                  /\ x.success => trade'[t].sess = k
    BY <2>3, <2>5, <2>6, <2>7, <2>8, <2>9 DEF LoginTask
  <2>11. \A x \in Queued' : LoginTask(x) => x \in Queued \/ x.acct = k
    BY <2>7, <2>8
  <2>12. \A q \in trade'[t].pend : q.op # "login"
    BY <2>3, <2>5, <2>6
  <2>13. trade'[t].status # "in"
    BY <2>5, <2>6
  <2>14. \A u \in Trades : u # interfaceMap[k] => trade'[u] = trade[u]
    BY <2>4, <2>6
  <2> HIDE DEF h
  <2>15. /\ \A q \in trade'[interfaceMap[k]].pend : q.op # "login"
         /\ trade'[interfaceMap[k]].status # "in"
    BY <2>4, <2>12, <2>13
  <2>16. \A x \in Queued' : x.kind = "callback" /\ x.ev = "login" =>
               \/ x \in Queued /\ x.acct # k
               \/ /\ x.acct = k /\ Awaits(k, interfaceMap[k])'
                  /\ x.success => trade'[interfaceMap[k]].sess = k
    <3>1. Awaits(k, interfaceMap[k])'
      BY <1>2, <2>4, <2>9 DEF Awaits, pool
    <3> QED BY <2>4, <2>10, <3>1
  <2> QED BY <1>2, <2>4, <2>8, <2>11, <2>14, <2>15, <2>16, OneInstanceStep
<1>6. CASE p.op # "login"
  <2>1. p.op \in Types \cap LaterTypes
    BY <1>2, <1>6 DEF PendingCalls
  <2> DEFINE e == OrderEvent(trade[t], p.op, p.sid, code)
  <2>2. trade' = [trade EXCEPT ![t] = h]
        /\ (UNCHANGED queue \/ (Answered(p.op) /\ queue' = <<e>> \o queue))
    BY <1>1, <1>6
  <2>3. Answered(p.op) => e \in Callbacks /\ ~LoginTask(e)
    <3> SUFFICES ASSUME Answered(p.op) PROVE e \in Callbacks /\ ~LoginTask(e)
      OBVIOUS
    <3>1. Filed(p.op) \in ResultTypes /\ Filed(p.op) # "login"
      BY <2>1, FiledNotLogin DEF Answered, ResultTypes
    <3>2. e \in Callbacks
      BY <1>0, <1>2, <3>1 DEF OrderEvent, Callbacks, PendingCalls, Instances
    <3> QED BY <3>1, <3>2 DEF OrderEvent, LoginTask
  <2> HIDE DEF e
  <2>4. OneLoginTask' /\ \A x \in Queued' : LoginTask(x) => x \in Queued
    <3>1. CASE UNCHANGED queue
      BY <1>0, <3>1 DEF OneLoginTask, LoginTask, Queued
    <3>2. CASE Answered(p.op) /\ queue' = <<e>> \o queue
      <4>1. e \in Requests \cup Callbacks /\ ~LoginTask(e)
        BY <2>3, <3>2
      <4>2. OneLoginTask' /\ Queued' = Queued \cup {e}
        BY <1>0, <3>2, <4>1, AddTask
      <4> QED BY <4>1, <4>2
    <3> QED BY <2>2, <3>1, <3>2
  <2> HIDE DEF h
  <2>5. trade'[t] = h /\ \A u \in Trades : u # t => trade'[u] = trade[u]
    BY <1>0, <2>2 DEF RestTypeOK
  <2>6. \A u \in Trades : Calmer(trade[u], trade'[u])
    BY <1>3, <2>5 DEF Calmer
  <2>7. \A u \in Trades : u > created => trade'[u] = trade[u]
    <3>1. t > created => FALSE
      BY DEF SessionInv, FreshUntouched, NewInstance
    <3> QED BY <2>5, <3>1
  <2> QED BY <1>2, <2>4, <2>6, <2>7, CalmStep
<1> QED BY <1>5, <1>6
\* A request that is no login, or that is refused, calms: it is taken from the
\* buffer, and no instance gets a session or a login by it.
LEMMA CalmResponse ==
    ASSUME WorkerInv, SessionInv, Front("request") \/ Front("callback"),
           UNCHANGED <<pool, up>>, queue' = Tail(queue),
           NEW t \in Trades, t <= created, NEW h, Calmer(trade[t], h),
           UNCHANGED trade \/ trade' = [trade EXCEPT ![t] = h]
    PROVE  SessionInv'
<1>1. OneLoginTask' /\ Queued' \subseteq Queued
  BY TakeTask DEF WorkerInv, SessionInv, Front
<1>2. \A u \in Trades : Calmer(trade[u], trade[u])
  BY DEF Calmer
<1>3. \A u \in Trades : trade'[u] = trade[u] \/ (u = t /\ trade'[u] = h)
  BY DEF WorkerInv, RestTypeOK
<1>4. \A u \in Trades : Calmer(trade[u], trade'[u])
  BY <1>2, <1>3
<1>5. \A u \in Trades : u > created => trade'[u] = trade[u]
  <2>1. t \in Nat /\ created \in Nat
    BY TradesFacts DEF WorkerInv, PoolInv, PoolTypeOK
  <2>2. ~(t > created)
    BY <2>1
  <2> QED BY <1>3, <2>2
<1>6. \A x \in Queued' : LoginTask(x) => x \in Queued
  BY <1>1
<1> QED BY <1>1, <1>4, <1>5, <1>6, CalmStep

\* What leaves the instances as they are.
LEMMA QuietResponse ==
    ASSUME WorkerInv, SessionInv, Front("request") \/ Front("callback"),
           UNCHANGED <<pool, up, trade>>, queue' = Tail(queue)
    PROVE  SessionInv'
<1>1. OneLoginTask' /\ Queued' \subseteq Queued
  BY TakeTask DEF WorkerInv, SessionInv, Front
<1>2. \A t \in Trades : Calmer(trade[t], trade'[t])
  BY DEF Calmer
<1>3. \A x \in Queued' : LoginTask(x) => x \in Queued
  BY <1>1
<1> QED BY <1>1, <1>2, <1>3, CalmStep

\* The instance of a mapped account is one of those that were made.
LEMMA MappedMade ==
    ASSUME WorkerInv, NEW k \in Mapped
    PROVE  /\ interfaceMap[k] \in Trades /\ interfaceMap[k] <= created
           /\ interfaceMap[k] \notin Stored
           /\ \A j \in Mapped : interfaceMap[j] = interfaceMap[k] => j = k
<1>1. interfaceMap[k] \in 1 .. created /\ created \in Nat
  BY DEF WorkerInv, PoolInv, PoolTypeOK, EachInstanceOnce
<1> QED BY <1>1, MappedFacts DEF WorkerInv, PoolInv, EachInstanceOnce

\* case LOGIN, on the account's instance, a spare one or a new one.
LEMMA LoginSession ==
    ASSUME WorkerInv, SessionInv, ServeLoginAgain \/ ServeLoginStored \/ ServeLoginCreate
    PROVE  SessionInv'
<1> DEFINE r == Head(queue)
<1> PICK k : k = r.acct
  OBVIOUS
<1>1. Front("request") /\ r \in Requests /\ r.type = "login" /\ k \in Accounts
  BY FrontFacts
  DEF WorkerInv, ServeLoginAgain, ServeLoginStored, ServeLoginCreate, Requests
<1>2. interfaceMap \in [Accounts -> Trades \cup {None}] /\ created \in Nat
  BY DEF WorkerInv, PoolInv, PoolTypeOK
<1>3. CASE ServeLoginAgain
  <2>0. PICK t : t = interfaceMap[k]
    OBVIOUS
  <2>1. k \in Mapped /\ LoginOn(t, r) /\ UNCHANGED pool
    BY <1>3, <2>0 DEF ServeLoginAgain
  <2>2. t \in Trades /\ t <= created /\ t \notin Stored
        /\ \A j \in Mapped : interfaceMap[j] = t => j = k
    BY <2>0, <2>1, MappedMade
  <2>3. interfaceMap' = [interfaceMap EXCEPT ![k] = t]
    BY <1>2, <2>0, <2>1 DEF pool
  <2>4. Stored' \subseteq Stored \ {t}
    BY <2>1, <2>2 DEF pool, Stored
  <2>5. \A u \in Trades : u > created' => u > created /\ u # t
    BY <1>2, <2>1, <2>2, TradesFacts DEF pool
  <2>6. Front("request") /\ Head(queue).type = "login" /\ Head(queue).acct = k
        /\ LoginOn(t, Head(queue)) /\ k \in Accounts
    BY <1>1, <2>1
  <2>7. \/ k \in Mapped /\ interfaceMap[k] = t
        \/ k \notin Mapped /\ trade[t].status = "out"
    BY <2>0, <2>1
  <2>8. t \in Trades /\ \A j \in Mapped : interfaceMap[j] = t => j = k
    BY <2>2
  <2> QED BY <2>3, <2>4, <2>5, <2>6, <2>7, <2>8, LoginStep
<1>4. CASE ServeLoginStored
  <2> PICK n \in Nat : n = Len(interfaceStore)
    BY DEF WorkerInv, PoolInv, PoolTypeOK
  <2> PICK t : t = interfaceStore[n]
    OBVIOUS
  <2>1. /\ interfaceStore # <<>> /\ k \notin Mapped /\ LoginOn(t, r)
        /\ interfaceMap' = [interfaceMap EXCEPT ![k] = t] /\ created' = created
        /\ interfaceStore' = SubSeq(interfaceStore, 1, n - 1)
    BY <1>4 DEF ServeLoginStored
  <2>2. /\ n \in Nat \ {0} /\ DOMAIN interfaceStore = 1 .. n /\ t \in Trades
        /\ DOMAIN interfaceStore' = 1 .. (n - 1)
        /\ \A i \in DOMAIN interfaceStore' : interfaceStore'[i] = interfaceStore[i]
    BY <2>1, PopBackFacts DEF WorkerInv, PoolInv, PoolTypeOK
  <2>3. t \in Stored /\ t \in 1 .. created /\ \A j \in Mapped : interfaceMap[j] # t
    <3>1. t \in Stored
      BY <2>2 DEF Stored
    <3> QED BY <3>1 DEF WorkerInv, PoolInv, EachInstanceOnce
  <2>4. Stored' \subseteq Stored \ {t}
    BY <2>2 DEF Stored, WorkerInv, PoolInv, EachInstanceOnce
  <2>5. trade[t].status = "out"
    BY <2>3 DEF SessionInv, SpareLoggedOut
  <2>6. \A u \in Trades : u > created' => u > created /\ u # t
    BY <1>2, <2>1, <2>3, TradesFacts
  <2>7. \A j \in Mapped : interfaceMap[j] = t => j = k
    BY <2>3
  <2>8. \/ k \in Mapped /\ interfaceMap[k] = t
        \/ k \notin Mapped /\ trade[t].status = "out"
    BY <2>1, <2>5
  <2>9. LoginOn(t, Head(queue)) /\ Head(queue).acct = k /\ t \in Trades
        /\ interfaceMap' = [interfaceMap EXCEPT ![k] = t]
    BY <2>1, <2>2
  <2> QED BY <1>1, <2>4, <2>6, <2>7, <2>8, <2>9, LoginStep
<1>5. CASE ServeLoginCreate
  <2>0. PICK t : t = created + 1
    OBVIOUS
  <2>1. /\ interfaceStore = <<>> /\ k \notin Mapped /\ LoginOn(t, r)
        /\ Cardinality(Mapped) < MapCap /\ UNCHANGED interfaceStore
        /\ interfaceMap' = [interfaceMap EXCEPT ![k] = t] /\ created' = t
    BY <1>5, <2>0 DEF ServeLoginCreate
  <2>2. t \in Trades
    BY <1>1, <2>0, <2>1, MakeNewSafe DEF MakeNew, WorkerInv
  <2>3. \A j \in Mapped : interfaceMap[j] # t
    <3> SUFFICES ASSUME NEW j \in Mapped, interfaceMap[j] = t PROVE FALSE
      OBVIOUS
    <3>1. interfaceMap[j] <= created
      BY MappedMade
    <3> QED BY <1>2, <2>0, <3>1
  <2>4. Stored' \subseteq Stored \ {t}
    BY <2>1 DEF Stored
  <2>5. trade[t].status = "out"
    BY <1>2, <2>0, <2>2 DEF SessionInv, FreshUntouched, NewInstance
  <2>6. \A u \in Trades : u > created' => u > created /\ u # t
    BY <1>2, <2>0, <2>1, TradesFacts
  <2>7. \A j \in Mapped : interfaceMap[j] = t => j = k
    BY <2>3
  <2>8. \/ k \in Mapped /\ interfaceMap[k] = t
        \/ k \notin Mapped /\ trade[t].status = "out"
    BY <2>1, <2>5
  <2>9. LoginOn(t, Head(queue)) /\ Head(queue).acct = k /\ t \in Trades
        /\ interfaceMap' = [interfaceMap EXCEPT ![k] = t]
    BY <2>1, <2>2
  <2>10. Front("request") /\ Head(queue).type = "login" /\ k \in Accounts
    BY <1>1
  <2> QED BY <2>4, <2>6, <2>7, <2>8, <2>9, <2>10, LoginStep
<1> QED BY <1>3, <1>4, <1>5
\* The other requests.  The end iterator of the logout case and the NULL
\* interface of a query, an order or a heartbeat are out of reach, because an
\* instance that counts as logged in is its customer's own.
LEMMA RequestSession ==
    ASSUME WorkerInv, SessionInv,
           ServeRefused \/ ServeLogout \/ ServeQuery \/ ServeOrder \/ ServeSilent \/ ServePoll
    PROVE  SessionInv'
<1> DEFINE r == Head(queue)
<1> PICK k : k = r.acct
  OBVIOUS
<1> PICK t : t = interfaceMap[k]
  OBVIOUS
<1>1. Front("request") /\ r \in Requests
  BY FrontFacts
  DEF WorkerInv, ServeRefused, ServeLogout, ServeQuery, ServeOrder, ServeSilent,
      ServePoll, LoggedIn
<1>2. ASSUME NEW ok, Respond(r, ok), UNCHANGED <<pool, trade>> PROVE SessionInv'
  <2>1. queue' = Tail(queue) /\ UNCHANGED <<pool, up, trade>>
    BY <1>2 DEF Respond
  <2> QED BY <1>1, <2>1, QuietResponse
<1>3. ASSUME NEW type, LoggedIn(type)
      PROVE  /\ k \in Mapped /\ t \in Trades /\ t <= created /\ trade[t] \in Instances
             /\ trade[t].status = "in" /\ trade[t].acct = k /\ trade[t].iface
  <2>1. k \in Mapped /\ trade[t].status = "in"
    BY <1>3 DEF LoggedIn
  <2> QED BY <2>1, MappedFacts, MappedMade DEF SessionInv, OwnSession
<1>4. CASE ServeRefused
  BY <1>2, <1>4 DEF ServeRefused
<1>5. CASE ServeQuery
  BY <1>2, <1>3, <1>5 DEF ServeQuery, Refuse, Readable
<1>6. CASE ServeSilent
  BY <1>2, <1>6 DEF ServeSilent
<1>7. CASE ServePoll
  BY <1>2, <1>7 DEF ServePoll
<1>8. CASE ServeOrder
  <2>1. /\ t \in Trades /\ t <= created /\ trade[t] \in Instances /\ trade[t].iface
        /\ r.type \in LaterTypes
    BY <1>1, <1>3, <1>8, TypesAssumption
    DEF ServeOrder, LoggedIn, Requests, LaterTypes
  <2>2. ASSUME NEW accepted \in BOOLEAN,
               trade' = [trade EXCEPT ![t] =
                           SendOrder(trade[t], r.type, r.id, r.acct, accepted)],
               Respond(r, accepted), UNCHANGED pool
        PROVE  SessionInv'
    <3> DEFINE h == SendOrder(trade[t], r.type, r.id, r.acct, accepted)
               new == [op |-> r.type, sid |-> r.id, for |-> r.acct]
               more == trade[t].pend \cup {new}
    <3>1. h = trade[t] \/ h = [trade[t] EXCEPT !.pend = more]
      BY DEF SendOrder
    <3>2. new.op # "login"
      BY <2>1, LoginNotLater
    <3>3. \A p \in more : p.op = "login" => p \in trade[t].pend
      BY <3>2
    <3> HIDE DEF new, more
    <3>4. Calmer(trade[t], h)
      <4> HIDE DEF h
      <4> QED BY <2>1, <3>1, <3>3 DEF Calmer, Instances
    <3> HIDE DEF h
    <3>5. trade' = [trade EXCEPT ![t] = h]
      BY <2>2 DEF h
    <3>6. queue' = Tail(queue) /\ UNCHANGED <<pool, up>>
      BY <2>2 DEF Respond
    <3> QED BY <1>1, <2>1, <3>4, <3>5, <3>6, CalmResponse
  <2>3. \/ Refuse(r)
        \/ \E accepted \in BOOLEAN :
              /\ trade' = [trade EXCEPT ![t] =
                             SendOrder(trade[t], r.type, r.id, r.acct, accepted)]
              /\ Respond(r, accepted) /\ UNCHANGED pool
    BY <1>8, <2>1 DEF ServeOrder
  <2> QED BY <1>2, <2>2, <2>3 DEF Refuse
<1>9. CASE ServeLogout
  <2>1. /\ k \in Mapped /\ t \in Trades /\ trade[t] \in Instances
        /\ trade[t].status = "in" /\ trade[t].acct = k
    BY <1>3, <1>9 DEF ServeLogout
  <2>2. PICK released \in BOOLEAN :
           /\ trade' = [trade EXCEPT ![t] = Logout(trade[t], released)]
           /\ interfaceMap' = [interfaceMap EXCEPT ![k] = None]
           /\ interfaceStore' = Append(interfaceStore, t)
           /\ Respond(r, TRUE) /\ UNCHANGED created
    BY <1>9, <2>1 DEF ServeLogout
  <2>3. PutBack({k}, <<t>>)
    BY <2>1, <2>2, PutBackOne DEF WorkerInv
  <2>4. OneLoginTask' /\ Queued' \subseteq Queued /\ up' = up
    BY <1>1, <2>2, TakeTask DEF WorkerInv, SessionInv, Front, Respond
  <2>5. trade'[t].status = "out" /\ trade'[t].pend \subseteq trade[t].pend
    <3> DEFINE h == Logout(trade[t], released)
               out == [SetLogoutStatus(trade[t]) EXCEPT !.acct = NoAccount]
    <3>1. out.status = "out" /\ out.pend = trade[t].pend /\ out \in Instances
      BY <2>1 DEF SetLogoutStatus, Instances
    <3>2. h \in {out, [out EXCEPT !.iface = FALSE, !.pend = {}, !.sess = NoAccount]}
      BY DEF Logout
    <3>3. h.status = "out" /\ h.pend \subseteq trade[t].pend
      <4> HIDE DEF h, out
      <4> QED BY <3>1, <3>2 DEF Instances
    <3>4. trade'[t] = h
      BY <2>1, <2>2 DEF WorkerInv, RestTypeOK
    <3> QED BY <3>3, <3>4
  <2>6. \A q \in trade[t].pend : q.op # "login"
    BY <2>1 DEF SessionInv, PendingLogins, Awaits
  <2>7. \A x \in Queued' : x.kind = "callback" /\ x.ev = "login" => x.acct \notin {k}
    BY <2>1, <2>4 DEF SessionInv, LoginEvents, Awaits
  <2>8. \A u \in Trades : trade'[u] = trade[u] \/ \E j \in {k} : u = interfaceMap[j]
    BY <2>2 DEF WorkerInv, RestTypeOK
  <2>9. \A j \in {k} : /\ trade'[interfaceMap[j]].status = "out"
                       /\ \A q \in trade'[interfaceMap[j]].pend : q.op # "login"
    BY <2>5, <2>6
  <2> QED BY <2>3, <2>4, <2>7, <2>8, <2>9, LeaveStep
<1> QED BY <1>4, <1>5, <1>6, <1>7, <1>8, <1>9

\* An event of the SDK is served: it logs its customer in, sends his instance
\* back, or leaves the sessions alone.
LEMMA CallbackSession ==
    ASSUME WorkerInv, SessionInv, ProcessCallback
    PROVE  SessionInv'
<1> DEFINE cb == Head(queue)
<1> PICK k : k = cb.acct
  OBVIOUS
<1> PICK t : t = interfaceMap[k]
  OBVIOUS
<1>1. Front("callback") /\ cb \in Callbacks /\ cb.kind = "callback"
      /\ queue' = Tail(queue) /\ up' = up
  <2>1. Front("callback") /\ queue' = Tail(queue) /\ up' = up
    BY DEF ProcessCallback, CallbackUnknown, CallbackLoginFailed, CallbackDeliver
  <2> QED BY <2>1, FrontFacts DEF WorkerInv, Callbacks
<1>2. /\ OneLoginTask' /\ Queued' \subseteq Queued /\ cb \in Queued
      /\ LoginTask(cb) => \A x \in Queued' : LoginTask(x) => x.acct # k
  BY <1>1, TakeTask DEF WorkerInv, SessionInv, Front
<1>3. ASSUME k \in Mapped
      PROVE  /\ t \in Trades /\ t <= created /\ trade[t] \in Instances
             /\ \A j \in Mapped : interfaceMap[j] = t => j = k
  BY <1>3, MappedFacts, MappedMade
<1>4. ASSUME k \in Mapped, cb.ev = "login"
      PROVE  /\ trade[t].status = "out" /\ trade[t].acct = k /\ trade[t].iface
             /\ cb.success => trade[t].sess = k
             /\ LoginTask(cb) /\ \A q \in trade[t].pend : q.op # "login"
  <2>1. /\ Awaits(k, t) /\ cb.success => trade[t].sess = k
        /\ LoginTask(cb) /\ cb.acct = k
    BY <1>1, <1>2, <1>4 DEF SessionInv, LoginEvents, LoginTask
  <2>2. \A u \in Trades : \A q \in trade[u].pend : q.op = "login" => u # t /\ q.for # k
    BY <1>2, <1>3, <1>4, <2>1, NoneOnInstance
  <2> QED BY <1>1, <1>2, <1>3, <1>4, <2>1, <2>2 DEF Awaits, SessionInv, LoginEvents
<1>5. CASE CallbackUnknown
  <2>1. UNCHANGED <<pool, up, trade>>
    BY <1>5 DEF CallbackUnknown
  <2> QED BY <1>1, <2>1, QuietResponse
<1>6. CASE CallbackLoginFailed
  <2>1. /\ k \in Mapped /\ cb.ev = "login" /\ UNCHANGED <<created, trade>>
        /\ interfaceMap' = [interfaceMap EXCEPT ![k] = None]
        /\ interfaceStore' = Append(interfaceStore, t)
    BY <1>6 DEF CallbackLoginFailed
  <2>2. PutBack({k}, <<t>>)
    BY <2>1, PutBackOne DEF WorkerInv
  <2>3. \A x \in Queued' : x.kind = "callback" /\ x.ev = "login" => x.acct \notin {k}
    BY <1>2, <1>4, <2>1 DEF LoginTask
  <2>4. \A u \in Trades : trade'[u] = trade[u] \/ \E j \in {k} : u = interfaceMap[j]
    BY <2>1
  <2>5. \A j \in {k} : /\ trade'[interfaceMap[j]].status = "out"
                       /\ \A q \in trade'[interfaceMap[j]].pend : q.op # "login"
    BY <1>4, <2>1
  <2> QED BY <1>1, <1>2, <2>2, <2>3, <2>4, <2>5, LeaveStep
<1>7. CASE CallbackDeliver
  <2> PICK h : h = OnCallback(trade[t], cb)
    OBVIOUS
  <2>1. /\ k \in Mapped /\ ~(cb.ev = "login" /\ ~cb.success) /\ UNCHANGED pool
        /\ trade' = [trade EXCEPT ![t] = h]
    BY <1>7 DEF CallbackDeliver
  <2>2. /\ h.acct = trade[t].acct /\ h.iface = trade[t].iface /\ h.sess = trade[t].sess
        /\ h.pend = trade[t].pend
        /\ cb.ev # "login" => h.status = trade[t].status
        /\ cb.ev = "login" /\ cb.success => h.status = "in"
    BY <1>1, <1>3, <2>1, DeliverFacts
  <2>3. CASE cb.ev # "login"
    <3>1. Calmer(trade[t], h)
      BY <2>2, <2>3 DEF Calmer
    <3> QED BY <1>1, <1>3, <2>1, <3>1, CalmResponse
  <2>4. CASE cb.ev = "login" /\ cb.success
    <3>1. trade'[t] = h /\ \A u \in Trades : u # t => trade'[u] = trade[u]
      BY <1>3, <2>1 DEF WorkerInv, RestTypeOK
    <3>2. /\ h.acct = k /\ h.iface /\ h.sess = k /\ \A q \in h.pend : q.op # "login"
          /\ LoginTask(cb)
      BY <1>4, <2>1, <2>2, <2>4
    <3>3. \A x \in Queued' : LoginTask(x) => x \in Queued /\ x.acct # k
      BY <1>2, <3>2
    <3>4. \A x \in Queued' : x.kind = "callback" /\ x.ev = "login" =>
             \/ x \in Queued /\ x.acct # k
             \/ /\ x.acct = k /\ Awaits(k, interfaceMap[k])'
                /\ x.success => trade'[interfaceMap[k]].sess = k
      BY <3>3 DEF LoginTask
    <3>5. /\ \A u \in Trades : u # interfaceMap[k] => trade'[u] = trade[u]
          /\ \A q \in trade'[interfaceMap[k]].pend : q.op # "login"
          /\ trade'[interfaceMap[k]].acct = k /\ trade'[interfaceMap[k]].iface
          /\ trade'[interfaceMap[k]].sess \in {k, NoAccount}
      BY <3>1, <3>2
    <3>6. \A x \in Queued' : LoginTask(x) => x \in Queued \/ x.acct = k
      BY <3>3
    <3>7. OneLoginTask' /\ UNCHANGED <<pool, up>> /\ k \in Mapped
      BY <1>1, <1>2, <2>1
    <3> HIDE DEF cb
    <3> QED BY <3>4, <3>5, <3>6, <3>7, OneInstanceStep
  <2> QED BY <2>1, <2>3, <2>4
<1> QED BY <1>5, <1>6, <1>7 DEF ProcessCallback
\* The heartbeat: only instances with an interface beat.
LEMMA HeartBeatSession ==
    ASSUME WorkerInv, SessionInv, HeartBeat
    PROVE  SessionInv'
<1>1. \A t \in Beating : t \in Trades /\ trade[t].iface /\ t <= created
  BY MappedMade DEF Beating, SessionInv, OwnSession
<1>2. PICK failed \in SUBSET Beating :
         trade' = [t \in Trades |-> IF t \in failed THEN HeartBeatFailed(trade[t])
                                    ELSE trade[t]]
  BY <1>1 DEF HeartBeat
<1>3. UNCHANGED <<pool, queue, up>>
  BY <1>1 DEF HeartBeat
<1>4. \A t \in Trades : trade[t] \in Instances
  BY DEF WorkerInv, RestTypeOK
<1>5. ASSUME NEW g \in Instances PROVE Calmer(g, HeartBeatFailed(g))
  BY DEF HeartBeatFailed, SetLogoutStatus, Calmer, Instances
<1>6. \A t \in Trades : Calmer(trade[t], trade[t])
  BY DEF Calmer
<1>7. \A t \in Trades : Calmer(trade[t], trade'[t])
  BY <1>2, <1>4, <1>5, <1>6
<1>8. \A t \in Trades : t > created => trade'[t] = trade[t]
  <2>1. ASSUME NEW t \in Trades, t \in failed PROVE ~(t > created)
    <3>1. t <= created /\ t \in Nat /\ created \in Nat
      BY <1>1, <2>1, TradesFacts DEF WorkerInv, PoolInv, PoolTypeOK
    <3> QED BY <3>1
  <2> QED BY <1>2, <2>1
<1>9. OneLoginTask' /\ \A x \in Queued' : LoginTask(x) => x \in Queued
  BY <1>3 DEF SessionInv, OneLoginTask, LoginTask, Queued
<1> QED BY <1>3, <1>7, <1>8, <1>9, CalmStep

\* Sixty seconds change the age of a logout and nothing else.
LEMMA ElapseSession ==
    ASSUME WorkerInv, SessionInv, NEW t \in Trades, Elapse(t)
    PROVE  SessionInv'
<1>1. UNCHANGED <<pool, queue, up>> /\ ~trade[t].stale
      /\ trade' = [trade EXCEPT ![t] = [trade[t] EXCEPT !.stale = TRUE]]
  BY DEF Elapse
<1>2. trade[t] \in Instances
  BY DEF WorkerInv, RestTypeOK
<1>3. Calmer(trade[t], [trade[t] EXCEPT !.stale = TRUE])
  BY <1>2 DEF Calmer, Instances
<1>4. \A u \in Trades : Calmer(trade[u], trade[u])
  BY DEF Calmer
<1>5. \A u \in Trades : Calmer(trade[u], trade'[u])
  BY <1>1, <1>3, <1>4 DEF WorkerInv, RestTypeOK
<1>6. \A u \in Trades : u > created => trade'[u] = trade[u]
  <2>1. ~(t > created)
    BY <1>1 DEF SessionInv, FreshUntouched, NewInstance
  <2> QED BY <1>1, <2>1 DEF WorkerInv, RestTypeOK
<1>7. OneLoginTask' /\ \A x \in Queued' : LoginTask(x) => x \in Queued
  BY <1>1 DEF SessionInv, OneLoginTask, LoginTask, Queued
<1> QED BY <1>1, <1>5, <1>6, <1>7, CalmStep

\* check_active takes the instances of accounts that have no login under way.
LEMMA CheckActiveSession ==
    ASSUME Orderly, WorkerInv, SessionInv, CheckActive
    PROVE  SessionInv'
<1>1. \A k \in Accounts : ~LoginOutstanding(k)
  BY DEF CheckActive, Orderly
<1>2. UNCHANGED <<trade, queue, up>>
  BY DEF CheckActive
<1>3. PICK p : PutBack(Gone, p)
  BY PutBackGone
<1>4. OneLoginTask' /\ Queued' = Queued
  BY <1>2 DEF SessionInv, OneLoginTask, LoginTask, Queued
<1>5. \A k \in Gone : k \in Accounts /\ k \in Mapped /\ trade[interfaceMap[k]].status = "out"
  BY DEF Gone, Inactive, Mapped
<1>6. \A x \in Queued' : x.kind = "callback" /\ x.ev = "login" => x.acct \notin Gone
  BY <1>1, <1>4, <1>5 DEF LoginOutstanding
<1>7. \A t \in Trades : \A q \in trade[t].pend : q.op # "login"
  <2>1. \A t \in Trades : \A q \in trade[t].pend : q.for \in Accounts
    BY DEF WorkerInv, RestTypeOK, Instances, PendingCalls
  <2> QED BY <1>1, <2>1 DEF LoginOutstanding
<1>8. \A k \in Gone : /\ trade'[interfaceMap[k]].status = "out"
                      /\ \A q \in trade'[interfaceMap[k]].pend : q.op # "login"
  BY <1>2, <1>5, <1>7, MappedFacts
<1>9. \A t \in Trades : trade'[t] = trade[t] \/ \E k \in Gone : t = interfaceMap[k]
  BY <1>2
<1> QED BY <1>2, <1>3, <1>4, <1>6, <1>8, <1>9, LeaveStep

\* At the start there is no login, and no instance but those of the store.
LEMMA SessionInit == Init => SessionInv
<1> SUFFICES ASSUME Init PROVE SessionInv
  OBVIOUS
<1>1. queue = <<>> /\ up /\ \A t \in Trades : trade[t] = NewInstance
  BY DEF Init
<1>2. Mapped = {} /\ Queued = {}
  BY <1>1 DEF Init, Mapped, Queued
<1>3. Stored \subseteq Trades
  BY WorkerInvInit DEF WorkerInv, PoolInv, PoolTypeOK, Stored
<1>4. OneLoginTask /\ LoginEvents
  BY <1>1, <1>2 DEF OneLoginTask, LoginEvents
<1>5. PendingLogins
  BY <1>1 DEF PendingLogins, NewInstance
<1>6. OwnSession
  BY <1>2 DEF OwnSession
<1>7. SpareLoggedOut
  BY <1>1, <1>3 DEF SpareLoggedOut, NewInstance
<1>8. FreshUntouched /\ NoInvalidPointer
  BY <1>1 DEF FreshUntouched, NoInvalidPointer
<1> QED BY <1>4, <1>5, <1>6, <1>7, <1>8 DEF SessionInv

\* In an orderly environment every step keeps the sessions in order.
LEMMA SessionNext == Orderly /\ WorkerInv /\ SessionInv /\ [Next]_vars => SessionInv'
<1> SUFFICES ASSUME Orderly, WorkerInv, SessionInv, [Next]_vars PROVE SessionInv'
  OBVIOUS
<1>1. CASE UNCHANGED vars
  <2>1. UNCHANGED <<pool, up, queue, trade>>
    BY <1>1 DEF vars, pool
  <2>2. OneLoginTask' /\ \A x \in Queued' : LoginTask(x) => x \in Queued
    BY <2>1 DEF SessionInv, OneLoginTask, LoginTask, Queued
  <2>3. \A t \in Trades : Calmer(trade[t], trade'[t])
    BY <2>1 DEF Calmer
  <2> QED BY <2>1, <2>2, <2>3, CalmStep
<1>2. ASSUME NEW t \in Trades, Kick(t) PROVE SessionInv'
  BY <1>2 DEF Kick, Orderly
<1>3. CASE Next
  <2>1. CASE ProcessRequest
    BY <2>1, LoginSession, RequestSession DEF ProcessRequest
  <2> QED BY <1>2, <1>3, <2>1, ArriveSession, AnswerSession, ElapseSession,
             CallbackSession, HeartBeatSession, CheckActiveSession DEF Next
<1> QED BY <1>1, <1>3

\* With orderly clients and an orderly SDK, a customer's requests run on that
\* customer's own session: what request_type never checks holds all the same.
THEOREM SessionsStayOwn == Orderly => (Spec => []OwnSession)
<1>1. SessionInv => OwnSession
  BY DEF SessionInv
<1> SUFFICES ASSUME Orderly PROVE Spec => []OwnSession
  OBVIOUS
<1>2. WorkerInv /\ SessionInv /\ [Next]_vars => (WorkerInv /\ SessionInv)'
  BY WorkerInvNext, SessionNext
<1> QED BY <1>1, <1>2, WorkerInvInit, SessionInit, PTL DEF Spec
\* ... and login() of the next customer never finds a spare instance that
\* counts as logged in already.
THEOREM SparesStayOut == Orderly => (Spec => []SpareLoggedOut)
<1>1. SessionInv => SpareLoggedOut
  BY DEF SessionInv
<1> SUFFICES ASSUME Orderly PROVE Spec => []SpareLoggedOut
  OBVIOUS
<1>2. WorkerInv /\ SessionInv /\ [Next]_vars => (WorkerInv /\ SessionInv)'
  BY WorkerInvNext, SessionNext
<1> QED BY <1>1, <1>2, WorkerInvInit, SessionInit, PTL DEF Spec

\* ... and the worker never follows a NULL interface or an end iterator.
THEOREM WorkerStaysUp == Orderly => (Spec => []NoInvalidPointer)
<1>1. SessionInv => NoInvalidPointer
  BY DEF SessionInv
<1> SUFFICES ASSUME Orderly PROVE Spec => []NoInvalidPointer
  OBVIOUS
<1>2. WorkerInv /\ SessionInv /\ [Next]_vars => (WorkerInv /\ SessionInv)'
  BY WorkerInvNext, SessionNext
<1> QED BY <1>1, <1>2, WorkerInvInit, SessionInit, PTL DEF Spec
=============================================================================
