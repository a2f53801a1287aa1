-------------------------- MODULE QuoteFeedProofs --------------------------
(***************************************************************************)
(* quoteSave's pool of connections counts right, and no quote is lost or   *)
(* published twice, for every size of the pool and every number of feeds,  *)
(* products and quotes.                                                    *)
(*                                                                         *)
(* Base      types, the stream, how far each feed and message is in it.    *)
(* Numbered  unless a feed began in mid-stream: a feed that has read from  *)
(*           the start has counted the quotes of each second, so that the  *)
(*           numbers it has sent are positions.                            *)
(* Tracked   without a fault: what is saved of a product is a quote of it; *)
(*           all before it is published or comes after the ninth of its    *)
(*           second, and whatever a feed has read later is in the topic,   *)
(*           with no message ahead of an earlier quote.                    *)
(***************************************************************************)
EXTENDS QuoteFeed, BufferLemmas

\* PoolCounted is inductive once the counters are known to be numbers.
PoolSound == dbpool \in Pools /\ leaked \in Nat /\ PoolCounted

\* A pool as initPool leaves it counts right and is at most half full.
LEMMA InitialPoolCounts ==
    ASSUME NEW pl \in InitialPools
    PROVE  pl \in Pools /\ pl.cur = pl.free /\ pl.cur <= MaxSize
<1>1. PICK n \in 0 .. (MaxSize \div 2) : pl = [free |-> n, cur |-> n]
  BY PoolAssumption DEF InitialPools
<1>2. n \in Nat /\ n <= MaxSize
  BY PoolAssumption
<1> QED BY <1>1, <1>2 DEF Pools

\* GetConnection, when it returns a connection, leaves a pool that counts one
\* more than it holds.
LEMMA GrantCounts ==
    ASSUME PoolSound, NEW pl \in Grants(dbpool)
    PROVE  pl \in Pools /\ pl.cur = pl.free + leaked + 1 /\ pl.cur <= MaxSize
<1>1. dbpool.free \in Nat /\ dbpool.cur \in Nat /\ leaked \in Nat
      /\ dbpool = [free |-> dbpool.free, cur |-> dbpool.cur]
  BY DEF PoolSound, Pools
<1>2. CASE dbpool.free > 0
  <2>1. pl = [free |-> dbpool.free - 1, cur |-> dbpool.cur]
    BY <1>1, <1>2 DEF Grants
  <2> QED BY <1>1, <1>2, <2>1 DEF PoolSound, PoolCounted, Pools
<1>3. CASE ~(dbpool.free > 0)
  <2>1. dbpool.cur < MaxSize /\ pl = [free |-> dbpool.free, cur |-> dbpool.cur + 1]
    BY <1>1, <1>3 DEF Grants
  <2> QED BY <1>1, <1>3, <2>1, PoolAssumption DEF PoolSound, PoolCounted, Pools
<1> QED BY <1>2, <1>3

\* When it returns NULL, the pool still counts what it holds.
LEMMA RefusalCounts ==
    ASSUME PoolSound, NEW pl \in Refusals(dbpool)
    PROVE  pl \in Pools /\ pl.cur = pl.free + leaked /\ pl.cur <= MaxSize
<1>1. dbpool.free \in Nat /\ dbpool.cur \in Nat /\ leaked \in Nat
  BY DEF PoolSound, Pools
<1>2. CASE dbpool.free > 0
  <2>1. pl = [free |-> dbpool.free - 1, cur |-> dbpool.cur - 1]
    BY <1>2 DEF Refusals
  <2> QED BY <1>1, <1>2, <2>1, PoolAssumption DEF PoolSound, PoolCounted, Pools
<1>3. CASE ~(dbpool.free > 0)
  <2>1. pl = dbpool
    BY <1>3 DEF Refusals
  <2> QED BY <2>1 DEF PoolSound, PoolCounted
<1> QED BY <1>2, <1>3

\* The outcomes of executedb keep the pool's count, a leaked connection
\* included.
LEMMA StatementKeepsPool ==
    ASSUME PoolSound, NEW m, Insert(m) \/ InsertFails(m) \/ NoConnection(m)
    PROVE  PoolSound'
<1>1. CASE Insert(m)
  <2>1. PICK pl \in Grants(dbpool) : dbpool' = ReleaseConnection(pl)
    BY <1>1 DEF Insert
  <2>2. pl \in Pools /\ pl.cur = pl.free + leaked + 1 /\ pl.cur <= MaxSize
    BY GrantCounts
  <2>3. dbpool' = [free |-> pl.free + 1, cur |-> pl.cur] /\ leaked' = leaked
    BY <1>1, <2>1, <2>2 DEF Insert, ReleaseConnection, Pools
  <2> QED BY <2>2, <2>3 DEF PoolSound, PoolCounted, Pools
<1>2. CASE InsertFails(m)
  <2>1. dbpool' \in Pools /\ dbpool'.cur = dbpool'.free + leaked + 1
        /\ dbpool'.cur <= MaxSize
    BY <1>2, GrantCounts DEF InsertFails
  <2> QED BY <1>2, <2>1 DEF InsertFails, PoolSound, PoolCounted, Pools
<1>3. CASE NoConnection(m)
  <2>1. dbpool' \in Pools /\ dbpool'.cur = dbpool'.free + leaked
        /\ dbpool'.cur <= MaxSize
    BY <1>3, RefusalCounts DEF NoConnection
  <2> QED BY <1>3, <2>1 DEF NoConnection, PoolSound, PoolCounted
<1> QED BY <1>1, <1>2, <1>3

LEMMA PoolInit == Init => PoolSound
  BY InitialPoolCounts DEF Init, PoolSound, PoolCounted, Pools

LEMMA PoolNext == PoolSound /\ [Next]_vars => PoolSound'
<1> SUFFICES ASSUME PoolSound, [Next]_vars PROVE PoolSound'
  OBVIOUS
<1>1. CASE Receive
  <2>1. PICK m : \/ Insert(m) \/ InsertFails(m) \/ NoConnection(m)
                 \/ UNCHANGED <<dbpool, leaked>>
    BY <1>1 DEF Receive
  <2>2. CASE UNCHANGED <<dbpool, leaked>>
    BY <2>2 DEF PoolSound, PoolCounted
  <2> QED BY <2>1, <2>2, StatementKeepsPool
<1>2. CASE RestartSaver
  BY <1>2, InitialPoolCounts DEF RestartSaver, PoolSound, PoolCounted, Pools
<1>3. CASE UNCHANGED <<dbpool, leaked>>
  BY <1>3 DEF PoolSound, PoolCounted
<1>4. ASSUME NEW f \in Feeds, Forward(f) \/ Hangup(f) \/ JoinFeed(f)
      PROVE  UNCHANGED <<dbpool, leaked>>
  BY <1>4 DEF Forward, Hangup, JoinFeed, saverVars
<1>5. Emit \/ Lose \/ UNCHANGED vars => UNCHANGED <<dbpool, leaked>>
  BY DEF Emit, Lose, saverVars, vars
<1> QED BY <1>1, <1>2, <1>3, <1>4, <1>5 DEF Next

\* Whatever MySQL refuses and however many statements fail, the pool of
\* quoteSave counts the connections that exist and never makes more than its
\* limit.
THEOREM PoolStaysCounted == Spec => []PoolCounted
<1>1. PoolSound => PoolCounted
  BY DEF PoolSound
<1> QED BY <1>1, PoolInit, PoolNext, PTL DEF Spec

-----------------------------------------------------------------------------
(* The numbering of the quotes.                                            *)

\* A quote of the stream that can be parsed.
Readable(q) == q \in DOMAIN quotes /\ ~quotes[q].cut

\* The readable quotes of a product and a second among the first n.
Peers(k, t, n) ==
    {p \in 1 .. n : quotes[p].product = k /\ quotes[p].time = t /\ ~quotes[p].cut}

\* The server's clock does not go back, and the positions of the quotes of a
\* second have no gap.
Stream ==
    /\ Len(quotes) <= MaxQuotes
    /\ \A p \in DOMAIN quotes : quotes[p].time >= 1
    /\ \A p, r \in DOMAIN quotes : p < r => quotes[p].time <= quotes[r].time
    /\ \A k \in Products, t \in Nat :
          \A n \in 1 .. Cardinality(Peers(k, t, Len(quotes))) :
             \E q \in Peers(k, t, Len(quotes)) : Position(q) = n

\* No feed is ahead of the server, or counts more than it has read.
Counted ==
    \A f \in Feeds :
        /\ next[f] <= Len(quotes) + 1
        /\ \A k \in Products : timeMap[f][k] > 0 => seqMap[f][k] + 2 <= next[f]

\* The messages that quoteSave has before it, or may judge again.
InTransit == ({topic[i] : i \in DOMAIN topic} \cup {parsed}) \ {NoMessage}

\* They are made from readable quotes, and so is what was published.
Sent ==
    /\ \A m \in InTransit : Readable(m.q)
    /\ \A i \in DOMAIN single : Readable(single[i].q)

Quotes == [product : Products, time : Nat, cut : BOOLEAN]
Texts == Messages \cup {NoMessage}

\* The types of what is not the pool.
RestType ==
    /\ quotes \in Seq(Quotes)
    /\ up \subseteq Feeds
    /\ next \in [Feeds -> 1 .. (MaxQuotes + 1)]
    /\ timeMap \in [Feeds -> [Products -> Nat]]
    /\ seqMap \in [Feeds -> [Products -> Nat]]
    /\ topic \in Seq(Texts)
    /\ alive \in BOOLEAN
    /\ savedTime \in [Products -> Nat]
    /\ savedSeq \in [Products -> Nat]
    /\ parsed \in Texts
    /\ single \in Seq([q : 1 .. MaxQuotes, n : 1 .. MaxQuotes, stored : BOOLEAN])
    /\ faults \subseteq {"join", "lose", "restart"}

\* The inductive invariant as far as no property needs the absence of faults.
Base == PoolSound /\ RestType /\ Stream /\ Counted /\ Sent

LEMMA QuoteFacts ==
    ASSUME quotes \in Seq(Quotes)
    PROVE  /\ Len(quotes) \in Nat /\ DOMAIN quotes = 1 .. Len(quotes)
           /\ \A q \in DOMAIN quotes : /\ quotes[q].product \in Products
                                       /\ quotes[q].time \in Nat /\ quotes[q].cut \in BOOLEAN
<1>1. \A q \in DOMAIN quotes : quotes[q] \in Quotes
  OBVIOUS
<1>2. \A e \in Quotes : e.product \in Products /\ e.time \in Nat /\ e.cut \in BOOLEAN
  BY DEF Quotes
<1> QED BY <1>1, <1>2

LEMMA PeersFinite ==
    ASSUME NEW k, NEW t, NEW n \in Nat
    PROVE  /\ IsFiniteSet(Peers(k, t, n)) /\ Cardinality(Peers(k, t, n)) \in Nat
           /\ Cardinality(Peers(k, t, n)) <= n
<1>1. Peers(k, t, n) \in SUBSET (1 .. n)
  BY DEF Peers
<1> QED BY <1>1, IntervalFacts, FS_Subset, FS_CardinalityType

LEMMA PositionIsCount ==
    ASSUME NEW q
    PROVE  Position(q) = Cardinality(Peers(quotes[q].product, quotes[q].time, q))
  BY DEF Position, Peers

\* One more quote.
LEMMA PeersGrow ==
    ASSUME NEW k, NEW t, NEW n \in Nat
    PROVE  LET old == Peers(k, t, n)
               new == Peers(k, t, n + 1)
           IN  IF quotes[n + 1].product = k /\ quotes[n + 1].time = t /\ ~quotes[n + 1].cut
               THEN new = old \cup {n + 1} /\ Cardinality(new) = Cardinality(old) + 1
               ELSE new = old
<1>1. 1 .. (n + 1) = (1 .. n) \cup {n + 1} /\ n + 1 \notin 1 .. n
  OBVIOUS
<1>2. CASE quotes[n + 1].product = k /\ quotes[n + 1].time = t /\ ~quotes[n + 1].cut
  <2>1. Peers(k, t, n + 1) = Peers(k, t, n) \cup {n + 1} /\ n + 1 \notin Peers(k, t, n)
    BY <1>1, <1>2 DEF Peers
  <2> QED BY <1>2, <2>1, PeersFinite, FS_AddElement
<1>3. CASE ~(quotes[n + 1].product = k /\ quotes[n + 1].time = t /\ ~quotes[n + 1].cut)
  BY <1>1, <1>3 DEF Peers
<1> QED BY <1>2, <1>3

\* A position is that of one of the quotes up to this one.
LEMMA PositionType ==
    ASSUME quotes \in Seq(Quotes), NEW q, Readable(q)
    PROVE  Position(q) \in 1 .. q /\ q \in Nat \ {0}
<1> DEFINE P == Peers(quotes[q].product, quotes[q].time, q)
<1>1. q \in Nat \ {0} /\ q \in P
  BY DEF Readable, Peers
<1>2. IsFiniteSet(P) /\ Cardinality(P) \in Nat /\ Cardinality(P) <= q
  BY <1>1, PeersFinite
<1>3. Cardinality(P) # 0
  BY <1>1, <1>2, FS_EmptySet
<1> QED BY <1>1, <1>2, <1>3, PositionIsCount

\* Of two quotes of a second the later has the greater position.
LEMMA PositionGrows ==
    ASSUME quotes \in Seq(Quotes), NEW p, NEW q, Readable(p), Readable(q), p < q,
           quotes[p].product = quotes[q].product, quotes[p].time = quotes[q].time
    PROVE  Position(p) < Position(q)
<1> DEFINE A == Peers(quotes[q].product, quotes[q].time, p)
           B == Peers(quotes[q].product, quotes[q].time, q)
<1>0. p \in Nat /\ q \in Nat
  BY DEF Readable
<1>1. A \in SUBSET B /\ q \in B /\ q \notin A
  BY <1>0 DEF Peers, Readable
<1>2. IsFiniteSet(B) /\ Cardinality(B) \in Nat /\ Cardinality(A) \in Nat
  BY <1>0, PeersFinite
<1>3. Cardinality(A) <= Cardinality(B) /\ Cardinality(A) # Cardinality(B)
  BY <1>1, <1>2, FS_Subset
<1>4. Position(p) = Cardinality(A) /\ Position(q) = Cardinality(B)
  BY PositionIsCount
<1> QED BY <1>2, <1>3, <1>4

\* So a quote is known by its product, its second and its position.
LEMMA PositionUnique ==
    ASSUME quotes \in Seq(Quotes), NEW p, NEW q, Readable(p), Readable(q),
           quotes[p].product = quotes[q].product, quotes[p].time = quotes[q].time
    PROVE  /\ Position(p) = Position(q) => p = q
           /\ Position(p) < Position(q) => p < q
<1>1. p \in Nat /\ q \in Nat /\ Position(p) \in Nat /\ Position(q) \in Nat
  BY PositionType
<1>2. p < q => Position(p) < Position(q)
  BY PositionGrows
<1>3. q < p => Position(q) < Position(p)
  BY PositionGrows
<1> QED BY <1>1, <1>2, <1>3

\* Before a quote come those of all the lower positions.
LEMMA LowerPositions ==
    ASSUME quotes \in Seq(Quotes), Stream, NEW q, Readable(q), NEW n \in Nat \ {0},
           n < Position(q)
    PROVE  \E p \in 1 .. (q - 1) :
              /\ Readable(p) /\ Position(p) = n
              /\ quotes[p].product = quotes[q].product /\ quotes[p].time = quotes[q].time
<1> DEFINE k == quotes[q].product
           t == quotes[q].time
           all == Peers(k, t, Len(quotes))
<1>1. q \in 1 .. Len(quotes) /\ Len(quotes) \in Nat /\ k \in Products /\ t \in Nat
  BY QuoteFacts DEF Readable
<1>2. Position(q) \in Nat /\ Position(q) <= Cardinality(all)
  <2>1. Peers(k, t, q) \in SUBSET all
    BY <1>1 DEF Peers
  <2> QED BY <1>1, <2>1, PeersFinite, FS_Subset, PositionType, PositionIsCount
<1>3. Cardinality(all) \in Nat
  BY <1>1, PeersFinite
<1>4. PICK p \in all : Position(p) = n
  BY <1>1, <1>2, <1>3 DEF Stream
<1>5. Readable(p) /\ quotes[p].product = k /\ quotes[p].time = t /\ p \in Nat \ {0}
  BY <1>1, <1>4 DEF Readable, Peers
<1>6. p < q
  BY <1>4, <1>5, PositionUnique
<1> QED BY <1>1, <1>4, <1>5, <1>6
\* A quote that is sent changes nothing about those before it.
LEMMA GrowFacts ==
    ASSUME quotes \in Seq(Quotes), NEW e \in Quotes, quotes' = Append(quotes, e)
    PROVE  /\ quotes' \in Seq(Quotes) /\ Len(quotes') = Len(quotes) + 1
           /\ Len(quotes) \in Nat /\ DOMAIN quotes = 1 .. Len(quotes)
           /\ quotes'[Len(quotes) + 1] = e
           /\ \A q \in DOMAIN quotes : /\ q \in DOMAIN quotes' /\ quotes'[q] = quotes[q]
                                       /\ Readable(q)' = Readable(q)
                                       /\ Position(q)' = Position(q)
           /\ \A k, t : \A n \in 0 .. Len(quotes) : Peers(k, t, n)' = Peers(k, t, n)
<1>1. /\ quotes' \in Seq(Quotes) /\ Len(quotes') = Len(quotes) + 1
      /\ Len(quotes) \in Nat /\ DOMAIN quotes = 1 .. Len(quotes)
      /\ quotes'[Len(quotes) + 1] = e
      /\ \A q \in DOMAIN quotes : q \in DOMAIN quotes' /\ quotes'[q] = quotes[q]
  OBVIOUS
<1>2. \A k, t : \A n \in 0 .. Len(quotes) : Peers(k, t, n)' = Peers(k, t, n)
  <2> TAKE k, t
  <2> TAKE n \in 0 .. Len(quotes)
  <2>1. \A p \in 1 .. n : quotes'[p] = quotes[p]
    BY <1>1
  <2> QED BY <2>1 DEF Peers
<1>3. \A q \in DOMAIN quotes : Readable(q)' = Readable(q) /\ Position(q)' = Position(q)
  <2> TAKE q \in DOMAIN quotes
  <2>1. quotes'[q] = quotes[q] /\ q \in DOMAIN quotes'
    BY <1>1
  <2>2. \A p \in 1 .. q : quotes'[p] = quotes[p]
    BY <1>1
  <2>3. Readable(q)' = Readable(q)
    BY <2>1 DEF Readable
  <2>4. Position(q)' = Position(q)
    BY <2>1, <2>2 DEF Position
  <2> QED BY <2>3, <2>4
<1> QED BY <1>1, <1>2, <1>3

\* What the server sends.
LEMMA EmitFacts ==
    ASSUME Base, Emit
    PROVE  \E e \in Quotes : /\ quotes' = Append(quotes, e) /\ Len(quotes) < MaxQuotes
                             /\ e.time >= 1
                             /\ \A p \in DOMAIN quotes : quotes[p].time <= e.time
<1>1. quotes \in Seq(Quotes) /\ Len(quotes) \in Nat
  BY DEF Base, RestType
<1>2. Now \in Nat /\ Now >= 1 /\ \A p \in DOMAIN quotes : quotes[p].time <= Now
  <2>1. CASE quotes = <<>>
    BY <2>1 DEF Now
  <2>2. CASE quotes # <<>>
    <3> DEFINE n == Len(quotes)
    <3>1. n \in DOMAIN quotes /\ Now = quotes[n].time /\ quotes[n].time \in Nat
      BY <1>1, <2>2, QuoteFacts DEF Now
    <3>2. \A p \in DOMAIN quotes : p < n \/ p = n
      BY <1>1
    <3> QED BY <3>1, <3>2 DEF Base, Stream
  <2> QED BY <2>1, <2>2
<1>3. PICK k \in Products, t \in {Now, Now + 1}, c \in BOOLEAN :
         quotes' = Append(quotes, [product |-> k, time |-> t, cut |-> c])
  BY DEF Emit
<1> DEFINE e == [product |-> k, time |-> t, cut |-> c]
<1>4. t \in Nat /\ t >= 1 /\ \A p \in DOMAIN quotes : quotes[p].time <= t
  <2>1. \A p \in DOMAIN quotes : quotes[p].time \in Nat
    BY <1>1, QuoteFacts
  <2> QED BY <1>2, <2>1
<1>5. e \in Quotes /\ e.time = t
  BY <1>4 DEF Quotes
<1> QED BY <1>3, <1>4, <1>5 DEF Emit

\* The stream of the server, one quote longer.
LEMMA EmitStream ==
    ASSUME Base, Emit
    PROVE  Stream'
<1>1. PICK e \in Quotes : /\ quotes' = Append(quotes, e) /\ Len(quotes) < MaxQuotes
                          /\ e.time >= 1
                          /\ \A p \in DOMAIN quotes : quotes[p].time <= e.time
  BY EmitFacts
<1>2. quotes \in Seq(Quotes)
  BY DEF Base, RestType
<1> PICK n \in Nat : n = Len(quotes)
  BY <1>2
<1>0. /\ quotes' \in Seq(Quotes) /\ Len(quotes') = n + 1 /\ n \in Nat /\ n < MaxQuotes
      /\ DOMAIN quotes = 1 .. n /\ quotes'[n + 1] = e /\ n = Len(quotes)
  BY <1>1, <1>2, GrowFacts
<1>3. /\ n \in Nat /\ quotes'[n + 1] = e
      /\ \A q \in 1 .. n : quotes'[q] = quotes[q] /\ Position(q)' = Position(q)
  BY <1>0, <1>1, <1>2, GrowFacts
<1>9. \A k, t : Peers(k, t, n)' = Peers(k, t, n)
  <2>1. n \in 0 .. Len(quotes)
    BY <1>0
  <2> QED BY <1>1, <1>2, <2>1, GrowFacts
<1>4. DOMAIN quotes' = 1 .. (n + 1)
  BY <1>0
<1>5. (Len(quotes) <= MaxQuotes)'
  BY <1>0, QuoteAssumption
<1>6. (\A p \in DOMAIN quotes : quotes[p].time >= 1)'
  <2> SUFFICES ASSUME NEW p \in 1 .. (n + 1) PROVE quotes'[p].time >= 1
    BY <1>4
  <2> QED BY <1>0, <1>1, <1>3 DEF Base, Stream
<1>7. (\A p, r \in DOMAIN quotes : p < r => quotes[p].time <= quotes[r].time)'
  <2> SUFFICES ASSUME NEW p \in 1 .. (n + 1), NEW r \in 1 .. (n + 1), p < r
               PROVE  quotes'[p].time <= quotes'[r].time
    BY <1>4
  <2>1. p \in 1 .. n /\ quotes'[p] = quotes[p]
    BY <1>3
  <2>2. CASE r = n + 1
    BY <1>0, <1>1, <1>3, <2>1, <2>2
  <2>3. CASE r # n + 1
    <3>1. r \in 1 .. n /\ quotes'[r] = quotes[r]
      BY <1>3, <2>3
    <3> QED BY <1>0, <2>1, <3>1 DEF Base, Stream
  <2> QED BY <2>2, <2>3
<1>8. (\A k \in Products, t \in Nat :
          \A i \in 1 .. Cardinality(Peers(k, t, Len(quotes))) :
             \E q \in Peers(k, t, Len(quotes)) : Position(q) = i)'
  <2> SUFFICES ASSUME NEW k \in Products, NEW t \in Nat,
                      NEW i \in 1 .. Cardinality(Peers(k, t, n + 1)')
               PROVE  \E q \in Peers(k, t, n + 1)' : Position(q)' = i
    BY <1>0
  <2> DEFINE old == Peers(k, t, n)
  <2>1. IsFiniteSet(old) /\ Cardinality(old) \in Nat /\ old \subseteq 1 .. n
    <3>1. old \subseteq 1 .. n
      BY DEF Peers
    <3> QED BY <1>3, <3>1, PeersFinite
  <2>2. \A j \in 1 .. Cardinality(old) : \E q \in old : Position(q) = j
    BY <1>0 DEF Base, Stream
  <2>0. \A p \in 1 .. n : quotes'[p] = quotes[p]
    BY <1>3
  <2>3. \A j \in 1 .. Cardinality(old) : \E q \in old : Position(q)' = j
    BY <1>3, <2>1, <2>2
  <2> HIDE DEF old
  <2>4. (1 .. (n + 1)) = (1 .. n) \cup {n + 1} /\ n + 1 \notin 1 .. n
    BY <1>3
  <2>5. CASE e.product = k /\ e.time = t /\ ~e.cut
    <3>1. Peers(k, t, n + 1)' = old \cup {n + 1}
      BY <1>3, <2>0, <2>4, <2>5 DEF Peers, old
    <3>2. Cardinality(old \cup {n + 1}) = Cardinality(old) + 1
      BY <2>1, <2>4, FS_AddElement
    <3>3. Position(n + 1)' = Cardinality(old) + 1
      <4>1. Position(n + 1)' = Cardinality(Peers(k, t, n + 1)')
        <5>1. quotes'[n + 1].product = k /\ quotes'[n + 1].time = t
          BY <1>3, <2>5
        <5> QED BY <5>1 DEF Position, Peers
      <4> QED BY <3>1, <3>2, <4>1
    <3>4. i \in 1 .. Cardinality(old) \/ i = Cardinality(old) + 1
      <4>1. Cardinality(Peers(k, t, n + 1)') = Cardinality(old) + 1
        BY <3>1, <3>2
      <4>2. i \in 1 .. (Cardinality(old) + 1)
        BY <4>1
      <4> QED BY <2>1, <4>2
    <3> QED BY <2>3, <3>1, <3>3, <3>4
  <2>6. CASE ~(e.product = k /\ e.time = t /\ ~e.cut)
    <3>1. Peers(k, t, n + 1)' = old
      BY <1>3, <2>0, <2>4, <2>6 DEF Peers, old
    <3> QED BY <2>3, <3>1
  <2> QED BY <2>5, <2>6
<1> QED BY <1>5, <1>6, <1>7, <1>8 DEF Stream
-----------------------------------------------------------------------------
(* The types and the messages.                                             *)

\* A message in transit is a message proper, made from a readable quote.
LEMMA TransitFacts ==
    ASSUME Base, NEW m \in InTransit
    PROVE  /\ m \in Messages /\ m # NoMessage /\ Readable(m.q)
           /\ m.q \in Nat \ {0} /\ m.n \in Nat \ {0} /\ m.n <= MaxQuotes
           /\ Symbol(m) \in Products /\ Time(m) \in Nat /\ Time(m) >= 1
<1>1. m \in Texts /\ m # NoMessage /\ Readable(m.q)
  <2>1. topic \in Seq(Texts) /\ parsed \in Texts
    BY DEF Base, RestType
  <2>2. Readable(m.q)
    BY DEF Base, Sent
  <2> QED BY <2>1, <2>2 DEF InTransit
<1>2. m \in Messages /\ m.q \in 1 .. MaxQuotes /\ m.n \in 1 .. MaxQuotes
  BY <1>1 DEF Texts, Messages
<1>3. Symbol(m) \in Products /\ Time(m) \in Nat /\ Time(m) >= 1
  BY <1>1, QuoteFacts DEF Readable, Symbol, Time, Base, RestType, Stream
<1> QED BY <1>1, <1>2, <1>3, QuoteAssumption

\* What is sent and read is still there after a step that keeps the quotes and
\* puts nothing in transit that was not made from a readable quote.
LEMMA SentStays ==
    ASSUME Base, UNCHANGED <<quotes, single>>,
           \A m \in InTransit' : m \in InTransit \/ Readable(m.q)
    PROVE  Sent'
<1>1. \A q : Readable(q)' = Readable(q)
  BY DEF Readable
<1>2. \A m \in InTransit' : Readable(m.q)
  BY DEF Base, Sent
<1>3. \A i \in DOMAIN single : Readable(single[i].q)
  BY DEF Base, Sent
<1>4. \A m \in InTransit' : Readable(m.q)'
  BY <1>1, <1>2
<1>5. (\A i \in DOMAIN single : Readable(single[i].q))'
  BY <1>3 DEF Readable
<1> QED BY <1>4, <1>5 DEF Sent

LEMMA EmitBase ==
    ASSUME Base, Emit
    PROVE  RestType' /\ Counted' /\ Sent'
<1>1. PICK e \in Quotes : quotes' = Append(quotes, e)
  BY EmitFacts
<1>2. UNCHANGED <<up, next, timeMap, seqMap, topic, alive, savedTime, savedSeq, parsed,
                  single, faults>>
  BY DEF Emit, feedVars, saverVars
<1>3. /\ quotes' \in Seq(Quotes) /\ Len(quotes') = Len(quotes) + 1 /\ Len(quotes) \in Nat
      /\ \A q \in DOMAIN quotes : Readable(q)' = Readable(q)
  BY <1>1, GrowFacts DEF Base, RestType
<1>4. RestType'
  BY <1>2, <1>3 DEF Base, RestType
<1>5. Counted'
  <2> SUFFICES ASSUME NEW f \in Feeds
               PROVE  /\ next'[f] <= Len(quotes') + 1
                      /\ \A k \in Products : timeMap'[f][k] > 0 => seqMap'[f][k] + 2 <= next'[f]
    BY DEF Counted
  <2>1. next[f] \in Nat /\ next[f] <= Len(quotes) + 1
    BY QuoteAssumption DEF Base, RestType, Counted
  <2> QED BY <1>2, <1>3, <2>1 DEF Base, Counted
<1>6. Sent'
  <2>1. \A q : Readable(q) => Readable(q)'
    BY <1>3 DEF Readable
  <2>2. InTransit' = InTransit
    BY <1>2 DEF InTransit
  <2> QED BY <1>2, <2>1, <2>2 DEF Base, Sent
<1> QED BY <1>4, <1>5, <1>6

\* The number of a quote is at most the count of those read.
LEMMA SequenceType ==
    ASSUME Base, NEW f \in Feeds, next[f] <= Len(quotes), NEW quote, quote = quotes[next[f]]
    PROVE  /\ next[f] \in DOMAIN quotes /\ next[f] \in Nat \ {0} /\ next[f] <= MaxQuotes
           /\ quote \in Quotes
           /\ quote.product \in Products /\ quote.time \in Nat /\ quote.time >= 1
           /\ NextCount(f, quote) \in Nat /\ NextCount(f, quote) + 1 <= next[f]
           /\ Sequence(f, quote) = NextCount(f, quote) + 1
           /\ Sequence(f, quote) \in 1 .. MaxQuotes
<1> DEFINE k == quote.product
<1>1. next[f] \in Nat \ {0} /\ Len(quotes) \in Nat /\ Len(quotes) <= MaxQuotes
      /\ next[f] \in DOMAIN quotes /\ MaxQuotes \in Nat
  BY QuoteAssumption DEF Base, RestType, Stream
<1>2. quote \in Quotes /\ quote.product \in Products /\ k \in Products /\ quote.time \in Nat /\ quote.time >= 1
  BY <1>1, QuoteFacts DEF Base, RestType, Stream
<1>3. timeMap[f][k] \in Nat /\ seqMap[f][k] \in Nat
  BY <1>2 DEF Base, RestType
<1>4. CASE SameSecond(f, quote)
  <2>1. seqMap[f][k] + 2 <= next[f]
    BY <1>2, <1>3, <1>4 DEF SameSecond, Base, Counted
  <2>2. NextCount(f, quote) = seqMap[f][k] + 1 /\ Sequence(f, quote) = seqMap[f][k] + 2
    BY <1>4 DEF NextCount, Sequence
  <2> HIDE DEF k
  <2>3. seqMap[f][k] + 1 \in Nat /\ seqMap[f][k] + 2 \in 1 .. MaxQuotes
    BY <1>1, <1>3, <2>1
  <2> QED BY <1>1, <1>2, <1>3, <2>1, <2>2, <2>3
<1>5. CASE ~SameSecond(f, quote)
  <2>1. NextCount(f, quote) = 0 /\ Sequence(f, quote) = 1
    BY <1>5 DEF NextCount, Sequence
  <2> QED BY <1>1, <1>2, <2>1
<1> QED BY <1>4, <1>5
LEMMA ForwardBase ==
    ASSUME Base, NEW f \in Feeds, Forward(f)
    PROVE  RestType' /\ Counted' /\ Sent'
<1> PICK quote : quote = quotes[next[f]]
  OBVIOUS
<1> PICK k : k = quote.product
  OBVIOUS
<1>0. next[f] <= Len(quotes) /\ next' = [next EXCEPT ![f] = @ + 1]
      /\ UNCHANGED <<quotes, up, alive, savedTime, savedSeq, parsed, single, faults>>
  BY DEF Forward, saverVars
<1>1. /\ next[f] \in Nat \ {0} /\ next[f] <= MaxQuotes /\ next[f] \in DOMAIN quotes
      /\ k \in Products /\ quote.time \in Nat
      /\ NextCount(f, quote) \in Nat /\ NextCount(f, quote) + 1 <= next[f]
      /\ Sequence(f, quote) \in 1 .. MaxQuotes
  BY <1>0, SequenceType
<1> DEFINE m == [q |-> next[f], n |-> Sequence(f, quote)]
<1>2. CASE quote.cut
  <2>1. topic' = Append(topic, NoMessage) /\ UNCHANGED <<timeMap, seqMap>>
    BY <1>2 DEF Forward
  <2>2. topic' \in Seq(Texts) /\ InTransit' \subseteq InTransit
    <3>1. NoMessage \in Texts /\ topic \in Seq(Texts)
      BY DEF Texts, Base, RestType
    <3> QED BY <1>0, <2>1, <3>1, PushFacts DEF InTransit
  <2>3. next' \in [Feeds -> 1 .. (MaxQuotes + 1)]
    BY <1>0, <1>1, QuoteAssumption DEF Base, RestType
  <2>4. RestType'
    BY <1>0, <2>1, <2>2, <2>3 DEF Base, RestType
  <2>5. Counted'
    <3> SUFFICES ASSUME NEW g \in Feeds
                 PROVE  /\ next'[g] <= Len(quotes) + 1
                        /\ \A j \in Products : timeMap[g][j] > 0 => seqMap[g][j] + 2 <= next'[g]
      BY <1>0, <2>1 DEF Counted
    <3>1. next[g] \in Nat /\ Len(quotes) \in Nat
          /\ \A j \in Products : seqMap[g][j] \in Nat /\ timeMap[g][j] \in Nat
      BY QuoteAssumption DEF Base, RestType
    <3>2. next'[g] = next[g] \/ (g = f /\ next'[g] = next[g] + 1)
      BY <1>0 DEF Base, RestType
    <3> QED BY <1>0, <3>1, <3>2 DEF Base, Counted
  <2>6. Sent'
    BY <1>0, <2>2, SentStays
  <2> QED BY <2>4, <2>5, <2>6
<1>3. CASE ~quote.cut
  <2>1. /\ topic' = Append(topic, m)
        /\ timeMap' = [timeMap EXCEPT ![f][k] = quote.time]
        /\ seqMap' = [seqMap EXCEPT ![f][k] = NextCount(f, quote)]
    BY <1>3 DEF Forward
  <2>0. m \in Texts /\ Readable(m.q)
    BY <1>1, <1>3, QuoteAssumption DEF Texts, Messages, Readable
  <2> HIDE DEF m
  <2>2. topic' \in Seq(Texts) /\ InTransit' \subseteq InTransit \cup {m}
    <3>1. topic \in Seq(Texts)
      BY DEF Base, RestType
    <3> QED BY <1>0, <2>0, <2>1, <3>1, PushFacts DEF InTransit
  <2>3. next' \in [Feeds -> 1 .. (MaxQuotes + 1)]
    BY <1>0, <1>1, QuoteAssumption DEF Base, RestType
  <2>7. timeMap' \in [Feeds -> [Products -> Nat]] /\ seqMap' \in [Feeds -> [Products -> Nat]]
    BY <1>1, <2>1 DEF Base, RestType
  <2>4. RestType'
    BY <1>0, <2>2, <2>3, <2>7 DEF Base, RestType
  <2>5. Counted'
    <3> SUFFICES ASSUME NEW g \in Feeds
                 PROVE  /\ next'[g] <= Len(quotes) + 1
                        /\ \A j \in Products : timeMap'[g][j] > 0 => seqMap'[g][j] + 2 <= next'[g]
      BY <1>0 DEF Counted
    <3>1. next[g] \in Nat /\ Len(quotes) \in Nat
          /\ \A j \in Products : seqMap[g][j] \in Nat /\ timeMap[g][j] \in Nat
      BY QuoteAssumption DEF Base, RestType
    <3>2. next'[g] = IF g = f THEN next[g] + 1 ELSE next[g]
      BY <1>0 DEF Base, RestType
    <3>3. \A j \in Products : /\ timeMap'[g][j] = IF g = f /\ j = k THEN quote.time ELSE timeMap[g][j]
                              /\ seqMap'[g][j] = IF g = f /\ j = k THEN NextCount(f, quote)
                                                 ELSE seqMap[g][j]
      BY <2>1 DEF Base, RestType
    <3>4. /\ next[g] <= Len(quotes) + 1
          /\ \A j \in Products : timeMap[g][j] > 0 => seqMap[g][j] + 2 <= next[g]
      BY DEF Base, Counted
    <3>5. next'[g] <= Len(quotes) + 1
      BY <1>0, <3>1, <3>2, <3>4
    <3>6. ASSUME NEW j \in Products, timeMap'[g][j] > 0
          PROVE  seqMap'[g][j] + 2 <= next'[g]
      <4>1. CASE g = f /\ j = k
        <5>1. seqMap'[g][j] = NextCount(f, quote) /\ next'[g] = next[f] + 1
          BY <3>2, <3>3, <4>1
        <5> QED BY <1>1, <5>1
      <4>2. CASE ~(g = f /\ j = k)
        <5>1. timeMap'[g][j] = timeMap[g][j] /\ seqMap'[g][j] = seqMap[g][j]
          BY <3>3, <4>2
        <5>2. seqMap[g][j] + 2 <= next[g]
          BY <3>4, <3>6, <5>1
        <5>3. next'[g] = next[g] \/ next'[g] = next[g] + 1
          BY <3>2
        <5> QED BY <3>1, <5>1, <5>2, <5>3
      <4> QED BY <4>1, <4>2
    <3> QED BY <3>5, <3>6
  <2>6. Sent'
    <3>1. \A x \in InTransit' : x \in InTransit \/ Readable(x.q)
      BY <2>0, <2>2
    <3> QED BY <1>0, <3>1, SentStays
  <2> QED BY <2>4, <2>5, <2>6
<1>4. quote.cut \in BOOLEAN
  BY <1>1, QuoteFacts DEF Base, RestType
<1> QED BY <1>2, <1>3

\* Hangup and Lose only take messages away, or put in one that does not parse.
LEMMA FaultTransit ==
    ASSUME Base, Lose \/ \E f \in Feeds : Hangup(f)
    PROVE  topic' \in Seq(Texts) /\ InTransit' \subseteq InTransit
<1>1. parsed' = parsed
  BY DEF Hangup, Lose, saverVars
<1>2. topic \in Seq(Texts) /\ NoMessage \in Texts
  BY DEF Base, RestType, Texts
<1>3. CASE topic' = topic
  BY <1>1, <1>2, <1>3 DEF InTransit
<1>4. CASE topic' = Append(topic, NoMessage)
  BY <1>1, <1>2, <1>4, PushFacts DEF InTransit
<1>5. ASSUME NEW i \in DOMAIN topic,
             topic' = [j \in 1 .. (Len(topic) - 1) |->
                          IF j < i THEN topic[j] ELSE topic[j + 1]]
      PROVE  topic' \in Seq(Texts) /\ InTransit' \subseteq InTransit
  <2>1. Len(topic) \in Nat /\ DOMAIN topic = 1 .. Len(topic) /\ Len(topic) - 1 \in Nat
    BY <1>2
  <2>2. \A j \in 1 .. (Len(topic) - 1) :
           /\ j \in DOMAIN topic /\ j + 1 \in DOMAIN topic
           /\ topic'[j] = topic[j] \/ topic'[j] = topic[j + 1]
    BY <1>5, <2>1
  <2>3. topic' \in [1 .. (Len(topic) - 1) -> Texts]
    BY <1>2, <1>5, <2>1, <2>2
  <2>4. topic' \in Seq(Texts) /\ DOMAIN topic' = 1 .. (Len(topic) - 1)
    BY <2>1, <2>3, FunctionIsBuffer
  <2> QED BY <1>1, <2>2, <2>4 DEF InTransit
<1> QED BY <1>3, <1>4, <1>5 DEF Hangup, Lose

LEMMA FaultBase ==
    ASSUME Base, Lose \/ \E f \in Feeds : Hangup(f)
    PROVE  RestType' /\ Counted' /\ Sent'
<1>1. UNCHANGED <<quotes, next, timeMap, seqMap, alive, savedTime, savedSeq, parsed, single>>
  BY DEF Hangup, Lose, feedVars, saverVars
<1>2. up' \subseteq Feeds /\ faults' \subseteq {"join", "lose", "restart"}
  BY DEF Hangup, Lose, feedVars, Base, RestType
<1>3. topic' \in Seq(Texts) /\ InTransit' \subseteq InTransit
  BY FaultTransit
<1>4. RestType' /\ Counted'
  BY <1>1, <1>2, <1>3 DEF Base, RestType, Counted
<1>5. Sent'
  BY <1>1, <1>3, SentStays
<1> QED BY <1>4, <1>5

\* A process that is started knows nothing and has everything before it.
LEMMA StartBase ==
    ASSUME Base, RestartSaver \/ \E f \in Feeds : JoinFeed(f)
    PROVE  RestType' /\ Counted' /\ Sent'
<1>1. ASSUME NEW f \in Feeds, JoinFeed(f) PROVE RestType' /\ Counted' /\ Sent'
  <2>1. /\ UNCHANGED <<quotes, topic, alive, savedTime, savedSeq, parsed, single>>
        /\ up' = up \cup {f} /\ next' = [next EXCEPT ![f] = Len(quotes) + 1]
        /\ timeMap' = [timeMap EXCEPT ![f] = [k \in Products |-> 0]]
        /\ seqMap' = [seqMap EXCEPT ![f] = [k \in Products |-> 0]]
        /\ faults' = faults \cup {"join"}
    BY <1>1 DEF JoinFeed, saverVars
  <2>2. Len(quotes) \in Nat /\ Len(quotes) + 1 \in 1 .. (MaxQuotes + 1)
    BY QuoteAssumption DEF Base, RestType, Stream
  <2>3. RestType'
    BY <2>1, <2>2 DEF Base, RestType
  <2>4. Counted'
    <3> SUFFICES ASSUME NEW g \in Feeds
                 PROVE  /\ next'[g] <= Len(quotes) + 1
                        /\ \A k \in Products : timeMap'[g][k] > 0 => seqMap'[g][k] + 2 <= next'[g]
      BY <2>1 DEF Counted
    <3>1. CASE g = f
      BY <2>1, <2>2, <3>1 DEF Base, RestType
    <3>2. CASE g # f
      BY <2>1, <3>2 DEF Base, RestType, Counted
    <3> QED BY <3>1, <3>2
  <2>5. Sent'
    <3>1. InTransit' \subseteq InTransit
      BY <2>1 DEF InTransit
    <3> QED BY <2>1, <3>1, SentStays
  <2> QED BY <2>3, <2>4, <2>5
<1>2. CASE RestartSaver
  <2>1. /\ UNCHANGED <<quotes, up, next, timeMap, seqMap, single>>
        /\ alive' = TRUE /\ topic' = <<>> /\ parsed' = NoMessage
        /\ savedTime' = [k \in Products |-> 0] /\ savedSeq' = [k \in Products |-> 0]
        /\ faults' = faults \cup {"restart"}
    BY <1>2 DEF RestartSaver, feedVars
  <2>2. RestType' /\ Counted'
    BY <2>1 DEF Base, RestType, Counted, Texts
  <2>3. Sent'
    <3>1. InTransit' \subseteq InTransit
      BY <2>1 DEF InTransit
    <3> QED BY <2>1, <3>1, SentStays
  <2> QED BY <2>2, <2>3
<1> QED BY <1>1, <1>2
\* What quoteSave does with the message it judges: the one it received, or the
\* last that could be parsed.
Judges(m) ==
    /\ parsed' = m /\ topic' = Tail(topic) /\ topic # <<>>
    /\ \/ Head(topic) # NoMessage /\ m = Head(topic)
       \/ Head(topic) = NoMessage /\ m = parsed
    /\ UNCHANGED <<quotes, feedVars, faults>>
    /\ \/ ~Accepts(m) /\ UNCHANGED <<alive, savedTime, savedSeq, single>>
       \/ Accepts(m) /\ alive' \in BOOLEAN /\ \E stored \in BOOLEAN : Record(m, stored)

LEMMA ReceiveFacts ==
    ASSUME Base, Receive
    PROVE  \E m \in Texts : Judges(m) /\ (m # NoMessage => m \in InTransit)
<1> PICK m : m = IF Head(topic) = NoMessage THEN parsed ELSE Head(topic)
  OBVIOUS
<1>1. /\ parsed' = m /\ topic' = Tail(topic) /\ topic # <<>>
      /\ UNCHANGED <<quotes, feedVars, faults>>
      /\ IF Accepts(m) THEN Insert(m) \/ InsertFails(m) \/ NoConnection(m)
         ELSE UNCHANGED <<alive, savedTime, savedSeq, single, dbpool, leaked>>
  BY DEF Receive
<1>2. alive \in BOOLEAN /\ topic \in Seq(Texts) /\ parsed \in Texts
  BY DEF Base, RestType
<1>3. m \in Texts /\ (m # NoMessage => m \in InTransit)
  <2>1. Head(topic) \in Texts /\ 1 \in DOMAIN topic /\ Head(topic) = topic[1]
    BY <1>1, <1>2, PopFacts
  <2> QED BY <1>2, <2>1 DEF InTransit
<1>4. CASE Accepts(m)
  <2>1. alive' \in BOOLEAN /\ \E stored \in BOOLEAN : Record(m, stored)
    BY <1>1, <1>2, <1>4 DEF Insert, InsertFails, NoConnection
  <2> QED BY <1>1, <1>3, <1>4, <2>1 DEF Judges
<1>5. CASE ~Accepts(m)
  BY <1>1, <1>3, <1>5 DEF Judges
<1> QED BY <1>4, <1>5

\* What getExcSql writes about a message that it accepts.
LEMMA RecordFacts ==
    ASSUME Base, NEW m \in InTransit, NEW stored \in BOOLEAN, Record(m, stored)
    PROVE  /\ savedTime' \in [Products -> Nat] /\ savedSeq' \in [Products -> Nat]
           /\ savedTime'[Symbol(m)] = Time(m)
           /\ savedSeq'[Symbol(m)] = IF IsNewer(m) THEN 1 ELSE m.n
           /\ \A k \in Products : k # Symbol(m) => /\ savedTime'[k] = savedTime[k]
                                                   /\ savedSeq'[k] = savedSeq[k]
           /\ single' \in Seq([q : 1 .. MaxQuotes, n : 1 .. MaxQuotes, stored : BOOLEAN])
           /\ Len(single') = Len(single) + 1 /\ Len(single) \in Nat
           /\ DOMAIN single = 1 .. Len(single) /\ DOMAIN single' = 1 .. (Len(single) + 1)
           /\ single'[Len(single) + 1] = [q |-> m.q, n |-> m.n, stored |-> stored]
           /\ \A i \in DOMAIN single : single'[i] = single[i]
<1>1. m \in Messages /\ Symbol(m) \in Products /\ Time(m) \in Nat /\ m.n \in Nat
  BY TransitFacts
<1>2. savedTime \in [Products -> Nat] /\ savedSeq \in [Products -> Nat]
      /\ single \in Seq([q : 1 .. MaxQuotes, n : 1 .. MaxQuotes, stored : BOOLEAN])
  BY DEF Base, RestType
<1> PICK e : e = [q |-> m.q, n |-> m.n, stored |-> stored]
  OBVIOUS
<1>3. e \in [q : 1 .. MaxQuotes, n : 1 .. MaxQuotes, stored : BOOLEAN]
  BY <1>1 DEF Messages
<1>4. /\ savedTime' = [savedTime EXCEPT ![Symbol(m)] = Time(m)]
      /\ savedSeq' = [savedSeq EXCEPT ![Symbol(m)] = IF IsNewer(m) THEN 1 ELSE m.n]
      /\ single' = Append(single, e)
  BY DEF Record
<1>5. /\ single' \in Seq([q : 1 .. MaxQuotes, n : 1 .. MaxQuotes, stored : BOOLEAN])
      /\ Len(single') = Len(single) + 1 /\ Len(single) \in Nat
      /\ DOMAIN single = 1 .. Len(single) /\ DOMAIN single' = 1 .. (Len(single) + 1)
      /\ single'[Len(single) + 1] = e
      /\ \A i \in DOMAIN single : single'[i] = single[i]
  BY <1>2, <1>3, <1>4
<1>6. savedTime' \in [Products -> Nat] /\ savedSeq' \in [Products -> Nat]
  BY <1>1, <1>2, <1>4
<1>7. savedTime'[Symbol(m)] = Time(m)
  BY <1>1, <1>2, <1>4
<1>8. savedSeq'[Symbol(m)] = IF IsNewer(m) THEN 1 ELSE m.n
  BY <1>1, <1>2, <1>4
<1>9. \A k \in Products : k # Symbol(m) => savedTime'[k] = savedTime[k] /\ savedSeq'[k] = savedSeq[k]
  BY <1>1, <1>2, <1>4
<1> QED BY <1>5, <1>6, <1>7, <1>8, <1>9

LEMMA ReceiveBase ==
    ASSUME Base, Receive
    PROVE  RestType' /\ Counted' /\ Sent'
<1>1. PICK m \in Texts : Judges(m) /\ (m # NoMessage => m \in InTransit)
  BY ReceiveFacts
<1>2. /\ UNCHANGED <<quotes, up, next, timeMap, seqMap, faults>>
      /\ topic # <<>> /\ topic' = Tail(topic) /\ parsed' = m
  BY <1>1 DEF Judges, feedVars
<1>3. topic' \in Seq(Texts) /\ InTransit' \subseteq InTransit
  <2>1. topic \in Seq(Texts)
    BY DEF Base, RestType
  <2> QED BY <1>1, <1>2, <2>1, PopFacts DEF InTransit
<1>4. \A q : Readable(q)' = Readable(q)
  BY <1>2 DEF Readable
<1>5. CASE ~Accepts(m)
  <2>1. UNCHANGED <<alive, savedTime, savedSeq, single>>
    BY <1>1, <1>5 DEF Judges
  <2>2. RestType'
    BY <1>1, <1>2, <1>3, <2>1 DEF Base, RestType
  <2>3. Counted'
    BY <1>2 DEF Base, Counted
  <2>4. Sent'
    BY <1>2, <1>3, <2>1, SentStays
  <2> QED BY <2>2, <2>3, <2>4
<1>6. CASE Accepts(m)
  <2>1. PICK stored \in BOOLEAN : Record(m, stored)
    BY <1>1, <1>6 DEF Judges
  <2>2. m \in InTransit /\ alive' \in BOOLEAN
    BY <1>1, <1>6 DEF Judges, Accepts
  <2>3. /\ savedTime' \in [Products -> Nat] /\ savedSeq' \in [Products -> Nat]
        /\ single' \in Seq([q : 1 .. MaxQuotes, n : 1 .. MaxQuotes, stored : BOOLEAN])
        /\ Len(single) \in Nat
        /\ DOMAIN single = 1 .. Len(single) /\ DOMAIN single' = 1 .. (Len(single) + 1)
        /\ single'[Len(single) + 1].q = m.q
        /\ \A i \in DOMAIN single : single'[i] = single[i]
    <3>1. single'[Len(single) + 1] = [q |-> m.q, n |-> m.n, stored |-> stored]
      BY <2>1, <2>2, RecordFacts
    <3>2. single'[Len(single) + 1].q = m.q
      BY <3>1
    <3> QED BY <2>1, <2>2, <3>2, RecordFacts
  <2>4. RestType'
    BY <1>1, <1>2, <1>3, <2>2, <2>3 DEF Base, RestType
  <2>5. Counted'
    BY <1>2 DEF Base, Counted
  <2>6. Readable(m.q)
    BY <2>2, TransitFacts
  <2>7. \A x \in InTransit' : Readable(x.q)'
    BY <1>3, <1>4 DEF Base, Sent
  <2>8. ASSUME NEW i \in DOMAIN single' PROVE Readable(single'[i].q)
    <3>1. i \in DOMAIN single \/ i = Len(single) + 1
      BY <2>3
    <3>2. i \in DOMAIN single => Readable(single[i].q)
      BY DEF Base, Sent
    <3> QED BY <2>3, <2>6, <3>1, <3>2
  <2>9. \A i \in DOMAIN single' : Readable(single[i].q)'
    BY <2>8, <1>2 DEF Readable
  <2> QED BY <2>4, <2>5, <2>7, <2>9 DEF Sent
<1> QED BY <1>5, <1>6

\* The stream is what it was in a step that does not send.
LEMMA StreamStays ==
    ASSUME Stream, UNCHANGED quotes
    PROVE  Stream'
<1>1. quotes' = quotes
  OBVIOUS
<1>2. \A k, t, n : Peers(k, t, n)' = Peers(k, t, n)
  BY <1>1 DEF Peers
<1>3. \A q : Position(q)' = Position(q)
  BY <1>1 DEF Position
<1>4. (\A k \in Products, t \in Nat :
          \A n \in 1 .. Cardinality(Peers(k, t, Len(quotes))) :
             \E q \in Peers(k, t, Len(quotes)) : Position(q) = n)'
  <2> SUFFICES ASSUME NEW k \in Products, NEW t \in Nat,
                      NEW n \in 1 .. Cardinality(Peers(k, t, Len(quotes))')
               PROVE  \E q \in Peers(k, t, Len(quotes))' : Position(q)' = n
    OBVIOUS
  <2>1. Peers(k, t, Len(quotes))' = Peers(k, t, Len(quotes))
    BY <1>1 DEF Peers
  <2>2. \E q \in Peers(k, t, Len(quotes)) : Position(q) = n
    BY <2>1 DEF Stream
  <2> QED BY <1>3, <2>1, <2>2
<1> QED BY <1>1, <1>4 DEF Stream

LEMMA BaseInit == Init => Base
<1> SUFFICES ASSUME Init PROVE Base
  OBVIOUS
<1>1. PoolSound
  BY PoolInit
<1>2. RestType
  BY QuoteAssumption DEF Init, RestType, Quotes, Texts
<1>3. Stream
  <2>1. quotes = <<>> /\ Len(quotes) = 0 /\ DOMAIN quotes = {}
    BY DEF Init
  <2>2. \A k, t : Peers(k, t, 0) = {}
    BY DEF Peers
  <2>3. \A k, t : 1 .. Cardinality(Peers(k, t, 0)) = {}
    BY <2>2, FS_EmptySet
  <2> QED BY <2>1, <2>3, QuoteAssumption DEF Stream
<1>4. Counted
  BY DEF Init, Counted
<1>5. Sent
  BY DEF Init, Sent, InTransit
<1> QED BY <1>1, <1>2, <1>3, <1>4, <1>5 DEF Base

LEMMA BaseNext == Base /\ [Next]_vars => Base'
<1> SUFFICES ASSUME Base, [Next]_vars PROVE Base'
  OBVIOUS
<1>1. PoolSound'
  BY PoolNext DEF Base
<1>2. CASE Emit
  BY <1>1, <1>2, EmitStream, EmitBase DEF Base
<1>3. CASE UNCHANGED vars
  <2>1. RestType' /\ Counted' /\ InTransit' = InTransit
    BY <1>3 DEF vars, feedVars, saverVars, Base, RestType, Counted, InTransit
  <2>2. Sent'
    BY <1>3, <2>1, SentStays DEF vars, saverVars
  <2>3. Stream'
    BY <1>3, StreamStays DEF vars, Base
  <2> QED BY <1>1, <2>1, <2>2, <2>3 DEF Base
<1>4. CASE Receive
  <2>1. Stream'
    BY <1>4, StreamStays DEF Receive, Base
  <2> QED BY <1>1, <1>4, <2>1, ReceiveBase DEF Base
<1>5. ASSUME NEW f \in Feeds, Forward(f) \/ Hangup(f) \/ JoinFeed(f)
      PROVE  Base'
  <2>1. Stream'
    BY <1>5, StreamStays DEF Forward, Hangup, JoinFeed, Base
  <2>2. RestType' /\ Counted' /\ Sent'
    BY <1>5, ForwardBase, FaultBase, StartBase
  <2> QED BY <1>1, <2>1, <2>2 DEF Base
<1>6. CASE Lose
  <2>1. Stream'
    BY <1>6, StreamStays DEF Lose, Base
  <2>2. RestType' /\ Counted' /\ Sent'
    BY <1>6, FaultBase
  <2> QED BY <1>1, <2>1, <2>2 DEF Base
<1>7. CASE RestartSaver
  <2>1. Stream'
    BY <1>7, StreamStays DEF RestartSaver, Base
  <2>2. RestType' /\ Counted' /\ Sent'
    BY <1>7, StartBase
  <2> QED BY <1>1, <2>1, <2>2 DEF Base
<1> QED BY <1>2, <1>3, <1>4, <1>5, <1>6, <1>7 DEF Next

\* Every variable of the pipeline keeps its type: a feed reads what the server
\* has sent, a message carries a quote of the stream and a number no greater
\* than the quotes there are.
THEOREM TypeCorrect == Spec => []TypeOK
<1>1. Base => TypeOK
  <2> SUFFICES ASSUME Base PROVE TypeOK
    OBVIOUS
  <2> DEFINE R == [q : 1 .. MaxQuotes, n : 1 .. MaxQuotes, stored : BOOLEAN]
  <2>1. \A i \in DOMAIN single : single[i] \in R
    <3> HIDE DEF R
    <3>1. single \in Seq(R)
      BY DEF Base, RestType, R
    <3> QED BY <3>1
  <2> QED BY <2>1 DEF Base, PoolSound, RestType, TypeOK, Quotes, Texts
<1> QED BY <1>1, BaseInit, BaseNext, PTL DEF Spec
-----------------------------------------------------------------------------
(* The SEQUENCE of a message is the position of its quote.                 *)

\* What a feed that has read from the start holds of a product: the second of
\* the last readable quote, and how many of that second it has read.
Counts ==
    \A f \in Feeds : \A k \in Products :
        /\ \A p \in 1 .. (next[f] - 1) :
              quotes[p].product = k /\ ~quotes[p].cut => quotes[p].time <= timeMap[f][k]
        /\ timeMap[f][k] > 0 =>
              seqMap[f][k] + 1 = Cardinality(Peers(k, timeMap[f][k], next[f] - 1))

Right ==
    /\ Counts
    /\ \A m \in InTransit : m.n = Position(m.q)
    /\ \A i \in DOMAIN single : single[i].n = Position(single[i].q)

\* A feed that is started in mid-stream counts from there: after that nothing
\* more is known about the numbers.
Numbered == "join" \notin faults => Right

\* The quote a feed reads next is, with those of its second before it, as many
\* as the feed will have counted.
LEMMA ForwardCount ==
    ASSUME Base, Counts, NEW f \in Feeds, next[f] <= Len(quotes),
           NEW quote, quote = quotes[next[f]], ~quote.cut
    PROVE  Cardinality(Peers(quote.product, quote.time, next[f])) = NextCount(f, quote) + 1
<1> PICK k : k = quote.product
  OBVIOUS
<1> PICK t : t = quote.time
  OBVIOUS
<1> PICK n : n = next[f] - 1
  OBVIOUS
<1>1. /\ n \in Nat /\ next[f] = n + 1 /\ n + 1 \in DOMAIN quotes /\ k \in Products
      /\ t \in Nat /\ t >= 1
  BY SequenceType
<1>2. timeMap[f][k] \in Nat /\ seqMap[f][k] \in Nat
  BY <1>1 DEF Base, RestType
<1>3. Cardinality(Peers(k, t, n + 1)) = Cardinality(Peers(k, t, n)) + 1
  BY <1>1, PeersGrow
<1>4. \A p \in 1 .. n : quotes[p].time <= t /\ quotes[p].time \in Nat
  <2> TAKE p \in 1 .. n
  <2>1. p \in DOMAIN quotes /\ p < n + 1
    BY <1>1, QuoteFacts DEF Base, RestType
  <2>2. quotes[p].time <= quotes[n + 1].time
    BY <1>1, <2>1 DEF Base, Stream
  <2> QED BY <1>1, <2>1, <2>2, QuoteFacts DEF Base, RestType
<1>5. CASE t = timeMap[f][k]
  <2>1. seqMap[f][k] + 1 = Cardinality(Peers(k, t, n))
    <3>1. timeMap[f][k] > 0
      BY <1>1, <1>5
    <3>2. seqMap[f][k] + 1 = Cardinality(Peers(k, timeMap[f][k], n))
      BY <1>1, <3>1 DEF Counts
    <3> QED BY <1>5, <3>2
  <2>2. NextCount(f, quote) = seqMap[f][k] + 1
    BY <1>5 DEF NextCount, SameSecond
  <2> QED BY <1>1, <1>3, <2>1, <2>2
<1>6. CASE t # timeMap[f][k]
  <2>1. NextCount(f, quote) = 0
    BY <1>6 DEF NextCount, SameSecond
  <2>2. Peers(k, t, n) = {}
    <3> SUFFICES ASSUME NEW p \in Peers(k, t, n) PROVE FALSE
      OBVIOUS
    <3>1. p \in 1 .. n /\ quotes[p].product = k /\ quotes[p].time = t /\ ~quotes[p].cut
      BY DEF Peers
    <3>2. t <= timeMap[f][k]
      BY <1>1, <3>1 DEF Counts
    <3>3. timeMap[f][k] > 0 /\ t < timeMap[f][k]
      BY <1>1, <1>2, <1>6, <3>2
    <3>4. seqMap[f][k] + 1 = Cardinality(Peers(k, timeMap[f][k], n))
      BY <1>1, <3>3 DEF Counts
    <3>5. Peers(k, timeMap[f][k], n) # {}
      <4> SUFFICES ASSUME Peers(k, timeMap[f][k], n) = {} PROVE FALSE
        OBVIOUS
      <4>1. Cardinality(Peers(k, timeMap[f][k], n)) = 0
        BY FS_EmptySet
      <4> QED BY <1>2, <3>4, <4>1
    <3>6. PICK r \in 1 .. n : quotes[r].time = timeMap[f][k]
      BY <3>5 DEF Peers
    <3> QED BY <1>1, <1>2, <1>4, <3>3, <3>6
  <2>3. Cardinality(Peers(k, t, n)) = 0
    BY <2>2, FS_EmptySet
  <2> QED BY <1>1, <1>3, <2>1, <2>3
<1> QED BY <1>5, <1>6

\* The messages keep their numbers in a step that keeps the quotes and puts
\* only right ones in transit.
LEMMA RightStays ==
    ASSUME Base, Right, UNCHANGED <<quotes, next, timeMap, seqMap, single>>,
           InTransit' \subseteq InTransit
    PROVE  Right'
<1>1. \A k, t, n : Peers(k, t, n)' = Peers(k, t, n)
  BY DEF Peers
<1>2. \A q : Position(q)' = Position(q)
  BY DEF Position
<1>3. Counts'
  <2> SUFFICES ASSUME NEW f \in Feeds, NEW k \in Products
               PROVE  /\ \A p \in 1 .. (next[f] - 1) :
                            quotes[p].product = k /\ ~quotes[p].cut => quotes[p].time <= timeMap[f][k]
                      /\ timeMap[f][k] > 0 =>
                            seqMap[f][k] + 1 = Cardinality(Peers(k, timeMap[f][k], next[f] - 1)')
    BY DEF Counts
  <2>1. Peers(k, timeMap[f][k], next[f] - 1)' = Peers(k, timeMap[f][k], next[f] - 1)
    BY DEF Peers
  <2> QED BY <2>1 DEF Right, Counts
<1>4. (\A m \in InTransit : m.n = Position(m.q))'
  BY <1>2 DEF Right
<1>5. (\A i \in DOMAIN single : single[i].n = Position(single[i].q))'
  BY <1>2 DEF Right, Position
<1> QED BY <1>3, <1>4, <1>5 DEF Right

LEMMA EmitRight ==
    ASSUME Base, Right, Emit
    PROVE  Right'
<1>1. PICK e \in Quotes : quotes' = Append(quotes, e)
  BY EmitFacts
<1>2. UNCHANGED <<next, timeMap, seqMap, topic, parsed, single>>
  BY DEF Emit, feedVars, saverVars
<1>3. /\ Len(quotes) \in Nat /\ DOMAIN quotes = 1 .. Len(quotes)
      /\ \A q \in DOMAIN quotes : quotes'[q] = quotes[q] /\ Position(q)' = Position(q)
      /\ \A k, t : \A n \in 0 .. Len(quotes) : Peers(k, t, n)' = Peers(k, t, n)
  BY <1>1, GrowFacts DEF Base, RestType
<1>4. Counts'
  <2> SUFFICES ASSUME NEW f \in Feeds, NEW k \in Products
               PROVE  /\ \A p \in 1 .. (next[f] - 1) :
                            quotes'[p].product = k /\ ~quotes'[p].cut
                                => quotes'[p].time <= timeMap[f][k]
                      /\ timeMap[f][k] > 0 =>
                            seqMap[f][k] + 1 = Cardinality(Peers(k, timeMap[f][k], next[f] - 1)')
    BY <1>2 DEF Counts
  <2>1. next[f] - 1 \in 0 .. Len(quotes)
    BY <1>3, QuoteAssumption DEF Base, RestType, Counted
  <2>2. \A p \in 1 .. (next[f] - 1) : quotes'[p] = quotes[p]
    BY <1>3, <2>1
  <2>3. Peers(k, timeMap[f][k], next[f] - 1)' = Peers(k, timeMap[f][k], next[f] - 1)
    BY <1>2, <2>2 DEF Peers
  <2> QED BY <2>2, <2>3 DEF Right, Counts
<1>5. \A q : Readable(q) => Position(q)' = Position(q)
  BY <1>3 DEF Readable
<1>6. InTransit' = InTransit
  BY <1>2 DEF InTransit
<1>7. (\A m \in InTransit : m.n = Position(m.q))'
  <2>1. \A m \in InTransit : m.n = Position(m.q) /\ Readable(m.q)
    BY DEF Right, Base, Sent
  <2> QED BY <1>5, <1>6, <2>1
<1>8. \A i \in DOMAIN single' : single'[i].n = Position(single[i].q)'
  <2> SUFFICES ASSUME NEW i \in DOMAIN single PROVE single[i].n = Position(single[i].q)'
    BY <1>2
  <2>1. single[i].n = Position(single[i].q) /\ Readable(single[i].q)
    BY DEF Right, Base, Sent
  <2> PICK q : q = single[i].q
    OBVIOUS
  <2>2. Position(q)' = Position(q)
    BY <1>5, <2>1
  <2>3. Position(single[i].q)' = Position(q)'
    BY <1>2 DEF Position
  <2> QED BY <2>1, <2>2, <2>3
<1> QED BY <1>4, <1>7, <1>8 DEF Right
LEMMA ForwardRight ==
    ASSUME Base, Right, NEW f \in Feeds, Forward(f)
    PROVE  Right'
<1> PICK quote : quote = quotes[next[f]]
  OBVIOUS
<1> PICK k : k = quote.product
  OBVIOUS
<1> PICK n : n = next[f] - 1
  OBVIOUS
<1>0. next[f] <= Len(quotes) /\ next' = [next EXCEPT ![f] = @ + 1]
      /\ UNCHANGED <<quotes, parsed, single>>
  BY DEF Forward, saverVars
<1>1. /\ n \in Nat /\ next[f] = n + 1 /\ n + 1 \in DOMAIN quotes /\ k \in Products
      /\ quote.time \in Nat
  <2>1. next[f] \in DOMAIN quotes /\ next[f] \in Nat \ {0}
    BY <1>0, SequenceType
  <2>2. quote.product \in Products /\ quote.time \in Nat
    BY <2>1, QuoteFacts DEF Base, RestType
  <2> QED BY <2>1, <2>2
<1>2. \A g \in Feeds : next'[g] = IF g = f THEN n + 2 ELSE next[g]
  BY <1>0, <1>1 DEF Base, RestType
<1>3. \A j, t, i : Peers(j, t, i)' = Peers(j, t, i)
  BY <1>0 DEF Peers
<1>4. \A q : Position(q)' = Position(q)
  BY <1>0 DEF Position
<1>5. \A i \in DOMAIN single : single[i].n = Position(single[i].q)
  BY DEF Right
<1>6. \A i \in DOMAIN single' : single'[i].n = Position(single[i].q)'
  BY <1>0, <1>5 DEF Position
<1>7. \A x \in InTransit : x.n = Position(x.q)
  BY DEF Right
<1>8. \A p \in 1 .. (n + 1) : p \in 1 .. n \/ p = n + 1
  BY <1>1
<1>9. CASE quote.cut
  <2>1. topic' = Append(topic, NoMessage) /\ UNCHANGED <<timeMap, seqMap>>
    BY <1>9 DEF Forward
  <2>2. InTransit' \subseteq InTransit
    <3>1. NoMessage \in Texts /\ topic \in Seq(Texts)
      BY DEF Texts, Base, RestType
    <3> QED BY <1>0, <2>1, <3>1, PushFacts DEF InTransit
  <2>3. ASSUME NEW g \in Feeds, NEW j \in Products
        PROVE  /\ \A p \in 1 .. (next'[g] - 1) :
                     quotes[p].product = j /\ ~quotes[p].cut => quotes[p].time <= timeMap[g][j]
               /\ timeMap[g][j] > 0 =>
                     seqMap[g][j] + 1 = Cardinality(Peers(j, timeMap[g][j], next'[g] - 1))
    <3>1. CASE g # f
      <4>1. next'[g] = next[g]
        BY <1>2, <3>1
      <4> QED BY <4>1 DEF Right, Counts
    <3>2. CASE g = f
      <4>1. next'[g] - 1 = n + 1
        BY <1>1, <1>2, <3>2
      <4>2. \A t : Peers(j, t, n + 1) = Peers(j, t, n)
        BY <1>1, <1>9, PeersGrow
      <4>3. /\ \A p \in 1 .. n :
                  quotes[p].product = j /\ ~quotes[p].cut => quotes[p].time <= timeMap[f][j]
            /\ timeMap[f][j] > 0 => seqMap[f][j] + 1 = Cardinality(Peers(j, timeMap[f][j], n))
        BY DEF Right, Counts
      <4> QED BY <1>1, <1>8, <1>9, <3>2, <4>1, <4>2, <4>3
    <3> QED BY <3>1, <3>2
  <2>4. Counts'
    <3> SUFFICES ASSUME NEW g \in Feeds, NEW j \in Products
                 PROVE  /\ \A p \in 1 .. (next'[g] - 1) :
                              quotes[p].product = j /\ ~quotes[p].cut
                                  => quotes[p].time <= timeMap[g][j]
                        /\ timeMap[g][j] > 0 =>
                              seqMap[g][j] + 1 = Cardinality(Peers(j, timeMap[g][j], next[g] - 1)')
      BY <1>0, <2>1 DEF Counts
    <3>1. Peers(j, timeMap[g][j], next[g] - 1)' = Peers(j, timeMap[g][j], next'[g] - 1)
      BY <1>0, <2>1 DEF Peers
    <3> QED BY <2>3, <3>1
  <2>5. (\A x \in InTransit : x.n = Position(x.q))'
    BY <1>4, <1>7, <2>2
  <2> QED BY <1>6, <2>4, <2>5 DEF Right
<1>10. CASE ~quote.cut
  <2> DEFINE m == [q |-> next[f], n |-> Sequence(f, quote)]
  <2>1. /\ topic' = Append(topic, m)
        /\ timeMap' = [timeMap EXCEPT ![f][k] = quote.time]
        /\ seqMap' = [seqMap EXCEPT ![f][k] = NextCount(f, quote)]
    BY <1>10 DEF Forward
  <2>2. Cardinality(Peers(k, quote.time, n + 1)) = NextCount(f, quote) + 1
    BY <1>0, <1>1, <1>10, ForwardCount DEF Right
  <2>3. m.n = Position(m.q) /\ m \in Texts
    <3>1. Sequence(f, quote) = NextCount(f, quote) + 1 /\ Sequence(f, quote) \in 1 .. MaxQuotes
          /\ next[f] \in 1 .. MaxQuotes
      <4>1. next[f] \in Nat \ {0} /\ next[f] <= MaxQuotes /\ NextCount(f, quote) \in Nat
            /\ Sequence(f, quote) = NextCount(f, quote) + 1
            /\ Sequence(f, quote) \in 1 .. MaxQuotes
        BY <1>0, SequenceType
      <4> QED BY <4>1, QuoteAssumption
    <3>2. Position(n + 1) = Cardinality(Peers(k, quote.time, n + 1))
      BY <1>1, PositionIsCount
    <3> QED BY <1>1, <2>2, <3>1, <3>2 DEF Texts, Messages
  <2> HIDE DEF m
  <2>4. InTransit' \subseteq InTransit \cup {m}
    <3>1. topic \in Seq(Texts)
      BY DEF Base, RestType
    <3> QED BY <1>0, <2>1, <2>3, <3>1, PushFacts DEF InTransit
  <2>5. (\A x \in InTransit : x.n = Position(x.q))'
    BY <1>4, <1>7, <2>3, <2>4
  <2>6. \A g \in Feeds : \A j \in Products :
           /\ timeMap'[g][j] = IF g = f /\ j = k THEN quote.time ELSE timeMap[g][j]
           /\ seqMap'[g][j] = IF g = f /\ j = k THEN NextCount(f, quote) ELSE seqMap[g][j]
    BY <2>1 DEF Base, RestType
  <2>7. ASSUME NEW g \in Feeds, NEW j \in Products, NEW t, t = timeMap'[g][j],
               NEW s, s = seqMap'[g][j]
        PROVE  /\ \A p \in 1 .. (next'[g] - 1) :
                     quotes[p].product = j /\ ~quotes[p].cut => quotes[p].time <= t
               /\ t > 0 => s + 1 = Cardinality(Peers(j, t, next'[g] - 1))
    <3>1. CASE g # f
      <4>1. next'[g] = next[g] /\ t = timeMap[g][j] /\ s = seqMap[g][j]
        BY <1>2, <2>6, <2>7, <3>1
      <4> QED BY <4>1 DEF Right, Counts
    <3>2. CASE g = f /\ j # k
      <4>1. next'[g] - 1 = n + 1 /\ t = timeMap[f][j] /\ s = seqMap[f][j]
        BY <1>1, <1>2, <2>6, <2>7, <3>2
      <4>2. Peers(j, t, n + 1) = Peers(j, t, n)
        BY <1>1, <3>2, PeersGrow
      <4>3. /\ \A p \in 1 .. n : quotes[p].product = j /\ ~quotes[p].cut => quotes[p].time <= t
            /\ t > 0 => s + 1 = Cardinality(Peers(j, t, n))
        BY <4>1 DEF Right, Counts
      <4> QED BY <1>1, <1>8, <3>2, <4>1, <4>2, <4>3
    <3>3. CASE g = f /\ j = k
      <4>0. next'[g] - 1 = n + 1
        BY <1>1, <1>2, <3>3
      <4>1. t = quote.time /\ s = NextCount(f, quote)
        BY <2>6, <2>7, <3>3
      <4>2. s + 1 = Cardinality(Peers(j, t, n + 1))
        BY <2>2, <3>3, <4>1
      <4>3. ASSUME NEW p \in 1 .. (n + 1) PROVE quotes[p].time <= t
        <5>1. p \in DOMAIN quotes
          BY <1>1, QuoteFacts DEF Base, RestType
        <5>2. CASE p = n + 1
          <6>1. quotes[p] = quote
            BY <1>1, <5>2
          <6>2. quotes[p].time = t
            BY <4>1, <6>1
          <6>3. t \in Nat
            BY <1>1, <4>1
          <6> QED BY <6>2, <6>3
        <5>3. CASE p < n + 1
          <6>1. quotes[p].time <= quotes[n + 1].time
            BY <1>1, <5>1, <5>3 DEF Base, Stream
          <6> QED BY <1>1, <4>1, <6>1
        <5> QED BY <1>1, <5>2, <5>3
      <4> QED BY <4>0, <4>2, <4>3
    <3> QED BY <3>1, <3>2, <3>3
  <2>8. Counts'
    <3> SUFFICES ASSUME NEW g \in Feeds, NEW j \in Products
                 PROVE  /\ \A p \in 1 .. (next'[g] - 1) :
                              quotes[p].product = j /\ ~quotes[p].cut
                                  => quotes[p].time <= timeMap'[g][j]
                        /\ timeMap'[g][j] > 0 =>
                              seqMap'[g][j] + 1 = Cardinality(Peers(j, timeMap[g][j], next[g] - 1)')
      BY <1>0 DEF Counts
    <3>1. Peers(j, timeMap[g][j], next[g] - 1)' = Peers(j, timeMap'[g][j], next'[g] - 1)
      BY <1>0 DEF Peers
    <3> QED BY <2>7, <3>1
  <2> QED BY <1>6, <2>5, <2>8 DEF Right
<1>11. quote.cut \in BOOLEAN
  BY <1>1, QuoteFacts DEF Base, RestType
<1> QED BY <1>9, <1>10, <1>11

LEMMA ReceiveRight ==
    ASSUME Base, Right, Receive
    PROVE  Right'
<1>1. PICK m \in Texts : Judges(m) /\ (m # NoMessage => m \in InTransit)
  BY ReceiveFacts
<1>2. /\ UNCHANGED <<quotes, next, timeMap, seqMap>>
      /\ topic # <<>> /\ topic' = Tail(topic) /\ parsed' = m
  BY <1>1 DEF Judges, feedVars
<1>3. InTransit' \subseteq InTransit
  <2>1. topic \in Seq(Texts)
    BY DEF Base, RestType
  <2> QED BY <1>1, <1>2, <2>1, PopFacts DEF InTransit
<1>4. CASE ~Accepts(m)
  BY <1>1, <1>2, <1>3, <1>4, RightStays DEF Judges
<1>5. CASE Accepts(m)
  <2>1. PICK stored \in BOOLEAN : Record(m, stored)
    BY <1>1, <1>5 DEF Judges
  <2>2. m \in InTransit /\ m.n = Position(m.q)
    BY <1>1, <1>5 DEF Accepts, Right
  <2>3. /\ Len(single) \in Nat
        /\ DOMAIN single = 1 .. Len(single) /\ DOMAIN single' = 1 .. (Len(single) + 1)
        /\ single'[Len(single) + 1] = [q |-> m.q, n |-> m.n, stored |-> stored]
        /\ \A i \in DOMAIN single : single'[i] = single[i]
    BY <2>1, <2>2, RecordFacts
  <2>4. \A q : Position(q)' = Position(q)
    BY <1>2 DEF Position
  <2>5. (\A x \in InTransit : x.n = Position(x.q))'
    BY <1>3, <2>4 DEF Right
  <2>6. ASSUME NEW i \in DOMAIN single' PROVE single'[i].n = Position(single[i].q)'
    <3> PICK q : q = single'[i].q
      OBVIOUS
    <3>1. Position(single[i].q)' = Position(q)
      BY <1>2 DEF Position
    <3>2. CASE i \in DOMAIN single
      BY <2>3, <3>1, <3>2 DEF Right
    <3>3. CASE i = Len(single) + 1
      BY <2>2, <2>3, <3>1, <3>3
    <3> QED BY <2>3, <3>2, <3>3
  <2>7. Counts'
    <3> SUFFICES ASSUME NEW f \in Feeds, NEW k \in Products
                 PROVE  /\ \A p \in 1 .. (next[f] - 1) :
                              quotes[p].product = k /\ ~quotes[p].cut
                                  => quotes[p].time <= timeMap[f][k]
                        /\ timeMap[f][k] > 0 =>
                              seqMap[f][k] + 1 = Cardinality(Peers(k, timeMap[f][k], next[f] - 1)')
      BY <1>2 DEF Counts
    <3>1. Peers(k, timeMap[f][k], next[f] - 1)' = Peers(k, timeMap[f][k], next[f] - 1)
      BY <1>2 DEF Peers
    <3> QED BY <3>1 DEF Right, Counts
  <2> QED BY <2>5, <2>6, <2>7 DEF Right
<1> QED BY <1>4, <1>5
LEMMA NumberedInit == Init => Numbered
<1> SUFFICES ASSUME Init PROVE Right
  BY DEF Numbered
<1>1. Counts
  BY DEF Init, Counts
<1>2. InTransit = {} /\ DOMAIN single = {}
  BY DEF Init, InTransit
<1> QED BY <1>1, <1>2 DEF Right

LEMMA NumberedNext == Base /\ Numbered /\ [Next]_vars => Numbered'
<1> SUFFICES ASSUME Base, Numbered, [Next]_vars, "join" \notin faults'
             PROVE  Right'
  BY DEF Numbered
<1>1. "join" \notin faults /\ \A f \in Feeds : ~JoinFeed(f)
  <2>1. faults \subseteq faults'
    BY DEF Next, vars, Emit, Forward, Hangup, JoinFeed, Lose, Receive, RestartSaver
  <2>2. \A f \in Feeds : JoinFeed(f) => "join" \in faults'
    BY DEF JoinFeed
  <2> QED BY <2>1, <2>2
<1>2. Right
  BY <1>1 DEF Numbered
<1>3. CASE Emit
  BY <1>2, <1>3, EmitRight
<1>4. CASE Receive
  BY <1>2, <1>4, ReceiveRight
<1>5. ASSUME NEW f \in Feeds, Forward(f)
      PROVE  Right'
  BY <1>2, <1>5, ForwardRight
<1>6. CASE Lose \/ \E f \in Feeds : Hangup(f)
  <2>1. UNCHANGED <<quotes, next, timeMap, seqMap, single>>
    BY <1>6 DEF Lose, Hangup, feedVars, saverVars
  <2>2. InTransit' \subseteq InTransit
    BY <1>6, FaultTransit
  <2> QED BY <1>2, <2>1, <2>2, RightStays
<1>7. CASE RestartSaver \/ UNCHANGED vars
  <2>1. UNCHANGED <<quotes, next, timeMap, seqMap, single>>
    BY <1>7 DEF RestartSaver, vars, feedVars, saverVars
  <2>2. InTransit' \subseteq InTransit
    BY <1>7 DEF RestartSaver, vars, saverVars, InTransit
  <2> QED BY <1>2, <2>1, <2>2, RightStays
<1> QED BY <1>1, <1>3, <1>4, <1>5, <1>6, <1>7 DEF Next

\* Whatever the number of feeds that read the stream from its start, and
\* whatever is broken in it or lost after it, the SEQUENCE that parseJsonAddSeq
\* writes is the position of the quote in its second.
THEOREM SequenceStaysPosition == Spec => []SequenceIsPosition
<1>1. Base /\ Numbered => SequenceIsPosition
  BY DEF Numbered, Right, SequenceIsPosition, InTransit
<1> QED BY <1>1, BaseInit, BaseNext, NumberedInit, NumberedNext, PTL DEF Spec
-----------------------------------------------------------------------------
(* What quoteSave drops it has published.                                  *)

\* The place of a number among the texts of numbers: "90" .. "99" come after
\* "9", the other numbers of two digits before it.
LEMMA PlaceFacts ==
    ASSUME NEW n \in 0 .. 99
    PROVE  /\ Place(n) \in Nat
           /\ n \in 0 .. 9 => Place(n) = 11 * n
           /\ n \in 10 .. 89 => Place(n) <= 98
           /\ n \in 90 .. 99 => Place(n) = n + 10
<1>1. CASE n < 10
  BY <1>1 DEF Place
<1>2. CASE n >= 10
  <2>1. Place(n) = 11 * (n \div 10) + (n % 10) + 1
    BY <1>2 DEF Place
  <2>2. n \div 10 \in Nat /\ n % 10 \in 0 .. 9 /\ n = 10 * (n \div 10) + (n % 10)
    OBVIOUS
  <2>3. Place(n) = n + (n \div 10) + 1
    BY <2>1, <2>2
  <2>4. n <= 89 => n \div 10 <= 8
    BY <2>2
  <2>5. n >= 90 => n \div 10 = 9
    BY <2>2
  <2> QED BY <1>2, <2>2, <2>3, <2>4, <2>5
<1> QED BY <1>1, <1>2

\* Up to the ninth of a second the order of the texts is that of the numbers.
LEMMA PlaceGrows ==
    ASSUME NEW a \in Nat, NEW b \in 1 .. 9, a < b
    PROVE  ~(Place(b) <= Place(a))
<1>1. a \in 0 .. 9 /\ a \in 0 .. 99 /\ b \in 0 .. 9 /\ b \in 0 .. 99
  OBVIOUS
<1>2. Place(a) = 11 * a /\ Place(b) = 11 * b
  BY <1>1, PlaceFacts
<1> QED BY <1>1, <1>2

\* The place of a quote of the stream.
LEMMA PositionPlace ==
    ASSUME Base, NEW q, Readable(q)
    PROVE  Position(q) \in 0 .. 99 /\ Place(Position(q)) \in Nat
<1>1. quotes \in Seq(Quotes) /\ Len(quotes) \in Nat /\ Len(quotes) <= MaxQuotes
      /\ q \in 1 .. Len(quotes)
  BY DEF Readable, Base, RestType, Stream
<1>2. PICK n \in Nat : n = Position(q) /\ n <= q
  BY <1>1, PositionType
<1>3. q \in Nat /\ q <= 99
  BY <1>1, QuoteAssumption
<1>4. n <= 99
  BY <1>2, <1>3
<1>5. n \in 0 .. 99
  BY <1>4
<1>6. Position(q) \in 0 .. 99
  BY <1>2, <1>5, Zenon
<1> QED BY <1>6, PlaceFacts

\* A quote that quoteSave would drop: its second is over, or its number comes
\* no later than the one saved.
Done(q) ==
    LET k == quotes[q].product
    IN  \/ quotes[q].time < savedTime[k]
        \/ quotes[q].time = savedTime[k] /\ Place(Position(q)) <= Place(savedSeq[k])

\* quoteSave has judged the quote, or will with the first i messages it has.
Ahead(q, i) == Done(q) \/ \E j \in 1 .. i : topic[j].q = q

\* No message overtakes an earlier quote of its product.
NoneOvertaken ==
    \A i \in DOMAIN topic : \A q \in 1 .. (topic[i].q - 1) :
        Readable(q) /\ quotes[q].product = Symbol(topic[i]) => Ahead(q, i - 1)

\* What a feed has read has been sent.
Delivered ==
    \A f \in Feeds : \A q \in 1 .. (next[f] - 1) : Readable(q) => Ahead(q, Len(topic))

Published ==
    \A q \in DOMAIN quotes :
        Readable(q) /\ Done(q) /\ Position(q) < 10 => \E i \in DOMAIN single : single[i].q = q

\* What is saved of a product is a quote of the stream; from the tenth of a
\* second to the eighty-ninth no number is saved.
Saved ==
    \A k \in Products :
        /\ savedSeq[k] \in (0 .. 9) \cup (90 .. 99)
        /\ savedTime[k] > 0 =>
              \E q \in DOMAIN quotes : /\ Readable(q) /\ quotes[q].product = k
                                       /\ quotes[q].time = savedTime[k]
                                       /\ Position(q) = savedSeq[k]

\* Nothing is published that is later than what is saved.
NotLater(x) ==
    \/ Time(x) < savedTime[Symbol(x)]
    \/ Time(x) = savedTime[Symbol(x)] /\ x.n <= savedSeq[Symbol(x)]

InOrder ==
    \A i, j \in DOMAIN single :
        i < j /\ Symbol(single[i]) = Symbol(single[j]) => Before(single[i], single[j])

Tracked ==
    /\ NoneOvertaken /\ Delivered /\ Published /\ Saved /\ InOrder
    /\ parsed # NoMessage => Done(parsed.q)
    /\ \A i \in DOMAIN single : NotLater(single[i])

\* The invariant of the runs without a fault.
Faultless == faults = {} => Tracked

\* What quoteSave has saved and published is left alone.
SaverStays == UNCHANGED <<quotes, savedTime, savedSeq, single>>

LEMMA DoneStays ==
    ASSUME SaverStays
    PROVE  /\ \A q : Readable(q)' = Readable(q) /\ Done(q)' = Done(q)
                     /\ Position(q)' = Position(q)
           /\ \A x : NotLater(x)' = NotLater(x)
           /\ \A x, y : Before(x, y)' = Before(x, y)
<1>1. quotes' = quotes /\ savedTime' = savedTime /\ savedSeq' = savedSeq
  BY DEF SaverStays
<1> QED BY <1>1 DEF Readable, Done, Position, NotLater, Before, Time, Symbol

\* What concerns only quoteSave stays in a step that publishes nothing.
LEMMA SaverPartStays ==
    ASSUME Base, Tracked, SaverStays,
           parsed' = parsed \/ (parsed' # NoMessage => Done(parsed'.q))
    PROVE  /\ Published' /\ Saved' /\ InOrder'
           /\ (parsed # NoMessage => Done(parsed.q))'
           /\ (\A i \in DOMAIN single : NotLater(single[i]))'
<1>1. /\ quotes' = quotes /\ savedTime' = savedTime /\ savedSeq' = savedSeq
      /\ single' = single
  BY DEF SaverStays
<1>2. Published'
  BY <1>1, DoneStays DEF Tracked, Published
<1>3. Saved'
  BY <1>1, DoneStays DEF Tracked, Saved
<1>4. InOrder'
  BY <1>1 DEF Tracked, InOrder, Before, Time, Symbol
<1>5. (parsed # NoMessage => Done(parsed.q))'
  <2>1. parsed' # NoMessage => Done(parsed'.q)
    BY DEF Tracked
  <2> QED BY <1>1, <2>1 DEF Done, Position
<1>6. (\A i \in DOMAIN single : NotLater(single[i]))'
  BY <1>1 DEF Tracked, NotLater, Time, Symbol
<1> QED BY <1>2, <1>3, <1>4, <1>5, <1>6

\* A message behind the others leaves them where they are.
LEMMA AheadGrows ==
    ASSUME Base, SaverStays, NEW x \in Texts, topic' = Append(topic, x)
    PROVE  /\ Len(topic) \in Nat /\ Len(topic') = Len(topic) + 1
           /\ DOMAIN topic = 1 .. Len(topic) /\ DOMAIN topic' = 1 .. (Len(topic) + 1)
           /\ topic'[Len(topic) + 1] = x
           /\ \A i \in DOMAIN topic : topic'[i] = topic[i]
           /\ \A q : \A i \in 0 .. Len(topic) : Ahead(q, i) => Ahead(q, i)'
           /\ \A q : Ahead(q, Len(topic)) \/ x.q = q => Ahead(q, Len(topic))'
<1> PICK n \in Nat : n = Len(topic)
  BY DEF Base, RestType
<1>1. topic \in Seq(Texts)
  BY DEF Base, RestType
<1>2. /\ Len(topic) \in Nat /\ Len(topic') = Len(topic) + 1
      /\ DOMAIN topic = 1 .. Len(topic) /\ DOMAIN topic' = 1 .. (Len(topic) + 1)
      /\ topic'[Len(topic) + 1] = x
      /\ \A i \in DOMAIN topic : topic'[i] = topic[i]
  BY <1>1
<1>3. \A q : Done(q)' = Done(q)
  BY DoneStays
<1>4. \A i \in 1 .. n : topic'[i] = topic[i]
  BY <1>2
<1>5. ASSUME NEW q, NEW i \in 0 .. n, Ahead(q, i)
      PROVE  Ahead(q, i)'
  BY <1>3, <1>4, <1>5 DEF Ahead
<1>6. ASSUME NEW q, Ahead(q, n) \/ x.q = q
      PROVE  Ahead(q, n + 1)'
  <2>1. n + 1 \in 1 .. (n + 1) /\ \A j \in 1 .. n : j \in 1 .. (n + 1)
    OBVIOUS
  <2>2. topic'[n + 1] = x
    BY <1>2
  <2> QED BY <1>3, <1>4, <1>6, <2>1, <2>2 DEF Ahead
<1>7. \A q : Ahead(q, Len(topic))' = Ahead(q, n + 1)'
  BY <1>2 DEF Ahead
<1> QED BY <1>2, <1>5, <1>6, <1>7
LEMMA ForwardTracked ==
    ASSUME Base, Tracked, NEW f \in Feeds, Forward(f)
    PROVE  Tracked'
<1> PICK quote : quote = quotes[next[f]]
  OBVIOUS
<1>0. /\ next[f] <= Len(quotes) /\ next' = [next EXCEPT ![f] = @ + 1] /\ SaverStays
      /\ quotes' = quotes /\ parsed' = parsed
  BY DEF Forward, saverVars, SaverStays
<1>1. /\ next[f] \in Nat \ {0} /\ next[f] <= MaxQuotes /\ next[f] \in DOMAIN quotes
      /\ Sequence(f, quote) \in 1 .. MaxQuotes /\ quote.cut \in BOOLEAN
  BY <1>0, SequenceType, QuoteFacts DEF Base, RestType
<1>2. PICK x \in Texts : /\ topic' = Append(topic, x)
                         /\ x = NoMessage \/ x.q = next[f]
                         /\ ~quote.cut => x.q = next[f]
  <2> DEFINE m == [q |-> next[f], n |-> Sequence(f, quote)]
  <2>1. m \in Texts /\ m.q = next[f] /\ NoMessage \in Texts
    BY <1>1, QuoteAssumption DEF Texts, Messages
  <2>2. topic' = IF quote.cut THEN Append(topic, NoMessage) ELSE Append(topic, m)
    BY DEF Forward
  <2> HIDE DEF m
  <2> QED BY <1>1, <2>1, <2>2
<1>3. /\ Len(topic) \in Nat /\ DOMAIN topic = 1 .. Len(topic)
      /\ DOMAIN topic' = 1 .. (Len(topic) + 1)
      /\ topic'[Len(topic) + 1] = x
      /\ \A i \in DOMAIN topic : topic'[i] = topic[i]
      /\ \A q : \A i \in 0 .. Len(topic) : Ahead(q, i) => Ahead(q, i)'
      /\ \A q : Ahead(q, Len(topic)) \/ x.q = q => Ahead(q, Len(topic))'
  BY <1>0, <1>2, AheadGrows
<1>4. \A q : Readable(q)' = Readable(q)
  BY <1>0 DEF Readable
<1>5. NoneOvertaken'
  <2> SUFFICES ASSUME NEW i \in DOMAIN topic', NEW q \in 1 .. (topic'[i].q - 1), Readable(q),
                      quotes[q].product = quotes[topic'[i].q].product
               PROVE  Ahead(q, i - 1)'
    BY <1>0, <1>4 DEF NoneOvertaken, Symbol
  <2>1. i \in 1 .. Len(topic) \/ i = Len(topic) + 1
    BY <1>3
  <2>2. CASE i \in 1 .. Len(topic)
    <3>1. topic'[i] = topic[i] /\ i - 1 \in 0 .. Len(topic)
      BY <1>3, <2>2
    <3>2. Ahead(q, i - 1)
      BY <1>3, <2>2, <3>1 DEF Tracked, NoneOvertaken, Symbol
    <3> QED BY <1>3, <3>1, <3>2
  <2>3. CASE i = Len(topic) + 1
    <3>1. topic'[i] = x /\ i - 1 = Len(topic)
      BY <1>3, <2>3
    <3>2. x.q = next[f]
      <4>1. x # NoMessage
        <5> SUFFICES ASSUME x = NoMessage PROVE FALSE
          OBVIOUS
        <5>1. topic'[i].q = 0
          BY <3>1 DEF NoMessage
        <5> QED BY <5>1
      <4> QED BY <1>2, <4>1
    <3>3. q \in 1 .. (next[f] - 1)
      BY <3>1, <3>2
    <3>4. Ahead(q, Len(topic))
      BY <3>3 DEF Tracked, Delivered
    <3>5. Ahead(q, Len(topic))'
      BY <1>3, <3>4
    <3>6. Len(topic) \in 0 .. Len(topic)
      BY <1>3
    <3> QED BY <1>3, <3>1, <3>4, <3>6
  <2> QED BY <2>1, <2>2, <2>3
<1>6. Delivered'
  <2> SUFFICES ASSUME NEW g \in Feeds, NEW q \in 1 .. (next'[g] - 1), Readable(q)
               PROVE  Ahead(q, Len(topic))'
    BY <1>4 DEF Delivered
  <2>1. next[g] \in Nat /\ next'[g] = IF g = f THEN next[f] + 1 ELSE next[g]
    BY <1>0, QuoteAssumption DEF Base, RestType
  <2>2. CASE q \in 1 .. (next[g] - 1)
    <3>1. Ahead(q, Len(topic))
      BY <2>2 DEF Tracked, Delivered
    <3> QED BY <1>3, <3>1
  <2>3. CASE q \notin 1 .. (next[g] - 1)
    <3>1. q = next[f]
      BY <1>1, <2>1, <2>3
    <3>2. x.q = q
      BY <1>2, <3>1 DEF Readable
    <3> QED BY <1>3, <3>2
  <2> QED BY <2>2, <2>3
<1> QED BY <1>0, <1>5, <1>6, SaverPartStays DEF Tracked

LEMMA HangupTracked ==
    ASSUME Base, Tracked, NEW f \in Feeds, Hangup(f)
    PROVE  Tracked'
<1>0. SaverStays /\ UNCHANGED <<quotes, next, parsed>>
  BY DEF Hangup, saverVars, SaverStays
<1>1. \A q : Readable(q)' = Readable(q) /\ Done(q)' = Done(q)
  BY <1>0, DoneStays
<1>2. CASE topic' = topic
  <2>1. \A q, i : Ahead(q, i)' = Ahead(q, i)
    BY <1>1, <1>2 DEF Ahead
  <2>2. NoneOvertaken'
    BY <1>0, <1>1, <1>2, <2>1 DEF Tracked, NoneOvertaken, Symbol
  <2>3. Delivered'
    <3>1. \A q : Ahead(q, Len(topic))' = Ahead(q, Len(topic))
      BY <1>1, <1>2 DEF Ahead
    <3> QED BY <1>0, <1>1, <3>1 DEF Tracked, Delivered
  <2> QED BY <1>0, <2>2, <2>3, SaverPartStays DEF Tracked
<1>3. CASE topic' = Append(topic, NoMessage)
  <2>0. NoMessage \in Texts /\ NoMessage.q = 0
    BY DEF Texts, NoMessage
  <2>1. /\ Len(topic) \in Nat /\ DOMAIN topic = 1 .. Len(topic)
        /\ DOMAIN topic' = 1 .. (Len(topic) + 1)
        /\ topic'[Len(topic) + 1] = NoMessage
        /\ \A i \in DOMAIN topic : topic'[i] = topic[i]
        /\ \A q : \A i \in 0 .. Len(topic) : Ahead(q, i) => Ahead(q, i)'
        /\ \A q : Ahead(q, Len(topic)) => Ahead(q, Len(topic))'
    BY <1>0, <1>3, <2>0, AheadGrows
  <2>2. NoneOvertaken'
    <3> SUFFICES ASSUME NEW i \in DOMAIN topic', NEW q \in 1 .. (topic'[i].q - 1), Readable(q),
                        quotes[q].product = quotes[topic'[i].q].product
                 PROVE  Ahead(q, i - 1)'
      BY <1>0, <1>1 DEF NoneOvertaken, Symbol
    <3>1. i \in 1 .. Len(topic)
      <4> SUFFICES ASSUME i = Len(topic) + 1 PROVE FALSE
        BY <2>1
      <4>1. topic'[i].q = 0
        BY <2>0, <2>1
      <4> QED BY <4>1
    <3>2. topic'[i] = topic[i] /\ i - 1 \in 0 .. Len(topic)
      BY <2>1, <3>1
    <3>3. Ahead(q, i - 1)
      BY <2>1, <3>1, <3>2 DEF Tracked, NoneOvertaken, Symbol
    <3> QED BY <2>1, <3>2, <3>3
  <2>3. Delivered'
    BY <1>0, <1>1, <2>1 DEF Tracked, Delivered
  <2> QED BY <1>0, <2>2, <2>3, SaverPartStays DEF Tracked
<1> QED BY <1>2, <1>3 DEF Hangup

LEMMA EmitTracked ==
    ASSUME Base, Tracked, Emit
    PROVE  Tracked'
<1>1. PICK e \in Quotes : /\ quotes' = Append(quotes, e) /\ Len(quotes) < MaxQuotes
                          /\ e.time >= 1
                          /\ \A p \in DOMAIN quotes : quotes[p].time <= e.time
  BY EmitFacts
<1> PICK n \in Nat : n = Len(quotes)
  BY DEF Base, RestType
<1>2. UNCHANGED <<next, topic, savedTime, savedSeq, parsed, single>>
  BY DEF Emit, feedVars, saverVars
<1>3. /\ quotes' \in Seq(Quotes) /\ DOMAIN quotes = 1 .. n /\ DOMAIN quotes' = 1 .. (n + 1)
      /\ quotes'[n + 1] = e
      /\ \A q \in 1 .. n : /\ quotes'[q] = quotes[q] /\ Readable(q)' = Readable(q)
                           /\ Position(q)' = Position(q)
  <2>1. /\ quotes' \in Seq(Quotes) /\ Len(quotes') = n + 1 /\ DOMAIN quotes = 1 .. n
        /\ quotes'[n + 1] = e
        /\ \A q \in DOMAIN quotes : /\ quotes'[q] = quotes[q] /\ Readable(q)' = Readable(q)
                                     /\ Position(q)' = Position(q)
    BY <1>1, GrowFacts DEF Base, RestType
  <2>2. DOMAIN quotes' = 1 .. (n + 1)
    BY <2>1
  <2> QED BY <2>1, <2>2
<1>4. \A q \in 1 .. n : Done(q)' = Done(q)
  BY <1>2, <1>3 DEF Done
<1>5. \A q \in 1 .. n : \A i : Ahead(q, i)' = Ahead(q, i)
  BY <1>2, <1>4 DEF Ahead
<1>6. \A q : Readable(q) => q \in 1 .. n
  BY <1>3 DEF Readable
<1>7. NoneOvertaken'
  <2> SUFFICES ASSUME NEW i \in DOMAIN topic, NEW q \in 1 .. (topic[i].q - 1),
                      Readable(q)', quotes'[q].product = quotes'[topic[i].q].product
               PROVE  Ahead(q, i - 1)'
    BY <1>2 DEF NoneOvertaken, Symbol
  <2>1. topic[i].q \in 1 .. n
    <3>1. topic[i] # NoMessage
      <4> SUFFICES ASSUME topic[i] = NoMessage PROVE FALSE
        OBVIOUS
      <4>1. topic[i].q = 0
        BY DEF NoMessage
      <4> QED BY <4>1
    <3>2. topic[i] \in InTransit
      BY <3>1 DEF InTransit
    <3> QED BY <1>6, <3>2, TransitFacts
  <2>2. q \in 1 .. n
    BY <2>1
  <2>3. Readable(q) /\ quotes[q].product = Symbol(topic[i])
    BY <1>3, <2>1, <2>2 DEF Symbol
  <2>4. Ahead(q, i - 1)
    BY <2>3 DEF Tracked, NoneOvertaken
  <2> QED BY <1>5, <2>2, <2>4
<1>8. Delivered'
  <2> SUFFICES ASSUME NEW f \in Feeds, NEW q \in 1 .. (next[f] - 1), Readable(q)'
               PROVE  Ahead(q, Len(topic))'
    BY <1>2 DEF Delivered
  <2>1. q \in 1 .. n
    BY QuoteAssumption DEF Base, RestType, Counted
  <2>2. Ahead(q, Len(topic))
    BY <1>3, <2>1 DEF Tracked, Delivered
  <2>3. Ahead(q, Len(topic))' = Ahead(q, Len(topic))
    BY <1>2, <1>4, <2>1 DEF Ahead
  <2> QED BY <2>2, <2>3
<1>9. Published'
  <2> SUFFICES ASSUME NEW q \in 1 .. (n + 1), Readable(q)', Done(q)', Position(q)' < 10
               PROVE  \E i \in DOMAIN single : single[i].q = q
    BY <1>2, <1>3 DEF Published
  <2>1. CASE q \in 1 .. n
    BY <1>3, <1>4, <2>1 DEF Tracked, Published
  <2>2. CASE q = n + 1
    <3> PICK k : k = e.product
      OBVIOUS
    <3>0. k \in Products /\ e.time \in Nat /\ savedTime[k] \in Nat /\ ~e.cut
      BY <1>3, <2>2 DEF Quotes, Base, RestType, Readable
    <3>1. \/ e.time < savedTime[k]
          \/ e.time = savedTime[k] /\ Place(Position(q)') <= Place(savedSeq[k])
      BY <1>2, <1>3, <2>2 DEF Done, Place
    <3>2. savedTime[k] > 0
      BY <1>1, <3>0, <3>1
    <3>3. PICK r \in DOMAIN quotes : /\ Readable(r) /\ quotes[r].product = k
                                     /\ quotes[r].time = savedTime[k]
                                     /\ Position(r) = savedSeq[k]
      BY <3>0, <3>2 DEF Tracked, Saved
    <3>4. r \in 1 .. n /\ quotes[r].time = e.time /\ quotes[r].product = k
      BY <1>1, <1>3, <3>0, <3>1, <3>3
    <3>5. Position(r) \in Nat /\ Position(q)' \in Nat /\ Position(r) < Position(q)'
      <4> DEFINE A == Peers(k, e.time, r)
                 B == Peers(k, e.time, n + 1)'
      <4>1. Position(r) = Cardinality(A)
        BY <3>4, PositionIsCount
      <4>2. Position(q)' = Cardinality(B)
        BY <1>3, <2>2 DEF Position, Peers
      <4>3. n + 1 \in B /\ n + 1 \notin A /\ A \in SUBSET B
        <5>1. n + 1 \in B
          BY <1>3, <3>0 DEF Peers
        <5>2. \A p \in 1 .. r : p \in 1 .. n /\ quotes'[p] = quotes[p] /\ p \in 1 .. (n + 1)
          BY <1>3, <3>4
        <5> QED BY <5>1, <5>2, <3>4 DEF Peers
      <4>4. IsFiniteSet(B) /\ Cardinality(B) \in Nat
        <5>1. B \in SUBSET (1 .. (n + 1))
          BY DEF Peers
        <5> QED BY <5>1, IntervalFacts, FS_Subset, FS_CardinalityType
      <4>5. Cardinality(A) <= Cardinality(B) /\ Cardinality(A) # Cardinality(B)
        BY <4>3, <4>4, FS_Subset
      <4>6. Cardinality(A) \in Nat
        BY <3>4, PeersFinite
      <4> HIDE DEF A, B
      <4> QED BY <4>1, <4>2, <4>4, <4>5, <4>6
    <3>6. PICK b \in 0 .. 9 : b = Position(q)'
      BY <3>5
    <3>7. PICK a \in 0 .. 9 : a = savedSeq[k] /\ a < b
      <4>1. Position(r) \in Nat /\ Position(r) < b
        BY <3>5, <3>6
      <4>2. Position(r) \in 0 .. 9
        BY <4>1
      <4> QED BY <3>3, <4>1, <4>2
    <3>8. Place(b) = 11 * b /\ Place(a) = 11 * a
      <4>1. a \in 0 .. 99 /\ b \in 0 .. 99
        OBVIOUS
      <4> QED BY <4>1, PlaceFacts
    <3>9. Place(b) <= Place(a)
      BY <1>1, <3>0, <3>1, <3>4, <3>3, <3>6, <3>7
    <3> QED BY <3>7, <3>8, <3>9
  <2> QED BY <1>3, <2>1, <2>2
<1>10. Saved'
  <2> SUFFICES ASSUME NEW k \in Products
               PROVE  /\ savedSeq[k] \in (0 .. 9) \cup (90 .. 99)
                      /\ savedTime[k] > 0 =>
                            \E q \in DOMAIN quotes' : /\ Readable(q)' /\ quotes'[q].product = k
                                                      /\ quotes'[q].time = savedTime[k]
                                                      /\ Position(q)' = savedSeq[k]
    BY <1>2 DEF Saved
  <2>1. savedSeq[k] \in (0 .. 9) \cup (90 .. 99)
    BY DEF Tracked, Saved
  <2>2. ASSUME savedTime[k] > 0
        PROVE  \E q \in DOMAIN quotes' : /\ Readable(q)' /\ quotes'[q].product = k
                                         /\ quotes'[q].time = savedTime[k]
                                         /\ Position(q)' = savedSeq[k]
    <3>1. PICK q \in DOMAIN quotes : /\ Readable(q) /\ quotes[q].product = k
                                     /\ quotes[q].time = savedTime[k]
                                     /\ Position(q) = savedSeq[k]
      BY <2>2 DEF Tracked, Saved
    <3>2. q \in 1 .. n /\ q \in DOMAIN quotes'
      BY <1>3
    <3> QED BY <1>3, <3>1, <3>2
  <2> QED BY <2>1, <2>2
<1>11. \A i \in DOMAIN single : single[i].q \in 1 .. n
  BY <1>6 DEF Base, Sent
<1>12. \A i \in DOMAIN single : /\ quotes'[single[i].q] = quotes[single[i].q]
  BY <1>3, <1>11
<1>13. InOrder'
  BY <1>2, <1>12 DEF Tracked, InOrder, Before, Time, Symbol
<1>14. (\A i \in DOMAIN single : NotLater(single[i]))'
  BY <1>2, <1>12 DEF Tracked, NotLater, Time, Symbol
<1>15. (parsed # NoMessage => Done(parsed.q))'
  <2> SUFFICES ASSUME parsed # NoMessage PROVE Done(parsed.q)'
    BY <1>2
  <2> PICK q : q = parsed.q
    OBVIOUS
  <2>1. parsed \in InTransit
    BY DEF InTransit
  <2>2. q \in 1 .. n
    BY <1>6, <2>1, TransitFacts
  <2>3. Done(q)'
    BY <1>4, <2>2 DEF Tracked
  <2> QED BY <1>2, <2>3 DEF Done, Position
<1> QED BY <1>7, <1>8, <1>9, <1>10, <1>13, <1>14, <1>15 DEF Tracked
\* quoteSave takes a message: those behind it move up, and its own quote is
\* from now on one that would be dropped.
LEMMA TakeTracked ==
    ASSUME Base, Tracked, topic # <<>>, topic' = Tail(topic), UNCHANGED <<quotes, next>>,
           \A q : Readable(q) /\ Done(q) => Done(q)',
           NEW m, m = Head(topic), NEW r, r = m.q, m # NoMessage => Done(r)'
    PROVE  NoneOvertaken' /\ Delivered'
<1> PICK n \in Nat : n = Len(topic)
  BY DEF Base, RestType
<1>1. /\ n >= 1 /\ m = topic[1] /\ Len(topic') = n - 1 /\ DOMAIN topic = 1 .. n
      /\ DOMAIN topic' = 1 .. (n - 1)
      /\ \A i \in 1 .. (n - 1) : topic'[i] = topic[i + 1]
  <2>1. topic \in Seq(Texts)
    BY DEF Base, RestType
  <2> QED BY <2>1
<1>2. \A q : Readable(q)' = Readable(q)
  BY DEF Readable
<1>3. \A q : Readable(q) => q \in Nat \ {0}
  BY QuoteFacts DEF Readable, Base, RestType
<1>4. ASSUME NEW q, Readable(q), NEW i \in 1 .. n, Ahead(q, i)
      PROVE  Ahead(q, i - 1)'
  <2>1. CASE Done(q)
    BY <1>4, <2>1 DEF Ahead
  <2>2. ASSUME NEW j \in 1 .. i, topic[j].q = q
        PROVE  Ahead(q, i - 1)'
    <3>1. CASE j = 1
      <4>1. m # NoMessage
        BY <1>1, <1>3, <1>4, <2>2, <3>1 DEF NoMessage
      <4>2. Done(q)'
        BY <1>1, <2>2, <3>1, <4>1
      <4> QED BY <4>2 DEF Ahead
    <3>2. CASE j # 1
      <4>1. j - 1 \in 1 .. (i - 1) /\ topic'[j - 1] = topic[j]
        BY <1>1, <3>2
      <4> QED BY <2>2, <4>1 DEF Ahead
    <3> QED BY <3>1, <3>2
  <2> QED BY <1>4, <2>1, <2>2 DEF Ahead
<1>5. NoneOvertaken'
  <2> SUFFICES ASSUME NEW i \in 1 .. (n - 1), NEW q \in 1 .. (topic'[i].q - 1), Readable(q),
                      quotes[q].product = quotes[topic'[i].q].product
               PROVE  Ahead(q, i - 1)'
    BY <1>1, <1>2 DEF NoneOvertaken, Symbol
  <2>1. i + 1 \in 1 .. n /\ i \in 1 .. n /\ topic'[i] = topic[i + 1] /\ (i + 1) - 1 = i
    BY <1>1
  <2>2. Ahead(q, i)
    BY <1>1, <2>1 DEF Tracked, NoneOvertaken, Symbol
  <2> QED BY <1>4, <2>1, <2>2
<1>6. Delivered'
  <2> SUFFICES ASSUME NEW f \in Feeds, NEW q \in 1 .. (next[f] - 1), Readable(q)
               PROVE  Ahead(q, Len(topic))'
    BY <1>2 DEF Delivered
  <2>1. Ahead(q, n)
    BY DEF Tracked, Delivered
  <2>2. n \in 1 .. n
    BY <1>1
  <2>3. Ahead(q, n - 1)'
    BY <1>4, <2>1, <2>2
  <2> QED BY <1>1, <2>3 DEF Ahead
<1> QED BY <1>5, <1>6

\* A message that quoteSave accepts, when those before it in its second have
\* been judged: it has the number that is saved, also when it opens a second,
\* and that number is greater than the last as a number and as a text.
LEMMA AcceptedNumber ==
    ASSUME Base, Right, Tracked, NEW m \in InTransit, Accepts(m),
           \A q \in 1 .. (m.q - 1) :
               Readable(q) /\ quotes[q].product = Symbol(m) => Done(q)
    PROVE  /\ m.n = Position(m.q)
           /\ IsNewer(m) => m.n = 1
           /\ m.n \in (1 .. 9) \cup (90 .. 99)
           /\ \/ savedTime[Symbol(m)] < Time(m)
              \/ /\ savedTime[Symbol(m)] = Time(m) /\ savedSeq[Symbol(m)] < m.n
                 /\ Place(savedSeq[Symbol(m)]) < Place(m.n)
<1> PICK k : k = Symbol(m)
  OBVIOUS
<1> PICK s : s = savedSeq[k]
  OBVIOUS
<1>1. /\ m.n \in Nat \ {0} /\ m.n <= 99 /\ m.n = Position(m.q) /\ Readable(m.q)
      /\ k \in Products /\ Time(m) \in Nat /\ Time(m) >= 1
      /\ quotes[m.q].product = k /\ quotes[m.q].time = Time(m)
  BY TransitFacts, QuoteAssumption DEF Right, Symbol, Time
<1>2. savedTime[k] \in Nat /\ s \in Nat /\ s \in (0 .. 9) \cup (90 .. 99)
  BY <1>1 DEF Base, RestType, Tracked, Saved
<1>3. ASSUME NEW n \in Nat \ {0}, n < m.n
      PROVE  \/ Time(m) < savedTime[k]
             \/ Time(m) = savedTime[k] /\ Place(n) <= Place(s)
  <2>1. PICK p \in 1 .. (m.q - 1) : /\ Readable(p) /\ Position(p) = n
                                    /\ quotes[p].product = quotes[m.q].product
                                    /\ quotes[p].time = quotes[m.q].time
    BY <1>1, <1>3, LowerPositions DEF Base, RestType
  <2>2. Done(p)
    BY <1>1, <2>1
  <2> QED BY <1>1, <2>1, <2>2 DEF Done
<1>4. CASE IsNewer(m)
  <2>1. savedTime[k] < Time(m)
    BY <1>1, <1>2, <1>4 DEF IsNewer
  <2>2. m.n = 1
    <3> SUFFICES ASSUME m.n # 1 PROVE FALSE
      OBVIOUS
    <3>1. 1 \in Nat \ {0} /\ 1 < m.n
      BY <1>1
    <3>2. \/ Time(m) < savedTime[k]
          \/ Time(m) = savedTime[k]
      BY <1>3, <3>1
    <3> QED BY <1>1, <1>2, <2>1, <3>2
  <2> QED BY <1>1, <2>1, <2>2
<1>5. CASE ~IsNewer(m)
  <2>1. Time(m) = savedTime[k] /\ Place(m.n) > Place(s)
    BY <1>5 DEF Accepts, IsLater
  <2>2. /\ s \in 0 .. 99 /\ m.n \in 0 .. 99 /\ 9 \in 0 .. 99
    BY <1>1, <1>2
  <2>3. Place(m.n) \in Nat /\ Place(s) \in Nat /\ Place(9) = 99
    BY <2>2, PlaceFacts
  <2>4. m.n \in (1 .. 9) \cup (90 .. 99)
    <3> SUFFICES ASSUME m.n \in 10 .. 89 PROVE FALSE
      BY <1>1
    <3>1. Place(9) <= Place(s)
      BY <1>1, <1>2, <1>3, <2>1
    <3>2. Place(m.n) <= 98
      BY <2>2, PlaceFacts
    <3> QED BY <2>1, <2>3, <3>1, <3>2
  <2>5. /\ m.n \in 0 .. 9 => Place(m.n) = 11 * m.n
        /\ m.n \in 90 .. 99 => Place(m.n) = m.n + 10
        /\ s \in 0 .. 9 => Place(s) = 11 * s
        /\ s \in 90 .. 99 => Place(s) = s + 10
    BY <2>2, PlaceFacts
  <2>6. s < m.n
    BY <1>1, <1>2, <2>1, <2>3, <2>4, <2>5
  <2>7. Place(s) < Place(m.n)
    BY <2>1, <2>3
  <2> QED BY <1>1, <1>5, <2>1, <2>4, <2>6, <2>7
<1> QED BY <1>4, <1>5
\* What quoteSave has judged stays judged when it accepts a message, and the
\* quote of the message is judged.
LEMMA RecordDone ==
    ASSUME Base, Right, Tracked, NEW m \in InTransit, Accepts(m),
           \A q \in 1 .. (m.q - 1) :
               Readable(q) /\ quotes[q].product = Symbol(m) => Done(q),
           NEW stored \in BOOLEAN, Record(m, stored), UNCHANGED quotes
    PROVE  /\ savedTime'[Symbol(m)] = Time(m) /\ savedSeq'[Symbol(m)] = m.n
           /\ \A q : Readable(q) /\ Done(q) => Done(q)'
           /\ \A q : q = m.q => Done(q)'
<1> PICK k : k = Symbol(m)
  OBVIOUS
<1>1. /\ m.n \in Nat \ {0} /\ m.n = Position(m.q) /\ Readable(m.q)
      /\ k \in Products /\ Time(m) \in Nat
      /\ quotes[m.q].product = k /\ quotes[m.q].time = Time(m)
  BY TransitFacts, AcceptedNumber DEF Symbol, Time
<1>2. /\ IsNewer(m) => m.n = 1
      /\ m.n \in 0 .. 99
      /\ \/ savedTime[k] < Time(m)
         \/ savedTime[k] = Time(m) /\ Place(savedSeq[k]) < Place(m.n)
  BY AcceptedNumber
<1>3. savedTime'[k] = Time(m) /\ savedSeq'[k] = m.n
  BY <1>2, RecordFacts
<1>4. \A j \in Products : j # k => savedTime'[j] = savedTime[j] /\ savedSeq'[j] = savedSeq[j]
  BY RecordFacts
<1>5. savedTime[k] \in Nat /\ Place(savedSeq[k]) \in Nat /\ Place(m.n) \in Nat
  <2>1. savedSeq[k] \in 0 .. 99 /\ savedTime[k] \in Nat
    BY <1>1 DEF Tracked, Saved, Base, RestType
  <2> QED BY <1>2, <2>1, PlaceFacts
<1>6. ASSUME NEW q, Readable(q), Done(q)
      PROVE  Done(q)'
  <2>1. quotes[q].product \in Products /\ quotes[q].time \in Nat
    BY <1>6, QuoteFacts DEF Readable, Base, RestType
  <2>2. Position(q)' = Position(q)
    BY DEF Position
  <2>3. CASE quotes[q].product # k
    BY <1>4, <1>6, <2>1, <2>2, <2>3 DEF Done, Place
  <2>4. CASE quotes[q].product = k
    <3>1. Place(Position(q)) \in Nat
      BY <1>6, PositionPlace
    <3>2. \/ quotes[q].time < savedTime[k]
          \/ quotes[q].time = savedTime[k] /\ Place(Position(q)) <= Place(savedSeq[k])
      BY <1>6, <2>4 DEF Done
    <3>3. \/ quotes[q].time < Time(m)
          \/ quotes[q].time = Time(m) /\ Place(Position(q)) <= Place(m.n)
      BY <1>1, <1>2, <1>5, <2>1, <3>1, <3>2
    <3> QED BY <1>3, <2>2, <2>4, <3>3 DEF Done, Place
  <2> QED BY <2>3, <2>4
<1>7. ASSUME NEW q, q = m.q
      PROVE  Done(q)'
  <2>1. Position(q)' = m.n
    BY <1>1, <1>7 DEF Position
  <2>2. Place(m.n) <= Place(m.n)
    BY <1>5
  <2> QED BY <1>1, <1>3, <1>7, <2>1, <2>2 DEF Done, Place
<1> QED BY <1>3, <1>6, <1>7

\* What is published then is in order, and nothing is passed over.
LEMMA RecordTracked ==
    ASSUME Base, Right, Tracked, NEW m \in InTransit, Accepts(m),
           \A q \in 1 .. (m.q - 1) :
               Readable(q) /\ quotes[q].product = Symbol(m) => Done(q),
           NEW stored \in BOOLEAN, Record(m, stored), UNCHANGED quotes
    PROVE  /\ Published' /\ Saved' /\ InOrder'
           /\ (\A i \in DOMAIN single : NotLater(single[i]))'
<1> PICK k : k = Symbol(m)
  OBVIOUS
<1> PICK n : n = Len(single)
  OBVIOUS
<1>1. /\ m.n \in Nat \ {0} /\ m.n = Position(m.q) /\ Readable(m.q) /\ m.q \in Nat
      /\ k \in Products /\ Time(m) \in Nat
      /\ quotes[m.q].product = k /\ quotes[m.q].time = Time(m)
  BY TransitFacts, AcceptedNumber DEF Symbol, Time
<1>2. /\ m.n \in (1 .. 9) \cup (90 .. 99)
      /\ \/ savedTime[k] < Time(m)
         \/ savedTime[k] = Time(m) /\ savedSeq[k] < m.n
  BY AcceptedNumber
<1>3. /\ savedTime'[k] = Time(m) /\ savedSeq'[k] = m.n
      /\ \A q : Readable(q) /\ Done(q) => Done(q)'
  BY RecordDone
<1>4. \A j \in Products : j # k => savedTime'[j] = savedTime[j] /\ savedSeq'[j] = savedSeq[j]
  BY RecordFacts
<1>5. /\ n \in Nat
      /\ DOMAIN single = 1 .. n /\ DOMAIN single' = 1 .. (n + 1)
      /\ single'[n + 1] = [q |-> m.q, n |-> m.n, stored |-> stored]
      /\ \A i \in DOMAIN single : single'[i] = single[i]
  BY RecordFacts
<1>6. single'[n + 1].q = m.q /\ single'[n + 1].n = m.n
  BY <1>5
<1>7. \A q : Readable(q)' = Readable(q) /\ Position(q)' = Position(q)
  BY DEF Readable, Position
<1>8. savedTime[k] \in Nat /\ savedSeq[k] \in Nat
  BY <1>1 DEF Base, RestType
<1>9. Published'
  <2> SUFFICES ASSUME NEW q, Readable(q), Done(q)', Position(q) < 10
               PROVE  \E i \in DOMAIN single' : single'[i].q = q
    BY <1>7 DEF Published
  <2>1. quotes[q].product \in Products /\ quotes[q].time \in Nat /\ q \in DOMAIN quotes
        /\ q \in Nat \ {0} /\ Position(q) \in 1 .. 9
    <3>1. quotes \in Seq(Quotes)
      BY DEF Base, RestType
    <3>2. Position(q) \in 1 .. q /\ q \in Nat \ {0}
      BY <3>1, PositionType
    <3>3. Position(q) \in 1 .. 9
      BY <3>2
    <3> QED BY <3>1, <3>2, <3>3, QuoteFacts DEF Readable
  <2>2. CASE Done(q)
    <3>1. PICK i \in DOMAIN single : single[i].q = q
      BY <2>1, <2>2 DEF Tracked, Published
    <3> QED BY <1>5, <3>1
  <2>3. CASE ~Done(q)
    <3>1. quotes[q].product = k
      <4> SUFFICES ASSUME quotes[q].product # k PROVE FALSE
        OBVIOUS
      <4> QED BY <1>4, <1>7, <2>1, <2>3 DEF Done, Place
    <3>2. ~(q < m.q)
      BY <2>1, <2>3, <3>1, <1>1
    <3>3. \/ quotes[q].time < Time(m)
          \/ quotes[q].time = Time(m) /\ Place(Position(q)) <= Place(m.n)
      BY <1>3, <1>7, <3>1 DEF Done, Place
    <3>4. q = m.q \/ m.q < q
      BY <1>1, <2>1, <3>2
    <3>5. CASE q = m.q
      BY <1>5, <1>6, <3>5
    <3>6. CASE m.q < q
      <4>1. Time(m) <= quotes[q].time
        BY <1>1, <2>1, <3>6 DEF Base, Stream, Readable
      <4>2. quotes[q].time = Time(m) /\ Place(Position(q)) <= Place(m.n)
        BY <1>1, <2>1, <3>3, <4>1
      <4>3. m.n < Position(q)
        BY <1>1, <3>1, <3>6, <4>2, PositionGrows DEF Base, RestType
      <4>4. PICK a \in Nat : a = m.n
        BY <1>1
      <4>5. PICK b \in 1 .. 9 : b = Position(q)
        BY <2>1
      <4>6. a < b /\ Place(b) <= Place(a)
        BY <4>2, <4>3, <4>4, <4>5
      <4> QED BY <4>6, PlaceGrows
    <3> QED BY <3>4, <3>5, <3>6
  <2> QED BY <2>2, <2>3
<1>10. Saved'
  <2> SUFFICES ASSUME NEW j \in Products
               PROVE  /\ savedSeq'[j] \in (0 .. 9) \cup (90 .. 99)
                      /\ savedTime'[j] > 0 =>
                            \E q \in DOMAIN quotes : /\ Readable(q) /\ quotes[q].product = j
                                                     /\ quotes[q].time = savedTime'[j]
                                                     /\ Position(q) = savedSeq'[j]
    BY <1>7 DEF Saved
  <2>1. CASE j = k
    BY <1>1, <1>2, <1>3, <2>1 DEF Readable
  <2>2. CASE j # k
    BY <1>4, <2>2 DEF Tracked, Saved
  <2> QED BY <2>1, <2>2
<1>11. ASSUME NEW i \in DOMAIN single
       PROVE  /\ Symbol(single[i]) \in Products /\ Time(single[i]) \in Nat
              /\ single[i].n \in Nat
              /\ Symbol(single[i]) = k =>
                    \/ Time(single[i]) < Time(m)
                    \/ Time(single[i]) = Time(m) /\ single[i].n < m.n
  <2>1. Readable(single[i].q)
    BY DEF Base, Sent
  <2>2. Symbol(single[i]) \in Products /\ Time(single[i]) \in Nat
    BY <2>1, QuoteFacts DEF Readable, Symbol, Time, Base, RestType
  <2>3. single[i].n \in Nat
    <3> DEFINE R == [q : 1 .. MaxQuotes, n : 1 .. MaxQuotes, stored : BOOLEAN]
    <3>1. single[i] \in R
      <4>1. single \in Seq(R)
        BY DEF Base, RestType
      <4> HIDE DEF R
      <4> QED BY <4>1
    <3> QED BY <3>1, QuoteAssumption
  <2>4. ASSUME Symbol(single[i]) = k
        PROVE  \/ Time(single[i]) < Time(m)
               \/ Time(single[i]) = Time(m) /\ single[i].n < m.n
    <3>1. \/ Time(single[i]) < savedTime[k]
          \/ Time(single[i]) = savedTime[k] /\ single[i].n <= savedSeq[k]
      BY <2>4 DEF Tracked, NotLater
    <3> QED BY <1>1, <1>2, <1>8, <2>2, <2>3, <3>1
  <2> QED BY <2>2, <2>3, <2>4
<1>12. \A i \in DOMAIN single' : i \in DOMAIN single \/ i = n + 1
  BY <1>5
<1>13. /\ \A i \in DOMAIN single : /\ Symbol(single[i])' = Symbol(single[i])
                                   /\ Time(single[i])' = Time(single[i])
       /\ quotes'[single'[n + 1].q].product = k /\ quotes'[single'[n + 1].q].time = Time(m)
  <2>1. \A i \in DOMAIN single : /\ Symbol(single[i])' = Symbol(single[i])
                                 /\ Time(single[i])' = Time(single[i])
    BY <1>5 DEF Symbol, Time
  <2> QED BY <1>1, <1>6, <2>1
<1>14. \A i \in DOMAIN single' : NotLater(single[i])'
  <2> SUFFICES ASSUME NEW i \in DOMAIN single' PROVE NotLater(single[i])'
    OBVIOUS
  <2>1. CASE i \in DOMAIN single
    <3>0. single'[i] = single[i]
      BY <1>5, <2>1
    <3>1. CASE Symbol(single[i]) = k
      <4>1. Time(single[i]) < Time(m) \/ (Time(single[i]) = Time(m) /\ single[i].n <= m.n)
        BY <1>1, <1>11, <2>1, <3>1
      <4> QED BY <1>3, <3>0, <3>1, <4>1 DEF NotLater, Symbol, Time
    <3>2. CASE Symbol(single[i]) # k
      <4>1. NotLater(single[i]) /\ Symbol(single[i]) \in Products
        BY <1>11, <2>1 DEF Tracked
      <4> QED BY <1>4, <3>0, <3>2, <4>1 DEF NotLater, Symbol, Time
    <3> QED BY <3>1, <3>2
  <2>2. CASE i = n + 1
    <3>1. m.n <= m.n
      BY <1>1
    <3> QED BY <1>3, <1>6, <1>13, <2>2, <3>1 DEF NotLater, Symbol, Time
  <2> QED BY <1>12, <2>1, <2>2
<1>15. InOrder'
  <2> SUFFICES ASSUME NEW i \in DOMAIN single', NEW j \in DOMAIN single', i < j,
                      quotes[single'[i].q].product = quotes[single'[j].q].product
               PROVE  \/ quotes[single'[i].q].time < quotes[single'[j].q].time
                      \/ /\ quotes[single'[i].q].time = quotes[single'[j].q].time
                         /\ single'[i].n < single'[j].n
    BY DEF InOrder, Before, Symbol, Time
  <2>1. i \in DOMAIN single /\ single'[i] = single[i]
    BY <1>5
  <2>2. CASE j \in DOMAIN single
    <3>1. single'[j] = single[j]
      BY <1>5, <2>2
    <3> QED BY <2>1, <2>2, <3>1 DEF Tracked, InOrder, Before, Symbol, Time
  <2>3. CASE j = n + 1
    <3>1. Symbol(single[i]) = k
      BY <1>13, <2>1, <2>3 DEF Symbol
    <3>2. \/ Time(single[i]) < Time(m)
          \/ Time(single[i]) = Time(m) /\ single[i].n < m.n
      BY <1>11, <2>1, <3>1
    <3> QED BY <1>6, <1>13, <2>1, <2>3, <3>2 DEF Time
  <2> QED BY <1>12, <2>2, <2>3
<1> QED BY <1>9, <1>10, <1>14, <1>15
LEMMA ReceiveTracked ==
    ASSUME Base, Right, Tracked, Receive
    PROVE  Tracked'
<1>1. PICK m \in Texts : Judges(m) /\ (m # NoMessage => m \in InTransit)
  BY ReceiveFacts
<1>2. /\ UNCHANGED <<quotes, next>> /\ topic # <<>> /\ topic' = Tail(topic) /\ parsed' = m
      /\ \/ Head(topic) # NoMessage /\ m = Head(topic)
         \/ Head(topic) = NoMessage /\ m = parsed
  BY <1>1 DEF Judges, feedVars
<1> PICK x : x = Head(topic)
  OBVIOUS
<1>3. 1 \in DOMAIN topic /\ x = topic[1]
  <2>1. topic \in Seq(Texts)
    BY DEF Base, RestType
  <2> QED BY <1>2, <2>1, PopFacts
<1>4. m \in InTransit =>
         /\ m.n = Position(m.q) /\ Symbol(m) \in Products /\ Time(m) \in Nat
         /\ quotes[m.q].product = Symbol(m) /\ quotes[m.q].time = Time(m)
  BY TransitFacts DEF Right, Symbol, Time
<1>5. CASE ~Accepts(m)
  <2>1. SaverStays
    BY <1>1, <1>2, <1>5 DEF Judges, SaverStays
  <2>2. m # NoMessage => Done(m.q)
    <3> SUFFICES ASSUME m # NoMessage PROVE Done(m.q)
      OBVIOUS
    <3> PICK k : k = Symbol(m)
      OBVIOUS
    <3>1. m \in InTransit /\ k \in Products /\ savedTime[k] \in Nat /\ savedSeq[k] \in 0 .. 99
      BY <1>1, <1>4 DEF Base, RestType, Tracked, Saved
    <3>2. ~(Time(m) > savedTime[k])
          /\ ~(Time(m) = savedTime[k] /\ Place(m.n) > Place(savedSeq[k]))
      BY <1>5 DEF Accepts, IsNewer, IsLater
    <3>3. m.n \in 0 .. 99
      <4>1. m.n \in Nat \ {0} /\ m.n <= MaxQuotes
        BY <3>1, TransitFacts
      <4> QED BY <4>1, QuoteAssumption
    <3>4. Place(m.n) \in Nat /\ Place(savedSeq[k]) \in Nat
      BY <3>1, <3>3, PlaceFacts
    <3>5. \/ Time(m) < savedTime[k]
          \/ Time(m) = savedTime[k] /\ Place(m.n) <= Place(savedSeq[k])
      BY <1>4, <3>1, <3>2, <3>4
    <3> QED BY <1>4, <3>1, <3>5 DEF Done
  <2>3. \A q : Done(q)' = Done(q)
    BY <2>1, DoneStays
  <2>4. NoneOvertaken' /\ Delivered'
    <3> PICK r : r = x.q
      OBVIOUS
    <3>1. x # NoMessage => Done(r)'
      BY <1>2, <2>2, <2>3
    <3> QED BY <1>2, <2>3, <3>1, TakeTracked
  <2>5. parsed' # NoMessage => Done(parsed'.q)
    BY <1>2, <2>2
  <2> QED BY <2>1, <2>4, <2>5, SaverPartStays DEF Tracked
<1>6. CASE Accepts(m)
  <2>1. PICK stored \in BOOLEAN : Record(m, stored)
    BY <1>1, <1>6 DEF Judges
  <2>2. m \in InTransit /\ m # NoMessage
    BY <1>1, <1>6 DEF Accepts
  <2>3. m = x
    <3> SUFFICES ASSUME m = parsed PROVE FALSE
      BY <1>2
    <3> PICK k : k = Symbol(m)
      OBVIOUS
    <3>1. Done(m.q)
      BY <2>2 DEF Tracked
    <3>2. k \in Products /\ savedTime[k] \in Nat /\ savedSeq[k] \in 0 .. 99
      BY <1>4, <2>2 DEF Base, RestType, Tracked, Saved
    <3>3. m.n \in 0 .. 99
      <4>1. m.n \in Nat \ {0} /\ m.n <= MaxQuotes
        BY <2>2, TransitFacts
      <4> QED BY <4>1, QuoteAssumption
    <3>4. Place(m.n) \in Nat /\ Place(savedSeq[k]) \in Nat
      BY <3>2, <3>3, PlaceFacts
    <3>5. \/ Time(m) < savedTime[k]
          \/ Time(m) = savedTime[k] /\ Place(m.n) <= Place(savedSeq[k])
      BY <1>4, <2>2, <3>1 DEF Done
    <3>6. \/ Time(m) > savedTime[k]
          \/ Time(m) = savedTime[k] /\ Place(m.n) > Place(savedSeq[k])
      BY <1>6 DEF Accepts, IsNewer, IsLater
    <3> QED BY <1>4, <2>2, <3>2, <3>4, <3>5, <3>6
  <2>4. \A q \in 1 .. (m.q - 1) :
           Readable(q) /\ quotes[q].product = Symbol(m) => Done(q)
    <3> SUFFICES ASSUME NEW q \in 1 .. (m.q - 1), Readable(q), quotes[q].product = Symbol(m)
                 PROVE  Done(q)
      OBVIOUS
    <3>1. Ahead(q, 1 - 1)
      BY <1>3, <2>3 DEF Tracked, NoneOvertaken
    <3> QED BY <3>1 DEF Ahead
  <2>5. /\ \A q : Readable(q) /\ Done(q) => Done(q)'
        /\ \A q : q = m.q => Done(q)'
    BY <1>2, <1>6, <2>1, <2>2, <2>4, RecordDone
  <2>6. NoneOvertaken' /\ Delivered'
    <3> PICK r : r = x.q
      OBVIOUS
    <3>1. Done(r)'
      BY <2>3, <2>5
    <3> QED BY <1>2, <2>5, <3>1, TakeTracked
  <2>7. /\ Published' /\ Saved' /\ InOrder'
        /\ (\A i \in DOMAIN single : NotLater(single[i]))'
    BY <1>2, <1>6, <2>1, <2>2, <2>4, RecordTracked
  <2>8. Done(parsed.q)'
    <3> PICK r : r = m.q
      OBVIOUS
    <3>1. Done(r)'
      BY <2>5
    <3> QED BY <1>2, <3>1 DEF Done, Position
  <2> QED BY <2>6, <2>7, <2>8 DEF Tracked
<1> QED BY <1>5, <1>6

LEMMA FaultlessInit == Init => Faultless
<1> SUFFICES ASSUME Init PROVE Tracked
  BY DEF Faultless
<1>1. /\ quotes = <<>> /\ topic = <<>> /\ parsed = NoMessage /\ single = <<>>
      /\ next = [f \in Feeds |-> 1]
      /\ savedTime = [k \in Products |-> 0] /\ savedSeq = [k \in Products |-> 0]
  BY DEF Init
<1>2. NoneOvertaken /\ Delivered /\ Published /\ InOrder
  BY <1>1 DEF NoneOvertaken, Delivered, Published, InOrder
<1>3. Saved
  BY <1>1 DEF Saved
<1> QED BY <1>1, <1>2, <1>3 DEF Tracked

LEMMA FaultlessNext == Base /\ Numbered /\ Faultless /\ [Next]_vars => Faultless'
<1> SUFFICES ASSUME Base, Numbered, Faultless, [Next]_vars, faults' = {}
             PROVE  Tracked'
  BY DEF Faultless
<1>1. faults \subseteq faults'
  BY DEF Next, vars, Emit, Forward, Hangup, JoinFeed, Lose, Receive, RestartSaver
<1>2. Right /\ Tracked
  BY <1>1 DEF Numbered, Faultless
<1>3. CASE Emit
  BY <1>2, <1>3, EmitTracked
<1>4. CASE Receive
  BY <1>2, <1>4, ReceiveTracked
<1>5. ASSUME NEW f \in Feeds, Forward(f) \/ Hangup(f) \/ JoinFeed(f)
      PROVE  Tracked'
  <2>1. ~JoinFeed(f)
    BY DEF JoinFeed
  <2> QED BY <1>2, <1>5, <2>1, ForwardTracked, HangupTracked
<1>6. ~Lose /\ ~RestartSaver
  BY DEF Lose, RestartSaver
<1>7. CASE UNCHANGED vars
  <2>1. SaverStays /\ UNCHANGED <<quotes, next, topic, parsed>>
    BY <1>7 DEF vars, feedVars, saverVars, SaverStays
  <2>2. \A q : Done(q)' = Done(q) /\ Readable(q)' = Readable(q)
    BY <2>1, DoneStays
  <2>3. NoneOvertaken'
    <3>1. \A q, i : Ahead(q, i)' = Ahead(q, i)
      BY <2>1, <2>2 DEF Ahead
    <3> QED BY <1>2, <2>1, <2>2, <3>1 DEF Tracked, NoneOvertaken, Symbol
  <2>4. Delivered'
    <3>1. \A q : Ahead(q, Len(topic))' = Ahead(q, Len(topic))
      BY <2>1, <2>2 DEF Ahead
    <3> QED BY <1>2, <2>1, <2>2, <3>1 DEF Tracked, Delivered
  <2> QED BY <1>2, <2>1, <2>3, <2>4, SaverPartStays DEF Tracked
<1> QED BY <1>3, <1>4, <1>5, <1>6, <1>7 DEF Next

\* Whatever the number of feeds and the order in which they deliver the quotes,
\* with broken texts and failing statements between, getExcSql lets the quotes
\* of a product through once each and in order, as long as no message is lost
\* and neither quoteSave nor a feed is started in mid-stream.
THEOREM SingleStaysInOrder == Spec => []SingleInOrder
<1>1. Faultless => SingleInOrder
  BY DEF Faultless, Tracked, InOrder, SingleInOrder
<1> QED BY <1>1, BaseInit, BaseNext, NumberedInit, NumberedNext,
           FaultlessInit, FaultlessNext, PTL DEF Spec

\* Without such a fault every readable quote that some feed has read, up to the
\* ninth of its second, is in the topic or on Quote.Single.Org: the comparison
\* of SEQUENCE as text drops nothing before the tenth.
THEOREM NoQuoteGetsLost == Spec => []NoQuoteLost
<1>1. Base /\ Faultless => NoQuoteLost
  <2> SUFFICES ASSUME Base, Tracked, NEW f \in Feeds, NEW q \in 1 .. (next[f] - 1),
                      ~quotes[q].cut, Position(q) < 10
               PROVE  \/ \E i \in DOMAIN topic : topic[i].q = q
                      \/ \E i \in DOMAIN single : single[i].q = q
    BY DEF Faultless, NoQuoteLost
  <2>1. Readable(q)
    <3>1. next[f] \in Nat /\ next[f] <= Len(quotes) + 1 /\ Len(quotes) \in Nat
          /\ DOMAIN quotes = 1 .. Len(quotes)
      BY QuoteAssumption DEF Base, RestType, Counted
    <3>2. q \in DOMAIN quotes
      BY <3>1
    <3> QED BY <3>2 DEF Readable
  <2>2. Ahead(q, Len(topic))
    BY <2>1 DEF Tracked, Delivered
  <2>3. DOMAIN topic = 1 .. Len(topic)
    BY DEF Base, RestType
  <2> QED BY <2>1, <2>2, <2>3 DEF Ahead, Tracked, Published, Readable
<1> QED BY <1>1, BaseInit, BaseNext, NumberedInit, NumberedNext,
           FaultlessInit, FaultlessNext, PTL DEF Spec
=============================================================================
