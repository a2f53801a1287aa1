-------------------------- MODULE QuoteServiceProofs --------------------------
(***************************************************************************)
(* The time-sharing line agrees with its table and its topic, and a reader *)
(* sees one trade date, for any products, minutes, readers and quotes.     *)
(***************************************************************************)
EXTENDS QuoteService, BufferLemmas

\* The points are of the current trade date.
OneDay == \A x \in Points : line[x] # 0 => quotes[line[x]].date = curDate

\* A point is set from a quote of its product and minute.
OwnPoint == \A x \in Points : line[x] # 0 => Point(line[x]) = x

\* When the trade date changed under a reader, the quote that changed it waits
\* for the write lock: the date does not change again while he is inside.
Blocked ==
    \A r \in inside : seen[r].date # curDate => msg # 0 /\ quotes[msg].date = curDate

\* Position c comes before everything that is still to be put into the line.
Before(c) ==
    /\ msg # 0 => c <= msg
    /\ \A i \in DOMAIN lineQ : c < lineQ[i]
    /\ half # 0 => c < half

\* Quotes reach the line in the order in which they came.
Backlog ==
    /\ \A i, j \in DOMAIN lineQ : i < j => lineQ[i] < lineQ[j]
    /\ msg # 0 => Before(msg)
    /\ half # 0 => \A i \in DOMAIN lineQ : lineQ[i] < half
    /\ curDate # 0 => \E k \in 1 .. Len(quotes) : Before(k) /\ quotes[k].date = curDate

\* A point of the line is published, and stored unless its statement failed.
Stored ==
    \A x \in Points : line[x] # 0 =>
        /\ pushed[x] = line[x]
        /\ x \notin missed =>
              rows[x] # <<>> /\ rows[x][Len(rows[x])] = quotes[line[x]].price

\* A row whose point is not on the line is of an earlier trade date.
OneRow ==
    Orderly /\ crashes = 0 =>
        \A x \in Points :
            /\ Len(rows[x]) <= 1
            /\ rows[x] # <<>> /\ line[x] = 0 =>
                  \E q \in 1 .. Len(quotes) : Point(q) = x /\ quotes[q].date < curDate

PoolOK == dbpool.cur = dbpool.free + leaked

Inv ==
    /\ TypeOK /\ PoolOK /\ OneDay /\ OwnPoint /\ Blocked /\ Backlog
    /\ Stored /\ OneRow /\ ReadsOneDay

-----------------------------------------------------------------------------
\* What GetConnection can leave of a pool that counts right.
LEMMA PoolStep ==
    ASSUME dbpool \in Pools, leaked \in Nat, PoolOK
    PROVE  /\ \A pl \in Grants(dbpool) :
                 /\ pl \in Pools /\ pl.cur = pl.free + leaked + 1
                 /\ ReleaseConnection(pl) \in Pools
                 /\ ReleaseConnection(pl).cur = ReleaseConnection(pl).free + leaked
           /\ \A pl \in Refusals(dbpool) : pl \in Pools /\ pl.cur = pl.free + leaked
<1>1. /\ dbpool.free \in Nat /\ dbpool.cur \in Nat
      /\ dbpool = [free |-> dbpool.free, cur |-> dbpool.cur]
  BY DEF Pools
<1>2. ASSUME NEW pl \in Grants(dbpool)
      PROVE  /\ pl \in Pools /\ pl.cur = pl.free + leaked + 1
             /\ ReleaseConnection(pl) = [free |-> pl.free + 1, cur |-> pl.cur]
  <2>1. CASE dbpool.free > 0
    <3>1. pl = [free |-> dbpool.free - 1, cur |-> dbpool.cur]
      BY <1>1, <2>1 DEF Grants
    <3> QED BY <1>1, <2>1, <3>1 DEF PoolOK, Pools, ReleaseConnection
  <2>2. CASE ~(dbpool.free > 0)
    <3>1. pl = [free |-> dbpool.free, cur |-> dbpool.cur + 1]
      BY <1>1, <2>2 DEF Grants
    <3> QED BY <1>1, <2>2, <3>1 DEF PoolOK, Pools, ReleaseConnection
  <2> QED BY <2>1, <2>2
<1>3. ASSUME NEW pl \in Refusals(dbpool)
      PROVE  pl \in Pools /\ pl.cur = pl.free + leaked
  <2>1. CASE dbpool.free > 0
    <3>1. pl = [free |-> dbpool.free - 1, cur |-> dbpool.cur - 1]
      BY <2>1 DEF Refusals
    <3> QED BY <1>1, <2>1, <3>1 DEF PoolOK, Pools
  <2>2. CASE ~(dbpool.free > 0)
    BY <1>1, <2>2 DEF Refusals, PoolOK
  <2> QED BY <2>1, <2>2
<1> QED BY <1>2, <1>3 DEF Pools

\* The three ends of executedb.
LEMMA StatementFacts ==
    ASSUME TypeOK, PoolOK, NEW x \in Points, NEW price, ExecuteDb(x, price)
    PROVE  /\ dbpool' \in Pools /\ leaked' \in Nat /\ PoolOK'
           /\ \/ rows' = RowsAfter(x, price) /\ missed' = missed
              \/ rows' = rows /\ missed' = missed \cup {x}
<1>0. dbpool \in Pools /\ leaked \in Nat
  BY DEF TypeOK
<1>1. CASE /\ \E pl \in Grants(dbpool) : dbpool' = ReleaseConnection(pl)
           /\ rows' = RowsAfter(x, price) /\ UNCHANGED <<leaked, missed>>
  BY <1>0, <1>1, PoolStep DEF PoolOK
<1>2. CASE /\ dbpool' \in Refusals(dbpool)
           /\ missed' = missed \cup {x} /\ UNCHANGED <<rows, leaked>>
  BY <1>0, <1>2, PoolStep DEF PoolOK
<1>3. CASE /\ DbFails /\ dbpool' \in Grants(dbpool)
           /\ leaked' = leaked + 1 /\ missed' = missed \cup {x} /\ UNCHANGED rows
  BY <1>0, <1>3, PoolStep DEF PoolOK, Pools
<1> QED BY <1>1, <1>2, <1>3 DEF ExecuteDb

LEMMA QuoteTyped ==
    ASSUME TypeOK, NEW k \in 1 .. Len(quotes)
    PROVE  /\ quotes[k] \in Quotes /\ quotes[k].date \in Dates
           /\ quotes[k].date \in Nat \ {0}
           /\ Point(k) \in Points /\ quotes[k].price \in Prices
<1>1. quotes \in Seq(Quotes)
  BY DEF TypeOK
<1>2. quotes[k] \in Quotes
  BY <1>1
<1> QED BY <1>2, ServiceAssumption DEF Quotes, Point, Points

LEMMA InitialPool ==
    ASSUME NEW pl \in InitialPools
    PROVE  pl \in Pools /\ pl.cur = pl.free + 0
<1>1. PICK n \in 0 .. (MaxSize \div 2) : pl = [free |-> n, cur |-> n]
  BY PoolAssumption DEF InitialPools
<1>2. n \in Nat
  BY PoolAssumption
<1> QED BY <1>1, <1>2 DEF Pools

LEMMA InitInv == Init => Inv
<1> SUFFICES ASSUME Init PROVE Inv
  OBVIOUS
<1> USE ServiceAssumption DEF Init
<1>1. dbpool \in Pools /\ PoolOK
  BY InitialPool DEF PoolOK
<1>2. TypeOK
  BY <1>1 DEF TypeOK, Quotes, EmptyLine, NotSeen, Positions
<1>3. OneDay /\ OwnPoint /\ Stored
  BY DEF OneDay, OwnPoint, Stored, EmptyLine
<1>4. Blocked /\ ReadsOneDay
  BY DEF Blocked, ReadsOneDay
<1>5. Backlog
  BY DEF Backlog
<1>6. OneRow
  BY DEF OneRow
<1> QED BY <1>1, <1>2, <1>3, <1>4, <1>5, <1>6 DEF Inv

-----------------------------------------------------------------------------
\* Receiving.

LEMMA SeqGrows ==
    ASSUME NEW S, NEW T, S \subseteq T, NEW q \in Seq(S)
    PROVE  q \in Seq(T)
  OBVIOUS

\* A quote more leaves the earlier ones, and can only end their order.
LEMMA QuoteFacts ==
    ASSUME quotes \in Seq(Quotes), NEW q \in Quotes, quotes' = Append(quotes, q)
    PROVE  /\ quotes' \in Seq(Quotes)
           /\ Len(quotes) \in Nat /\ Len(quotes') = Len(quotes) + 1
           /\ \A i \in 1 .. Len(quotes) : quotes'[i] = quotes[i]
           /\ Orderly' => Orderly
<1>1. /\ quotes' \in Seq(Quotes)
      /\ Len(quotes) \in Nat /\ Len(quotes') = Len(quotes) + 1
      /\ \A i \in 1 .. Len(quotes) : quotes'[i] = quotes[i]
  OBVIOUS
<1>2. DOMAIN quotes = 1 .. Len(quotes) /\ DOMAIN quotes' = 1 .. (Len(quotes) + 1)
  BY <1>1
<1>3. Orderly' => Orderly
  BY <1>1, <1>2 DEF Orderly
<1> QED BY <1>1, <1>3

\* What a push does to a buffer, full or not.
LEMMA PushedFacts ==
    ASSUME NEW S, NEW queue \in Seq(S), Len(queue) <= MaxQueue, NEW q \in S
    PROVE  /\ Pushed(queue, q) \in Seq(S) /\ Len(Pushed(queue, q)) <= MaxQueue
           /\ Refused(queue, q) \subseteq S
           /\ \A i \in DOMAIN Pushed(queue, q) :
                 \/ i \in DOMAIN queue /\ Pushed(queue, q)[i] = queue[i]
                 \/ i = Len(queue) + 1 /\ Pushed(queue, q)[i] = q
<1>1. CASE Len(queue) < MaxQueue
  <2>1. Pushed(queue, q) = Append(queue, q)
    BY <1>1 DEF Pushed
  <2>2. Len(Append(queue, q)) = Len(queue) + 1 /\ Len(queue) + 1 <= MaxQueue
    BY <1>1, ServiceAssumption
  <2> QED BY <1>1, <2>1, <2>2, PushFacts DEF Refused
<1>2. CASE ~(Len(queue) < MaxQueue)
  BY <1>2 DEF Pushed, Refused
<1> QED BY <1>1, <1>2

LEMMA ReceiveInv ==
    ASSUME Inv, Receive
    PROVE  Inv'
<1>1. PICK q \in Feed : quotes' = Append(quotes, q)
  BY DEF Receive
<1>2. /\ quotes' \in Seq(Quotes)
      /\ Len(quotes) \in Nat /\ Len(quotes') = Len(quotes) + 1
      /\ \A i \in 1 .. Len(quotes) : quotes'[i] = quotes[i]
      /\ Orderly' => Orderly
  BY <1>1, QuoteFacts, ServiceAssumption DEF Inv, TypeOK
<1>3. /\ half' = Len(quotes) + 1 /\ half = 0
      /\ 1 .. Len(quotes) \subseteq 1 .. Len(quotes')
      /\ 0 .. Len(quotes) \subseteq 0 .. Len(quotes')
      /\ half' \in 1 .. Len(quotes') /\ Len(quotes') \in Positions
  BY <1>2, ServiceAssumption DEF Receive, Inv, TypeOK, Positions
<1>4. /\ realQ' \in Seq(1 .. Len(quotes')) /\ Len(realQ') <= MaxQueue
      /\ dropped' \subseteq 1 .. Len(quotes')
  <2>1. realQ \in Seq(1 .. Len(quotes'))
    BY <1>3, SeqGrows DEF Inv, TypeOK
  <2>2. realQ' = Pushed(realQ, half') /\ dropped' = dropped \cup Refused(realQ, half')
    BY DEF Receive
  <2> QED BY <1>3, <2>1, <2>2, PushedFacts DEF Inv, TypeOK
<1>5. UNCHANGED <<snapshot, lineQ, msg, curDate, line, inside, seen, reads, rows,
                  dbpool, leaked, missed, pushed, crashes>>
  BY DEF Receive, lineVars, readVars, dbVars
<1>6. TypeOK'
  <2>1. lineQ' \in Seq(1 .. Len(quotes'))
    BY <1>3, <1>5, SeqGrows DEF Inv, TypeOK
  <2>2. /\ snapshot' \in [Products -> 0 .. Len(quotes')]
        /\ line' \in [Points -> 0 .. Len(quotes')]
        /\ pushed' \in [Points -> 0 .. Len(quotes')]
        /\ msg' \in 0 .. Len(quotes')
    BY <1>3, <1>5 DEF Inv, TypeOK
  <2>3. seen' \in [Readers -> [date : Dates \cup {0}, line : [Points -> 0 .. Len(quotes')]]]
    BY <1>3, <1>5 DEF Inv, TypeOK
  <2> QED BY <1>2, <1>3, <1>4, <1>5, <2>1, <2>2, <2>3 DEF Inv, TypeOK
<1>7. \A x \in Points : line[x] # 0 => quotes'[line[x]] = quotes[line[x]]
  BY <1>2 DEF Inv, TypeOK
<1>8. msg # 0 => quotes'[msg] = quotes[msg]
  BY <1>2 DEF Inv, TypeOK
<1>9. OneDay' /\ OwnPoint' /\ Blocked' /\ Stored' /\ ReadsOneDay' /\ PoolOK'
  <2>1. OneDay' /\ OwnPoint' /\ ReadsOneDay'
    BY <1>5, <1>7 DEF Inv, OneDay, OwnPoint, Point, ReadsOneDay
  <2>2. Blocked'
    BY <1>5, <1>8 DEF Inv, Blocked
  <2>3. Stored' /\ PoolOK'
    BY <1>5, <1>7 DEF Inv, Stored, PoolOK
  <2> QED BY <2>1, <2>2, <2>3
<1>10. Backlog'
  <2>1. \A i \in DOMAIN lineQ : lineQ[i] \in 1 .. Len(quotes)
    BY DEF Inv, TypeOK
  <2>2. \A k \in 1 .. Len(quotes) : Before(k) => Before(k)'
    BY <1>2, <1>3, <1>5 DEF Before
  <2>3. msg # 0 => msg \in 1 .. Len(quotes)
    BY DEF Inv, TypeOK
  <2>4. \A i \in DOMAIN lineQ : lineQ[i] < half'
    BY <1>2, <1>3, <2>1
  <2>5. curDate # 0 => \E k \in 1 .. Len(quotes') : Before(k)' /\ quotes'[k].date = curDate
    BY <1>2, <1>3, <2>2 DEF Inv, Backlog
  <2> QED BY <1>5, <2>2, <2>3, <2>4, <2>5 DEF Inv, Backlog
<1>11. OneRow'
  <2> SUFFICES ASSUME Orderly', crashes' = 0, NEW x \in Points
               PROVE  /\ Len(rows'[x]) <= 1
                      /\ rows'[x] # <<>> /\ line'[x] = 0 =>
                            \E k \in 1 .. Len(quotes') : Point(k)' = x /\ quotes'[k].date < curDate'
    BY DEF OneRow
  <2>1. Orderly /\ crashes = 0
    BY <1>2, <1>5
  <2>2. \A k \in 1 .. Len(quotes) : Point(k)' = Point(k) /\ quotes'[k] = quotes[k]
    BY <1>2 DEF Point
  <2> QED BY <1>3, <1>5, <2>1, <2>2 DEF Inv, OneRow
<1> QED BY <1>6, <1>9, <1>10, <1>11 DEF Inv

LEMMA PassOnInv ==
    ASSUME Inv, PassOn
    PROVE  Inv'
<1>1. UNCHANGED <<quotes, realQ, snapshot, msg, curDate, line, inside, seen, reads,
                  rows, dbpool, leaked, missed, pushed, crashes>>
  BY DEF PassOn, realVars, readVars, dbVars
<1>2. /\ half \in 1 .. Len(quotes) /\ half' = 0 /\ lineQ \in Seq(1 .. Len(quotes))
      /\ lineQ' = Pushed(lineQ, half) /\ dropped' = dropped \cup Refused(lineQ, half)
      /\ Len(lineQ) <= MaxQueue /\ Len(quotes) \in Nat
  BY DEF PassOn, Inv, TypeOK
<1>a. dropped \subseteq 1 .. Len(quotes)
  BY DEF Inv, TypeOK
<1>3. /\ lineQ' \in Seq(1 .. Len(quotes)) /\ Len(lineQ') <= MaxQueue
      /\ dropped' \subseteq 1 .. Len(quotes)
      /\ \A i \in DOMAIN lineQ' :
            \/ i \in DOMAIN lineQ /\ lineQ'[i] = lineQ[i]
            \/ i = Len(lineQ) + 1 /\ lineQ'[i] = half
  <2> DEFINE S == 1 .. Len(quotes)
  <2>1. lineQ \in Seq(S) /\ half \in S /\ dropped \subseteq S
    BY <1>2, <1>a
  <2> HIDE DEF S
  <2>2. /\ lineQ' \in Seq(S) /\ Len(lineQ') <= MaxQueue /\ Refused(lineQ, half) \subseteq S
        /\ \A i \in DOMAIN lineQ' :
              \/ i \in DOMAIN lineQ /\ lineQ'[i] = lineQ[i]
              \/ i = Len(lineQ) + 1 /\ lineQ'[i] = half
    BY <1>2, <2>1, PushedFacts
  <2>3. dropped' \subseteq S
    BY <1>2, <2>1, <2>2
  <2> QED BY <2>2, <2>3 DEF S
<1>4. TypeOK'
  BY <1>1, <1>2, <1>3 DEF Inv, TypeOK
<1>5. OneDay' /\ OwnPoint' /\ Blocked' /\ Stored' /\ ReadsOneDay' /\ PoolOK'
  BY <1>1 DEF Inv, OneDay, OwnPoint, Point, Blocked, Stored, ReadsOneDay, PoolOK
<1>6. Backlog'
  <2>0. /\ half # 0 /\ half \in Nat
        /\ Len(lineQ) \in Nat /\ DOMAIN lineQ = 1 .. Len(lineQ)
    BY <1>2
  <2>1. \A k \in 1 .. Len(quotes) : Before(k) => Before(k)'
    <3> SUFFICES ASSUME NEW k \in 1 .. Len(quotes), Before(k)
                 PROVE  Before(k)'
      OBVIOUS
    <3>1. \A i \in DOMAIN lineQ' : k < lineQ'[i]
      BY <1>3, <2>0 DEF Before
    <3> QED BY <1>1, <1>2, <3>1 DEF Before
  <2>2. \A i, j \in DOMAIN lineQ' : i < j => lineQ'[i] < lineQ'[j]
    <3> SUFFICES ASSUME NEW i \in DOMAIN lineQ', NEW j \in DOMAIN lineQ', i < j
                 PROVE  lineQ'[i] < lineQ'[j]
      OBVIOUS
    <3>1. i \in Nat /\ j \in Nat
      BY <1>3
    <3>2. i \in DOMAIN lineQ /\ lineQ'[i] = lineQ[i]
      <4>1. i \in DOMAIN lineQ \/ i = Len(lineQ) + 1
        BY <1>3
      <4>2. j <= Len(lineQ) + 1
        BY <1>3, <2>0, <3>1
      <4>3. i # Len(lineQ) + 1
        BY <2>0, <3>1, <4>2
      <4> QED BY <1>3, <4>1, <4>3
    <3>3. CASE j \in DOMAIN lineQ /\ lineQ'[j] = lineQ[j]
      BY <3>2, <3>3 DEF Inv, Backlog
    <3>4. CASE lineQ'[j] = half
      BY <2>0, <3>2, <3>4 DEF Inv, Backlog
    <3> QED BY <1>3, <3>3, <3>4
  <2>3. msg # 0 => msg \in 1 .. Len(quotes)
    BY DEF Inv, TypeOK
  <2> QED BY <1>1, <1>2, <2>1, <2>2, <2>3 DEF Inv, Backlog
<1>7. OneRow'
  BY <1>1 DEF Inv, OneRow, Orderly, Point
<1> QED BY <1>4, <1>5, <1>6, <1>7 DEF Inv

\* The thread of QuoteReal has nothing to do with the line.
LEMMA RunRealInv ==
    ASSUME Inv, RunReal
    PROVE  Inv'
<1>1. UNCHANGED <<quotes, half, dropped, lineQ, msg, curDate, line, inside, seen, reads,
                  rows, dbpool, leaked, missed, pushed, crashes>>
  BY DEF RunReal, recvVars, lineVars, readVars, dbVars
<1>2. /\ realQ' \in Seq(1 .. Len(quotes)) /\ Len(realQ') <= MaxQueue
      /\ snapshot' \in [Products -> 0 .. Len(quotes)]
  <2>1. /\ realQ \in Seq(1 .. Len(quotes)) /\ realQ # <<>> /\ realQ' = Tail(realQ)
        /\ Len(realQ) <= MaxQueue
    BY DEF RunReal, Inv, TypeOK
  <2>2. /\ Head(realQ) \in 1 .. Len(quotes) /\ realQ' \in Seq(1 .. Len(quotes))
        /\ Len(realQ') = Len(realQ) - 1
    BY <2>1
  <2>3. quotes[Head(realQ)] \in Quotes /\ Len(quotes) \in Nat
    BY <2>2 DEF Inv, TypeOK
  <2> QED BY <2>1, <2>2, <2>3, ServiceAssumption DEF RunReal, Inv, TypeOK, Quotes
<1>3. TypeOK'
  BY <1>1, <1>2 DEF Inv, TypeOK
<1>4. OneDay' /\ OwnPoint' /\ Blocked' /\ Stored' /\ ReadsOneDay' /\ PoolOK'
  BY <1>1 DEF Inv, OneDay, OwnPoint, Point, Blocked, Stored, ReadsOneDay, PoolOK
<1>5. Backlog' /\ OneRow'
  BY <1>1 DEF Inv, Backlog, Before, OneRow, Orderly, Point
<1> QED BY <1>3, <1>4, <1>5 DEF Inv

-----------------------------------------------------------------------------
\* The thread of the line.

LEMMA TakeInv ==
    ASSUME Inv, Take
    PROVE  Inv'
<1>1. UNCHANGED <<quotes, half, dropped, realQ, snapshot, curDate, line, inside, seen,
                  reads, rows, dbpool, leaked, missed, pushed, crashes>>
  BY DEF Take, recvVars, realVars, readVars, dbVars
<1>2. /\ lineQ \in Seq(1 .. Len(quotes)) /\ lineQ # <<>> /\ Len(lineQ) <= MaxQueue
      /\ msg = 0 /\ msg' = Head(lineQ) /\ lineQ' = Tail(lineQ) /\ Len(quotes) \in Nat
  BY DEF Take, Inv, TypeOK
<1>3. /\ msg' \in 1 .. Len(quotes) /\ lineQ' \in Seq(1 .. Len(quotes))
      /\ Len(lineQ') <= MaxQueue
      /\ 1 \in DOMAIN lineQ /\ msg' = lineQ[1]
      /\ \A i \in DOMAIN lineQ' : i \in Nat \ {0} /\ i + 1 \in DOMAIN lineQ /\ lineQ'[i] = lineQ[i + 1]
  BY <1>2, ServiceAssumption
<1>4. TypeOK'
  BY <1>1, <1>2, <1>3 DEF Inv, TypeOK
<1>5. OneDay' /\ OwnPoint' /\ Stored' /\ ReadsOneDay' /\ PoolOK' /\ OneRow'
  BY <1>1 DEF Inv, OneDay, OwnPoint, Stored, ReadsOneDay, PoolOK, OneRow, Orderly, Point
<1>6. Blocked'
  BY <1>1, <1>2 DEF Inv, Blocked
<1>7. Backlog'
  <2> PICK h \in 1 .. Len(quotes) : h = msg'
    BY <1>3
  <2>1. \A i \in DOMAIN lineQ' : h < lineQ'[i]
    BY <1>3 DEF Inv, Backlog
  <2>2. half # 0 => h < half
    BY <1>3 DEF Inv, Backlog
  <2>3. Before(h)'
    <3>1. h \in Nat
      OBVIOUS
    <3> QED BY <1>1, <2>1, <2>2, <3>1 DEF Before
  <2>4. \A k \in 1 .. Len(quotes) : Before(k) => Before(k)'
    <3> SUFFICES ASSUME NEW k \in 1 .. Len(quotes), Before(k)
                 PROVE  Before(k)'
      OBVIOUS
    <3>1. k < h
      BY <1>3 DEF Before
    <3>2. \A i \in DOMAIN lineQ' : k < lineQ'[i]
      BY <1>3 DEF Before
    <3> QED BY <1>1, <3>1, <3>2 DEF Before
  <2>5. \A i, j \in DOMAIN lineQ' : i < j => lineQ'[i] < lineQ'[j]
    BY <1>3 DEF Inv, Backlog
  <2>6. half # 0 => \A i \in DOMAIN lineQ' : lineQ'[i] < half
    BY <1>3 DEF Inv, Backlog
  <2>7. curDate # 0 => \E k \in 1 .. Len(quotes) : Before(k)' /\ quotes[k].date = curDate
    BY <2>4 DEF Inv, Backlog
  <2>8. Before(msg)'
    BY <2>3 DEF Before
  <2> QED BY <1>1, <2>5, <2>6, <2>7, <2>8 DEF Backlog
<1> QED BY <1>4, <1>5, <1>6, <1>7 DEF Inv

\* The trade date of a quote that waits is not before the current one.
LEMMA DatesGrow ==
    ASSUME Inv, Orderly, msg # 0
    PROVE  /\ msg \in 1 .. Len(quotes) /\ curDate \in Nat /\ quotes[msg].date \in Nat \ {0}
           /\ curDate <= quotes[msg].date
<1>1. /\ msg \in 1 .. Len(quotes) /\ quotes \in Seq(Quotes) /\ Len(quotes) \in Nat
      /\ curDate \in Dates \cup {0}
  BY DEF Inv, TypeOK
<1>2. quotes[msg].date \in Nat \ {0}
  BY <1>1, QuoteTyped DEF Inv
<1>3. curDate \in Nat /\ quotes[msg].date \in Nat \ {0}
  BY <1>1, <1>2, ServiceAssumption
<1>4. CASE curDate # 0
  <2>1. PICK k \in 1 .. Len(quotes) : k <= msg /\ quotes[k].date = curDate
    BY <1>4 DEF Inv, Backlog, Before
  <2>2. CASE k = msg
    BY <1>3, <2>1, <2>2
  <2>3. CASE k < msg
    <3>1. k \in DOMAIN quotes /\ msg \in DOMAIN quotes
      BY <1>1
    <3>2. quotes[k].date <= quotes[msg].date
      BY <2>3, <3>1 DEF Orderly
    <3> QED BY <1>1, <1>3, <2>1, <3>2
  <2> QED BY <1>1, <2>1, <2>2, <2>3
<1> QED BY <1>1, <1>3, <1>4

LEMMA ClearLineInv ==
    ASSUME Inv, ClearLine
    PROVE  Inv'
<1>1. UNCHANGED <<quotes, half, dropped, realQ, snapshot, lineQ, msg, inside, seen,
                  reads, rows, dbpool, leaked, missed, pushed, crashes>>
  BY DEF ClearLine, recvVars, realVars, readVars, dbVars
<1>2. /\ msg \in 1 .. Len(quotes) /\ msg # 0 /\ quotes[msg].date # curDate
      /\ line' = EmptyLine /\ curDate' = quotes[msg].date
  BY DEF ClearLine, NewDate, Inv, TypeOK
<1>q. quotes[msg].date \in Dates
  BY <1>2, QuoteTyped DEF Inv
<1>3. TypeOK'
  BY <1>1, <1>2, <1>q DEF Inv, TypeOK, EmptyLine
<1>4. OneDay' /\ OwnPoint' /\ Stored' /\ PoolOK'
  BY <1>1, <1>2 DEF Inv, OneDay, OwnPoint, Stored, PoolOK, EmptyLine
<1>5. \A r \in inside : seen[r].date = curDate
  BY <1>2 DEF Inv, Blocked
<1>6. Blocked' /\ ReadsOneDay'
  BY <1>1, <1>2, <1>5 DEF Blocked, ReadsOneDay
<1>7. Backlog'
  BY <1>1, <1>2 DEF Inv, Backlog, Before
<1>8. OneRow'
  <2> SUFFICES ASSUME Orderly, crashes = 0, NEW x \in Points
               PROVE  /\ Len(rows[x]) <= 1
                      /\ rows[x] # <<>> => \E k \in 1 .. Len(quotes) :
                             Point(k) = x /\ quotes[k].date < curDate'
    BY <1>1, <1>2 DEF OneRow, Orderly, Point, EmptyLine
  <2>1. curDate \in Nat /\ curDate' \in Nat /\ curDate < curDate'
    BY <1>2, DatesGrow
  <2>2. CASE rows[x] # <<>> /\ line[x] = 0
    <3>1. PICK k \in 1 .. Len(quotes) : Point(k) = x /\ quotes[k].date < curDate
      BY <2>2 DEF Inv, OneRow
    <3>2. quotes[k].date \in Nat
      BY QuoteTyped DEF Inv
    <3> QED BY <2>1, <3>1, <3>2 DEF Inv, OneRow
  <2>3. CASE rows[x] # <<>> /\ line[x] # 0
    <3>1. line[x] \in 1 .. Len(quotes) /\ quotes[line[x]].date = curDate
      BY <2>3 DEF Inv, TypeOK, OneDay
    <3>2. Point(line[x]) = x
      BY <2>3 DEF Inv, OwnPoint
    <3> QED BY <2>1, <3>1, <3>2 DEF Inv, OneRow
  <2> QED BY <2>2, <2>3 DEF Inv, OneRow
<1> QED BY <1>3, <1>4, <1>6, <1>7, <1>8 DEF Inv

\* What INSERT and UPDATE do to the rows of a point.
LEMMA RowsFacts ==
    ASSUME rows \in [Points -> Seq(Prices)], NEW x \in Points, NEW price \in Prices
    PROVE  /\ RowsAfter(x, price) \in [Points -> Seq(Prices)]
           /\ \A y \in Points : y # x => RowsAfter(x, price)[y] = rows[y]
           /\ LET new == RowsAfter(x, price)[x]
              IN  /\ Len(new) = IF line[x] = 0 THEN Len(rows[x]) + 1 ELSE Len(rows[x])
                  /\ Len(new) \in Nat
                  /\ new # <<>> => new[Len(new)] = price
                  /\ line[x] = 0 \/ rows[x] # <<>> => new # <<>>
<1>1. rows[x] \in Seq(Prices)
  OBVIOUS
<1>2. CASE line[x] = 0
  <2>1. RowsAfter(x, price) = [rows EXCEPT ![x] = Append(rows[x], price)]
    BY <1>2 DEF RowsAfter
  <2>2. /\ Append(rows[x], price) \in Seq(Prices)
        /\ Len(Append(rows[x], price)) = Len(rows[x]) + 1
        /\ Append(rows[x], price)[Len(rows[x]) + 1] = price
        /\ Append(rows[x], price) # <<>> /\ Len(rows[x]) + 1 \in Nat
    BY <1>1
  <2> QED BY <1>2, <2>1, <2>2
<1>3. CASE line[x] # 0
  <2> DEFINE new == [i \in DOMAIN rows[x] |-> price]
  <2>1. RowsAfter(x, price) = [rows EXCEPT ![x] = new]
    BY <1>3 DEF RowsAfter
  <2>2. DOMAIN rows[x] = 1 .. Len(rows[x]) /\ Len(rows[x]) \in Nat
    BY <1>1
  <2>3. new \in Seq(Prices)
    BY <2>2, FunctionIsBuffer
  <2>4. DOMAIN new = 1 .. Len(new) /\ Len(new) \in Nat
    BY <2>3
  <2>5. Len(new) = Len(rows[x])
    BY <2>2, <2>4
  <2>6. new # <<>> => Len(new) \in DOMAIN rows[x]
    <3>1. \A q \in Seq(Prices) : q # <<>> => Len(q) # 0
      OBVIOUS
    <3>2. new # <<>> => Len(new) # 0
      BY <2>3, <3>1
    <3> HIDE DEF new
    <3> QED BY <2>2, <2>4, <2>5, <3>2
  <2>7. rows[x] # <<>> => new # <<>>
    <3>1. rows[x] # <<>> => Len(rows[x]) # 0
      BY <1>1
    <3>2. \A q \in Seq(Prices) : q = <<>> => Len(q) = 0
      OBVIOUS
    <3>3. new = <<>> => Len(new) = 0
      BY <2>3, <3>2
    <3> HIDE DEF new
    <3> QED BY <2>5, <3>1, <3>3
  <2>8. new # <<>> => new[Len(new)] = price
    BY <2>6
  <2> HIDE DEF new
  <2> QED BY <1>3, <2>1, <2>3, <2>4, <2>5, <2>7, <2>8
<1> QED BY <1>2, <1>3

LEMMA SetPointInv ==
    ASSUME Inv, SetPoint
    PROVE  Inv'
<1>1. UNCHANGED <<quotes, half, dropped, realQ, snapshot, lineQ, curDate, inside, seen,
                  reads, crashes>>
  BY DEF SetPoint, recvVars, realVars, readVars
<1> DEFINE x == Point(msg)
           price == quotes[msg].price
<1>2. /\ msg \in 1 .. Len(quotes) /\ msg # 0 /\ quotes[msg].date = curDate /\ inside = {}
      /\ line' = [line EXCEPT ![x] = msg] /\ pushed' = [pushed EXCEPT ![x] = msg]
      /\ msg' = 0 /\ ExecuteDb(x, price)
  BY DEF SetPoint, WriteLocked, NewDate, Inv, TypeOK
<1>3. x \in Points /\ price \in Prices /\ quotes[msg] \in Quotes
  BY <1>2, QuoteTyped DEF Inv
<1>4. /\ dbpool' \in Pools /\ leaked' \in Nat /\ PoolOK'
      /\ \/ rows' = RowsAfter(x, price) /\ missed' = missed
         \/ rows' = rows /\ missed' = missed \cup {x}
  BY <1>2, <1>3, StatementFacts DEF Inv
<1>5. rows \in [Points -> Seq(Prices)] /\ line \in [Points -> 0 .. Len(quotes)]
      /\ pushed \in [Points -> 0 .. Len(quotes)] /\ missed \subseteq Points
  BY DEF Inv, TypeOK
<1>6. /\ RowsAfter(x, price) \in [Points -> Seq(Prices)]
      /\ \A y \in Points : y # x => RowsAfter(x, price)[y] = rows[y]
      /\ Len(RowsAfter(x, price)[x]) = IF line[x] = 0 THEN Len(rows[x]) + 1 ELSE Len(rows[x])
      /\ RowsAfter(x, price)[x] # <<>> =>
            RowsAfter(x, price)[x][Len(RowsAfter(x, price)[x])] = price
      /\ line[x] = 0 \/ rows[x] # <<>> => RowsAfter(x, price)[x] # <<>>
  BY <1>3, <1>5, RowsFacts
<1>7. /\ \A y \in Points : /\ line'[y] = IF y = x THEN msg ELSE line[y]
                           /\ pushed'[y] = IF y = x THEN msg ELSE pushed[y]
      /\ line' \in [Points -> 0 .. Len(quotes)] /\ pushed' \in [Points -> 0 .. Len(quotes)]
  BY <1>2, <1>3, <1>5
<1>8. TypeOK'
  <2>1. rows' \in [Points -> Seq(Prices)] /\ missed' \subseteq Points
    BY <1>3, <1>4, <1>5, <1>6
  <2>2. msg' \in 0 .. Len(quotes)
    BY <1>2
  <2> QED BY <1>1, <1>4, <1>7, <2>1, <2>2 DEF Inv, TypeOK
<1>9. OneDay' /\ OwnPoint'
  BY <1>1, <1>2, <1>7 DEF Inv, OneDay, OwnPoint, Point
<1>10. Blocked' /\ ReadsOneDay'
  BY <1>1, <1>2 DEF Blocked, ReadsOneDay
<1>11. Backlog'
  BY <1>1, <1>2 DEF Inv, Backlog, Before
<1>12. Stored'
  <2> SUFFICES ASSUME NEW y \in Points, line'[y] # 0
               PROVE  /\ pushed'[y] = line'[y]
                      /\ y \notin missed' => /\ rows'[y] # <<>>
                                             /\ rows'[y][Len(rows'[y])] = quotes[line'[y]].price
    BY <1>1 DEF Stored
  <2>1. CASE y # x
    <3>1. line'[y] = line[y] /\ pushed'[y] = pushed[y] /\ rows'[y] = rows[y]
      BY <1>4, <1>6, <1>7, <2>1
    <3>2. y \notin missed' => y \notin missed
      BY <1>4
    <3> QED BY <3>1, <3>2 DEF Inv, Stored
  <2>2. CASE y = x
    <3>1. line'[y] = msg /\ pushed'[y] = msg
      BY <1>7, <2>2
    <3>2. ASSUME y \notin missed'
          PROVE  rows'[y] # <<>> /\ rows'[y][Len(rows'[y])] = price
      <4>1. rows' = RowsAfter(x, price) /\ y \notin missed
        BY <1>4, <2>2, <3>2
      <4>2. line[x] = 0 \/ rows[x] # <<>>
        BY <2>2, <4>1 DEF Inv, Stored
      <4> HIDE DEF x, price
      <4> QED BY <1>6, <2>2, <4>1, <4>2
    <3> QED BY <3>1, <3>2
  <2> QED BY <2>1, <2>2
<1>13. OneRow'
  <2> SUFFICES ASSUME Orderly, crashes = 0, NEW y \in Points
               PROVE  /\ Len(rows'[y]) <= 1
                      /\ rows'[y] # <<>> /\ line'[y] = 0 =>
                            \E k \in 1 .. Len(quotes) : Point(k) = y /\ quotes[k].date < curDate
    BY <1>1 DEF OneRow, Orderly, Point
  <2>1. CASE y # x
    <3>1. line'[y] = line[y] /\ rows'[y] = rows[y]
      BY <1>4, <1>6, <1>7, <2>1
    <3> QED BY <3>1 DEF Inv, OneRow
  <2>2. CASE y = x
    <3>1. line'[y] # 0
      BY <1>2, <1>7, <2>2
    <3>2. Len(rows[x]) <= 1 /\ rows[x] \in Seq(Prices)
      BY <1>3, <1>5 DEF Inv, OneRow
    <3>3. line[x] = 0 => rows[x] = <<>>
      <4> SUFFICES ASSUME line[x] = 0, rows[x] # <<>> PROVE FALSE
        OBVIOUS
      <4>1. PICK k \in 1 .. Len(quotes) : Point(k) = x /\ quotes[k].date < curDate
        BY <1>3 DEF Inv, OneRow
      <4>2. quotes[k].minute = quotes[msg].minute
        BY <4>1 DEF Point
      <4>3. quotes[k].date \in Nat /\ quotes[msg].date \in Nat
        BY <1>2, QuoteTyped DEF Inv
      <4>4. k \in DOMAIN quotes /\ msg \in DOMAIN quotes /\ k \in Nat /\ msg \in Nat
        BY <1>2 DEF Inv, TypeOK
      <4>5. k < msg \/ msg < k
        BY <1>2, <4>1, <4>3, <4>4
      <4>6. quotes[k].date = quotes[msg].date
        BY <4>2, <4>4, <4>5 DEF Orderly
      <4> QED BY <1>2, <4>1, <4>3, <4>6
    <3>4. Len(rows'[x]) <= 1
      <4>1. line[x] = 0 => Len(rows[x]) = 0
        BY <3>3
      <4>2. Len(rows[x]) \in Nat
        BY <3>2
      <4> HIDE DEF x, price
      <4> QED BY <1>4, <1>6, <3>2, <4>1, <4>2
    <3> QED BY <2>2, <3>1, <3>4
  <2> QED BY <2>1, <2>2
<1> HIDE DEF x, price
<1> QED BY <1>4, <1>8, <1>9, <1>10, <1>11, <1>12, <1>13 DEF Inv

LEMMA SamePriceInv ==
    ASSUME Inv, SamePrice
    PROVE  Inv'
<1>1. UNCHANGED <<quotes, half, dropped, realQ, snapshot, lineQ, curDate, line, inside,
                  seen, reads, rows, dbpool, leaked, missed, pushed, crashes>>
  BY DEF SamePrice, recvVars, realVars, readVars, dbVars
<1>2. inside = {} /\ msg' = 0 /\ Len(quotes) \in Nat
  BY DEF SamePrice, WriteLocked, Inv, TypeOK
<1>3. TypeOK'
  BY <1>1, <1>2 DEF Inv, TypeOK
<1>4. OneDay' /\ OwnPoint' /\ Stored' /\ PoolOK' /\ OneRow'
  BY <1>1 DEF Inv, OneDay, OwnPoint, Stored, PoolOK, OneRow, Orderly, Point
<1>5. Blocked' /\ ReadsOneDay'
  BY <1>1, <1>2 DEF Blocked, ReadsOneDay
<1>6. Backlog'
  BY <1>1, <1>2 DEF Inv, Backlog, Before
<1> QED BY <1>3, <1>4, <1>5, <1>6 DEF Inv

-----------------------------------------------------------------------------
\* Readers, and a crash.

LEMMA ReaderInv ==
    ASSUME Inv, NEW r \in Readers, ReadLock(r) \/ ReadUnlock(r)
    PROVE  Inv'
<1>1. UNCHANGED <<quotes, half, dropped, realQ, snapshot, lineQ, msg, curDate, line,
                  rows, dbpool, leaked, missed, pushed, crashes>>
  BY DEF ReadLock, ReadUnlock, recvVars, realVars, lineVars, dbVars
<1>2. OneDay' /\ OwnPoint' /\ Stored' /\ PoolOK' /\ OneRow' /\ Backlog'
  BY <1>1 DEF Inv, OneDay, OwnPoint, Stored, PoolOK, OneRow, Orderly, Point, Backlog, Before
<1>3. CASE ReadLock(r)
  <2>1. \A k \in Readers :
           seen'[k] = IF k = r THEN [date |-> curDate, line |-> line] ELSE seen[k]
    BY <1>3 DEF ReadLock, Inv, TypeOK
  <2>2. inside' = inside \cup {r} /\ inside \subseteq Readers
    BY <1>3 DEF ReadLock, Inv, TypeOK
  <2>3. TypeOK'
    <3>1. reads' \in 0 .. MaxReads
      BY <1>3, ServiceAssumption DEF ReadLock, Inv, TypeOK
    <3>2. seen' \in [Readers -> [date : Dates \cup {0}, line : [Points -> 0 .. Len(quotes)]]]
      BY <1>3 DEF ReadLock, Inv, TypeOK
    <3> QED BY <1>1, <2>2, <3>1, <3>2 DEF Inv, TypeOK
  <2>4. Blocked' /\ ReadsOneDay'
    BY <1>1, <2>1, <2>2 DEF Inv, Blocked, ReadsOneDay, OneDay
  <2> QED BY <1>2, <2>3, <2>4 DEF Inv
<1>4. CASE ReadUnlock(r)
  <2>1. \A k \in Readers : k # r => seen'[k] = seen[k]
    BY <1>4 DEF ReadUnlock, Inv, TypeOK
  <2>2. inside' = inside \ {r} /\ inside \subseteq Readers /\ reads' = reads
    BY <1>4 DEF ReadUnlock, Inv, TypeOK
  <2>3. TypeOK'
    <3>1. Len(quotes) \in Nat
      BY DEF Inv, TypeOK
    <3>2. seen' \in [Readers -> [date : Dates \cup {0}, line : [Points -> 0 .. Len(quotes)]]]
      BY <1>4, <3>1 DEF ReadUnlock, Inv, TypeOK, NotSeen, EmptyLine
    <3> QED BY <1>1, <2>2, <3>2 DEF Inv, TypeOK
  <2>4. Blocked' /\ ReadsOneDay'
    BY <1>1, <2>1, <2>2 DEF Inv, Blocked, ReadsOneDay
  <2> QED BY <1>2, <2>3, <2>4 DEF Inv
<1> QED BY <1>3, <1>4

LEMMA CrashInv ==
    ASSUME Inv, Crash
    PROVE  Inv'
<1> USE DEF Crash
<1>1. dbpool' \in Pools /\ leaked' = 0 /\ PoolOK'
  BY InitialPool DEF PoolOK
<1>2. crashes' \in 0 .. MaxFaults /\ crashes' # 0 /\ Len(quotes) \in Nat
  BY ServiceAssumption DEF Inv, TypeOK
<1>3. TypeOK'
  BY <1>1, <1>2, ServiceAssumption DEF Inv, TypeOK, EmptyLine, NotSeen
<1>4. OneDay' /\ OwnPoint' /\ Stored'
  BY DEF OneDay, OwnPoint, Stored, EmptyLine
<1>5. Blocked' /\ ReadsOneDay' /\ Backlog'
  BY DEF Blocked, ReadsOneDay, Backlog
<1>6. OneRow'
  BY <1>2 DEF OneRow
<1> QED BY <1>1, <1>3, <1>4, <1>5, <1>6 DEF Inv

LEMMA StepInv == Inv /\ [Next]_vars => Inv'
<1> SUFFICES ASSUME Inv, [Next]_vars PROVE Inv'
  OBVIOUS
<1>1. CASE UNCHANGED vars
  <2>1. UNCHANGED <<quotes, half, dropped, realQ, snapshot, lineQ, msg, curDate, line,
                    inside, seen, reads, rows, dbpool, leaked, missed, pushed, crashes>>
    BY <1>1 DEF vars, recvVars, realVars, lineVars, readVars, dbVars
  <2>2. TypeOK'
    BY <2>1 DEF Inv, TypeOK
  <2>3. OneDay' /\ OwnPoint' /\ Blocked' /\ ReadsOneDay' /\ Backlog'
    BY <2>1 DEF Inv, OneDay, OwnPoint, Point, Blocked, ReadsOneDay, Backlog, Before
  <2>4. Stored' /\ PoolOK' /\ OneRow'
    BY <2>1 DEF Inv, Stored, PoolOK, OneRow, Orderly, Point
  <2> QED BY <2>2, <2>3, <2>4 DEF Inv
<1>2. CASE Next
  BY <1>2, ReceiveInv, PassOnInv, RunRealInv, TakeInv, ClearLineInv, SetPointInv,
     SamePriceInv, ReaderInv, CrashInv DEF Next, ShareLine
<1> QED BY <1>1, <1>2

LEMMA Invariant == Spec => []Inv
  BY InitInv, StepInv, PTL DEF Spec

-----------------------------------------------------------------------------
\* The variables keep their types.
THEOREM TypeCorrect == Spec => []TypeOK
<1>1. Inv => TypeOK
  BY DEF Inv
<1> QED BY <1>1, Invariant, PTL

\* A reader of the line sees one trade date and points that stand still, unless
\* the date changes while he is inside: it cannot change twice meanwhile.
THEOREM ReadersSeeOneDay == Spec => []ReadsOneDay
<1>1. Inv => ReadsOneDay
  BY DEF Inv
<1> QED BY <1>1, Invariant, PTL

\* The line, the topic and the table agree, with the exceptions LineAgrees
\* names, whatever the database and the buffers do.
THEOREM LineTopicTableAgree == Spec => []LineAgrees
<1>1. Inv => LineAgrees
  BY DEF Inv, LineAgrees, Stored, OneRow
<1> QED BY <1>1, Invariant, PTL
=============================================================================
