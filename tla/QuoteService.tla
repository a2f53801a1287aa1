---------------------------- MODULE QuoteService ----------------------------
(***************************************************************************)
(* The time-sharing line of quoteService                                   *)
(* (c++/trunk/pemc/quoteService): QuoteConsumer takes the quotes of        *)
(* Quote.Single.Org and pushes each into the buffer of QuoteReal, which    *)
(* keeps the last quote of a product for snapshots, and of SharingLine,    *)
(* which keeps the last price of every minute of the trade date, writes it *)
(* to the table of the product and publishes it on the product's topic.    *)
(* The threads of QuoteCgiResponse read the line under the read lock.      *)
(*                                                                         *)
(* The connections come from the pool of ConnPool (DBPool.cpp is the file  *)
(* of quoteSave with other messages).  A quote is known by its position in *)
(* quotes, and a point of the line by the quote it was last set from.      *)
(***************************************************************************)
EXTENDS ConnPool, Sequences

CONSTANTS Products,
          Minutes,   \* what roundTimeMimute makes of the timestamps
          Dates,     \* trade dates
          Prices,
          Feed,      \* the quotes that can come
          Readers,   \* the threads of QuoteCgiResponseManager
          MaxQueue,  \* MAX_QUEUE
          MaxQuotes, \* bound: quotes received
          MaxReads,  \* bound: requests for a line
          MaxFaults  \* bound: crashes of the process

Quotes == [product : Products, minute : Minutes, date : Dates, price : Prices]

ASSUME ServiceAssumption ==
    /\ Feed \subseteq Quotes /\ Dates \subseteq Nat \ {0}
    /\ MaxQueue \in Nat \ {0}
    /\ MaxQuotes \in Nat /\ MaxReads \in Nat /\ MaxFaults \in Nat

VARIABLES
    quotes,   \* every quote received, in order
    half,     \* the quote parseQuote has pushed to QuoteReal alone, or 0
    dropped,  \* history: the quotes a full buffer refused
    realQ,    \* the buffer of QuoteReal
    snapshot, \* _curQuoteMsg: the last quote of each product, or 0
    lineQ,    \* the buffer of SharingLine
    msg,      \* quoteMsg, in the loop of SharingLine, or 0
    curDate,  \* _curTradeDate
    line,     \* _curTradeDayData: the quote that set each point, or 0
    inside,   \* the readers in GetShareLineData
    seen,     \* history: the date and the line as each of them found them
    reads,
    rows,     \* the prices in the rows of each point
    pushed,   \* the quote each point was last published from, or 0
    dbpool, leaked,
    missed,   \* history: points for which a statement failed
    crashes

recvVars == <<quotes, half, dropped>>
realVars == <<realQ, snapshot>>
lineVars == <<lineQ, msg, curDate, line>>
readVars == <<inside, seen, reads>>
dbVars == <<rows, dbpool, leaked, missed>>
vars == <<recvVars, realVars, lineVars, readVars, dbVars, pushed, crashes>>

Points == Products \X Minutes
EmptyLine == [x \in Points |-> 0]
NotSeen == [date |-> 0, line |-> EmptyLine]
Point(q) == <<quotes[q].product, quotes[q].minute>>

Init ==
    /\ quotes = <<>> /\ half = 0 /\ dropped = {}
    /\ realQ = <<>> /\ snapshot = [p \in Products |-> 0]
    /\ lineQ = <<>> /\ msg = 0 /\ curDate = 0 /\ line = EmptyLine
    /\ inside = {} /\ seen = [r \in Readers |-> NotSeen] /\ reads = 0
    /\ rows = [x \in Points |-> <<>>] /\ pushed = EmptyLine
    /\ dbpool \in InitialPools /\ leaked = 0 /\ missed = {}
    /\ crashes = 0

-----------------------------------------------------------------------------
(* Receiving: parseQuote pushes to one buffer, then to the other.          *)

\* Quote_buffer::push: a full buffer drops the quote, and nobody is told.
Pushed(queue, q) == IF Len(queue) < MaxQueue THEN Append(queue, q) ELSE queue
Refused(queue, q) == IF Len(queue) < MaxQueue THEN {} ELSE {q}

Receive ==
    /\ half = 0 /\ Len(quotes) < MaxQuotes
    /\ \E q \in Feed : quotes' = Append(quotes, q)
    /\ half' = Len(quotes')
    /\ realQ' = Pushed(realQ, half')
    /\ dropped' = dropped \cup Refused(realQ, half')
    /\ UNCHANGED <<snapshot, lineVars, readVars, dbVars, pushed, crashes>>

PassOn ==
    /\ half # 0
    /\ lineQ' = Pushed(lineQ, half) /\ half' = 0
    /\ dropped' = dropped \cup Refused(lineQ, half)
    /\ UNCHANGED <<quotes, realVars, msg, curDate, line, readVars, dbVars,
                   pushed, crashes>>

\* QuoteReal::runQuoteReal: the snapshot is replaced, under its own lock, and
\* the quote published.
RunReal ==
    /\ realQ # <<>>
    /\ realQ' = Tail(realQ)
    /\ snapshot' = [snapshot EXCEPT ![quotes[Head(realQ)].product] = Head(realQ)]
    /\ UNCHANGED <<recvVars, lineVars, readVars, dbVars, pushed, crashes>>

-----------------------------------------------------------------------------
(* The thread of SharingLine.                                              *)

Take ==
    /\ msg = 0 /\ lineQ # <<>>
    /\ msg' = Head(lineQ) /\ lineQ' = Tail(lineQ)
    /\ UNCHANGED <<recvVars, realVars, curDate, line, readVars, dbVars, pushed,
                   crashes>>

NewDate == msg # 0 /\ quotes[msg].date # curDate

\* Mutant of ClearLine: the date changes and the line is kept.
ClearLine_Kept ==
    /\ NewDate
    /\ line' = line /\ curDate' = quotes[msg].date
    /\ UNCHANGED <<recvVars, realVars, lineQ, msg, readVars, dbVars, pushed,
                   crashes>>

\* Another trade date than the last quote's: the points of every product are
\* dropped, without the lock.  A reader that is inside reads on in nodes that
\* are freed: the process may die of it (Crash).
ClearLine ==
    /\ NewDate
    /\ line' = EmptyLine /\ curDate' = quotes[msg].date
    /\ UNCHANGED <<recvVars, realVars, lineQ, msg, readVars, dbVars, pushed,
                   crashes>>

\* INSERT for a new point, UPDATE of the rows of a known one.
RowsAfter(x, price) ==
    [rows EXCEPT ![x] = IF line[x] = 0 THEN Append(@, price)
                        ELSE [i \in DOMAIN @ |-> price]]

\* Mutant of ExecuteDb: the statement of a point already stored is left out.
ExecuteDb_InsertOnly(x, price) ==
    /\ \E pl \in Grants(dbpool) : dbpool' = ReleaseConnection(pl)
    /\ rows' = IF line[x] = 0 THEN RowsAfter(x, price) ELSE rows
    /\ UNCHANGED <<leaked, missed>>

\* The statement succeeds; or the pool has no connection; or it throws, and
\* the connection is not released.
ExecuteDb(x, price) ==
    \/ /\ \E pl \in Grants(dbpool) : dbpool' = ReleaseConnection(pl)
       /\ rows' = RowsAfter(x, price)
       /\ UNCHANGED <<leaked, missed>>
    \/ /\ dbpool' \in Refusals(dbpool)
       /\ missed' = missed \cup {x}
       /\ UNCHANGED <<rows, leaked>>
    \/ /\ DbFails /\ dbpool' \in Grants(dbpool)
       /\ leaked' = leaked + 1 /\ missed' = missed \cup {x}
       /\ UNCHANGED rows

\* Mutant of WriteLocked: the write lock does not wait for the readers.
WriteLocked_Never == msg # 0 /\ ~NewDate

\* wrlock is granted.
WriteLocked == msg # 0 /\ ~NewDate /\ inside = {}

Changes ==
    line[Point(msg)] # 0 => quotes[line[Point(msg)]].price # quotes[msg].price

\* insertMap: the point is new, or has another price: it is set, written to
\* the database and published, all of it under the write lock.
SetPoint ==
    /\ WriteLocked /\ Changes
    /\ ExecuteDb(Point(msg), quotes[msg].price)
    /\ line' = [line EXCEPT ![Point(msg)] = msg]
    /\ pushed' = [pushed EXCEPT ![Point(msg)] = msg]
    /\ msg' = 0
    /\ UNCHANGED <<recvVars, realVars, lineQ, curDate, readVars, crashes>>

\* insertMap: the price of the point is the quote's already.
SamePrice ==
    /\ WriteLocked /\ ~Changes
    /\ msg' = 0
    /\ UNCHANGED <<recvVars, realVars, lineQ, curDate, line, readVars, dbVars,
                   pushed, crashes>>

-----------------------------------------------------------------------------
(* Readers, and the end of the process.                                    *)

\* rdlock is granted in GetShareLineData: SetPoint is one step, so nobody
\* holds the write lock between steps.
ReadLock(r) ==
    /\ r \notin inside /\ reads < MaxReads
    /\ inside' = inside \cup {r} /\ reads' = reads + 1
    /\ seen' = [seen EXCEPT ![r] = [date |-> curDate, line |-> line]]
    /\ UNCHANGED <<recvVars, realVars, lineVars, dbVars, pushed, crashes>>

\* Mutant of ReadUnlock: an early return keeps the lock when the line is empty.
ReadUnlock_IfAny(r) ==
    /\ r \in inside /\ line # EmptyLine
    /\ inside' = inside \ {r} /\ seen' = [seen EXCEPT ![r] = NotSeen]
    /\ UNCHANGED <<recvVars, realVars, lineVars, reads, dbVars, pushed, crashes>>

\* The points are copied and the lock is released.
ReadUnlock(r) ==
    /\ r \in inside
    /\ inside' = inside \ {r} /\ seen' = [seen EXCEPT ![r] = NotSeen]
    /\ UNCHANGED <<recvVars, realVars, lineVars, reads, dbVars, pushed, crashes>>

\* The process dies, and is started again with an empty line: nothing reads
\* the table back.
Crash ==
    /\ crashes < MaxFaults /\ crashes' = crashes + 1
    /\ half' = 0 /\ realQ' = <<>> /\ snapshot' = [p \in Products |-> 0]
    /\ lineQ' = <<>> /\ msg' = 0 /\ curDate' = 0 /\ line' = EmptyLine
    /\ inside' = {} /\ seen' = [r \in Readers |-> NotSeen]
    /\ dbpool' \in InitialPools /\ leaked' = 0
    /\ UNCHANGED <<quotes, dropped, reads, rows, missed, pushed>>

-----------------------------------------------------------------------------
ShareLine == Take \/ ClearLine \/ SetPoint \/ SamePrice

Next ==
    \/ Receive \/ PassOn
    \/ RunReal
    \/ ShareLine
    \/ \E r \in Readers : ReadLock(r) \/ ReadUnlock(r)
    \/ Crash

Spec == Init /\ [][Next]_vars

\* The threads run, and a reader does not stay in its loop.  The lock favours
\* readers: that the writer gets it rests on the number of reads being finite.
Fairness ==
    /\ WF_vars(PassOn) /\ WF_vars(RunReal) /\ WF_vars(ShareLine)
    /\ \A r \in Readers : WF_vars(ReadUnlock(r))

FairSpec == Spec /\ Fairness

-----------------------------------------------------------------------------
(* Properties.                                                             *)

Positions == 0 .. MaxQuotes

TypeOK ==
    /\ quotes \in Seq(Quotes) /\ Len(quotes) \in Positions
    /\ half \in 0 .. Len(quotes) /\ dropped \subseteq 1 .. Len(quotes)
    /\ realQ \in Seq(1 .. Len(quotes)) /\ Len(realQ) <= MaxQueue
    /\ snapshot \in [Products -> 0 .. Len(quotes)]
    /\ lineQ \in Seq(1 .. Len(quotes)) /\ Len(lineQ) <= MaxQueue
    /\ msg \in 0 .. Len(quotes)
    /\ curDate \in Dates \cup {0}
    /\ line \in [Points -> 0 .. Len(quotes)]
    /\ inside \subseteq Readers
    /\ seen \in [Readers -> [date : Dates \cup {0},
                            line : [Points -> 0 .. Len(quotes)]]]
    /\ reads \in 0 .. MaxReads
    /\ rows \in [Points -> Seq(Prices)]
    /\ pushed \in [Points -> 0 .. Len(quotes)]
    /\ dbpool \in Pools /\ leaked \in Nat
    /\ missed \subseteq Points
    /\ crashes \in 0 .. MaxFaults

\* A reader sees points of one trade date, and points that do not change while
\* it copies them, unless the trade date changes meanwhile: then the map is
\* cleared under it, outside the lock.
ReadsOneDay ==
    \A r \in inside : seen[r].date = curDate =>
        /\ line = seen[r].line
        /\ \A x \in Points : line[x] # 0 => quotes[line[x]].date = curDate

\* The trade dates of the quotes never go back, and a minute is of one date.
Orderly ==
    \A i, j \in DOMAIN quotes : i < j =>
        /\ quotes[i].date <= quotes[j].date
        /\ quotes[i].minute = quotes[j].minute => quotes[i].date = quotes[j].date

\* Every point of the line is what the clients of the topic and the table of
\* the product have: it was last published with its price, and the last row
\* of its minute has that price, unless a statement for this point failed.
\* It has no other row, while the process has not been started again and the
\* trade dates do not go back.
LineAgrees ==
    \A x \in Points : line[x] # 0 =>
        LET price == quotes[line[x]].price IN
        /\ pushed[x] = line[x]
        /\ x \notin missed => rows[x] # <<>> /\ rows[x][Len(rows[x])] = price
        /\ Orderly /\ crashes = 0 => Len(rows[x]) <= 1

\* When no more quotes come, the thread of SharingLine comes to rest, and the
\* last quote of a product, which the snapshot shows, is then on its line: the
\* two threads work off their buffers apart and end up with the same price,
\* unless a full buffer dropped a quote or the trade dates went back.
Settles ==
    <>[]( /\ half = 0 /\ realQ = <<>> /\ lineQ = <<>> /\ msg = 0
          /\ Orderly /\ dropped = {} =>
                \A p \in Products :
                    LET q == snapshot[p] IN
                    q # 0 /\ quotes[q].date = curDate =>
                        /\ line[Point(q)] # 0
                        /\ quotes[line[Point(q)]].price = quotes[q].price )
=============================================================================
