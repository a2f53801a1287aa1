----------------------------- MODULE QuoteFeed -----------------------------
(***************************************************************************)
(* The quote pipeline: the quote server's stream, the quoteGet processes   *)
(* that number the quotes of a second (class NetClient,                    *)
(* c++/trunk/pemc/quoteGet/src/netClient.cpp), the topic QUOTE.ORG, and    *)
(* quoteSave, which drops what it has seen, republishes the rest and       *)
(* inserts it into MySQL (class quoteConsumer,                             *)
(* c++/trunk/pemc/quoteSave/quoteConsumer.cpp).                            *)
(*                                                                         *)
(* Actors: the server (Emit), each quoteGet's only thread (Forward,        *)
(* Hangup), the broker (Lose), quoteSave's listener thread (Receive) and   *)
(* the operator (JoinFeed, RestartSaver).  A quoteGet handles one quote,   *)
(* and quoteSave one message, without sharing anything but the topic.      *)
(***************************************************************************)
EXTENDS ConnPool, Sequences, FiniteSets

CONSTANTS Products,  \* GDAG, GDPD, GDPT
          Feeds,     \* the quoteGet processes
          MaxQuotes, \* bound: quotes in a behaviour
          MaxTopic,  \* bound: messages the broker holds for quoteSave
          MaxFaults, \* bound: kinds of fault in a behaviour
          Env        \* environment behaviours allowed, see below

(***************************************************************************)
(* Env is a subset of                                                      *)
(*   "cut"      a quote's check byte is zero, see Emit                     *)
(*   "second"   the server's clock advances between quotes                 *)
(*   "hangup"   the server closes a feed's connection                      *)
(*   "join"     a feed is started, or started again, in mid-stream         *)
(*   "restart"  quoteSave is started again                                 *)
(*   "lose"     the broker drops a message: it is not persistent           *)
(***************************************************************************)
ASSUME QuoteAssumption == MaxQuotes \in 1 .. 99 /\ MaxTopic \in Nat \ {0} /\ MaxFaults \in Nat

VARIABLES
    quotes,    \* what the server emitted, in order
    up,        \* feeds whose connection is open
    next,      \* per feed: the next quote of the stream it reads
    timeMap,   \* NetClient::time_map, per feed and product
    seqMap,    \* NetClient::seq_map
    topic,     \* messages on their way to quoteSave
    alive,     \* quoteSave runs
    savedTime, \* quoteConsumer::time_map
    savedSeq,  \* quoteConsumer::seq_map, 0 for the empty string
    parsed,    \* the members parseJson fills, as the message they came from
    single,    \* what quoteSave published on Quote.Single.Org
    dbpool,    \* connpool
    leaked,    \* connections taken and never released
    faults     \* what went wrong outside the programs so far

feedVars == <<up, next, timeMap, seqMap>>
saverVars == <<alive, savedTime, savedSeq, parsed, single, dbpool, leaked>>
vars == <<quotes, feedVars, topic, saverVars, faults>>

\* A message: the quote it was made from and its SEQUENCE.  The empty text
\* that parseJsonAddSeq returns when it cannot parse has neither.
Messages == [q : 1 .. MaxQuotes, n : 1 .. MaxQuotes]
NoMessage == [q |-> 0, n |-> 0]

Init ==
    /\ quotes = <<>>
    /\ up = Feeds
    /\ next = [f \in Feeds |-> 1]
    /\ timeMap = [f \in Feeds |-> [k \in Products |-> 0]]
    /\ seqMap = [f \in Feeds |-> [k \in Products |-> 0]]
    /\ topic = <<>>
    /\ alive = TRUE
    /\ savedTime = [k \in Products |-> 0]
    /\ savedSeq = [k \in Products |-> 0]
    /\ parsed = NoMessage
    /\ single = <<>>
    /\ dbpool \in InitialPools
    /\ leaked = 0
    /\ faults = {}

-----------------------------------------------------------------------------
(* The server and the feeds.                                               *)

Now == IF quotes = <<>> THEN 1 ELSE quotes[Len(quotes)].time

\* The server sends a quote to its clients.  cut: the check byte that follows
\* the text is zero, so recvData, which always takes one character off the
\* string, takes the text's closing brace.
Emit ==
    /\ Len(quotes) < MaxQuotes
    /\ \E k \in Products, t \in {Now, Now + 1}, c \in BOOLEAN :
          /\ t > Now => "second" \in Env
          /\ c => "cut" \in Env
          /\ quotes' = Append(quotes, [product |-> k, time |-> t, cut |-> c])
    /\ UNCHANGED <<feedVars, topic, saverVars, faults>>

SameSecond(f, quote) == quote.time = timeMap[f][quote.product]

\* seq_map after a quote: counts from 0 in each second of its product.
NextCount(f, quote) ==
    IF SameSecond(f, quote) THEN seqMap[f][quote.product] + 1 ELSE 0

\* Mutant of Sequence: the first quote of a second is numbered as counted.
Sequence_FromZero(f, quote) ==
    IF SameSecond(f, quote) THEN seqMap[f][quote.product] + 1 ELSE 0

\* Mutant of Sequence: counts from the increment only.
Sequence_OffByOne(f, quote) ==
    IF SameSecond(f, quote) THEN seqMap[f][quote.product] + 1 ELSE 1

\* The SEQUENCE parseJsonAddSeq writes into a quote.
Sequence(f, quote) ==
    IF SameSecond(f, quote) THEN seqMap[f][quote.product] + 2 ELSE 1

\* startSendMsg's loop: read a quote, number it, send it.  A quote that does
\* not parse is sent as an empty text and is not counted.
Forward(f) ==
    /\ f \in up /\ next[f] <= Len(quotes) /\ Len(topic) < MaxTopic
    /\ LET quote == quotes[next[f]]
           k == quote.product
       IN  IF quote.cut
           THEN /\ topic' = Append(topic, NoMessage)
                /\ UNCHANGED <<timeMap, seqMap>>
           ELSE /\ topic' = Append(topic, [q |-> next[f], n |-> Sequence(f, quote)])
                /\ timeMap' = [timeMap EXCEPT ![f][k] = quote.time]
                /\ seqMap' = [seqMap EXCEPT ![f][k] = NextCount(f, quote)]
    /\ next' = [next EXCEPT ![f] = @ + 1]
    /\ UNCHANGED <<quotes, up, saverVars, faults>>

\* The server closes the connection, between two quotes or inside one; then
\* what was read of it is a text that does not parse.  The loop goes on, but
\* every further read returns at once with nothing: there is no reconnection.
Hangup(f) ==
    /\ "hangup" \in Env /\ f \in up
    /\ up' = up \ {f}
    /\ \/ UNCHANGED topic
       \/ /\ next[f] <= Len(quotes) /\ Len(topic) < MaxTopic
          /\ topic' = Append(topic, NoMessage)
    /\ UNCHANGED <<quotes, next, timeMap, seqMap, saverVars, faults>>

\* initClient and a connection: the process starts with what is sent now.
JoinFeed(f) ==
    /\ "join" \in Env /\ Cardinality(faults) < MaxFaults
    /\ up' = up \cup {f}
    /\ next' = [next EXCEPT ![f] = Len(quotes) + 1]
    /\ timeMap' = [timeMap EXCEPT ![f] = [k \in Products |-> 0]]
    /\ seqMap' = [seqMap EXCEPT ![f] = [k \in Products |-> 0]]
    /\ faults' = faults \cup {"join"}
    /\ UNCHANGED <<quotes, topic, saverVars>>

\* The broker drops a message of the topic.
Lose ==
    /\ "lose" \in Env /\ Cardinality(faults) < MaxFaults
    /\ \E i \in DOMAIN topic :
          topic' = [j \in 1 .. (Len(topic) - 1) |->
                        IF j < i THEN topic[j] ELSE topic[j + 1]]
    /\ faults' = faults \cup {"lose"}
    /\ UNCHANGED <<quotes, feedVars, saverVars>>

-----------------------------------------------------------------------------
(* quoteSave.                                                              *)

\* SEQUENCE is compared as a string: place of a number below 100, or of the
\* empty string (0), in the order of strings: "", "1", "10" .. "19", "2", ...
Place(n) == IF n < 10 THEN 11 * n ELSE 11 * (n \div 10) + (n % 10) + 1

Symbol(m) == quotes[m.q].product
Time(m) == quotes[m.q].time

\* Mutants of IsLater: the number it has is accepted again; one quote of a
\* second is enough.
IsLater_OrEqual(m) ==
    Time(m) = savedTime[Symbol(m)] /\ Place(m.n) >= Place(savedSeq[Symbol(m)])
IsLater_Never(m) == FALSE

\* The second test of getExcSql: more of the second it has.
IsLater(m) ==
    Time(m) = savedTime[Symbol(m)] /\ Place(m.n) > Place(savedSeq[Symbol(m)])

\* The first test: a new second.
IsNewer(m) == Time(m) > savedTime[Symbol(m)]

\* The members of the start, zero and empty, are neither newer nor later.
Accepts(m) == m # NoMessage /\ (IsNewer(m) \/ IsLater(m))

\* getExcSql, when it accepts: the map takes "1" for a new second whatever
\* number the message has, and the text is published before it is inserted.
Record(m, stored) ==
    /\ savedTime' = [savedTime EXCEPT ![Symbol(m)] = Time(m)]
    /\ savedSeq' = [savedSeq EXCEPT ![Symbol(m)] = IF IsNewer(m) THEN 1 ELSE m.n]
    /\ single' = Append(single, [q |-> m.q, n |-> m.n, stored |-> stored])

\* executedb: an INSERT on a connection of the pool.
Insert(m) ==
    /\ \E pl \in Grants(dbpool) : dbpool' = ReleaseConnection(pl)
    /\ Record(m, TRUE)
    /\ UNCHANGED <<alive, leaked>>

\* A statement throws: the connection is not released.
InsertFails(m) ==
    /\ DbFails
    /\ dbpool' \in Grants(dbpool)
    /\ leaked' = leaked + 1
    /\ Record(m, FALSE)
    /\ UNCHANGED alive

\* GetConnection returns NULL and executedb calls it: the process dies.
NoConnection(m) ==
    /\ dbpool' \in Refusals(dbpool)
    /\ alive' = FALSE
    /\ Record(m, FALSE)
    /\ UNCHANGED leaked

\* on_recv.  After a text that does not parse, the members still hold the
\* last one that did, and getExcSql judges them again.
Receive ==
    /\ alive /\ topic # <<>>
    /\ topic' = Tail(topic)
    /\ LET m == IF Head(topic) = NoMessage THEN parsed ELSE Head(topic)
       IN  /\ parsed' = m
           /\ IF Accepts(m)
              THEN Insert(m) \/ InsertFails(m) \/ NoConnection(m)
              ELSE UNCHANGED <<alive, savedTime, savedSeq, single, dbpool, leaked>>
    /\ UNCHANGED <<quotes, feedVars, faults>>

\* Started again: the maps are empty, and the topic kept nothing for it.
RestartSaver ==
    /\ "restart" \in Env /\ Cardinality(faults) < MaxFaults
    /\ alive' = TRUE
    /\ topic' = <<>>
    /\ savedTime' = [k \in Products |-> 0]
    /\ savedSeq' = [k \in Products |-> 0]
    /\ parsed' = NoMessage
    /\ dbpool' \in InitialPools
    /\ leaked' = 0
    /\ faults' = faults \cup {"restart"}
    /\ UNCHANGED <<quotes, feedVars, single>>

Next ==
    \/ Emit
    \/ \E f \in Feeds : Forward(f) \/ Hangup(f) \/ JoinFeed(f)
    \/ Lose
    \/ Receive
    \/ RestartSaver

Spec == Init /\ [][Next]_vars

-----------------------------------------------------------------------------
(* Properties.                                                             *)

Rows == {single[i] : i \in {j \in DOMAIN single : single[j].stored}}

TypeOK ==
    /\ quotes \in Seq([product : Products, time : Nat, cut : BOOLEAN])
    /\ up \subseteq Feeds
    /\ next \in [Feeds -> 1 .. (MaxQuotes + 1)]
    /\ timeMap \in [Feeds -> [Products -> Nat]]
    /\ seqMap \in [Feeds -> [Products -> Nat]]
    /\ topic \in Seq(Messages \cup {NoMessage})
    /\ alive \in BOOLEAN
    /\ savedTime \in [Products -> Nat]
    /\ savedSeq \in [Products -> Nat]
    /\ parsed \in Messages \cup {NoMessage}
    /\ \A i \in DOMAIN single :
          single[i] \in [q : 1 .. MaxQuotes, n : 1 .. MaxQuotes, stored : BOOLEAN]
    /\ dbpool \in Pools
    /\ leaked \in Nat
    /\ faults \subseteq {"join", "lose", "restart"}

Before(x, y) ==
    Time(x) < Time(y) \/ (Time(x) = Time(y) /\ x.n < y.n)

\* Whatever the order in which several feeds deliver the same quotes, and with
\* broken texts between them, Quote.Single.Org carries the quotes of a product
\* once each and in order, provided that no message is lost and neither
\* quoteSave nor a feed is started in mid-stream.
SingleInOrder ==
    faults = {} =>
        \A i, j \in DOMAIN single :
            i < j /\ Symbol(single[i]) = Symbol(single[j]) =>
                Before(single[i], single[j])

\* The position of a quote among the readable ones of its product and second.
Position(q) ==
    Cardinality({p \in 1 .. q : /\ quotes[p].product = quotes[q].product
                                /\ quotes[p].time = quotes[q].time
                                /\ ~quotes[p].cut})

\* The SEQUENCE of a message is the position of its quote, so that two feeds
\* that have read from the start give a quote the same number, which is what
\* quoteSave relies on to drop the second copy.
SequenceIsPosition ==
    "join" \notin faults =>
        \A i \in DOMAIN topic :
            topic[i] # NoMessage => topic[i].n = Position(topic[i].q)

\* The pool's count is that of the connections that exist, idle or never
\* released, and no more exist than the pool's limit, whatever fails.
PoolCounted == dbpool.cur = dbpool.free + leaked /\ dbpool.cur <= MaxSize

\* Whatever feed delivers it first, each readable quote that some feed has read
\* is in the topic or published on Quote.Single.Org, unless it is the tenth of
\* its second or a later one: a feed that lags, or whose connection is closed,
\* costs no quote.
NoQuoteLost ==
    faults = {} /\ alive =>
        \A f \in Feeds : \A q \in 1 .. (next[f] - 1) :
            ~quotes[q].cut /\ Position(q) < 10 =>
                \/ \E i \in DOMAIN topic : topic[i].q = q
                \/ \E i \in DOMAIN single : single[i].q = q

\* quoteConsumer.cpp:226 logs "The data have save into DB" for each message it
\* drops: a message that is dropped has its quote among the rows inserted.
DroppedIsSaved ==
    [][\A m \in Messages :
          Receive /\ Head(topic) = m /\ ~Accepts(m)
              => \E r \in Rows : r.q = m.q]_vars
=============================================================================
