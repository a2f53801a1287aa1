---------------------------- MODULE QuoteReceiver ----------------------------
(***************************************************************************)
(* The C receiver of quotes (c++/trunk/pemc/quote): the thread             *)
(* handleQuote connects, logs in, and cuts the bytes it receives into      *)
(* messages (recvBuffer.c) that it copies to nodes taken from a list of    *)
(* idle ones and put on a list of busy ones (list.c).  SIGALRM, 30 seconds *)
(* after the last whole message, shuts the connection down.                *)
(*                                                                         *)
(* Actors: handleQuote; main, which starts it again; the handler of        *)
(* SIGALRM, which any thread of the process may run; the quote server; the *)
(* clock.  A message arrives in units: the first is its head, and what     *)
(* comes with less than a head is no message yet, as with a part of one.   *)
(***************************************************************************)
EXTENDS Integers, Sequences

CONSTANTS BufSize,   \* rb->size, in units
          Nodes,     \* nodes allocated idle (8192)
          QuoteSize, \* units of a quote that fits in a node
          LargeSize, \* units of a quote that does not
          Timeout,   \* alarm(30), in ticks
          MaxConn,   \* bound: connections the server accepts
          MaxMsgs    \* bound: messages in a behaviour

ASSUME ReceiverAssumption ==
    /\ BufSize \in Nat \ {0} /\ Nodes \in Nat \ {0} /\ Timeout \in Nat \ {0}
    /\ QuoteSize \in Nat \ {0} /\ LargeSize \in Nat \ {0}
    /\ MaxConn \in Nat /\ MaxMsgs \in Nat

VARIABLES
    pc,       \* where handleQuote is
    conn,     \* connections made so far: the last of them is the current one
    stream,   \* every message the server began, in order
    unsent,   \* units of the last one that it has not written yet
    inbox,    \* units written and not consumed: rb->len of them in the buffer,
    len,      \*   the others in the socket
    tailSize, \* rb->tailSize
    ended,    \* the server has closed the connection
    shut,     \* shutdown was called on it
    idle,     \* lc->idle->nodeSum
    busy,     \* lc->busy: the data of its nodes
    wasted,   \* nodes taken for a large quote, and put on no list
    handler,  \* SIGALRM has the handler handleHeartBeat
    timer,    \* ticks before the alarm goes off, 0 when none is set
    fired,    \* handleHeartBeat has begun and has not called shutdown yet
    quiet     \* history: ticks since a whole message, or since the first alarm(30)

netVars == <<conn, stream, unsent, inbox, len, tailSize, ended, shut>>
nodeVars == <<idle, busy, wasted>>
alarmVars == <<handler, timer, fired, quiet>>
vars == <<pc, netVars, nodeVars, alarmVars>>

\* What the head and the check byte of a message make of it.
Kinds == {"heartbeat", "quote", "large", "corrupt", "other"}
Size(kind) == CASE kind \in {"quote", "corrupt"} -> QuoteSize
                [] kind = "large" -> LargeSize
                [] OTHER -> 1

Unit(m, k) == [m |-> m, k |-> k]
Units(m, first, last) == [i \in 1 .. (last - first + 1) |-> Unit(m, first + i - 1)]
Whole(m) == Units(m, 1, Size(stream[m].kind))

Receiving == pc \in {"recv", "send", "cut"}
Open == pc \in {"handler", "alarm", "recv", "send", "cut", "close"}

Init ==
    /\ pc = "connect" /\ conn = 0
    /\ stream = <<>> /\ unsent = 0 /\ inbox = <<>>
    /\ len = 0 /\ tailSize = BufSize
    /\ ended = FALSE /\ shut = FALSE
    /\ idle = Nodes /\ busy = <<>> /\ wasted = 0
    /\ handler = FALSE /\ timer = 0 /\ fired = FALSE /\ quiet = 0

-----------------------------------------------------------------------------
(* Connecting.  The descriptor of a closed connection is given to the next *)
(* one, so gRecvBuf->recvFd names the current connection all along.        *)

Connected ==
    /\ pc = "connect" /\ conn < MaxConn
    /\ pc' = "login" /\ conn' = conn + 1
    /\ unsent' = 0 /\ ended' = FALSE /\ shut' = FALSE
    /\ UNCHANGED <<stream, inbox, len, tailSize, nodeVars, alarmVars>>

\* The connection is refused: the thread ends.
Refused ==
    /\ pc = "connect"
    /\ pc' = "over"
    /\ UNCHANGED <<netVars, nodeVars, alarmVars>>

\* Mutant of Restart: main only starts the thread the first time.
Restart_Once ==
    /\ pc = "over" /\ conn = 0
    /\ pc' = "connect"
    /\ UNCHANGED <<netVars, nodeVars, alarmVars>>

\* main finds the thread gone and starts another.
Restart ==
    /\ pc = "over"
    /\ pc' = "connect"
    /\ UNCHANGED <<netVars, nodeVars, alarmVars>>

\* The server answers the login as verifyLoginResponse wants it, in one piece.
LoginAccepted ==
    /\ pc = "login" /\ ~shut
    /\ pc' = "handler"
    /\ UNCHANGED <<netVars, nodeVars, alarmVars>>

\* Any other answer, a part of one, or the end of the connection.
LoginFailed ==
    /\ pc = "login"
    /\ pc' = "connect"
    /\ UNCHANGED <<netVars, nodeVars, alarmVars>>

\* The handler of the last connection's alarm has shut this one down: recv
\* returns 0.
LoginShut ==
    /\ pc = "login" /\ shut
    /\ pc' = "connect"
    /\ UNCHANGED <<netVars, nodeVars, alarmVars>>

\* recvFd = fd; signal(SIGALRM, handleHeartBeat).
InstallHandler ==
    /\ pc = "handler"
    /\ pc' = "alarm" /\ handler' = TRUE
    /\ UNCHANGED <<netVars, nodeVars, timer, fired, quiet>>

\* Mutant of ArmAlarm: the first alarm is left to RBSend.
ArmAlarm_Later ==
    /\ pc = "alarm"
    /\ pc' = "recv" /\ quiet' = 0
    /\ UNCHANGED <<netVars, nodeVars, handler, timer, fired>>

\* alarm(30), before the first message.
ArmAlarm ==
    /\ pc = "alarm"
    /\ pc' = "recv" /\ timer' = Timeout /\ quiet' = 0
    /\ UNCHANGED <<netVars, nodeVars, handler, fired>>

-----------------------------------------------------------------------------
(* recvQuotePackage: RBRecv, RBSend, and RBReset when one of them fails.   *)

\* Mutant of GiveUp: the buffer is not reset.
GiveUp_NoReset ==
    /\ pc' = "close"
    /\ UNCHANGED <<inbox, len, tailSize>>

\* RBReset, and out of the loop.
GiveUp ==
    /\ pc' = "close"
    /\ inbox' = SubSeq(inbox, len + 1, Len(inbox)) /\ len' = 0 /\ tailSize' = BufSize

\* Mutant of Room: as much as the socket has.
Room_Unchecked == Len(inbox) - len

\* The units recv can return: what there is, up to tailSize.
Room == IF Len(inbox) - len < tailSize THEN Len(inbox) - len ELSE tailSize

RBRecv ==
    /\ pc = "recv"
    /\ \E n \in 1 .. Room :
          /\ len' = len + n
          /\ tailSize' = tailSize - n
    /\ pc' = "send"
    /\ UNCHANGED <<conn, stream, unsent, inbox, ended, shut, nodeVars, alarmVars>>

\* recv returns 0: the end of the stream, or a buffer that has no room left.
RBRecvFails ==
    /\ pc = "recv"
    /\ tailSize = 0 \/ (Len(inbox) = len /\ (ended \/ shut))
    /\ GiveUp
    /\ UNCHANGED <<conn, stream, unsent, ended, shut, nodeVars, alarmVars>>

\* RBSend looks for an idle node once, whatever the number of messages.
FindIdle ==
    /\ pc = "send" /\ idle > 0
    /\ pc' = "cut"
    /\ UNCHANGED <<netVars, nodeVars, alarmVars>>

\* "RBSend fail, no idle node to use!"
NoIdle ==
    /\ pc = "send" /\ idle = 0
    /\ GiveUp
    /\ UNCHANGED <<conn, stream, unsent, ended, shut, nodeVars, alarmVars>>

\* The type in the head at rb->head; anything where no head is.
KindAtHead == IF inbox[1].k = 1 THEN stream[inbox[1].m].kind ELSE "other"
WholeAtHead == len > 0 /\ len >= Size(KindAtHead)

\* "no a whole head" or "no a whole msg": RBSend returns.
NoWhole ==
    /\ pc = "cut" /\ ~WholeAtHead
    /\ pc' = "recv"
    /\ UNCHANGED <<netVars, nodeVars, alarmVars>>

\* Mutant of Space: the room is given back with every message.
Space_Always(left) == BufSize

\* The room is given back only when the buffer is empty.
Space(left) == IF left = 0 THEN BufSize ELSE tailSize

\* Mutant of Consume: rb->head stays.
Consume_HeadStays ==
    LET n == Size(KindAtHead)
    IN  /\ inbox' = SubSeq(inbox, 1, len - n) \o SubSeq(inbox, len + 1, Len(inbox))
        /\ len' = len - n
        /\ tailSize' = Space(len - n)
        /\ UNCHANGED <<pc, conn, stream, unsent, ended, shut>>

\* rb->len -= msgLen; rb->head += msgLen; RBReset when that was all.
Consume ==
    LET n == Size(KindAtHead)
    IN  /\ inbox' = SubSeq(inbox, n + 1, Len(inbox))
        /\ len' = len - n
        /\ tailSize' = Space(len - n)
        /\ UNCHANGED <<pc, conn, stream, unsent, ended, shut>>

\* alarm(30).
Rearm ==
    /\ timer' = Timeout /\ quiet' = 0
    /\ UNCHANGED <<handler, fired>>

\* Mutant of KeepQuote: the node stays on the idle list as well.
KeepQuote_StillIdle ==
    /\ pc = "cut" /\ WholeAtHead /\ KindAtHead = "quote" /\ idle > 0
    /\ busy' = Append(busy, SubSeq(inbox, 1, QuoteSize))
    /\ Consume /\ Rearm
    /\ UNCHANGED <<idle, wasted>>

\* A quote that fits in a node.
KeepQuote ==
    /\ pc = "cut" /\ WholeAtHead /\ KindAtHead = "quote" /\ idle > 0
    /\ idle' = idle - 1
    /\ busy' = Append(busy, SubSeq(inbox, 1, QuoteSize))
    /\ Consume /\ Rearm
    /\ UNCHANGED wasted

\* "RBSend a large msg!": its node is put nowhere.
SkipLarge ==
    /\ pc = "cut" /\ WholeAtHead /\ KindAtHead = "large" /\ idle > 0
    /\ idle' = idle - 1 /\ wasted' = wasted + 1
    /\ Consume /\ Rearm
    /\ UNCHANGED busy

\* ListGetHead of an empty list returns NULL, and RBSend reads its dataSize.
NullNode ==
    /\ pc = "cut" /\ WholeAtHead /\ KindAtHead \in {"quote", "large"} /\ idle = 0
    /\ pc' = "crashed"
    /\ UNCHANGED <<netVars, nodeVars, alarmVars>>

\* Mutant of DropHeartbeat: a heartbeat is only dropped.
DropHeartbeat_NoAlarm ==
    /\ pc = "cut" /\ WholeAtHead /\ KindAtHead = "heartbeat"
    /\ Consume /\ quiet' = 0
    /\ UNCHANGED <<nodeVars, handler, timer, fired>>

DropHeartbeat ==
    /\ pc = "cut" /\ WholeAtHead /\ KindAtHead = "heartbeat"
    /\ Consume /\ Rearm
    /\ UNCHANGED nodeVars

\* A wrong check byte, or a type that is neither.
BadMessage ==
    /\ pc = "cut" /\ WholeAtHead /\ KindAtHead \in {"corrupt", "other"}
    /\ GiveUp
    /\ UNCHANGED <<conn, stream, unsent, ended, shut, nodeVars, alarmVars>>

\* close(fd): what is in the socket goes with it.
Close ==
    /\ pc = "close"
    /\ pc' = "ignore" /\ inbox' = SubSeq(inbox, 1, len)
    /\ UNCHANGED <<conn, stream, unsent, len, tailSize, ended, shut, nodeVars, alarmVars>>

\* signal(SIGALRM, SIG_IGN); sleep(1).  The alarm itself goes on.
IgnoreAlarm ==
    /\ pc = "ignore"
    /\ pc' = "connect" /\ handler' = FALSE
    /\ UNCHANGED <<netVars, nodeVars, timer, fired, quiet>>

-----------------------------------------------------------------------------
(* The alarm.                                                              *)

Tick ==
    /\ timer > 0
    /\ timer' = timer - 1
    /\ quiet' = IF quiet < Timeout THEN quiet + 1 ELSE quiet
    /\ fired' = (fired \/ (timer = 1 /\ handler))
    /\ UNCHANGED <<pc, netVars, nodeVars, handler>>

\* shutdown(gRecvBuf->recvFd): nothing when the descriptor is closed.
HandleHeartBeat ==
    /\ fired
    /\ fired' = FALSE
    /\ shut' = (shut \/ Open \/ pc = "login")
    /\ UNCHANGED <<pc, conn, stream, unsent, inbox, len, tailSize, ended, nodeVars,
                   handler, timer, quiet>>

-----------------------------------------------------------------------------
(* The server, once it has accepted the login.                             *)

Writable == Open /\ ~ended /\ ~shut

\* A message is begun: n of its units are written.
ServerSends ==
    /\ Writable /\ unsent = 0 /\ Len(stream) < MaxMsgs
    /\ \E kind \in Kinds : \E n \in 1 .. Size(kind) :
          /\ stream' = Append(stream, [conn |-> conn, kind |-> kind])
          /\ inbox' = inbox \o Units(Len(stream) + 1, 1, n)
          /\ unsent' = Size(kind) - n
    /\ UNCHANGED <<pc, conn, len, tailSize, ended, shut, nodeVars, alarmVars>>

\* The rest of it is written.
ServerGoesOn ==
    /\ Writable /\ unsent > 0
    /\ LET last == Size(stream[Len(stream)].kind)
       IN  inbox' = inbox \o Units(Len(stream), last - unsent + 1, last)
    /\ unsent' = 0
    /\ UNCHANGED <<pc, conn, stream, len, tailSize, ended, shut, nodeVars, alarmVars>>

\* The server closes the connection, between two messages or inside one; a
\* reset takes what is in the socket with it.
ServerCloses ==
    /\ Open /\ ~ended
    /\ ended' = TRUE
    /\ inbox' \in {inbox, SubSeq(inbox, 1, len)}
    /\ UNCHANGED <<pc, conn, stream, unsent, len, tailSize, shut, nodeVars, alarmVars>>

-----------------------------------------------------------------------------
HandleQuote ==
    \/ Connected \/ Refused \/ LoginShut \/ InstallHandler \/ ArmAlarm
    \/ RBRecv \/ RBRecvFails \/ FindIdle \/ NoIdle
    \/ NoWhole \/ KeepQuote \/ SkipLarge \/ NullNode \/ DropHeartbeat \/ BadMessage
    \/ Close \/ IgnoreAlarm

Server == LoginAccepted \/ LoginFailed \/ ServerSends \/ ServerGoesOn \/ ServerCloses

Next == HandleQuote \/ Restart \/ Tick \/ HandleHeartBeat \/ Server

\* The program's threads and the clock go on; the server owes nothing.
Fairness ==
    /\ WF_vars(HandleQuote) /\ WF_vars(Restart)
    /\ WF_vars(Tick) /\ WF_vars(HandleHeartBeat)

Spec == Init /\ [][Next]_vars /\ Fairness

-----------------------------------------------------------------------------
(* Properties.                                                             *)

Pcs == {"connect", "over", "login", "handler", "alarm", "recv", "send", "cut",
        "close", "ignore", "crashed"}

\* The variables have their types: in particular, the buffer never holds more
\* than it has room for (RBRecv, recvBuffer.c:21-34).
TypeOK ==
    /\ pc \in Pcs /\ conn \in 0 .. MaxConn
    /\ stream \in Seq([conn : 1 .. MaxConn, kind : Kinds])
    /\ unsent \in Nat
    /\ inbox \in Seq([m : Nat, k : Nat])
    /\ len \in 0 .. Len(inbox) /\ tailSize \in 0 .. BufSize
    /\ ended \in BOOLEAN /\ shut \in BOOLEAN
    /\ idle \in 0 .. Nodes /\ busy \in Seq(Seq([m : Nat, k : Nat])) /\ wasted \in 0 .. Nodes
    /\ handler \in BOOLEAN /\ timer \in 0 .. Timeout /\ fired \in BOOLEAN
    /\ quiet \in 0 .. Timeout

\* What is unread and the room behind it never overlap: recv does not write
\* over a part of a message that waits for its rest (recvBuffer.c:73-75).
PartKept == len + tailSize <= BufSize

\* A node on the busy list holds one whole quote of the stream, copied from
\* where the quote begins (recvBuffer.c:50-53).
KeptWhole ==
    \A i \in 1 .. Len(busy) : \E m \in 1 .. Len(stream) :
        stream[m].kind = "quote" /\ busy[i] = Whole(m)

\* The quotes kept are in the order sent, none of them twice, and of one
\* connection none is left out before another: reconnecting loses the end of
\* the old stream, never the framing of the new (quote.c:99-107).
KeptInOrder ==
    LET Kept(m) == \E i \in DOMAIN busy : busy[i][1].m = m
    IN  /\ \A i, j \in DOMAIN busy : i < j => busy[i][1].m < busy[j][1].m
        /\ \A m, n \in DOMAIN stream :
              /\ m < n /\ Kept(n)
              /\ stream[m].kind = "quote" /\ stream[m].conn = stream[n].conn
              => Kept(m)

\* Every node is idle, or busy, or was spent on a quote too large for it
\* (list.c:49-73, recvBuffer.c:50-58).
NodesAccounted == idle + Len(busy) + wasted = Nodes

\* The alarm goes off only after Timeout ticks without a whole message, of any
\* type (recvBuffer.c:60, 65).
AlarmMeansSilence == [][fired' /\ ~fired => quiet' = Timeout]_vars

\* A server that falls silent, at the end of a message or within one, is left:
\* the thread comes out of the loop of recvQuotePackage.  (The server's
\* messages are bounded, so it does fall silent.)
SilentServerLeft == []<>~Receiving

\* The receiver tries to connect again and again, through failures of every
\* kind, unless it runs out of nodes and dies, or a server that accepts the
\* connection leaves the login unanswered (quote.c:173: no alarm is set yet).
KeepsTrying ==
    []<>(pc = "connect") \/ <>[](pc = "crashed") \/ <>[](pc = "login" /\ ~shut)
=============================================================================
