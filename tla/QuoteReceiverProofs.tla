------------------------- MODULE QuoteReceiverProofs -------------------------
(***************************************************************************)
(* The receiver's buffer and lists are sound for every size of the buffer, *)
(* number of nodes, stream and way the bytes arrive.                       *)
(*                                                                         *)
(* Inv is about the framing: wherever the first unit of a message is in    *)
(* the inbox, all of it follows, so that what is cut off and copied is a   *)
(* whole message.  Progress is about the order: what is unread is of the   *)
(* current connection, in the order sent and later than everything kept,   *)
(* and of this connection's quotes, as far as they have come, none is      *)
(* neither kept nor unread.  Alarm relates what is left of the alarm to    *)
(* the silence that it measures.                                           *)
(***************************************************************************)
EXTENDS QuoteReceiver, TLAPS

\* What is left of a sequence without its first n elements.
LEMMA DropFacts ==
    ASSUME NEW S, NEW q \in Seq(S), NEW n \in 0 .. Len(q)
    PROVE  LET r == SubSeq(q, n + 1, Len(q))
           IN  /\ r \in Seq(S) /\ Len(r) = Len(q) - n
               /\ \A i \in 1 .. Len(r) : r[i] = q[i + n]
  OBVIOUS

\* The first n elements of a sequence.
LEMMA TakeFacts ==
    ASSUME NEW S, NEW q \in Seq(S), NEW n \in 0 .. Len(q)
    PROVE  LET r == SubSeq(q, 1, n)
           IN  /\ r \in Seq(S) /\ Len(r) = n
               /\ \A i \in 1 .. n : r[i] = q[i]
  OBVIOUS

\* A sequence with one more element.
LEMMA AppendFacts ==
    ASSUME NEW S, NEW q \in Seq(S), NEW e \in S
    PROVE  /\ DOMAIN Append(q, e) = 1 .. (Len(q) + 1)
           /\ Append(q, e)[Len(q) + 1] = e
           /\ \A b \in 1 .. Len(q) : b \in 1 .. (Len(q) + 1) /\ Append(q, e)[b] = q[b]
  OBVIOUS

\* The last of n + 1 numbers, and the others.
LEMMA LastOne ==
    ASSUME NEW n \in Nat
    PROVE  /\ n + 1 \in 1 .. (n + 1)
           /\ \A b \in 1 .. (n + 1) : b \in 1 .. n \/ b = n + 1
  OBVIOUS

\* A message has at least its head.
LEMMA SizeFacts ==
    ASSUME NEW kind
    PROVE  Size(kind) \in Nat \ {0}
  BY ReceiverAssumption DEF Size

LEMMA UnitsFacts ==
    ASSUME NEW m \in Nat, NEW a \in Nat \ {0}, NEW b \in Nat, a <= b + 1
    PROVE  /\ Units(m, a, b) \in Seq([m : Nat, k : Nat])
           /\ Len(Units(m, a, b)) = b - a + 1
           /\ \A i \in 1 .. (b - a + 1) : Units(m, a, b)[i] = Unit(m, a + i - 1)
<1> DEFINE n == b - a + 1
<1>1. n \in Nat /\ Units(m, a, b) = [i \in 1 .. n |-> Unit(m, a + i - 1)]
  BY DEF Units
<1>2. \A i \in 1 .. n : Unit(m, a + i - 1) \in [m : Nat, k : Nat]
  BY DEF Unit
<1> QED BY <1>1, <1>2

-----------------------------------------------------------------------------
(* Types, the buffer's room and the nodes.                                 *)

\* The buffer is empty outside of recvQuotePackage, and a connection that can
\* be written to exists.
Idle ==
    /\ ~Receiving => len = 0 \/ pc = "crashed"
    /\ Open \/ pc = "login" => conn >= 1

Sound == TypeOK /\ PartKept /\ NodesAccounted /\ Idle

LEMMA InitSound == Init => Sound
<1> SUFFICES ASSUME Init PROVE Sound
  OBVIOUS
<1> USE ReceiverAssumption DEF Init
<1> DEFINE U == [m : Nat, k : Nat]
<1>0. inbox \in Seq(U) /\ busy \in Seq(Seq(U)) /\ Len(inbox) = 0
      /\ stream \in Seq([conn : 1 .. MaxConn, kind : Kinds])
  OBVIOUS
<1>1. TypeOK
  <2> HIDE DEF Init
  <2>1. 0 \in 0 .. MaxConn /\ 0 \in 0 .. Nodes /\ Nodes \in 0 .. Nodes
        /\ 0 \in 0 .. Timeout /\ BufSize \in 0 .. BufSize
    OBVIOUS
  <2>2. pc = "connect" /\ conn = 0 /\ unsent = 0 /\ len = 0 /\ tailSize = BufSize
        /\ ended = FALSE /\ shut = FALSE /\ idle = Nodes /\ wasted = 0
        /\ handler = FALSE /\ timer = 0 /\ fired = FALSE /\ quiet = 0
    BY DEF Init
  <2>3. pc \in Pcs
    BY <2>2 DEF Pcs
  <2>4. conn \in 0 .. MaxConn /\ unsent \in Nat /\ len \in 0 .. Len(inbox)
        /\ tailSize \in 0 .. BufSize /\ idle \in 0 .. Nodes /\ wasted \in 0 .. Nodes
        /\ timer \in 0 .. Timeout /\ quiet \in 0 .. Timeout
    BY <1>0, <2>1, <2>2
  <2>5. ended \in BOOLEAN /\ shut \in BOOLEAN /\ handler \in BOOLEAN /\ fired \in BOOLEAN
    BY <2>2
  <2> QED BY <1>0, <2>3, <2>4, <2>5, Zenon DEF TypeOK
<1>2. PartKept /\ NodesAccounted /\ Idle
  BY DEF PartKept, NodesAccounted, Idle, Receiving, Open
<1> QED BY <1>1, <1>2 DEF Sound

\* RBReset leaves an empty buffer.
LEMMA GiveUpSound ==
    ASSUME Sound, GiveUp, Receiving,
           UNCHANGED <<conn, stream, unsent, ended, shut, nodeVars, alarmVars>>
    PROVE  Sound'
<1> DEFINE U == [m : Nat, k : Nat]
<1>1. inbox \in Seq(U) /\ len \in 0 .. Len(inbox)
  BY DEF Sound, TypeOK
<1>2. inbox' \in Seq(U) /\ Len(inbox') \in Nat
  <2> HIDE DEF U
  <2>1. SubSeq(inbox, len + 1, Len(inbox)) \in Seq(U)
    BY <1>1, DropFacts
  <2> QED BY <2>1 DEF GiveUp
<1>3. TypeOK'
  <2>1. pc' \in Pcs /\ len' \in 0 .. Len(inbox') /\ tailSize' \in 0 .. BufSize
    BY <1>2, ReceiverAssumption DEF GiveUp, Pcs
  <2>2. /\ conn' = conn /\ stream' = stream /\ unsent' = unsent
        /\ ended' = ended /\ shut' = shut /\ idle' = idle /\ busy' = busy
        /\ wasted' = wasted /\ handler' = handler /\ timer' = timer
        /\ fired' = fired /\ quiet' = quiet
    BY DEF nodeVars, alarmVars
  <2>3. timer' \in 0 .. Timeout /\ quiet' \in 0 .. Timeout
    BY <2>2 DEF Sound, TypeOK
  <2> QED BY <1>2, <2>1, <2>2, <2>3, Zenon DEF Sound, TypeOK
<1>4. PartKept' /\ NodesAccounted'
  BY ReceiverAssumption DEF Sound, PartKept, NodesAccounted, GiveUp, nodeVars
<1>5. Idle'
  BY DEF Sound, Idle, Receiving, Open, GiveUp
<1> QED BY <1>3, <1>4, <1>5 DEF Sound

\* Taking a message from the front gives no more room than there is.
LEMMA ConsumeSound ==
    ASSUME Sound, Consume, WholeAtHead
    PROVE  /\ inbox' \in Seq([m : Nat, k : Nat])
           /\ len' \in 0 .. Len(inbox') /\ tailSize' \in 0 .. BufSize
           /\ len' + tailSize' <= BufSize
<1> DEFINE n == Size(KindAtHead)
<1>1. n \in Nat \ {0} /\ n <= len
  BY SizeFacts DEF WholeAtHead
<1>2. inbox \in Seq([m : Nat, k : Nat]) /\ len \in 0 .. Len(inbox) /\ tailSize \in 0 .. BufSize
      /\ len + tailSize <= BufSize
  BY DEF Sound, TypeOK, PartKept
<1>3. n \in 0 .. Len(inbox)
  BY <1>1, <1>2
<1>4. inbox' \in Seq([m : Nat, k : Nat]) /\ Len(inbox') = Len(inbox) - n
  BY <1>2, <1>3, DropFacts DEF Consume
<1>5. len' = len - n /\ tailSize' = (IF len - n = 0 THEN BufSize ELSE tailSize)
  BY DEF Consume, Space
<1>6. BufSize \in Nat
  BY ReceiverAssumption
<1> HIDE DEF n
<1> QED BY <1>1, <1>2, <1>3, <1>4, <1>5, <1>6

\* The bookkeeping of an action that takes a message and sets the alarm.
LEMMA HandledSound ==
    ASSUME Sound, pc = "cut", WholeAtHead, Consume, Rearm,
           idle' \in 0 .. Nodes, wasted' \in 0 .. Nodes,
           busy' \in Seq(Seq([m : Nat, k : Nat])), NodesAccounted'
    PROVE  Sound'
<1>1. /\ inbox' \in Seq([m : Nat, k : Nat])
      /\ len' \in 0 .. Len(inbox') /\ tailSize' \in 0 .. BufSize
      /\ len' + tailSize' <= BufSize
  BY ConsumeSound
<1>2. UNCHANGED <<pc, conn, stream, unsent, ended, shut>>
  BY DEF Consume
<1>3. timer' \in 0 .. Timeout /\ quiet' \in 0 .. Timeout /\ UNCHANGED <<handler, fired>>
  BY ReceiverAssumption DEF Rearm
<1>4. TypeOK'
  BY <1>1, <1>2, <1>3 DEF Sound, TypeOK
<1>5. PartKept' /\ Idle'
  BY <1>1, <1>2 DEF PartKept, Idle, Sound, Receiving, Open
<1> QED BY <1>4, <1>5 DEF Sound

\* RBRecv reads no more than there is room for.
LEMMA RBRecvSound ==
    ASSUME Sound, RBRecv
    PROVE  Sound'
<1>1. PICK n \in 1 .. Room : len' = len + n /\ tailSize' = tailSize - n
  BY DEF RBRecv
<1>2. /\ len \in Nat /\ Len(inbox) \in Nat /\ tailSize \in Nat /\ BufSize \in Nat
      /\ len <= Len(inbox) /\ tailSize <= BufSize /\ len + tailSize <= BufSize
  BY ReceiverAssumption DEF Sound, TypeOK, PartKept
<1>3. n \in Nat /\ n <= Len(inbox) - len /\ n <= tailSize
  BY <1>1, <1>2 DEF Room
<1>4. len' \in 0 .. Len(inbox) /\ tailSize' \in 0 .. BufSize /\ len' + tailSize' <= BufSize
  BY <1>1, <1>2, <1>3
<1>5. TypeOK'
  BY <1>4 DEF Sound, TypeOK, RBRecv, nodeVars, alarmVars, Pcs
<1>6. PartKept' /\ NodesAccounted' /\ Idle'
  BY <1>4 DEF Sound, PartKept, NodesAccounted, Idle, RBRecv, nodeVars, Receiving, Open
<1> QED BY <1>5, <1>6 DEF Sound

\* A quote takes one node from the idle list to the busy one.
LEMMA KeepQuoteSound ==
    ASSUME Sound, KeepQuote
    PROVE  Sound'
<1> DEFINE U == [m : Nat, k : Nat]
<1>1. inbox \in Seq(U) /\ len \in 0 .. Len(inbox) /\ idle \in 0 .. Nodes /\ idle > 0
      /\ busy \in Seq(Seq(U)) /\ wasted \in 0 .. Nodes
      /\ idle + Len(busy) + wasted = Nodes /\ Nodes \in Nat
  BY ReceiverAssumption DEF Sound, TypeOK, NodesAccounted, KeepQuote
<1>2. QuoteSize \in 0 .. Len(inbox)
  BY <1>1, ReceiverAssumption DEF KeepQuote, WholeAtHead, Size
<1> HIDE DEF U
<1>3. SubSeq(inbox, 1, QuoteSize) \in Seq(U)
  BY <1>1, <1>2, TakeFacts
<1>4. busy' \in Seq(Seq(U)) /\ Len(busy') = Len(busy) + 1
  BY <1>1, <1>3 DEF KeepQuote
<1>5. idle' = idle - 1 /\ wasted' = wasted
  BY DEF KeepQuote
<1>6. idle' \in 0 .. Nodes /\ wasted' \in 0 .. Nodes /\ NodesAccounted'
  <2>1. idle \in Nat /\ idle > 0 /\ idle <= Nodes /\ Nodes \in Nat /\ Len(busy) \in Nat
        /\ wasted \in 0 .. Nodes /\ idle + Len(busy) + wasted = Nodes
    BY <1>1
  <2>2. Len(busy') = Len(busy) + 1
    BY <1>4
  <2>3. idle' \in 0 .. Nodes /\ wasted' \in 0 .. Nodes
    BY <1>5, <2>1
  <2> QED BY <1>5, <2>1, <2>2, <2>3 DEF NodesAccounted
<1>7. pc = "cut" /\ WholeAtHead /\ Consume /\ Rearm
  BY DEF KeepQuote
<1> QED BY <1>4, <1>6, <1>7, HandledSound DEF U

\* A large one takes a node that is put nowhere, and counts as wasted.
LEMMA SkipLargeSound ==
    ASSUME Sound, SkipLarge
    PROVE  Sound'
<1>1. idle \in 0 .. Nodes /\ idle > 0 /\ wasted \in 0 .. Nodes /\ Len(busy) \in Nat
      /\ idle + Len(busy) + wasted = Nodes /\ Nodes \in Nat
  BY ReceiverAssumption DEF Sound, TypeOK, NodesAccounted, SkipLarge
<1>2. idle' = idle - 1 /\ wasted' = wasted + 1 /\ busy' = busy
  BY DEF SkipLarge
<1>3. idle' \in 0 .. Nodes /\ wasted' \in 0 .. Nodes /\ NodesAccounted'
  BY <1>1, <1>2 DEF NodesAccounted
<1>4. busy' \in Seq(Seq([m : Nat, k : Nat]))
  BY <1>2 DEF Sound, TypeOK
<1>5. pc = "cut" /\ WholeAtHead /\ Consume /\ Rearm
  BY DEF SkipLarge
<1> QED BY <1>3, <1>4, <1>5, HandledSound

\* The server begins a message.
LEMMA ServerSendsSound ==
    ASSUME Sound, ServerSends
    PROVE  Sound'
<1> DEFINE U == [m : Nat, k : Nat]
<1>0. PICK kind \in Kinds : \E n \in 1 .. Size(kind) :
         /\ stream' = Append(stream, [conn |-> conn, kind |-> kind])
         /\ inbox' = inbox \o Units(Len(stream) + 1, 1, n)
         /\ unsent' = Size(kind) - n
  BY DEF ServerSends
<1>1. PICK n \in 1 .. Size(kind) :
         /\ stream' = Append(stream, [conn |-> conn, kind |-> kind])
         /\ inbox' = inbox \o Units(Len(stream) + 1, 1, n)
         /\ unsent' = Size(kind) - n
  BY <1>0
<1>2. stream \in Seq([conn : 1 .. MaxConn, kind : Kinds]) /\ conn \in 1 .. MaxConn
      /\ inbox \in Seq(U) /\ len \in 0 .. Len(inbox) /\ MaxConn \in Nat
  BY ReceiverAssumption DEF Sound, TypeOK, Idle, ServerSends, Writable
<1>3. stream' \in Seq([conn : 1 .. MaxConn, kind : Kinds])
  BY <1>1, <1>2
<1>4. Size(kind) \in Nat /\ n \in Nat /\ 1 <= n + 1 /\ unsent' \in Nat
  BY <1>1, SizeFacts
<1>5. Units(Len(stream) + 1, 1, n) \in Seq(U)
  BY <1>2, <1>4, UnitsFacts
<1> HIDE DEF U
<1>6. inbox' \in Seq(U) /\ Len(inbox') >= Len(inbox) /\ len \in 0 .. Len(inbox')
  BY <1>1, <1>2, <1>5
<1>7. TypeOK'
  BY <1>3, <1>4, <1>6 DEF U, Sound, TypeOK, ServerSends, nodeVars, alarmVars
<1>8. PartKept' /\ NodesAccounted' /\ Idle'
  BY DEF Sound, PartKept, NodesAccounted, Idle, ServerSends, nodeVars, Receiving, Open
<1> QED BY <1>7, <1>8 DEF Sound

\* It writes the rest.
LEMMA ServerGoesOnSound ==
    ASSUME Sound, ServerGoesOn, unsent <= Size(stream[Len(stream)].kind)
    PROVE  Sound'
<1> DEFINE U == [m : Nat, k : Nat]
           last == Size(stream[Len(stream)].kind)
           rest == Units(Len(stream), last - unsent + 1, last)
<1>1. inbox' = inbox \o rest /\ unsent' = 0
  BY DEF ServerGoesOn
<1>2. inbox \in Seq(U) /\ len \in 0 .. Len(inbox) /\ unsent \in Nat /\ Len(stream) \in Nat
  BY DEF Sound, TypeOK
<1>3. last \in Nat /\ unsent <= last
  BY SizeFacts
<1>4. last - unsent + 1 \in Nat \ {0} /\ last - unsent + 1 <= last + 1
  BY <1>2, <1>3
<1>5. rest \in Seq(U)
  <2> HIDE DEF last
  <2> QED BY <1>2, <1>3, <1>4, UnitsFacts
<1> HIDE DEF U, last, rest
<1>6. inbox' \in Seq(U) /\ len \in 0 .. Len(inbox')
  BY <1>1, <1>2, <1>5
<1>7. TypeOK'
  BY <1>1, <1>6 DEF U, Sound, TypeOK, ServerGoesOn, nodeVars, alarmVars
<1>8. PartKept' /\ NodesAccounted' /\ Idle'
  BY DEF Sound, PartKept, NodesAccounted, Idle, ServerGoesOn, nodeVars, Receiving, Open
<1> QED BY <1>7, <1>8 DEF Sound
-----------------------------------------------------------------------------
(* Framing: where a message begins in the inbox, all of it follows.        *)

SizeOf(s, m) == Size(s[m].kind)

\* A unit comes after the earlier units of its message.
Front(q, s) ==
    \A i \in 1 .. Len(q) :
        /\ q[i].m \in 1 .. Len(s) /\ q[i].k \in 1 .. SizeOf(s, q[i].m) /\ q[i].k <= i
        /\ \A j \in 1 .. q[i].k : q[i - q[i].k + j] = Unit(q[i].m, j)

\* The units after a head are those of its message.
Follow(q, s) ==
    \A i \in 1 .. Len(q) : q[i].k = 1 =>
        \A j \in 1 .. SizeOf(s, q[i].m) :
            i + j - 1 <= Len(q) => q[i + j - 1] = Unit(q[i].m, j)

\* Only the last message may lack units, and those are not written yet.
Complete(q, s, rest) ==
    /\ \A i \in 1 .. Len(q) : q[i].k = 1 =>
          i + SizeOf(s, q[i].m) - 1 <= Len(q) + (IF q[i].m = Len(s) THEN rest ELSE 0)
    /\ rest > 0 => /\ Len(q) > 0
                   /\ q[Len(q)] = Unit(Len(s), SizeOf(s, Len(s)) - rest)

\* A number between 1 and another.
LEMMA BoundFacts ==
    ASSUME NEW n \in Nat, NEW i \in 1 .. n
    PROVE  i \in Nat /\ 1 <= i /\ i <= n /\ i \in 1 .. (n + 1)
  OBVIOUS

\* An index of what is left when n elements are dropped.
LEMMA IndexFacts ==
    ASSUME NEW L \in Nat, NEW n \in Nat, n <= L, NEW i \in 1 .. (L - n)
    PROVE  i + n \in 1 .. L
  OBVIOUS

\* Where the earlier units of a message are.
LEMMA OffsetFacts ==
    ASSUME NEW n \in Nat, NEW i \in Nat, i <= n, NEW k \in Nat, k <= i
    PROVE  \A j \in 1 .. k : i - k + j \in 1 .. n
  OBVIOUS

LEMMA ShiftFacts ==
    ASSUME NEW i \in Nat, NEW n \in Nat, NEW k \in Nat, NEW j \in Nat
    PROVE  i - k + j + n = (i + n) - k + j
  OBVIOUS

\* The server begins message Len(s) + 1, of the kind of e.
LEMMA FramedNew ==
    ASSUME NEW q \in Seq([m : Nat, k : Nat]), NEW S, NEW s \in Seq(S), NEW e \in S,
           NEW n \in 1 .. Size(e.kind),
           Front(q, s), Follow(q, s), Complete(q, s, 0)
    PROVE  LET r == q \o Units(Len(s) + 1, 1, n)
               t == Append(s, e)
           IN  Front(r, t) /\ Follow(r, t) /\ Complete(r, t, Size(e.kind) - n)
<1> DEFINE r == q \o Units(Len(s) + 1, 1, n)
           t == Append(s, e)
           L == Len(q)
           M == Len(s) + 1
<1>1. n \in Nat \ {0} /\ L \in Nat /\ M \in Nat \ {0} /\ Size(e.kind) \in Nat /\ n <= Size(e.kind)
  BY SizeFacts
<1>2. /\ Units(M, 1, n) \in Seq([m : Nat, k : Nat]) /\ Len(Units(M, 1, n)) = n
      /\ \A i \in 1 .. n : Units(M, 1, n)[i] = Unit(M, i)
  <2>1. /\ Units(M, 1, n) \in Seq([m : Nat, k : Nat]) /\ Len(Units(M, 1, n)) = n - 1 + 1
        /\ \A i \in 1 .. (n - 1 + 1) : Units(M, 1, n)[i] = Unit(M, 1 + i - 1)
    <3>1. 1 \in Nat \ {0} /\ n \in Nat /\ M \in Nat /\ 1 <= n + 1
      BY <1>1
    <3> HIDE DEF M
    <3> QED BY <3>1, UnitsFacts
  <2>2. n - 1 + 1 = n /\ \A i \in 1 .. n : 1 + i - 1 = i
    BY <1>1
  <2> QED BY <2>1, <2>2
<1>3. /\ Len(r) = L + n
      /\ \A i \in 1 .. L : r[i] = q[i]
      /\ \A i \in 1 .. n : r[L + i] = Unit(M, i)
  BY <1>1, <1>2
<1>4. /\ Len(t) = M /\ SizeOf(t, M) = Size(e.kind)
      /\ \A m \in 1 .. Len(s) : SizeOf(t, m) = SizeOf(s, m)
  BY DEF SizeOf
<1>5. \A i \in 1 .. L : q[i].m \in 1 .. Len(s) /\ q[i].k \in 1 .. SizeOf(s, q[i].m)
  BY DEF Front
<1>a. \A i \in 1 .. L : /\ q[i].k <= i
                         /\ \A j \in 1 .. q[i].k : q[i - q[i].k + j] = Unit(q[i].m, j)
  BY DEF Front
<1>b. \A i \in 1 .. L : q[i].k = 1 =>
         \A j \in 1 .. SizeOf(s, q[i].m) :
            i + j - 1 <= L => q[i + j - 1] = Unit(q[i].m, j)
  BY DEF Follow
<1>c. \A i \in 1 .. L : q[i].k = 1 =>
         i + SizeOf(s, q[i].m) - 1 <= L + (IF q[i].m = Len(s) THEN 0 ELSE 0)
  BY DEF Complete
<1>d. Len(s) \in Nat /\ M = Len(s) + 1
  OBVIOUS
<1> HIDE DEF r, t, L, M
<1>6. ASSUME NEW i \in 1 .. n PROVE r[L + i].m = M /\ r[L + i].k = i
  <2>1. r[L + i] = Unit(M, i)
    BY <1>3
  <2>2. Unit(M, i).m = M /\ Unit(M, i).k = i
    BY DEF Unit
  <2> QED BY <2>1, <2>2
<1>7. \A m \in 1 .. Len(s) : SizeOf(s, m) \in Nat \ {0}
  BY SizeFacts DEF SizeOf
<1>8. Front(r, t)
  <2> SUFFICES ASSUME NEW i \in 1 .. Len(r)
               PROVE  /\ r[i].m \in 1 .. Len(t) /\ r[i].k \in 1 .. SizeOf(t, r[i].m) /\ r[i].k <= i
                      /\ \A j \in 1 .. r[i].k : r[i - r[i].k + j] = Unit(r[i].m, j)
    BY DEF Front
  <2>1. CASE i \in 1 .. L
    <3>1. r[i] = q[i] /\ q[i].m \in 1 .. Len(s) /\ q[i].k \in 1 .. SizeOf(s, q[i].m) /\ q[i].k <= i
          /\ \A j \in 1 .. q[i].k : q[i - q[i].k + j] = Unit(q[i].m, j)
      BY <2>1, <1>3, <1>5, <1>a
    <3>2. SizeOf(t, q[i].m) = SizeOf(s, q[i].m) /\ SizeOf(s, q[i].m) \in Nat
      BY <3>1, <1>4, <1>7
    <3>3. q[i].k \in Nat /\ q[i].k <= i /\ i \in Nat /\ i <= L
      BY <2>1, <3>1, <3>2, <1>1, BoundFacts
    <3>4. \A j \in 1 .. q[i].k : i - q[i].k + j \in 1 .. L
      BY <3>3, <1>1, OffsetFacts
    <3>5. \A j \in 1 .. q[i].k : r[i - q[i].k + j] = Unit(q[i].m, j)
      BY <3>1, <3>4, <1>3
    <3>6. q[i].m \in 1 .. Len(t)
      <4>1. Len(t) = Len(s) + 1
        BY <1>4, <1>d, Zenon
      <4>2. q[i].m \in 1 .. (Len(s) + 1)
        BY <3>1, <1>d, BoundFacts
      <4> QED BY <4>1, <4>2, Zenon
    <3>7. q[i].k \in 1 .. SizeOf(t, q[i].m)
      BY <3>1, <3>2, Zenon
    <3> QED BY <3>1, <3>5, <3>6, <3>7, Zenon
  <2>2. CASE i \notin 1 .. L
    <3>1. PICK p \in 1 .. n : i = L + p
      <4>1. i - L \in 1 .. n /\ i = L + (i - L)
        BY <2>2, <1>1, <1>3
      <4> QED BY <4>1
    <3>2. r[i].m = M /\ r[i].k = p
      BY <3>1, <1>6
    <3>3. \A j \in 1 .. p : i - p + j = L + j /\ j \in 1 .. n
      BY <3>1, <1>1
    <3> QED BY <3>1, <3>2, <3>3, <1>1, <1>3, <1>4
  <2> QED BY <2>1, <2>2
<1>9. \A i \in 1 .. L : q[i].k = 1 => i + SizeOf(s, q[i].m) - 1 <= L
  <2> SUFFICES ASSUME NEW i \in 1 .. L, q[i].k = 1 PROVE i + SizeOf(s, q[i].m) - 1 <= L
    OBVIOUS
  <2>1. i + SizeOf(s, q[i].m) - 1 <= L + (IF q[i].m = Len(s) THEN 0 ELSE 0)
    BY <1>c
  <2> QED BY <2>1, <1>1
<1>10. Follow(r, t)
  <2> SUFFICES ASSUME NEW i \in 1 .. Len(r), r[i].k = 1, NEW j \in 1 .. SizeOf(t, r[i].m),
                      i + j - 1 <= Len(r)
               PROVE  r[i + j - 1] = Unit(r[i].m, j)
    BY DEF Follow
  <2>1. CASE i \in 1 .. L
    <3>1. r[i] = q[i] /\ q[i].m \in 1 .. Len(s) /\ j \in 1 .. SizeOf(s, q[i].m)
      BY <2>1, <1>3, <1>4, <1>5
    <3>2. SizeOf(s, q[i].m) \in Nat /\ i + SizeOf(s, q[i].m) - 1 <= L /\ q[i].k = 1
      BY <2>1, <3>1, <1>7, <1>9
    <3>3. i + j - 1 \in 1 .. L /\ i + j - 1 <= L
      BY <2>1, <3>1, <3>2, <1>1
    <3>4. q[i + j - 1] = Unit(q[i].m, j)
      BY <2>1, <3>1, <3>2, <3>3, <1>b
    <3> QED BY <3>1, <3>3, <3>4, <1>3
  <2>2. CASE i \notin 1 .. L
    <3>1. i - L \in 1 .. n /\ i = L + (i - L)
      BY <2>2, <1>1, <1>3
    <3>2. i = L + 1 /\ r[i].m = M
      BY <3>1, <1>6, <1>1
    <3>3. j \in 1 .. n /\ i + j - 1 = L + j
      BY <3>2, <1>1, <1>3, <1>4
    <3> QED BY <3>2, <3>3, <1>3
  <2> QED BY <2>1, <2>2
<1>11. Complete(r, t, Size(e.kind) - n)
  <2> DEFINE rest == Size(e.kind) - n
  <2>1. ASSUME NEW i \in 1 .. Len(r), r[i].k = 1
        PROVE  i + SizeOf(t, r[i].m) - 1 <= Len(r) + (IF r[i].m = Len(t) THEN rest ELSE 0)
    <3>1. CASE i \in 1 .. L
      <4>1. r[i] = q[i] /\ q[i].m \in 1 .. Len(s) /\ SizeOf(t, q[i].m) = SizeOf(s, q[i].m)
        BY <3>1, <1>3, <1>4, <1>5
      <4>a. q[i].k = 1
        BY <4>1, <2>1
      <4>b. q[i].m # Len(t)
        BY <4>1, <1>4, <1>d
      <4>2. i + SizeOf(s, q[i].m) - 1 <= L /\ q[i].m # Len(t)
        BY <3>1, <4>a, <4>b, <1>9
      <4>3. SizeOf(s, q[i].m) \in Nat
        BY <4>1, <1>7
      <4> QED BY <3>1, <4>1, <4>2, <4>3, <1>1, <1>3
    <3>2. CASE i \notin 1 .. L
      <4>1. i - L \in 1 .. n /\ i = L + (i - L)
        BY <3>2, <1>1, <1>3
      <4>2. i = L + 1 /\ r[i].m = M
        BY <4>1, <2>1, <1>6, <1>1
      <4> QED BY <4>2, <1>1, <1>3, <1>4
    <3> QED BY <3>1, <3>2
  <2>2. Len(r) > 0 /\ r[Len(r)] = Unit(Len(t), SizeOf(t, Len(t)) - rest)
    <3>1. n \in 1 .. n /\ Size(e.kind) - rest = n
      BY <1>1
    <3> QED BY <3>1, <1>1, <1>3, <1>4
  <2> QED BY <2>1, <2>2 DEF Complete
<1> QED BY <1>8, <1>10, <1>11 DEF r, t
\* The server writes the rest of the last message.
LEMMA FramedRest ==
    ASSUME NEW q \in Seq([m : Nat, k : Nat]), NEW S, NEW s \in Seq(S), Len(s) > 0,
           NEW rest \in Nat, rest > 0, rest <= SizeOf(s, Len(s)),
           Front(q, s), Follow(q, s), Complete(q, s, rest)
    PROVE  LET r == q \o Units(Len(s), SizeOf(s, Len(s)) - rest + 1, SizeOf(s, Len(s)))
           IN  Front(r, s) /\ Follow(r, s) /\ Complete(r, s, 0)
<1> DEFINE M == Len(s)
           N == SizeOf(s, M)
           g == N - rest
           w == Units(M, g + 1, N)
           r == q \o w
           L == Len(q)
<1>1. L \in Nat /\ M \in Nat \ {0} /\ N \in Nat \ {0} /\ g \in Nat /\ N = g + rest
  BY SizeFacts DEF SizeOf
<1>2. /\ w \in Seq([m : Nat, k : Nat]) /\ Len(w) = N - (g + 1) + 1
      /\ \A i \in 1 .. (N - (g + 1) + 1) : w[i] = Unit(M, g + 1 + i - 1)
  <2>1. g + 1 \in Nat \ {0} /\ N \in Nat /\ M \in Nat /\ g + 1 <= N + 1
    BY <1>1
  <2> HIDE DEF M, N, g
  <2> QED BY <2>1, UnitsFacts
<1>3. N - (g + 1) + 1 = rest /\ \A i \in 1 .. rest : g + 1 + i - 1 = g + i
  <2> HIDE DEF M, N, g
  <2> QED BY <1>1
<1>4. Len(w) = rest /\ \A i \in 1 .. rest : w[i] = Unit(M, g + i)
  <2> HIDE DEF M, N, g, w
  <2> QED BY <1>2, <1>3
<1>5. /\ Len(r) = L + rest
      /\ \A i \in 1 .. L : r[i] = q[i]
      /\ \A i \in 1 .. rest : r[L + i] = Unit(M, g + i)
  <2> DEFINE U == [m : Nat, k : Nat]
  <2>1. w \in Seq(U) /\ q \in Seq(U)
    BY <1>2
  <2> HIDE DEF M, N, g, w, U
  <2>2. Len(q \o w) = Len(q) + Len(w) /\ \A i \in 1 .. L : (q \o w)[i] = q[i]
    BY <2>1
  <2>3. \A i \in 1 .. Len(w) : (q \o w)[L + i] = w[i]
    BY <2>1
  <2> QED BY <2>2, <2>3, <1>4
<1>6. \A i \in 1 .. L :
         /\ q[i].m \in 1 .. M /\ q[i].k \in 1 .. SizeOf(s, q[i].m) /\ q[i].k <= i
         /\ \A j \in 1 .. q[i].k : q[i - q[i].k + j] = Unit(q[i].m, j)
  BY DEF Front
<1>7. \A i \in 1 .. L : q[i].k = 1 =>
         \A j \in 1 .. SizeOf(s, q[i].m) :
            i + j - 1 <= L => q[i + j - 1] = Unit(q[i].m, j)
  BY DEF Follow
<1>8. /\ \A i \in 1 .. L : q[i].k = 1 =>
            i + SizeOf(s, q[i].m) - 1 <= L + (IF q[i].m = M THEN rest ELSE 0)
      /\ L > 0 /\ q[L] = Unit(M, g)
  BY DEF Complete
<1>9. \A m \in 1 .. M : SizeOf(s, m) \in Nat \ {0}
  BY SizeFacts DEF SizeOf
<1> HIDE DEF M, N, g, w, r, L
\* The head of the last message is at b + 1.
<1> DEFINE b == L - g
<1>10. L \in 1 .. L /\ q[L].m = M /\ q[L].k = g
  BY <1>1, <1>8 DEF Unit
<1>11. g \in 1 .. N /\ g <= L /\ b \in Nat /\ b + g = L
       /\ \A j \in 1 .. g : q[b + j] = Unit(M, j)
  <2>1. g \in 1 .. SizeOf(s, M) /\ g <= L /\ \A j \in 1 .. g : q[L - g + j] = Unit(M, j)
    BY <1>6, <1>10
  <2> QED BY <2>1, <1>1 DEF N
<1> HIDE DEF b
<1>12. b + 1 \in 1 .. L /\ q[b + 1] = Unit(M, 1) /\ q[b + 1].k = 1
  <2>1. 1 \in 1 .. g /\ b + 1 \in 1 .. L
    BY <1>1, <1>11
  <2>2. q[b + 1] = Unit(M, 1)
    BY <2>1, <1>11
  <2> QED BY <2>1, <2>2 DEF Unit
\* No other head of that message can lack units.
<1>13. ASSUME NEW i \in 1 .. L, q[i].k = 1, q[i].m = M, i + N - 1 > L
       PROVE  i = b + 1
  <2>1. i + N - 1 <= L + rest
    <3>1. i + SizeOf(s, q[i].m) - 1 <= L + (IF q[i].m = M THEN rest ELSE 0)
      BY <1>13, <1>8
    <3> QED BY <3>1, <1>13 DEF N
  <2>2. i <= b + 1 /\ i \in Nat
    BY <2>1, <1>1, <1>11
  <2>3. CASE i < b + 1
    <3> DEFINE j == b + 2 - i
    <3>1. j \in 1 .. N /\ i + j - 1 = b + 1 /\ b + 1 <= L /\ j # 1
      BY <2>2, <2>3, <1>1, <1>11, <1>12, <1>13
    <3> HIDE DEF j
    <3>2. q[i + j - 1] = Unit(M, j)
      BY <3>1, <1>7, <1>13 DEF N
    <3>3. Unit(M, 1) = Unit(M, j)
      BY <3>1, <3>2, <1>12
    <3> QED BY <3>1, <3>3 DEF Unit
  <2> QED BY <2>2, <2>3, <1>1, <1>11
<1>14. ASSUME NEW i \in 1 .. Len(r), i \notin 1 .. L
       PROVE  /\ i - L \in 1 .. rest /\ i = L + (i - L)
              /\ r[i].m = M /\ r[i].k = g + (i - L) /\ i = b + (g + (i - L))
  <2>1. i - L \in 1 .. rest /\ i = L + (i - L)
    BY <1>14, <1>1, <1>5
  <2>2. r[L + (i - L)] = Unit(M, g + (i - L))
    BY <2>1, <1>5
  <2>3. r[i] = Unit(M, g + (i - L))
    BY <2>1, <2>2
  <2>4. i = b + (g + (i - L))
    BY <1>11, <1>1
  <2> QED BY <2>1, <2>3, <2>4 DEF Unit
\* The last message from its head to its end.
<1>15. ASSUME NEW j \in 1 .. N PROVE r[b + j] = Unit(M, j) /\ b + j \in 1 .. Len(r)
  <2>1. CASE j <= g
    <3>1. j \in 1 .. g /\ b + j \in 1 .. L
      BY <2>1, <1>1, <1>11
    <3> QED BY <3>1, <1>1, <1>5, <1>11
  <2>2. CASE ~(j <= g)
    <3>1. j - g \in 1 .. rest /\ b + j = L + (j - g) /\ g + (j - g) = j
      BY <2>2, <1>1, <1>11
    <3>2. r[L + (j - g)] = Unit(M, g + (j - g))
      BY <3>1, <1>5
    <3> QED BY <3>1, <3>2, <1>1, <1>5
  <2> QED BY <2>1, <2>2
<1>16. Front(r, s)
  <2> SUFFICES ASSUME NEW i \in 1 .. Len(r)
               PROVE  /\ r[i].m \in 1 .. M /\ r[i].k \in 1 .. SizeOf(s, r[i].m) /\ r[i].k <= i
                      /\ \A j \in 1 .. r[i].k : r[i - r[i].k + j] = Unit(r[i].m, j)
    BY DEF Front, M
  <2>1. CASE i \in 1 .. L
    <3>1. r[i] = q[i] /\ q[i].m \in 1 .. M /\ q[i].k \in 1 .. SizeOf(s, q[i].m) /\ q[i].k <= i
          /\ \A j \in 1 .. q[i].k : q[i - q[i].k + j] = Unit(q[i].m, j)
      BY <2>1, <1>5, <1>6
    <3>a. SizeOf(s, q[i].m) \in Nat
      BY <3>1, <1>9
    <3>2. q[i].k \in Nat /\ i \in Nat /\ i <= L
      BY <2>1, <3>1, <3>a, <1>1, BoundFacts
    <3>3. \A j \in 1 .. q[i].k : i - q[i].k + j \in 1 .. L
      BY <3>1, <3>2, <1>1, OffsetFacts
    <3>4. \A j \in 1 .. q[i].k : r[i - q[i].k + j] = Unit(q[i].m, j)
      BY <3>1, <3>3, <1>5
    <3> QED BY <3>1, <3>4
  <2>2. CASE i \notin 1 .. L
    <3> DEFINE k == g + (i - L)
    <3>1. r[i].m = M /\ r[i].k = k /\ i = b + k /\ i - L \in 1 .. rest
      BY <2>2, <1>14
    <3>2. k \in 1 .. N /\ k <= i /\ \A j \in 1 .. k : i - k + j = b + j /\ j \in 1 .. N
      BY <3>1, <1>1, <1>11
    <3> HIDE DEF k
    <3>3. \A j \in 1 .. k : r[i - k + j] = Unit(M, j)
      BY <3>2, <1>15
    <3>4. M \in 1 .. M
      BY <1>1
    <3> QED BY <3>1, <3>2, <3>3, <3>4 DEF N
  <2> QED BY <2>1, <2>2
<1>17. Follow(r, s)
  <2> SUFFICES ASSUME NEW i \in 1 .. Len(r), r[i].k = 1, NEW j \in 1 .. SizeOf(s, r[i].m),
                      i + j - 1 <= Len(r)
               PROVE  r[i + j - 1] = Unit(r[i].m, j)
    BY DEF Follow
  <2>1. CASE i \in 1 .. L
    <3>1. r[i] = q[i] /\ q[i].m \in 1 .. M /\ q[i].k = 1 /\ j \in 1 .. SizeOf(s, q[i].m)
      BY <2>1, <1>5, <1>6
    <3>2. SizeOf(s, q[i].m) \in Nat
      BY <3>1, <1>9
    <3>a. j \in Nat /\ 1 <= j /\ i \in Nat /\ 1 <= i
      <4>1. PICK K \in Nat : K = SizeOf(s, q[i].m)
        BY <3>2
      <4>2. j \in 1 .. K
        BY <3>1, <4>1, Zenon
      <4> QED BY <2>1, <4>1, <4>2, <1>1
    <3>3. CASE i + j - 1 <= L
      <4>1. i + j - 1 \in 1 .. L
        BY <3>a, <3>3, <1>1
      <4>2. q[i + j - 1] = Unit(q[i].m, j)
        BY <2>1, <3>1, <3>3, <1>7
      <4> QED BY <3>1, <4>1, <4>2, <1>5
    <3>4. CASE ~(i + j - 1 <= L)
      <4>1. i + SizeOf(s, q[i].m) - 1 > L
        BY <2>1, <3>1, <3>2, <3>4, <1>1
      <4>2. q[i].m = M
        <5>1. i + SizeOf(s, q[i].m) - 1 <= L + (IF q[i].m = M THEN rest ELSE 0)
          BY <2>1, <3>1, <1>8
        <5> QED BY <2>1, <3>2, <4>1, <5>1, <1>1
      <4>3. i = b + 1 /\ j \in 1 .. N
        BY <2>1, <3>1, <4>1, <4>2, <1>13 DEF N
      <4>4. i + j - 1 = b + j
        BY <4>3, <1>1, <1>11
      <4> QED BY <3>1, <4>2, <4>3, <4>4, <1>15
    <3> QED BY <3>3, <3>4
  <2>2. CASE i \notin 1 .. L
    <3>1. r[i].k = g + (i - L) /\ i - L \in 1 .. rest
      BY <2>2, <1>14
    <3> QED BY <3>1, <1>1, <1>11
  <2> QED BY <2>1, <2>2
<1>18. Complete(r, s, 0)
  <2>1. ASSUME NEW i \in 1 .. Len(r), r[i].k = 1
        PROVE  i + SizeOf(s, r[i].m) - 1 <= Len(r)
    <3>1. CASE i \in 1 .. L
      <4>1. r[i] = q[i] /\ q[i].m \in 1 .. M /\ q[i].k = 1
        BY <2>1, <3>1, <1>5, <1>6
      <4>2. i + SizeOf(s, q[i].m) - 1 <= L + (IF q[i].m = M THEN rest ELSE 0)
        BY <3>1, <4>1, <1>8
      <4>3. SizeOf(s, q[i].m) \in Nat
        BY <4>1, <1>9
      <4> QED BY <3>1, <4>1, <4>2, <4>3, <1>1, <1>5
    <3>2. CASE i \notin 1 .. L
      <4>1. r[i].k = g + (i - L) /\ i - L \in 1 .. rest
        BY <3>2, <1>14
      <4> QED BY <2>1, <4>1, <1>1, <1>11
    <3> QED BY <3>1, <3>2
  <2>2. ASSUME NEW i \in 1 .. Len(r), r[i].k = 1
        PROVE  i + SizeOf(s, r[i].m) - 1 <= Len(r) + (IF r[i].m = Len(s) THEN 0 ELSE 0)
    <3>1. i + SizeOf(s, r[i].m) - 1 <= Len(r)
      BY <2>1, <2>2
    <3> QED BY <3>1, <1>1, <1>5
  <2> QED BY <2>2 DEF Complete
<1> QED BY <1>16, <1>17, <1>18 DEF r, w, g, N, M

\* A message is taken from the front.
LEMMA FramedDrop ==
    ASSUME NEW q \in Seq([m : Nat, k : Nat]), NEW S, NEW s \in Seq(S), NEW rest \in Nat,
           Len(q) > 0, Front(q, s), Follow(q, s), SizeOf(s, q[1].m) <= Len(q)
    PROVE  LET n == SizeOf(s, q[1].m)
               r == SubSeq(q, n + 1, Len(q))
           IN  /\ q[1].m \in 1 .. Len(s) /\ q[1].k = 1
               /\ \A j \in 1 .. n : q[j] = Unit(q[1].m, j)
               /\ Front(r, s) /\ Follow(r, s)
               /\ Complete(q, s, rest) => Complete(r, s, rest)
<1> DEFINE L == Len(q)
           m1 == q[1].m
           n == SizeOf(s, m1)
           r == SubSeq(q, n + 1, L)
<1>1. L \in Nat /\ 1 \in 1 .. L
  OBVIOUS
<1>2. m1 \in 1 .. Len(s) /\ q[1].k \in 1 .. n /\ q[1].k <= 1
  BY <1>1 DEF Front
<1>3. n \in Nat \ {0} /\ n <= L
  BY SizeFacts DEF SizeOf
<1>4. q[1].k = 1
  <2> HIDE DEF n, m1
  <2> QED BY <1>2, <1>3
<1>5. \A j \in 1 .. n : q[j] = Unit(m1, j)
  <2>1. \A j \in 1 .. n : 1 + j - 1 <= L => q[1 + j - 1] = Unit(m1, j)
    BY <1>1, <1>4 DEF Follow
  <2> HIDE DEF n, m1
  <2>2. \A j \in 1 .. n : 1 + j - 1 = j /\ j <= L
    BY <1>1, <1>3
  <2> QED BY <2>1, <2>2
<1>6. Len(r) = L - n /\ \A i \in 1 .. Len(r) : r[i] = q[i + n]
  <2>1. n \in 0 .. L
    BY <1>1, <1>3
  <2> HIDE DEF n
  <2> QED BY <2>1, DropFacts
<1>7. \A i \in 1 .. L :
         /\ q[i].m \in 1 .. Len(s) /\ q[i].k \in 1 .. SizeOf(s, q[i].m) /\ q[i].k <= i
         /\ \A j \in 1 .. q[i].k : q[i - q[i].k + j] = Unit(q[i].m, j)
  BY DEF Front
<1>8. \A i \in 1 .. L : q[i].k = 1 =>
         \A j \in 1 .. SizeOf(s, q[i].m) :
            i + j - 1 <= L => q[i + j - 1] = Unit(q[i].m, j)
  BY DEF Follow
<1>9. \A m \in 1 .. Len(s) : SizeOf(s, m) \in Nat \ {0}
  BY SizeFacts DEF SizeOf
<1>10. \A i \in 1 .. Len(r) : i + n \in 1 .. L /\ r[i] = q[i + n]
  <2> SUFFICES ASSUME NEW i \in 1 .. Len(r) PROVE i + n \in 1 .. L /\ r[i] = q[i + n]
    OBVIOUS
  <2>1. L \in Nat /\ n \in Nat /\ n <= L /\ Len(r) = L - n /\ r[i] = q[i + n]
    BY <1>1, <1>3, <1>6
  <2> HIDE DEF n, r, L
  <2> QED BY <2>1, IndexFacts
<1>a. Len(s) \in Nat
  OBVIOUS
<1>b. n = SizeOf(s, m1)
  OBVIOUS
<1> HIDE DEF L, m1, n, r
\* What follows the first message does not begin inside of it.
<1>c. \A i \in 1 .. Len(r) : i \in Nat /\ 1 <= i /\ i <= Len(r)
  <2>1. Len(r) \in Int
    BY <1>1, <1>3, <1>6
  <2> QED BY <2>1
<1>11. ASSUME NEW i \in 1 .. Len(r) PROVE r[i].k <= i
  <2>1. PICK p \in 1 .. L : p = i + n /\ r[i] = q[p]
    BY <1>10
  <2> DEFINE u == q[p]
  <2>2. /\ u.m \in 1 .. Len(s) /\ u.k \in 1 .. SizeOf(s, u.m) /\ u.k <= p
        /\ \A j \in 1 .. u.k : q[p - u.k + j] = Unit(u.m, j)
    BY <1>7
  <2>3. r[i] = u
    BY <2>1
  <2> HIDE DEF u
  <2>4. SizeOf(s, u.m) \in Nat
    BY <2>2, <1>9
  <2>5. u.k \in Nat /\ 1 <= u.k /\ u.k <= SizeOf(s, u.m) /\ u.k <= p
    BY <2>2, <2>4
  <2>6. i \in Nat /\ 1 <= i /\ n \in Nat /\ p \in Nat /\ p = i + n
    BY <2>1, <1>c, <1>1, <1>3
  <2>7. CASE u.k > i
    <3>1. PICK a \in 1 .. n : a = p - u.k + 1
      <4>1. p - u.k + 1 \in 1 .. n
        BY <2>5, <2>6, <2>7
      <4> QED BY <4>1
    <3>2. q[a] = Unit(u.m, 1)
      <4>1. 1 \in 1 .. u.k
        BY <2>5
      <4> QED BY <2>2, <3>1, <4>1
    <3>3. Unit(u.m, 1) = Unit(m1, a)
      BY <3>2, <1>5
    <3>4. u.m = m1 /\ a = 1
      BY <3>3 DEF Unit
    <3>5. u.k = i + n
      <4>1. PICK k \in Nat : k = u.k
        BY <2>5
      <4>2. p - k + 1 = 1
        BY <3>1, <3>4, <4>1, Zenon
      <4>3. p = k
        BY <4>2
      <4> QED BY <4>1, <4>3, <2>6, Zenon
    <3>6. u.k <= n
      BY <3>4, <2>5, <1>b
    <3> QED BY <3>5, <3>6, <2>5, <2>6
  <2>8. CASE ~(u.k > i)
    BY <2>3, <2>5, <2>6, <2>8
  <2> QED BY <2>7, <2>8
<1>12. Front(r, s)
  <2> SUFFICES ASSUME NEW i \in 1 .. Len(r)
               PROVE  /\ r[i].m \in 1 .. Len(s) /\ r[i].k \in 1 .. SizeOf(s, r[i].m) /\ r[i].k <= i
                      /\ \A j \in 1 .. r[i].k : r[i - r[i].k + j] = Unit(r[i].m, j)
    BY DEF Front
  <2>1. PICK p \in 1 .. L : p = i + n /\ r[i] = q[p]
    BY <1>10
  <2> DEFINE u == q[p]
  <2>2. /\ u.m \in 1 .. Len(s) /\ u.k \in 1 .. SizeOf(s, u.m)
        /\ \A j \in 1 .. u.k : q[p - u.k + j] = Unit(u.m, j)
    BY <1>7
  <2>3. r[i] = u
    BY <2>1
  <2> HIDE DEF u
  <2>4. SizeOf(s, u.m) \in Nat
    BY <2>2, <1>9
  <2>5. u.k \in Nat
    BY <2>2, <2>4
  <2>6. i \in Nat /\ i <= Len(r) /\ Len(r) \in Nat /\ n \in Nat /\ p \in Nat /\ p = i + n
    BY <2>1, <1>c, <1>1, <1>3, <1>6
  <2>7. u.k <= i
    BY <2>3, <1>11
  <2>8. \A j \in 1 .. u.k : i - u.k + j \in 1 .. Len(r)
    BY <2>5, <2>6, <2>7, OffsetFacts
  <2>9. ASSUME NEW j \in 1 .. u.k PROVE r[i - u.k + j] = Unit(u.m, j)
    <3>1. PICK b \in 1 .. Len(r) : b = i - u.k + j
      BY <2>8
    <3>2. r[b] = q[b + n]
      BY <1>10
    <3>a. j \in Nat /\ u.k \in Nat /\ i \in Nat /\ n \in Nat
      BY <2>5, <2>6, BoundFacts
    <3>3. b + n = p - u.k + j
      <4>1. PICK k \in Nat : k = u.k
        BY <3>a
      <4>2. i - k + j + n = (i + n) - k + j
        BY <3>a, ShiftFacts
      <4> QED BY <2>6, <3>1, <4>1, <4>2, Zenon
    <3>4. q[p - u.k + j] = Unit(u.m, j)
      BY <2>2
    <3> QED BY <3>1, <3>2, <3>3, <3>4
  <2> QED BY <2>2, <2>3, <2>7, <2>9
<1>13. Follow(r, s)
  <2> SUFFICES ASSUME NEW i \in 1 .. Len(r), r[i].k = 1, NEW j \in 1 .. SizeOf(s, r[i].m),
                      i + j - 1 <= Len(r)
               PROVE  r[i + j - 1] = Unit(r[i].m, j)
    BY DEF Follow
  <2>1. i + n \in 1 .. L /\ r[i] = q[i + n] /\ r[i].m \in 1 .. Len(s)
    BY <1>7, <1>10
  <2>2. SizeOf(s, r[i].m) \in Nat
    BY <2>1, <1>9
  <2>3. i + j - 1 \in 1 .. Len(r) /\ i + n + j - 1 <= L /\ i + j - 1 + n = i + n + j - 1
    BY <2>2, <1>1, <1>3, <1>6
  <2>4. q[i + n + j - 1] = Unit(r[i].m, j)
    BY <2>1, <2>3, <1>8
  <2>5. r[i + j - 1] = q[i + j - 1 + n]
    BY <2>3, <1>10
  <2> QED BY <2>3, <2>4, <2>5
<1>14. ASSUME Complete(q, s, rest) PROVE Complete(r, s, rest)
  <2>1. /\ \A i \in 1 .. L : q[i].k = 1 =>
              i + SizeOf(s, q[i].m) - 1 <= L + (IF q[i].m = Len(s) THEN rest ELSE 0)
        /\ rest > 0 => q[L] = Unit(Len(s), SizeOf(s, Len(s)) - rest)
    BY <1>14 DEF Complete, L
  <2>2. ASSUME NEW i \in 1 .. Len(r), r[i].k = 1
        PROVE  i + SizeOf(s, r[i].m) - 1 <= Len(r) + (IF r[i].m = Len(s) THEN rest ELSE 0)
    <3>1. PICK p \in 1 .. L : p = i + n /\ r[i] = q[p]
      BY <1>10
    <3>2. r[i].m \in 1 .. Len(s) /\ p + SizeOf(s, r[i].m) - 1 <= L + (IF r[i].m = Len(s) THEN rest ELSE 0)
      BY <2>1, <2>2, <3>1, <1>7
    <3>3. PICK K \in Nat : K = SizeOf(s, r[i].m)
      BY <3>2, <1>9
    <3>4. i \in Nat /\ n \in Nat /\ Len(r) = L - n /\ L \in Nat
      BY <1>c, <1>1, <1>3, <1>6
    <3>5. PICK x \in Nat : x = (IF r[i].m = Len(s) THEN rest ELSE 0)
      OBVIOUS
    <3>6. p + K - 1 <= L + x /\ p = i + n
      BY <3>1, <3>2, <3>3, <3>5, Zenon
    <3>7. i + K - 1 <= Len(r) + x
      <4>1. i + n + K - 1 <= L + x
        BY <3>6
      <4> QED BY <4>1, <3>4
    <3> QED BY <3>3, <3>5, <3>7, Zenon
  <2>3. ASSUME rest > 0
        PROVE  Len(r) > 0 /\ r[Len(r)] = Unit(Len(s), SizeOf(s, Len(s)) - rest)
    <3>1. CASE n = L
      <4>1. q[L] = Unit(m1, n)
        BY <3>1, <1>1, <1>3, <1>5
      <4>2. m1 = Len(s) /\ n = SizeOf(s, Len(s)) - rest
        BY <2>1, <2>3, <4>1 DEF Unit
      <4> QED BY <4>2, <2>3, <1>3, <1>b
    <3>2. CASE n # L
      <4>1. Len(r) \in 1 .. Len(r) /\ Len(r) + n = L /\ Len(r) > 0
        BY <3>2, <1>1, <1>3, <1>6
      <4>2. r[Len(r)] = q[L]
        BY <4>1, <1>10
      <4> QED BY <4>1, <4>2, <2>1, <2>3
    <3> QED BY <3>1, <3>2
  <2> QED BY <2>2, <2>3 DEF Complete
<1> QED BY <1>2, <1>4, <1>5, <1>12, <1>13, <1>14 DEF L, m1, n, r
\* The socket's part is lost.
LEMMA FramedPrefix ==
    ASSUME NEW q \in Seq([m : Nat, k : Nat]), NEW s, NEW n \in 0 .. Len(q),
           \A i \in 1 .. Len(q) : q[i].k \in Nat,
           Front(q, s), Follow(q, s)
    PROVE  Front(SubSeq(q, 1, n), s) /\ Follow(SubSeq(q, 1, n), s)
<1> DEFINE r == SubSeq(q, 1, n)
<1>1. Len(r) = n /\ n \in Nat /\ n <= Len(q) /\ \A i \in 1 .. n : r[i] = q[i]
  BY TakeFacts
<1> HIDE DEF r
<1>2. Front(r, s)
  <2> SUFFICES ASSUME NEW i \in 1 .. n
               PROVE  /\ r[i].m \in 1 .. Len(s) /\ r[i].k \in 1 .. SizeOf(s, r[i].m) /\ r[i].k <= i
                      /\ \A j \in 1 .. r[i].k : r[i - r[i].k + j] = Unit(r[i].m, j)
    BY <1>1 DEF Front
  <2>1. i \in 1 .. Len(q) /\ r[i] = q[i]
    BY <1>1
  <2>2. /\ q[i].m \in 1 .. Len(s) /\ q[i].k \in 1 .. SizeOf(s, q[i].m) /\ q[i].k <= i
        /\ \A j \in 1 .. q[i].k : q[i - q[i].k + j] = Unit(q[i].m, j)
    BY <2>1 DEF Front
  <2>3. q[i].k \in Nat
    BY <2>1
  <2>a. i \in Nat /\ i <= n /\ n \in Nat
    BY <1>1
  <2>4. \A j \in 1 .. q[i].k : i - q[i].k + j \in 1 .. n
    BY <2>2, <2>3, <2>a, OffsetFacts
  <2> QED BY <2>1, <2>2, <2>4, <1>1
<1>3. Follow(r, s)
  <2> SUFFICES ASSUME NEW i \in 1 .. n, r[i].k = 1, NEW j \in 1 .. SizeOf(s, r[i].m),
                      i + j - 1 <= n
               PROVE  r[i + j - 1] = Unit(r[i].m, j)
    BY <1>1 DEF Follow
  <2>1. i \in 1 .. Len(q) /\ r[i] = q[i]
    BY <1>1
  <2>2. SizeOf(s, r[i].m) \in Nat
    BY SizeFacts DEF SizeOf
  <2>3. i + j - 1 \in 1 .. n /\ i + j - 1 <= Len(q)
    BY <1>1, <2>2
  <2>4. q[i + j - 1] = Unit(q[i].m, j)
    BY <2>1, <2>3 DEF Follow
  <2> QED BY <2>1, <2>3, <2>4, <1>1
<1> QED BY <1>2, <1>3 DEF r

-----------------------------------------------------------------------------
(* The inductive invariant.                                                *)

Live == pc \in {"handler", "alarm", "recv", "send", "cut"}

\* While a connection is received from, its bytes are framed; once RBReset has
\* dropped the front of them, nothing is read before the next connection.
Framing ==
    /\ unsent > 0 => Len(stream) > 0 /\ unsent <= SizeOf(stream, Len(stream))
    /\ pc \in {"ignore", "connect", "over", "login"} => inbox = <<>>
    /\ pc = "login" => unsent = 0
    /\ Live => Front(inbox, stream) /\ Follow(inbox, stream)
    /\ Live /\ ~ended /\ ~shut => Complete(inbox, stream, unsent)

Inv == Sound /\ Framing /\ KeptWhole

\* Nothing is unframed in an empty buffer.
LEMMA FramedEmpty ==
    ASSUME NEW s
    PROVE  Front(<<>>, s) /\ Follow(<<>>, s) /\ Complete(<<>>, s, 0)
  BY DEF Front, Follow, Complete

LEMMA InitInv == Init => Inv
<1> SUFFICES ASSUME Init PROVE Inv
  OBVIOUS
<1>1. Sound
  BY InitSound
<1>2. Framing /\ KeptWhole
  BY DEF Init, Framing, KeptWhole, Live
<1> QED BY <1>1, <1>2 DEF Inv

\* The messages sent so far keep their kinds.
LEMMA KeptWholeStable ==
    ASSUME KeptWhole, Sound, busy' = busy, stream' = stream \/ \E e : stream' = Append(stream, e)
    PROVE  KeptWhole'
<1>1. stream \in Seq([conn : 1 .. MaxConn, kind : Kinds])
  BY DEF Sound, TypeOK
<1>2. Len(stream') >= Len(stream) /\ Len(stream) \in Nat /\ Len(stream') \in Nat
      /\ \A m \in 1 .. Len(stream) : stream'[m] = stream[m]
  BY <1>1
<1> SUFFICES ASSUME NEW i \in 1 .. Len(busy)
             PROVE  \E m \in 1 .. Len(stream') : stream'[m].kind = "quote" /\ busy[i] = Whole(m)'
  BY DEF KeptWhole
<1>3. PICK m \in 1 .. Len(stream) : stream[m].kind = "quote" /\ busy[i] = Whole(m)
  BY DEF KeptWhole
<1>4. m \in 1 .. Len(stream') /\ stream'[m] = stream[m]
  BY <1>2
<1> QED BY <1>3, <1>4 DEF Whole

\* Reading and taking apart.
LEMMA KeepQuoteInv ==
    ASSUME Inv, KeepQuote
    PROVE  KeptWhole'
<1> DEFINE m1 == inbox[1].m
<1>1. /\ inbox \in Seq([m : Nat, k : Nat])
      /\ stream \in Seq([conn : 1 .. MaxConn, kind : Kinds])
      /\ len \in 0 .. Len(inbox) /\ busy \in Seq(Seq([m : Nat, k : Nat]))
      /\ unsent \in Nat
  BY DEF Inv, Sound, TypeOK
<1>2. Front(inbox, stream) /\ Follow(inbox, stream)
  BY DEF Inv, Framing, Live, KeepQuote
<1>3. len > 0 /\ Len(inbox) > 0
  BY <1>1 DEF KeepQuote, WholeAtHead
<1>4. inbox[1].k = 1 /\ m1 \in 1 .. Len(stream)
  <2>1. 1 \in 1 .. Len(inbox)
    BY <1>1, <1>3
  <2>2. m1 \in 1 .. Len(stream) /\ inbox[1].k \in 1 .. SizeOf(stream, m1) /\ inbox[1].k <= 1
    BY <2>1, <1>2 DEF Front
  <2>3. SizeOf(stream, m1) \in Nat
    BY SizeFacts DEF SizeOf
  <2> QED BY <2>2, <2>3
<1>5. stream[m1].kind = "quote" /\ SizeOf(stream, m1) = QuoteSize
  BY <1>4 DEF KeepQuote, KindAtHead, SizeOf, Size
<1>6. QuoteSize \in Nat \ {0} /\ QuoteSize <= Len(inbox)
  BY <1>1, ReceiverAssumption DEF KeepQuote, WholeAtHead, Size
<1>7. \A j \in 1 .. QuoteSize : inbox[j] = Unit(m1, j)
  BY <1>1, <1>2, <1>3, <1>5, <1>6, FramedDrop
<1>8. SubSeq(inbox, 1, QuoteSize) = Whole(m1)
  <2>1. /\ SubSeq(inbox, 1, QuoteSize) \in Seq([m : Nat, k : Nat])
        /\ Len(SubSeq(inbox, 1, QuoteSize)) = QuoteSize
        /\ \A i \in 1 .. QuoteSize : SubSeq(inbox, 1, QuoteSize)[i] = Unit(m1, i)
    <3>1. QuoteSize \in 0 .. Len(inbox)
      BY <1>6
    <3> QED BY <1>1, <1>7, <3>1, TakeFacts
  <2>2. Whole(m1) = Units(m1, 1, QuoteSize)
    BY <1>5 DEF Whole, SizeOf
  <2>3. m1 \in Nat /\ 1 \in Nat \ {0} /\ 1 <= QuoteSize + 1 /\ QuoteSize - 1 + 1 = QuoteSize
        /\ \A i \in 1 .. QuoteSize : 1 + i - 1 = i
    BY <1>1, <1>4, <1>6
  <2> HIDE DEF m1
  <2>4. /\ Units(m1, 1, QuoteSize) \in Seq([m : Nat, k : Nat])
        /\ Len(Units(m1, 1, QuoteSize)) = QuoteSize
        /\ \A i \in 1 .. QuoteSize : Units(m1, 1, QuoteSize)[i] = Unit(m1, i)
    <3>1. /\ Units(m1, 1, QuoteSize) \in Seq([m : Nat, k : Nat])
          /\ Len(Units(m1, 1, QuoteSize)) = QuoteSize - 1 + 1
          /\ \A i \in 1 .. (QuoteSize - 1 + 1) : Units(m1, 1, QuoteSize)[i] = Unit(m1, 1 + i - 1)
      BY <2>3, <1>6, UnitsFacts
    <3> QED BY <3>1, <2>3
  <2> QED BY <2>1, <2>2, <2>4
<1>9. /\ Len(busy') = Len(busy) + 1 /\ busy'[Len(busy) + 1] = Whole(m1)
      /\ \A i \in 1 .. Len(busy) : busy'[i] = busy[i]
  <2> HIDE DEF m1
  <2> QED BY <1>1, <1>8 DEF KeepQuote
<1>10. stream' = stream
  BY DEF KeepQuote, Consume
<1> HIDE DEF m1
<1> SUFFICES ASSUME NEW i \in 1 .. Len(busy')
             PROVE  \E m \in 1 .. Len(stream) : stream[m].kind = "quote" /\ busy'[i] = Whole(m)
  BY <1>10 DEF KeptWhole, Whole
<1>11. CASE i \in 1 .. Len(busy)
  BY <1>9, <1>11 DEF Inv, KeptWhole
<1>12. CASE i \notin 1 .. Len(busy)
  <2>1. i = Len(busy) + 1
    BY <1>1, <1>9, <1>12
  <2> QED BY <2>1, <1>4, <1>5, <1>9
<1> QED BY <1>11, <1>12

\* Taking a message leaves the rest framed.
LEMMA ConsumeFraming ==
    ASSUME Inv, pc = "cut", WholeAtHead, Consume
    PROVE  Framing'
<1> DEFINE m1 == inbox[1].m
           n == SizeOf(stream, m1)
<1>1. /\ inbox \in Seq([m : Nat, k : Nat])
      /\ stream \in Seq([conn : 1 .. MaxConn, kind : Kinds])
      /\ len \in 0 .. Len(inbox) /\ unsent \in Nat
  BY DEF Inv, Sound, TypeOK
<1>2. Front(inbox, stream) /\ Follow(inbox, stream)
      /\ (~ended /\ ~shut => Complete(inbox, stream, unsent))
  BY DEF Inv, Framing, Live
<1>3. len > 0 /\ Len(inbox) > 0 /\ len <= Len(inbox)
  BY <1>1 DEF WholeAtHead
<1>4. inbox[1].k = 1
  <2>1. 1 \in 1 .. Len(inbox)
    BY <1>1, <1>3
  <2>2. inbox[1].k \in 1 .. SizeOf(stream, m1) /\ inbox[1].k <= 1
    BY <2>1, <1>2 DEF Front
  <2>3. SizeOf(stream, m1) \in Nat
    BY SizeFacts DEF SizeOf
  <2> QED BY <2>2, <2>3
<1>5. Size(KindAtHead) = n
  BY <1>4 DEF KindAtHead, SizeOf
<1>6. n <= Len(inbox)
  <2>1. n \in Nat /\ n <= len
    BY <1>5, SizeFacts DEF WholeAtHead
  <2> HIDE DEF n
  <2> QED BY <2>1, <1>1
<1>7. inbox' = SubSeq(inbox, n + 1, Len(inbox))
  BY <1>5 DEF Consume
<1>8. /\ Front(inbox', stream) /\ Follow(inbox', stream)
      /\ Complete(inbox, stream, unsent) => Complete(inbox', stream, unsent)
  BY <1>1, <1>2, <1>3, <1>6, <1>7, FramedDrop
<1>9. UNCHANGED <<pc, stream, unsent, ended, shut>>
  BY DEF Consume
<1> QED BY <1>2, <1>8, <1>9 DEF Inv, Framing, Live, SizeOf

-----------------------------------------------------------------------------
(* The actions that touch neither the buffer nor the nodes.                *)

\* Where the buffer, the socket and the nodes are left alone, only the place
\* of the thread, the alarm and the state of the connection may change.
LEMMA MoveSound ==
    ASSUME Sound,
           UNCHANGED <<stream, inbox, len, tailSize, nodeVars>>,
           pc' \in Pcs, conn' \in 0 .. MaxConn, unsent' \in Nat,
           ended' \in BOOLEAN, shut' \in BOOLEAN, handler' \in BOOLEAN, fired' \in BOOLEAN,
           timer' \in 0 .. Timeout, quiet' \in 0 .. Timeout,
           Idle'
    PROVE  Sound'
  BY DEF Sound, TypeOK, PartKept, NodesAccounted, nodeVars

\* What every such step leaves as it is.
Still == UNCHANGED <<stream, inbox, len, tailSize, nodeVars>>

LEMMA SteadySound ==
    ASSUME Sound, Still, UNCHANGED <<conn, unsent, ended, shut, alarmVars>>,
           pc' \in Pcs, Idle'
    PROVE  Sound'
  BY DEF Still, alarmVars, Sound, TypeOK, PartKept, NodesAccounted, nodeVars

\* The connection's place in the thread.
LEMMA ThreadSound ==
    ASSUME Sound,
           \/ Refused \/ Restart \/ LoginAccepted \/ LoginFailed \/ LoginShut
           \/ FindIdle \/ NoWhole \/ NullNode
    PROVE  Sound'
<1>1. Still /\ UNCHANGED <<conn, unsent, ended, shut, alarmVars>>
  BY DEF Still, netVars, Refused, Restart, LoginAccepted, LoginFailed, LoginShut,
         FindIdle, NoWhole, NullNode
<1>2. pc' \in Pcs
  BY DEF Pcs, Refused, Restart, LoginAccepted, LoginFailed, LoginShut,
         FindIdle, NoWhole, NullNode
<1>3. Idle'
  BY <1>1 DEF Still, Sound, Idle, Receiving, Open, Refused, Restart, LoginAccepted,
              LoginFailed, LoginShut, FindIdle, NoWhole, NullNode
<1> QED BY <1>1, <1>2, <1>3, SteadySound

LEMMA ConnectedSound ==
    ASSUME Sound, Connected
    PROVE  Sound'
<1>1. conn \in 0 .. MaxConn /\ MaxConn \in Nat
  BY ReceiverAssumption DEF Sound, TypeOK
<1>2. conn' \in 0 .. MaxConn /\ conn' >= 1
  BY <1>1 DEF Connected
<1>3. timer' \in 0 .. Timeout /\ quiet' \in 0 .. Timeout
      /\ handler' \in BOOLEAN /\ fired' \in BOOLEAN
  BY DEF Connected, alarmVars, Sound, TypeOK
<1>4. Idle'
  BY <1>2 DEF Connected, Sound, Idle, Receiving, Open
<1>5. pc' \in Pcs /\ unsent' \in Nat /\ ended' \in BOOLEAN /\ shut' \in BOOLEAN
      /\ UNCHANGED <<stream, inbox, len, tailSize, nodeVars>>
  BY DEF Connected, Pcs
<1> QED BY <1>2, <1>3, <1>4, <1>5, MoveSound

\* The alarm and its handler.
LEMMA AlarmSound ==
    ASSUME Sound, InstallHandler \/ ArmAlarm \/ IgnoreAlarm \/ Tick \/ HandleHeartBeat
    PROVE  Sound'
<1>1. /\ timer \in 0 .. Timeout /\ quiet \in 0 .. Timeout /\ Timeout \in Nat \ {0}
      /\ conn \in 0 .. MaxConn /\ unsent \in Nat /\ pc \in Pcs
      /\ ended \in BOOLEAN /\ shut \in BOOLEAN /\ handler \in BOOLEAN /\ fired \in BOOLEAN
  BY ReceiverAssumption DEF Sound, TypeOK
<1>2. timer' \in 0 .. Timeout /\ quiet' \in 0 .. Timeout
  BY <1>1 DEF InstallHandler, ArmAlarm, IgnoreAlarm, Tick, HandleHeartBeat
<1>3. UNCHANGED <<stream, inbox, len, tailSize, nodeVars, conn, unsent, ended>>
  BY DEF InstallHandler, ArmAlarm, IgnoreAlarm, Tick, HandleHeartBeat, netVars
<1>4. pc' \in Pcs
  BY <1>1 DEF InstallHandler, ArmAlarm, IgnoreAlarm, Tick, HandleHeartBeat, Pcs
<1>5. shut' \in BOOLEAN /\ handler' \in BOOLEAN /\ fired' \in BOOLEAN
  BY <1>1, Zenon DEF InstallHandler, ArmAlarm, IgnoreAlarm, Tick, HandleHeartBeat, netVars
<1>6. Idle'
  BY <1>3 DEF Sound, Idle, Receiving, Open, InstallHandler, ArmAlarm, IgnoreAlarm, Tick,
              HandleHeartBeat
<1> QED BY <1>1, <1>2, <1>3, <1>4, <1>5, <1>6, MoveSound

LEMMA CloseSound ==
    ASSUME Sound, Close
    PROVE  Sound' /\ inbox' = <<>>
<1>1. len = 0 /\ len' = 0 /\ inbox \in Seq([m : Nat, k : Nat])
  BY DEF Close, Sound, TypeOK, Idle, Receiving
<1>2. inbox' = SubSeq(inbox, 1, 0)
  BY <1>1 DEF Close
<1>3. inbox' = <<>>
  BY <1>1, <1>2
<1>4. inbox' \in Seq([m : Nat, k : Nat]) /\ len' \in 0 .. Len(inbox')
  BY <1>1, <1>3
<1>5. pc' \in Pcs /\ UNCHANGED <<conn, stream, unsent, tailSize, ended, shut, nodeVars, alarmVars>>
  BY DEF Close, Pcs
<1>6. TypeOK'
  BY <1>4, <1>5 DEF Sound, TypeOK, nodeVars, alarmVars
<1>7. PartKept' /\ NodesAccounted' /\ Idle'
  BY <1>1, <1>5 DEF Close, Sound, PartKept, NodesAccounted, Idle, nodeVars, Open
<1> QED BY <1>3, <1>6, <1>7 DEF Sound

LEMMA ServerClosesSound ==
    ASSUME Sound, ServerCloses
    PROVE  Sound'
<1> DEFINE U == [m : Nat, k : Nat]
<1>1. inbox \in Seq(U) /\ len \in 0 .. Len(inbox)
  BY DEF Sound, TypeOK
<1> HIDE DEF U
<1>2. SubSeq(inbox, 1, len) \in Seq(U) /\ Len(SubSeq(inbox, 1, len)) = len
  BY <1>1, TakeFacts
<1>3. inbox' = inbox \/ inbox' = SubSeq(inbox, 1, len)
  BY DEF ServerCloses
<1>4. inbox' \in Seq(U) /\ len \in 0 .. Len(inbox')
  BY <1>1, <1>2, <1>3
<1>5. ended' = TRUE /\ UNCHANGED <<pc, conn, stream, unsent, len, tailSize, shut, nodeVars, alarmVars>>
  BY DEF ServerCloses
<1>6. TypeOK'
  BY <1>4, <1>5 DEF U, Sound, TypeOK, nodeVars, alarmVars
<1>7. PartKept' /\ NodesAccounted' /\ Idle'
  BY <1>5 DEF Sound, PartKept, NodesAccounted, Idle, nodeVars, Receiving, Open
<1> QED BY <1>6, <1>7 DEF Sound

LEMMA UnchangedSound ==
    ASSUME Sound, UNCHANGED vars
    PROVE  Sound'
  BY DEF vars, netVars, nodeVars, alarmVars, Sound, TypeOK, PartKept, NodesAccounted,
         Idle, Receiving, Open

-----------------------------------------------------------------------------
(* The framing, action by action.                                          *)

LEMMA QuietFraming ==
    ASSUME Inv,
           \/ Connected \/ Refused \/ Restart \/ LoginAccepted \/ LoginFailed \/ LoginShut
           \/ InstallHandler \/ ArmAlarm \/ FindIdle \/ NoWhole \/ NullNode \/ IgnoreAlarm
           \/ Tick \/ HandleHeartBeat \/ RBRecv \/ UNCHANGED vars
    PROVE  Framing'
<1>1. UNCHANGED <<stream, inbox>>
  BY DEF vars, netVars, Connected, Refused, Restart, LoginAccepted, LoginFailed, LoginShut,
         InstallHandler, ArmAlarm, FindIdle, NoWhole, NullNode, IgnoreAlarm, Tick,
         HandleHeartBeat, RBRecv
<1> USE DEF Inv, Framing, Live
<1>2. CASE Connected
  BY <1>1, <1>2 DEF Connected
<1>3. CASE LoginAccepted
  <2>1. inbox = <<>> /\ unsent = 0 /\ inbox' = <<>> /\ unsent' = 0
        /\ stream' = stream /\ pc' = "handler"
    BY <1>1, <1>3 DEF LoginAccepted, netVars
  <2> QED BY <2>1, FramedEmpty
<1>4. CASE HandleHeartBeat \/ Tick
  BY <1>1, <1>4 DEF HandleHeartBeat, Tick, netVars
<1>5. CASE Refused \/ Restart \/ LoginFailed \/ LoginShut \/ NullNode \/ IgnoreAlarm
  BY <1>1, <1>5 DEF Refused, Restart, LoginFailed, LoginShut, NullNode, IgnoreAlarm, netVars
<1>6. CASE InstallHandler \/ ArmAlarm \/ FindIdle \/ NoWhole \/ RBRecv
  BY <1>1, <1>6 DEF InstallHandler, ArmAlarm, FindIdle, NoWhole, RBRecv, netVars
<1>7. CASE UNCHANGED vars
  BY <1>7 DEF vars, netVars
<1> QED BY <1>2, <1>3, <1>4, <1>5, <1>6, <1>7

LEMMA GiveUpFraming ==
    ASSUME Inv, GiveUp, UNCHANGED <<stream, unsent>>
    PROVE  Framing'
  BY DEF Inv, Framing, Live, GiveUp

LEMMA CloseFraming ==
    ASSUME Inv, Close
    PROVE  Framing'
<1>1. inbox' = <<>>
  BY CloseSound DEF Inv
<1>2. pc' = "ignore" /\ UNCHANGED <<stream, unsent>>
  BY DEF Close
<1> QED BY <1>1, <1>2 DEF Inv, Framing, Live

LEMMA ServerSendsFraming ==
    ASSUME Inv, ServerSends
    PROVE  Framing'
<1> DEFINE S == [conn : 1 .. MaxConn, kind : Kinds]
<1>1. PICK kind \in Kinds : \E n \in 1 .. Size(kind) :
         /\ stream' = Append(stream, [conn |-> conn, kind |-> kind])
         /\ inbox' = inbox \o Units(Len(stream) + 1, 1, n)
         /\ unsent' = Size(kind) - n
  BY DEF ServerSends
<1>2. PICK n \in 1 .. Size(kind) :
         /\ stream' = Append(stream, [conn |-> conn, kind |-> kind])
         /\ inbox' = inbox \o Units(Len(stream) + 1, 1, n)
         /\ unsent' = Size(kind) - n
  BY <1>1
<1> DEFINE e == [conn |-> conn, kind |-> kind]
<1>3. stream \in Seq(S) /\ e \in S /\ e.kind = kind
      /\ inbox \in Seq([m : Nat, k : Nat])
  BY ReceiverAssumption DEF Inv, Sound, TypeOK, Idle, ServerSends, Writable
<1>4. UNCHANGED <<pc, ended, shut>> /\ unsent = 0 /\ ~ended /\ ~shut /\ Open
  BY DEF ServerSends, Writable
<1>5. stream' = Append(stream, e) /\ inbox' = inbox \o Units(Len(stream) + 1, 1, n)
      /\ unsent' = Size(e.kind) - n /\ n \in 1 .. Size(e.kind)
  BY <1>2, <1>3
<1> HIDE DEF S, e
<1>6. Len(stream') = Len(stream) + 1 /\ stream'[Len(stream')] = e /\ Len(stream) \in Nat
  BY <1>3, <1>5
<1>7. Len(stream') > 0 /\ unsent' <= SizeOf(stream', Len(stream'))
  <2>1. Size(e.kind) \in Nat /\ SizeOf(stream', Len(stream')) = Size(e.kind)
    BY <1>6, SizeFacts DEF SizeOf
  <2> QED BY <2>1, <1>5, <1>6
<1>8. Live => Front(inbox', stream') /\ Follow(inbox', stream')
              /\ Complete(inbox', stream', unsent')
  <2> SUFFICES ASSUME Live
               PROVE  Front(inbox', stream') /\ Follow(inbox', stream')
                      /\ Complete(inbox', stream', unsent')
    OBVIOUS
  <2>1. Front(inbox, stream) /\ Follow(inbox, stream) /\ Complete(inbox, stream, 0)
    BY <1>4 DEF Inv, Framing
  <2> QED BY <2>1, <1>3, <1>5, FramedNew
<1> QED BY <1>4, <1>7, <1>8 DEF Framing, Live, Open

LEMMA ServerGoesOnFraming ==
    ASSUME Inv, ServerGoesOn
    PROVE  Framing'
<1>1. /\ stream \in Seq([conn : 1 .. MaxConn, kind : Kinds])
      /\ inbox \in Seq([m : Nat, k : Nat]) /\ unsent \in Nat /\ unsent > 0
  BY DEF Inv, Sound, TypeOK, ServerGoesOn
<1>2. UNCHANGED <<pc, stream, ended, shut>> /\ unsent' = 0 /\ ~ended /\ ~shut /\ Open
  BY DEF ServerGoesOn, Writable
<1>3. Len(stream) > 0 /\ unsent <= SizeOf(stream, Len(stream))
  BY <1>1 DEF Inv, Framing
<1>4. inbox' = inbox \o Units(Len(stream), SizeOf(stream, Len(stream)) - unsent + 1,
                              SizeOf(stream, Len(stream)))
  BY DEF ServerGoesOn, SizeOf
<1>5. Live => Front(inbox', stream) /\ Follow(inbox', stream) /\ Complete(inbox', stream, 0)
  <2> SUFFICES ASSUME Live
               PROVE  Front(inbox', stream) /\ Follow(inbox', stream)
                      /\ Complete(inbox', stream, 0)
    OBVIOUS
  <2>1. Front(inbox, stream) /\ Follow(inbox, stream) /\ Complete(inbox, stream, unsent)
    BY <1>2 DEF Inv, Framing
  <2> QED BY <2>1, <1>1, <1>3, <1>4, FramedRest
<1> QED BY <1>2, <1>5 DEF Framing, Live, Open

LEMMA ElementFacts ==
    ASSUME NEW S, NEW q \in Seq(S), NEW i \in 1 .. Len(q)
    PROVE  q[i] \in S
  OBVIOUS

LEMMA ServerClosesFraming ==
    ASSUME Inv, ServerCloses
    PROVE  Framing'
<1>1. inbox \in Seq([m : Nat, k : Nat]) /\ len \in 0 .. Len(inbox)
  BY DEF Inv, Sound, TypeOK
<1>2. UNCHANGED <<pc, stream, unsent>> /\ ended' = TRUE /\ Open
      /\ (inbox' = inbox \/ inbox' = SubSeq(inbox, 1, len))
  BY DEF ServerCloses
<1>3. Live => Front(inbox', stream) /\ Follow(inbox', stream)
  <2> SUFFICES ASSUME Live PROVE Front(inbox', stream) /\ Follow(inbox', stream)
    OBVIOUS
  <2>1. Front(inbox, stream) /\ Follow(inbox, stream)
    BY DEF Inv, Framing
  <2>2. ASSUME NEW i \in 1 .. Len(inbox) PROVE inbox[i].k \in Nat
    <3>1. inbox[i] \in [m : Nat, k : Nat]
      BY <1>1, ElementFacts
    <3> QED BY <3>1
  <2> QED BY <2>1, <2>2, <1>1, <1>2, FramedPrefix
<1> QED BY <1>2, <1>3 DEF Inv, Framing, Live, Open, SizeOf

-----------------------------------------------------------------------------
(* Every step keeps the invariant.                                         *)

LEMMA NextSound ==
    ASSUME Inv, [Next]_vars
    PROVE  Sound'
<1> USE DEF Inv
<1>1. CASE Connected
  BY <1>1, ConnectedSound
<1>2. CASE \/ Refused \/ Restart \/ LoginAccepted \/ LoginFailed \/ LoginShut
           \/ FindIdle \/ NoWhole \/ NullNode
  BY <1>2, ThreadSound
<1>3. CASE InstallHandler \/ ArmAlarm \/ IgnoreAlarm \/ Tick \/ HandleHeartBeat
  BY <1>3, AlarmSound
<1>4. CASE RBRecv
  BY <1>4, RBRecvSound
<1>5. CASE RBRecvFails \/ NoIdle \/ BadMessage
  <2>1. GiveUp /\ Receiving
        /\ UNCHANGED <<conn, stream, unsent, ended, shut, nodeVars, alarmVars>>
    BY <1>5 DEF RBRecvFails, NoIdle, BadMessage, Receiving
  <2> QED BY <2>1, GiveUpSound
<1>6. CASE KeepQuote
  BY <1>6, KeepQuoteSound
<1>7. CASE SkipLarge
  BY <1>7, SkipLargeSound
<1>8. CASE DropHeartbeat
  <2>1. pc = "cut" /\ WholeAtHead /\ Consume /\ Rearm /\ UNCHANGED <<idle, busy, wasted>>
    BY <1>8 DEF DropHeartbeat, nodeVars
  <2>2. idle' \in 0 .. Nodes /\ wasted' \in 0 .. Nodes
        /\ busy' \in Seq(Seq([m : Nat, k : Nat])) /\ NodesAccounted'
    BY <2>1 DEF Sound, TypeOK, NodesAccounted
  <2> QED BY <2>1, <2>2, HandledSound
<1>9. CASE Close
  BY <1>9, CloseSound
<1>10. CASE ServerSends
  BY <1>10, ServerSendsSound
<1>11. CASE ServerGoesOn
  <2>1. unsent <= Size(stream[Len(stream)].kind)
    BY <1>11 DEF Framing, SizeOf, ServerGoesOn
  <2> QED BY <1>11, <2>1, ServerGoesOnSound
<1>12. CASE ServerCloses
  BY <1>12, ServerClosesSound
<1>13. CASE UNCHANGED vars
  BY <1>13, UnchangedSound
<1> QED BY <1>1, <1>2, <1>3, <1>4, <1>5, <1>6, <1>7, <1>8, <1>9, <1>10, <1>11, <1>12, <1>13
        DEF Next, HandleQuote, Server

LEMMA NextFraming ==
    ASSUME Inv, [Next]_vars
    PROVE  Framing'
<1>1. CASE \/ Connected \/ Refused \/ Restart \/ LoginAccepted \/ LoginFailed \/ LoginShut
           \/ InstallHandler \/ ArmAlarm \/ FindIdle \/ NoWhole \/ NullNode \/ IgnoreAlarm
           \/ Tick \/ HandleHeartBeat \/ RBRecv \/ UNCHANGED vars
  BY <1>1, QuietFraming
<1>2. CASE RBRecvFails \/ NoIdle \/ BadMessage
  <2>1. GiveUp /\ UNCHANGED <<stream, unsent>>
    BY <1>2 DEF RBRecvFails, NoIdle, BadMessage
  <2> QED BY <2>1, GiveUpFraming
<1>3. CASE KeepQuote \/ SkipLarge \/ DropHeartbeat
  <2>1. pc = "cut" /\ WholeAtHead /\ Consume
    BY <1>3 DEF KeepQuote, SkipLarge, DropHeartbeat
  <2> QED BY <2>1, ConsumeFraming
<1>4. CASE Close
  BY <1>4, CloseFraming
<1>5. CASE ServerSends
  BY <1>5, ServerSendsFraming
<1>6. CASE ServerGoesOn
  BY <1>6, ServerGoesOnFraming
<1>7. CASE ServerCloses
  BY <1>7, ServerClosesFraming
<1> QED BY <1>1, <1>2, <1>3, <1>4, <1>5, <1>6, <1>7 DEF Next, HandleQuote, Server

\* Only a quote received and a message sent change the busy list and the stream.
LEMMA OthersKeep ==
    ASSUME [Next]_vars, ~KeepQuote, ~ServerSends
    PROVE  busy' = busy /\ stream' = stream
<1>1. CASE \/ Connected \/ Refused \/ Restart \/ LoginAccepted \/ LoginFailed \/ LoginShut
           \/ InstallHandler \/ ArmAlarm \/ FindIdle \/ NoWhole \/ NullNode \/ IgnoreAlarm
           \/ Tick \/ HandleHeartBeat \/ RBRecv \/ UNCHANGED vars
  BY <1>1 DEF vars, netVars, nodeVars, Connected, Refused, Restart, LoginAccepted,
         LoginFailed, LoginShut, InstallHandler, ArmAlarm, FindIdle, NoWhole, NullNode,
         IgnoreAlarm, Tick, HandleHeartBeat, RBRecv
<1>2. CASE \/ RBRecvFails \/ NoIdle \/ BadMessage \/ SkipLarge \/ DropHeartbeat \/ Close
           \/ ServerGoesOn \/ ServerCloses
  BY <1>2 DEF nodeVars, RBRecvFails, NoIdle, BadMessage, SkipLarge, DropHeartbeat, Consume,
         Close, ServerGoesOn, ServerCloses
<1> QED BY <1>1, <1>2 DEF Next, HandleQuote, Server

LEMMA NextKept ==
    ASSUME Inv, [Next]_vars
    PROVE  KeptWhole'
<1> USE DEF Inv
<1>1. CASE KeepQuote
  BY <1>1, KeepQuoteInv
<1>2. CASE ServerSends
  <2>1. busy' = busy /\ \E e : stream' = Append(stream, e)
    BY <1>2 DEF ServerSends, nodeVars
  <2> QED BY <2>1, KeptWholeStable
<1>3. CASE ~KeepQuote /\ ~ServerSends
  <2>1. busy' = busy /\ stream' = stream
    BY <1>3, OthersKeep
  <2> QED BY <2>1, KeptWholeStable
<1> QED BY <1>1, <1>2, <1>3

LEMMA NextInv == Inv /\ [Next]_vars => Inv'
  BY NextSound, NextFraming, NextKept DEF Inv

\* The invariant holds in every reachable state.
LEMMA Invariant == Spec => []Inv
  BY InitInv, NextInv, PTL DEF Spec

\* The buffer never holds more than it has room for, and every variable has its
\* type, for every size of the buffer and of the messages.
THEOREM TypeCorrect == Spec => []TypeOK
<1>1. Inv => TypeOK
  BY DEF Inv, Sound
<1> QED BY <1>1, Invariant, PTL

\* recv never writes over a part of a message that waits for its rest.
THEOREM PartIsKept == Spec => []PartKept
<1>1. Inv => PartKept
  BY DEF Inv, Sound
<1> QED BY <1>1, Invariant, PTL

\* No node is on two lists, and none is lost but for a large quote.
THEOREM NodesAreAccounted == Spec => []NodesAccounted
<1>1. Inv => NodesAccounted
  BY DEF Inv, Sound
<1> QED BY <1>1, Invariant, PTL

\* However the stream is cut by recv, and wherever a connection is lost, a node
\* on the busy list holds one whole quote.
THEOREM KeptAreWhole == Spec => []KeptWhole
<1>1. Inv => KeptWhole
  BY DEF Inv
<1> QED BY <1>1, Invariant, PTL

-----------------------------------------------------------------------------
(* The order of what is kept.                                              *)

KeptNow(m) == \E b \in DOMAIN busy : busy[b][1].m = m
Held(m) == \E i \in DOMAIN inbox : inbox[i].m = m

\* Units are in the order the server sends them.
Ordered(q) ==
    \A i, j \in DOMAIN q : i < j =>
        q[i].m < q[j].m \/ (q[i].m = q[j].m /\ q[i].k < q[j].k)

\* A message has the number of the connection it is sent on: none is of a
\* connection to come, or of one that waits for its login.
Conns ==
    \A m \in DOMAIN stream : stream[m].conn <= conn /\ (pc = "login" => stream[m].conn < conn)

\* What is unread is of this connection, and later than everything kept.
Ahead ==
    \A i \in DOMAIN inbox :
        /\ stream[inbox[i].m].conn = conn
        /\ \A b \in DOMAIN busy : busy[b][1].m < inbox[i].m

\* The server can still write, or a message as late as this one has come.
Reached(m) == (~ended /\ ~shut) \/ \E i \in DOMAIN inbox : m <= inbox[i].m

\* Of this connection's quotes, as far as its messages have come, each is kept
\* or unread.
NoneMissed ==
    \A m \in DOMAIN stream :
        stream[m].kind = "quote" /\ stream[m].conn = conn /\ Reached(m)
            => KeptNow(m) \/ Held(m)

Progress == Conns /\ (Live => Ordered(inbox) /\ Ahead /\ NoneMissed)

\* The types the steps below need.
LEMMA InvTypes ==
    ASSUME Inv
    PROVE  /\ inbox \in Seq([m : Nat, k : Nat]) /\ Len(inbox) \in Nat
           /\ DOMAIN inbox = 1 .. Len(inbox)
           /\ \A i \in DOMAIN inbox : inbox[i].m \in Nat /\ inbox[i].k \in Nat
           /\ stream \in Seq([conn : 1 .. MaxConn, kind : Kinds]) /\ Len(stream) \in Nat
           /\ DOMAIN stream = 1 .. Len(stream)
           /\ \A m \in DOMAIN stream : stream[m].conn \in Nat
           /\ busy \in Seq(Seq([m : Nat, k : Nat])) /\ Len(busy) \in Nat
           /\ DOMAIN busy = 1 .. Len(busy)
           /\ conn \in Nat /\ len \in 0 .. Len(inbox)
<1>1. /\ inbox \in Seq([m : Nat, k : Nat])
      /\ stream \in Seq([conn : 1 .. MaxConn, kind : Kinds])
      /\ busy \in Seq(Seq([m : Nat, k : Nat]))
      /\ conn \in 0 .. MaxConn /\ len \in 0 .. Len(inbox)
  BY DEF Inv, Sound, TypeOK
<1>a. DOMAIN inbox = 1 .. Len(inbox) /\ DOMAIN stream = 1 .. Len(stream)
  BY <1>1
<1>2. \A i \in DOMAIN inbox : inbox[i].m \in Nat /\ inbox[i].k \in Nat
  <2>1. ASSUME NEW i \in DOMAIN inbox PROVE inbox[i] \in [m : Nat, k : Nat]
    BY <1>a, <1>1, <2>1, ElementFacts
  <2> QED BY <2>1
<1>3. \A m \in DOMAIN stream : stream[m].conn \in Nat
  <2>1. ASSUME NEW m \in DOMAIN stream
        PROVE  stream[m] \in [conn : 1 .. MaxConn, kind : Kinds]
    BY <1>a, <1>1, <2>1, ElementFacts
  <2> QED BY <2>1, ReceiverAssumption
<1> QED BY <1>1, <1>2, <1>3, ReceiverAssumption

\* The first unit of a kept quote names a quote of the stream.
LEMMA KeptFirst ==
    ASSUME Inv, NEW b \in DOMAIN busy
    PROVE  busy[b][1].m \in 1 .. Len(stream) /\ stream[busy[b][1].m].kind = "quote"
<1>1. PICK m \in 1 .. Len(stream) : stream[m].kind = "quote" /\ busy[b] = Whole(m)
  BY InvTypes DEF Inv, KeptWhole
<1>2. Whole(m) = Units(m, 1, QuoteSize)
  BY <1>1 DEF Whole, Size
<1>3. Units(m, 1, QuoteSize)[1] = Unit(m, 1)
  BY ReceiverAssumption DEF Units
<1> QED BY <1>1, <1>2, <1>3 DEF Unit

LEMMA UnitFields == \A m, k : Unit(m, k).m = m /\ Unit(m, k).k = k
  BY DEF Unit

LEMMA ProgressInit == Init => Progress /\ KeptInOrder
<1> SUFFICES ASSUME Init PROVE Progress /\ KeptInOrder
  OBVIOUS
<1>1. DOMAIN stream = {} /\ DOMAIN busy = {} /\ pc = "connect"
  BY DEF Init
<1> QED BY <1>1 DEF Progress, Conns, Live, KeptInOrder

\* Steps that neither send, nor consume, nor keep.
LEMMA QuietProgress ==
    ASSUME Inv, Progress,
           \/ Connected \/ Refused \/ Restart \/ LoginAccepted \/ LoginFailed \/ LoginShut
           \/ InstallHandler \/ ArmAlarm \/ FindIdle \/ NoWhole \/ NullNode \/ IgnoreAlarm
           \/ Tick \/ HandleHeartBeat \/ RBRecv \/ UNCHANGED vars
    PROVE  Progress'
<1>1. UNCHANGED <<stream, inbox, busy>>
  BY DEF vars, netVars, nodeVars, Connected, Refused, Restart, LoginAccepted, LoginFailed,
         LoginShut, InstallHandler, ArmAlarm, FindIdle, NoWhole, NullNode, IgnoreAlarm,
         Tick, HandleHeartBeat, RBRecv
<1>2. CASE Connected
  <2>1. conn' = conn + 1 /\ pc' = "login"
    BY <1>2 DEF Connected
  <2>2. \A m \in DOMAIN stream : stream[m].conn < conn + 1
    BY InvTypes DEF Progress, Conns
  <2>3. \A m \in DOMAIN stream : stream[m].conn <= conn + 1
    BY InvTypes DEF Progress, Conns
  <2> QED BY <1>1, <2>1, <2>2, <2>3 DEF Progress, Conns, Live
<1>3. CASE LoginAccepted
  <2>1. pc = "login" /\ pc' = "handler" /\ inbox = <<>> /\ conn' = conn
    BY <1>3 DEF LoginAccepted, netVars, Inv, Framing
  <2>2. \A m \in DOMAIN stream : stream[m].conn < conn /\ stream[m].conn # conn
    BY <2>1, InvTypes DEF Progress, Conns
  <2>3. Conns' /\ NoneMissed'
    BY <1>1, <2>1, <2>2 DEF Progress, Conns, NoneMissed
  <2>4. Ordered(inbox)' /\ Ahead'
    BY <1>1, <2>1 DEF Ordered, Ahead
  <2> QED BY <2>3, <2>4 DEF Progress
<1>4. CASE ~Connected /\ ~LoginAccepted
  <2>1. /\ conn' = conn /\ ended' = ended /\ (~shut' => ~shut)
        /\ (pc' \in {"login"} => pc = "login")
        /\ (Live' => Live)
    <3>1. CASE Tick \/ UNCHANGED vars
      BY <3>1 DEF Tick, vars, netVars, Live
    <3>3. CASE HandleHeartBeat
      <4>1. shut => shut'
        BY <3>3, Zenon DEF HandleHeartBeat
      <4> QED BY <3>3, <4>1 DEF HandleHeartBeat, Live
    <3>2. CASE \/ Refused \/ Restart \/ LoginFailed \/ LoginShut \/ InstallHandler \/ ArmAlarm
               \/ FindIdle \/ NoWhole \/ NullNode \/ IgnoreAlarm \/ RBRecv
      BY <3>2 DEF Refused, Restart, LoginFailed, LoginShut, InstallHandler, ArmAlarm,
                  FindIdle, NoWhole, NullNode, IgnoreAlarm, RBRecv, netVars, Live
    <3> QED BY <1>4, <3>1, <3>2, <3>3
  <2>2. Conns'
    BY <1>1, <2>1 DEF Progress, Conns
  <2>3. Live' => Ordered(inbox)' /\ Ahead'
    BY <1>1, <2>1 DEF Progress, Ordered, Ahead
  <2>4. Live' => NoneMissed'
    BY <1>1, <2>1 DEF Progress, NoneMissed, Reached, KeptNow, Held
  <2> QED BY <2>2, <2>3, <2>4 DEF Progress
<1> QED BY <1>2, <1>3, <1>4

\* Leaving the loop of recvQuotePackage.
LEMMA LeaveProgress ==
    ASSUME Inv, Progress, RBRecvFails \/ NoIdle \/ BadMessage \/ Close
    PROVE  Progress'
<1>1. pc' \in {"close", "ignore"} /\ UNCHANGED <<stream, conn>>
  BY DEF RBRecvFails, NoIdle, BadMessage, Close, GiveUp
<1> QED BY <1>1 DEF Progress, Conns, Live

\* What Consume takes is the first message, and everything behind it is later.
LEMMA ConsumeFacts ==
    ASSUME Inv, Progress, pc = "cut", WholeAtHead, Consume, NEW h, h = inbox[1].m
    PROVE  \E n \in Nat \ {0} :
              /\ n <= Len(inbox) /\ Len(inbox') = Len(inbox) - n
              /\ DOMAIN inbox' = 1 .. (Len(inbox) - n)
              /\ \A i \in DOMAIN inbox' :
                    i + n \in DOMAIN inbox /\ inbox'[i] = inbox[i + n] /\ h < inbox'[i].m
              /\ \A j \in 1 .. n : inbox[j].m = h
              /\ h \in DOMAIN stream /\ KindAtHead = stream[h].kind
<1>0. PICK n : n = SizeOf(stream, h)
  OBVIOUS
<1>1. Front(inbox, stream) /\ Follow(inbox, stream) /\ Ordered(inbox)
  BY DEF Inv, Framing, Progress, Live
<1>2. n \in Nat \ {0}
  BY <1>0, SizeFacts DEF SizeOf
<1>3. len > 0 /\ Len(inbox) > 0 /\ len <= Len(inbox) /\ len \in Nat
  BY InvTypes DEF WholeAtHead
<1>4. inbox[1].k = 1 /\ h \in 1 .. Len(stream)
  <2>1. 1 \in 1 .. Len(inbox)
    BY <1>3, InvTypes
  <2>2. h \in 1 .. Len(stream) /\ inbox[1].k \in 1 .. SizeOf(stream, h) /\ inbox[1].k <= 1
    BY <2>1, <1>1 DEF Front
  <2> QED BY <2>2, <1>0, <1>2
<1>5. KindAtHead = stream[h].kind /\ Size(KindAtHead) = n
  BY <1>0, <1>4 DEF KindAtHead, SizeOf
<1>6. n <= Len(inbox)
  BY <1>2, <1>3, <1>5, InvTypes DEF WholeAtHead
<1>7. \A j \in 1 .. n : inbox[j] = Unit(h, j)
  BY <1>0, <1>1, <1>3, <1>6, InvTypes, FramedDrop
<1>8. inbox' = SubSeq(inbox, n + 1, Len(inbox))
  BY <1>5 DEF Consume
<1>9. /\ inbox' \in Seq([m : Nat, k : Nat]) /\ Len(inbox') = Len(inbox) - n
      /\ \A i \in 1 .. Len(inbox') : inbox'[i] = inbox[i + n]
  <2>1. n \in 0 .. Len(inbox)
    BY <1>2, <1>6, InvTypes
  <2>2. inbox \in Seq([m : Nat, k : Nat])
    BY InvTypes
  <2>3. LET r == SubSeq(inbox, n + 1, Len(inbox))
        IN  /\ r \in Seq([m : Nat, k : Nat]) /\ Len(r) = Len(inbox) - n
            /\ \A i \in 1 .. Len(r) : r[i] = inbox[i + n]
    BY <2>1, <2>2, DropFacts, Zenon
  <2> QED BY <1>8, <2>3, Zenon
<1>10. DOMAIN inbox' = 1 .. (Len(inbox) - n)
  BY <1>9
<1>11. ASSUME NEW i \in DOMAIN inbox'
       PROVE  i + n \in DOMAIN inbox /\ inbox'[i] = inbox[i + n] /\ h < inbox'[i].m
  <2> PICK L \in Nat : L = Len(inbox) /\ DOMAIN inbox = 1 .. L
    BY InvTypes
  <2>a. i + n \in 1 .. L /\ n \in 1 .. L /\ n \in 1 .. n /\ n < i + n
    BY <1>2, <1>6, <1>10
  <2>1. i + n \in DOMAIN inbox /\ inbox'[i] = inbox[i + n] /\ n \in DOMAIN inbox /\ n < i + n
    BY <1>9, <1>10, <2>a
  <2>2. inbox[n].m = h /\ inbox[n].k = n
    BY <1>7, <2>a, UnitFields
  <2>3. h < inbox[i + n].m \/ (h = inbox[i + n].m /\ n < inbox[i + n].k)
    BY <1>1, <2>1, <2>2 DEF Ordered
  <2>4. inbox[i + n].k \in 1 .. SizeOf(stream, inbox[i + n].m)
    BY <1>1, <2>1, InvTypes DEF Front
  <2>5. ~(h = inbox[i + n].m /\ n < inbox[i + n].k)
    BY <1>0, <1>2, <2>4
  <2> QED BY <2>1, <2>3, <2>5
<1>12. \A j \in 1 .. n : inbox[j].m = h
  BY <1>7, UnitFields
<1> QED BY <1>2, <1>4, <1>5, <1>6, <1>9, <1>10, <1>11, <1>12, InvTypes

\* The node put on the busy list holds the first message.
LEMMA KeepFacts ==
    ASSUME Inv, KeepQuote, NEW h, h = inbox[1].m
    PROVE  /\ DOMAIN busy' = 1 .. (Len(busy) + 1) /\ busy'[Len(busy) + 1][1].m = h
           /\ \A b \in 1 .. Len(busy) : b \in 1 .. (Len(busy) + 1) /\ busy'[b] = busy[b]
           /\ \A b \in 1 .. (Len(busy) + 1) : b \in 1 .. Len(busy) \/ b = Len(busy) + 1
           /\ Len(busy) + 1 \in DOMAIN busy'
<1> DEFINE q == SubSeq(inbox, 1, QuoteSize)
<1>1. QuoteSize \in Nat \ {0} /\ len >= QuoteSize
  BY ReceiverAssumption DEF KeepQuote, WholeAtHead, Size
<1>2. QuoteSize \in 0 .. Len(inbox) /\ 1 \in 1 .. QuoteSize
  BY <1>1, InvTypes
<1>3. q \in Seq([m : Nat, k : Nat]) /\ q[1].m = h
  BY <1>2, InvTypes, TakeFacts
<1> HIDE DEF q
<1>4. busy' = Append(busy, q)
  BY DEF KeepQuote, q
<1>5. /\ DOMAIN busy' = 1 .. (Len(busy) + 1) /\ busy'[Len(busy) + 1] = q
      /\ \A b \in 1 .. Len(busy) : b \in 1 .. (Len(busy) + 1) /\ busy'[b] = busy[b]
  <2>1. busy \in Seq(Seq([m : Nat, k : Nat]))
    BY InvTypes
  <2>2. /\ DOMAIN Append(busy, q) = 1 .. (Len(busy) + 1)
        /\ Append(busy, q)[Len(busy) + 1] = q
        /\ \A b \in 1 .. Len(busy) :
              b \in 1 .. (Len(busy) + 1) /\ Append(busy, q)[b] = busy[b]
    BY <1>3, <2>1, AppendFacts
  <2> QED BY <1>4, <2>2, Zenon
<1>6. /\ \A b \in 1 .. (Len(busy) + 1) : b \in 1 .. Len(busy) \/ b = Len(busy) + 1
      /\ Len(busy) + 1 \in DOMAIN busy'
  <2>1. Len(busy) \in Nat
    BY InvTypes
  <2> QED BY <1>5, <2>1, LastOne, Zenon
<1> QED BY <1>3, <1>5, <1>6

\* Consuming, whether the message is kept or only dropped.
LEMMA ConsumeProgress ==
    ASSUME Inv, Progress, KeepQuote \/ SkipLarge \/ DropHeartbeat
    PROVE  Progress'
<1>1. /\ pc = "cut" /\ WholeAtHead /\ Consume
      /\ UNCHANGED <<pc, conn, stream, ended, shut>>
  BY DEF KeepQuote, SkipLarge, DropHeartbeat, Consume
<1> PICK h : h = inbox[1].m
  OBVIOUS
<1>2. PICK n \in Nat \ {0} :
         /\ n <= Len(inbox) /\ Len(inbox') = Len(inbox) - n
         /\ DOMAIN inbox' = 1 .. (Len(inbox) - n)
         /\ \A i \in DOMAIN inbox' :
               i + n \in DOMAIN inbox /\ inbox'[i] = inbox[i + n] /\ h < inbox'[i].m
         /\ \A j \in 1 .. n : inbox[j].m = h
         /\ h \in DOMAIN stream /\ KindAtHead = stream[h].kind
  BY <1>1, ConsumeFacts
<1>3. Ordered(inbox) /\ Ahead /\ NoneMissed /\ Live
  BY <1>1 DEF Progress, Live
<1>4. /\ Len(busy) \in Nat /\ DOMAIN busy = 1 .. Len(busy)
      /\ \A b \in DOMAIN busy : b \in DOMAIN busy' /\ busy'[b] = busy[b]
      /\ \A b \in DOMAIN busy' : b \in DOMAIN busy \/ busy'[b][1].m = h
      /\ stream[h].kind = "quote" => \E b \in DOMAIN busy' : busy'[b][1].m = h
  <2>1. CASE KeepQuote
    <3>1. /\ DOMAIN busy' = 1 .. (Len(busy) + 1) /\ busy'[Len(busy) + 1][1].m = h
          /\ \A b \in 1 .. Len(busy) : b \in 1 .. (Len(busy) + 1) /\ busy'[b] = busy[b]
          /\ \A b \in 1 .. (Len(busy) + 1) : b \in 1 .. Len(busy) \/ b = Len(busy) + 1
          /\ Len(busy) + 1 \in DOMAIN busy'
      BY <2>1, KeepFacts
    <3> QED BY <3>1, InvTypes
  <2>2. CASE SkipLarge \/ DropHeartbeat
    <3>1. stream[h].kind # "quote" /\ busy' = busy
      BY <1>2, <2>2 DEF SkipLarge, DropHeartbeat, nodeVars
    <3> QED BY <3>1, InvTypes
  <2> QED BY <2>1, <2>2
<1>5. Conns'
  BY <1>1 DEF Progress, Conns
<1>6. Ordered(inbox')
  <2> SUFFICES ASSUME NEW i \in DOMAIN inbox', NEW j \in DOMAIN inbox', i < j
               PROVE  \/ inbox'[i].m < inbox'[j].m
                      \/ inbox'[i].m = inbox'[j].m /\ inbox'[i].k < inbox'[j].k
    BY DEF Ordered
  <2>1. i + n < j + n
    BY <1>2, InvTypes
  <2> QED BY <1>2, <1>3, <2>1 DEF Ordered
<1>7. Ahead'
  BY <1>1, <1>2, <1>3, <1>4 DEF Ahead
<1>8. NoneMissed'
  <2> SUFFICES ASSUME NEW m \in DOMAIN stream, stream[m].kind = "quote", stream[m].conn = conn,
                      Reached(m)'
               PROVE  KeptNow(m)' \/ Held(m)'
    BY <1>1 DEF NoneMissed
  <2>1. Reached(m)
    BY <1>1, <1>2 DEF Reached
  <2>2. CASE KeptNow(m)
    BY <1>4, <2>2 DEF KeptNow
  <2>3. CASE m = h
    BY <1>4, <2>3 DEF KeptNow
  <2>4. ASSUME NEW j \in DOMAIN inbox, inbox[j].m = m, m # h
        PROVE  Held(m)'
    <3> PICK L \in Nat : L = Len(inbox) /\ DOMAIN inbox = 1 .. L
      BY InvTypes
    <3>1. j \notin 1 .. n
      BY <1>2, <2>4
    <3> PICK i : i = j - n
      OBVIOUS
    <3>2. i \in 1 .. (L - n) /\ i + n = j
      BY <1>2, <3>1
    <3>3. i \in DOMAIN inbox' /\ inbox'[i] = inbox[j]
      BY <1>2, <3>2
    <3> QED BY <2>4, <3>3 DEF Held
  <2> QED BY <1>3, <2>1, <2>2, <2>3, <2>4 DEF NoneMissed, Held
<1> QED BY <1>5, <1>6, <1>7, <1>8 DEF Progress

\* The positions of what is appended.
LEMMA JoinFacts ==
    ASSUME NEW S, NEW q \in Seq(S), NEW w \in Seq(S)
    PROVE  /\ DOMAIN (q \o w) = 1 .. (Len(q) + Len(w))
           /\ \A i \in 1 .. Len(q) : (q \o w)[i] = q[i]
           /\ \A i \in 1 .. (Len(q) + Len(w)) :
                 i \notin 1 .. Len(q) =>
                     (i - Len(q) \in 1 .. Len(w) /\ (q \o w)[i] = w[i - Len(q)])
  OBVIOUS

\* A message's units after the first g of them.
LEMMA LaterUnits ==
    ASSUME NEW M \in Nat, NEW N \in Nat, NEW g \in Nat, g < N, NEW a, a = g + 1
    PROVE  /\ Units(M, a, N) \in Seq([m : Nat, k : Nat]) /\ Len(Units(M, a, N)) = N - g
           /\ \A i \in 1 .. (N - g) : Units(M, a, N)[i] = Unit(M, g + i)
<1>1. a \in Nat \ {0} /\ a <= N + 1 /\ N - a + 1 = N - g
      /\ \A i \in 1 .. (N - g) : a + i - 1 = g + i
  OBVIOUS
<1>2. /\ Units(M, a, N) \in Seq([m : Nat, k : Nat]) /\ Len(Units(M, a, N)) = N - a + 1
      /\ \A i \in 1 .. (N - a + 1) : Units(M, a, N)[i] = Unit(M, a + i - 1)
  BY <1>1, UnitsFacts
<1> QED BY <1>1, <1>2

\* What is written extends the inbox by later units of the last message.
LEMMA WriteProgress ==
    ASSUME Inv, Progress, UNCHANGED <<pc, conn, ended, shut, busy>>, ~ended, ~shut,
           conn \in Nat, NEW M \in Nat, NEW g \in Nat, NEW w \in Seq([m : Nat, k : Nat]), Len(w) > 0,
           inbox' = inbox \o w,
           \A i \in 1 .. Len(w) : w[i] = Unit(M, g + i),
           Live => Ordered(inbox) /\ \A i \in DOMAIN inbox :
              inbox[i].m < M \/ (inbox[i].m = M /\ inbox[i].k <= g),
           \A b \in DOMAIN busy : Live => busy[b][1].m < M,
           DOMAIN stream' = 1 .. M,
           stream'[M].conn <= conn, Live => stream'[M].conn = conn, pc # "login",
           \A m \in DOMAIN stream' : m # M => m \in DOMAIN stream /\ stream'[m] = stream[m],
           \A m \in DOMAIN stream : m \in DOMAIN stream' /\ stream'[m] = stream[m]
    PROVE  Progress'
<1> PICK L \in Nat : L = Len(inbox) /\ DOMAIN inbox = 1 .. L
  BY InvTypes
<1> PICK W \in Nat : W = Len(w) /\ W > 0
  OBVIOUS
<1>1. /\ DOMAIN inbox' = 1 .. (L + W)
      /\ \A i \in 1 .. L : inbox'[i] = inbox[i]
      /\ \A i \in 1 .. (L + W) :
            i \notin 1 .. L => (i - L \in 1 .. W /\ inbox'[i] = w[i - L])
  BY InvTypes, JoinFacts
<1>2. \A i \in 1 .. (L + W) :
         i \notin 1 .. L => (inbox'[i].m = M /\ inbox'[i].k = g + (i - L))
  <2> SUFFICES ASSUME NEW i \in 1 .. (L + W), i \notin 1 .. L
               PROVE  inbox'[i].m = M /\ inbox'[i].k = g + (i - L)
    OBVIOUS
  <2>1. inbox'[i] = Unit(M, g + (i - L))
    BY <1>1
  <2>2. Unit(M, g + (i - L)).m = M /\ Unit(M, g + (i - L)).k = g + (i - L)
    BY UnitFields, Zenon
  <2> QED BY <2>1, <2>2, Zenon
<1>3. Conns'
  BY DEF Progress, Conns
<1>4. ASSUME Live PROVE Ordered(inbox')
  <2> SUFFICES ASSUME NEW i \in DOMAIN inbox', NEW j \in DOMAIN inbox', i < j
               PROVE  \/ inbox'[i].m < inbox'[j].m
                      \/ inbox'[i].m = inbox'[j].m /\ inbox'[i].k < inbox'[j].k
    BY DEF Ordered
  <2>0. i \in 1 .. (L + W) /\ j \in 1 .. (L + W)
    BY <1>1
  <2>1. CASE j \in 1 .. L
    <3>1. i \in 1 .. L
      BY <2>0, <2>1
    <3>2. \/ inbox[i].m < inbox[j].m
          \/ inbox[i].m = inbox[j].m /\ inbox[i].k < inbox[j].k
      BY <1>4, <2>1, <3>1 DEF Ordered
    <3>3. inbox'[i] = inbox[i] /\ inbox'[j] = inbox[j]
      BY <1>1, <2>1, <3>1
    <3> QED BY <3>2, <3>3
  <2>2. CASE j \notin 1 .. L /\ i \in 1 .. L
    <3>1. inbox'[j].m = M /\ inbox'[j].k = g + (j - L) /\ inbox'[i] = inbox[i]
      BY <1>1, <1>2, <2>0, <2>2, Zenon
    <3>2. inbox[i].m < M \/ (inbox[i].m = M /\ inbox[i].k <= g)
      BY <1>4, <2>2
    <3>3. inbox[i].k \in Nat
      BY <2>2, InvTypes
    <3>4. j - L \in Nat /\ j - L > 0
      BY <1>1, <2>0, <2>2
    <3>5. inbox[i].k <= g => inbox[i].k < g + (j - L)
      <4>1. \A k, d \in Nat : k <= g /\ d > 0 => k < g + d
        OBVIOUS
      <4> QED BY <3>3, <3>4, <4>1
    <3> QED BY <3>1, <3>2, <3>5
  <2>3. CASE j \notin 1 .. L /\ i \notin 1 .. L
    <3>1. inbox'[j].m = M /\ inbox'[j].k = g + (j - L) /\ inbox'[i].m = M /\ inbox'[i].k = g + (i - L)
      BY <1>2, <2>0, <2>3
    <3> QED BY <2>0, <3>1
  <2> QED BY <2>1, <2>2, <2>3
<1>5. ASSUME Live PROVE Ahead'
  <2> SUFFICES ASSUME NEW i \in 1 .. (L + W)
               PROVE  /\ stream'[inbox'[i].m].conn = conn
                      /\ \A b \in DOMAIN busy : busy[b][1].m < inbox'[i].m
    BY <1>1 DEF Ahead
  <2>1. CASE i \in 1 .. L
    <3>1. /\ stream[inbox[i].m].conn = conn /\ inbox'[i] = inbox[i]
          /\ \A b \in DOMAIN busy : busy[b][1].m < inbox[i].m
      BY <1>1, <1>5, <2>1 DEF Progress, Ahead
    <3>2. inbox[i].m \in DOMAIN stream
      BY <1>5, <2>1, InvTypes DEF Inv, Framing, Front
    <3> QED BY <3>1, <3>2
  <2>2. CASE i \notin 1 .. L
    BY <1>2, <1>5, <2>2
  <2> QED BY <2>1, <2>2
<1>6. ASSUME Live PROVE NoneMissed'
  <2> SUFFICES ASSUME NEW m \in DOMAIN stream', stream'[m].kind = "quote",
                      stream'[m].conn = conn
               PROVE  KeptNow(m)' \/ Held(m)'
    BY DEF NoneMissed
  <2>1. CASE m = M
    <3>1. L + 1 \in 1 .. (L + W) /\ L + 1 \notin 1 .. L
      OBVIOUS
    <3> QED BY <1>1, <1>2, <2>1, <3>1 DEF Held
  <2>2. CASE m # M
    <3>1. KeptNow(m) \/ Held(m)
      BY <1>6, <2>2 DEF Progress, NoneMissed, Reached
    <3>2. \A i \in 1 .. L : i \in 1 .. (L + W)
      OBVIOUS
    <3> QED BY <1>1, <3>1, <3>2 DEF KeptNow, Held
  <2> QED BY <2>1, <2>2
<1>7. Live' => Live
  BY DEF Live
<1> QED BY <1>3, <1>4, <1>5, <1>6, <1>7 DEF Progress, Ordered
LEMMA SendProgress ==
    ASSUME Inv, Progress, ServerSends
    PROVE  Progress'
<1>1. PICK kind \in Kinds : \E n \in 1 .. Size(kind) :
         /\ stream' = Append(stream, [conn |-> conn, kind |-> kind])
         /\ inbox' = inbox \o Units(Len(stream) + 1, 1, n)
         /\ unsent' = Size(kind) - n
  BY DEF ServerSends
<1>2. PICK n \in 1 .. Size(kind) :
         /\ stream' = Append(stream, [conn |-> conn, kind |-> kind])
         /\ inbox' = inbox \o Units(Len(stream) + 1, 1, n)
  BY <1>1
<1>a. PICK M \in Nat \ {0} : M = Len(stream) + 1
  BY InvTypes
<1>w. PICK w : w = Units(M, 1, n)
  OBVIOUS
<1>b. PICK g \in Nat : g = 0
  OBVIOUS
<1>e. PICK e : e = [conn |-> conn, kind |-> kind]
  OBVIOUS
<1>3. n \in Nat \ {0} /\ n - 1 + 1 = n /\ \A i \in 1 .. n : 1 + i - 1 = g + i
  BY <1>b, SizeFacts
<1>4. w \in Seq([m : Nat, k : Nat]) /\ Len(w) = n /\ \A i \in 1 .. n : w[i] = Unit(M, g + i)
  <2>a. PICK a : a = g + 1
    OBVIOUS
  <2>1. M \in Nat /\ n \in Nat /\ g \in Nat /\ g < n /\ n - g = n /\ w = Units(M, a, n)
    BY <1>3, <1>a, <1>b, <1>w, <2>a
  <2>2. /\ Units(M, a, n) \in Seq([m : Nat, k : Nat]) /\ Len(Units(M, a, n)) = n - g
        /\ \A i \in 1 .. (n - g) : Units(M, a, n)[i] = Unit(M, g + i)
    BY <2>1, <2>a, LaterUnits
  <2> QED BY <2>1, <2>2
<1>5. /\ UNCHANGED <<pc, conn, ended, shut, busy>> /\ ~ended /\ ~shut
      /\ pc # "login"
  BY DEF ServerSends, Writable, Open, nodeVars
<1>6. stream' = Append(stream, e) /\ inbox' = inbox \o w /\ e.conn = conn
  BY <1>2, <1>a, <1>e, <1>w
<1>7. /\ Len(stream') = M /\ DOMAIN stream' = 1 .. M /\ stream'[M] = e
      /\ \A m \in DOMAIN stream : m \in DOMAIN stream' /\ stream'[m] = stream[m]
      /\ \A m \in DOMAIN stream' : m # M => m \in DOMAIN stream /\ stream'[m] = stream[m]
      /\ \A m \in DOMAIN stream : m < M
  <2>1. stream \in Seq([conn : 1 .. MaxConn, kind : Kinds])
        /\ e \in [conn : 1 .. MaxConn, kind : Kinds]
    BY <1>e, ReceiverAssumption DEF Inv, Sound, TypeOK, Idle, ServerSends, Writable
  <2>2. /\ Len(stream') = M /\ DOMAIN stream' = 1 .. M /\ stream'[M] = e
        /\ DOMAIN stream = 1 .. (M - 1)
        /\ \A m \in 1 .. (M - 1) : stream'[m] = stream[m]
    BY <1>6, <1>a, <2>1
  <2> QED BY <1>a, <2>2
<1>8. Live => Ordered(inbox) /\ \A i \in DOMAIN inbox : inbox[i].m < M
  <2>1. Live => \A i \in DOMAIN inbox : inbox[i].m \in DOMAIN stream
    BY InvTypes DEF Inv, Framing, Front
  <2> QED BY <1>7, <2>1 DEF Progress
<1>9. \A b \in DOMAIN busy : Live => busy[b][1].m < M
  BY <1>7, KeptFirst, InvTypes
<1>12. Live => Ordered(inbox) /\ \A i \in DOMAIN inbox :
          inbox[i].m < M \/ (inbox[i].m = M /\ inbox[i].k <= g)
  BY <1>8
<1>13. /\ M \in Nat /\ DOMAIN stream' = 1 .. M
       /\ stream'[M].conn <= conn /\ (Live => stream'[M].conn = conn)
       /\ \A m \in DOMAIN stream' : m # M => m \in DOMAIN stream /\ stream'[m] = stream[m]
       /\ \A m \in DOMAIN stream : m \in DOMAIN stream' /\ stream'[m] = stream[m]
  <2>1. stream'[M].conn = conn /\ conn \in Nat /\ M \in Nat
    BY <1>6, <1>7, <1>a, InvTypes
  <2> QED BY <1>7, <2>1
<1>10. conn \in Nat /\ g \in Nat
  BY <1>b, InvTypes
<1>11. Len(w) > 0 /\ \A i \in 1 .. Len(w) : w[i] = Unit(M, g + i)
  BY <1>3, <1>4
<1>14. inbox' = inbox \o w
  BY <1>6
<1>15. w \in Seq([m : Nat, k : Nat])
  BY <1>4
<1> QED BY <1>5, <1>9, <1>10, <1>11, <1>12, <1>13, <1>14, <1>15, WriteProgress

\* It writes the rest of one.
LEMMA GoOnProgress ==
    ASSUME Inv, Progress, ServerGoesOn
    PROVE  Progress'
<1>a. PICK M \in Nat : M = Len(stream)
  BY InvTypes
<1>n. PICK N : N = Size(stream[M].kind)
  OBVIOUS
<1>1. unsent > 0 /\ unsent \in Nat /\ M > 0 /\ unsent <= N /\ N \in Nat \ {0}
  BY <1>a, <1>n, SizeFacts DEF ServerGoesOn, Inv, Sound, TypeOK, Framing, SizeOf
<1>g. PICK g \in Nat : g = N - unsent
  BY <1>1
<1>w. PICK w : w = Units(M, g + 1, N)
  OBVIOUS
<1>3. w \in Seq([m : Nat, k : Nat]) /\ Len(w) = unsent
      /\ \A i \in 1 .. unsent : w[i] = Unit(M, g + i)
  <2>a. PICK a : a = g + 1
    OBVIOUS
  <2>1. M \in Nat /\ N \in Nat /\ g \in Nat /\ g < N
    BY <1>1, <1>a, <1>g
  <2>2. /\ Units(M, a, N) \in Seq([m : Nat, k : Nat]) /\ Len(Units(M, a, N)) = N - g
        /\ \A i \in 1 .. (N - g) : Units(M, a, N)[i] = Unit(M, g + i)
    BY <2>1, <2>a, LaterUnits
  <2>3. w = Units(M, a, N) /\ N - g = unsent
    BY <1>1, <1>g, <1>w, <2>a
  <2> QED BY <2>2, <2>3
<1>4. /\ UNCHANGED <<pc, conn, ended, shut, busy, stream>> /\ ~ended /\ ~shut
      /\ pc # "login" /\ inbox' = inbox \o w
  BY <1>a, <1>n, <1>g, <1>w DEF ServerGoesOn, Writable, Open, nodeVars
<1>5. Live => /\ Len(inbox) > 0 /\ inbox[Len(inbox)].m = M /\ inbox[Len(inbox)].k = g
  <2>1. Live => Len(inbox) > 0 /\ inbox[Len(inbox)] = Unit(M, g)
    BY <1>1, <1>4, <1>a, <1>n, <1>g DEF Inv, Framing, Complete, SizeOf
  <2> QED BY <2>1, UnitFields
<1>6. Live => Ordered(inbox) /\ \A i \in DOMAIN inbox :
         inbox[i].m < M \/ (inbox[i].m = M /\ inbox[i].k <= g)
  <2> SUFFICES ASSUME Live, NEW i \in DOMAIN inbox
               PROVE  inbox[i].m < M \/ (inbox[i].m = M /\ inbox[i].k <= g)
    BY DEF Progress
  <2> PICK L \in Nat : L = Len(inbox) /\ DOMAIN inbox = 1 .. L
    BY InvTypes
  <2>1. L \in DOMAIN inbox /\ inbox[L].m = M /\ inbox[L].k = g
    BY <1>5
  <2>2. CASE i = L
    BY <2>1, <2>2, <1>g
  <2>3. CASE i < L
    <3>1. inbox[i].m < M \/ (inbox[i].m = M /\ inbox[i].k < g)
      BY <2>1, <2>3 DEF Progress, Ordered
    <3>2. inbox[i].k \in Nat
      BY InvTypes
    <3> QED BY <3>1, <3>2, <1>g
  <2> QED BY <2>2, <2>3
<1>7. Live => stream[M].conn = conn /\ \A b \in DOMAIN busy : busy[b][1].m < M
  <2>1. Live => Len(inbox) \in DOMAIN inbox
    BY <1>5, InvTypes
  <2> QED BY <1>5, <2>1 DEF Progress, Ahead
<1>8. DOMAIN stream = 1 .. M /\ stream[M].conn <= conn /\ conn \in Nat
  <2>1. DOMAIN stream = 1 .. M /\ M \in DOMAIN stream /\ conn \in Nat
    BY <1>1, <1>a, InvTypes
  <2> QED BY <2>1 DEF Progress, Conns
<1>9. Len(w) > 0 /\ \A i \in 1 .. Len(w) : w[i] = Unit(M, g + i)
  BY <1>1, <1>3
<1>10. /\ M \in Nat /\ DOMAIN stream' = 1 .. M
       /\ stream'[M].conn <= conn /\ (Live => stream'[M].conn = conn)
       /\ \A m \in DOMAIN stream' : m # M => m \in DOMAIN stream /\ stream'[m] = stream[m]
       /\ \A m \in DOMAIN stream : m \in DOMAIN stream' /\ stream'[m] = stream[m]
  BY <1>4, <1>7, <1>8, <1>a
<1>11. \A b \in DOMAIN busy : Live => busy[b][1].m < M
  BY <1>7
<1> QED BY <1>g, <1>3, <1>4, <1>6, <1>8, <1>9, <1>10, <1>11, WriteProgress

\* The socket's part is lost with the connection, and nothing comes after it.
LEMMA EndProgress ==
    ASSUME Inv, Progress, ServerCloses
    PROVE  Progress'
<1>1. /\ UNCHANGED <<pc, conn, stream, shut, busy>> /\ ended' = TRUE
      /\ inbox' = inbox \/ inbox' = SubSeq(inbox, 1, len)
  BY DEF ServerCloses, nodeVars
<1>2. \E n \in 0 .. Len(inbox) : /\ DOMAIN inbox' = 1 .. n
                                 /\ \A i \in 1 .. n : i \in DOMAIN inbox /\ inbox'[i] = inbox[i]
  <2>1. CASE inbox' = inbox
    <3>1. Len(inbox) \in 0 .. Len(inbox) /\ DOMAIN inbox' = 1 .. Len(inbox)
      BY <2>1, InvTypes
    <3>2. \A i \in 1 .. Len(inbox) : i \in DOMAIN inbox /\ inbox'[i] = inbox[i]
      BY <2>1, InvTypes
    <3> QED BY <3>1, <3>2
  <2>2. CASE inbox' = SubSeq(inbox, 1, len)
    <3>1. inbox' \in Seq([m : Nat, k : Nat]) /\ Len(inbox') = len
          /\ \A i \in 1 .. len : inbox'[i] = inbox[i]
      BY <2>2, TakeFacts, InvTypes
    <3>2. \A i \in 1 .. len : i \in DOMAIN inbox
      BY InvTypes
    <3>3. DOMAIN inbox' = 1 .. len /\ len \in 0 .. Len(inbox)
      BY <3>1, InvTypes
    <3> QED BY <3>1, <3>2, <3>3
  <2> QED BY <1>1, <2>1, <2>2
<1>3. PICK n \in 0 .. Len(inbox) :
         /\ DOMAIN inbox' = 1 .. n
         /\ \A i \in 1 .. n : i \in DOMAIN inbox /\ inbox'[i] = inbox[i]
  BY <1>2
<1>4. Conns'
  BY <1>1 DEF Progress, Conns
<1>5. Live' => Live
  BY <1>1 DEF Live
<1>6. Live => Ordered(inbox')
  BY <1>3 DEF Progress, Ordered
<1>7. Live => Ahead'
  BY <1>1, <1>3 DEF Progress, Ahead
<1>8. ASSUME Live PROVE NoneMissed'
  <2> SUFFICES ASSUME NEW m \in DOMAIN stream, stream[m].kind = "quote", stream[m].conn = conn,
                      NEW i \in 1 .. n, m <= inbox[i].m
               PROVE  KeptNow(m)' \/ Held(m)'
    BY <1>1, <1>3 DEF NoneMissed, Reached
  <2>1. i \in DOMAIN inbox
    BY <1>3
  <2>2. KeptNow(m) \/ Held(m)
    BY <1>8, <2>1 DEF Progress, NoneMissed, Reached
  <2>3. CASE KeptNow(m)
    BY <1>1, <2>3 DEF KeptNow
  <2>4. ASSUME NEW j \in DOMAIN inbox, inbox[j].m = m
        PROVE  Held(m)'
    <3>1. CASE j \in 1 .. n
      BY <1>3, <2>4, <3>1 DEF Held
    <3>2. CASE j \notin 1 .. n
      <4>1. i < j
        BY <3>2, InvTypes
      <4>2. inbox[i].m \in Nat /\ inbox[j].m \in Nat
        BY <2>1, <2>4, InvTypes
      <4>3. inbox[i].m < inbox[j].m \/ inbox[i].m = inbox[j].m
        BY <1>8, <2>1, <2>4, <4>1 DEF Progress, Ordered
      <4>4. inbox[i].m = m
        BY <2>4, <4>2, <4>3
      <4> QED BY <1>3, <4>4 DEF Held
    <3> QED BY <3>1, <3>2
  <2> QED BY <2>2, <2>3, <2>4 DEF Held
<1> QED BY <1>4, <1>5, <1>6, <1>7, <1>8 DEF Progress, Ordered

LEMMA NextProgress ==
    ASSUME Inv, Progress, [Next]_vars
    PROVE  Progress'
<1>1. CASE \/ Connected \/ Refused \/ Restart \/ LoginAccepted \/ LoginFailed \/ LoginShut
           \/ InstallHandler \/ ArmAlarm \/ FindIdle \/ NoWhole \/ NullNode \/ IgnoreAlarm
           \/ Tick \/ HandleHeartBeat \/ RBRecv \/ UNCHANGED vars
  BY <1>1, QuietProgress
<1>2. CASE RBRecvFails \/ NoIdle \/ BadMessage \/ Close
  BY <1>2, LeaveProgress
<1>3. CASE KeepQuote \/ SkipLarge \/ DropHeartbeat
  BY <1>3, ConsumeProgress
<1> QED BY <1>1, <1>2, <1>3, SendProgress, GoOnProgress, EndProgress
        DEF Next, HandleQuote, Server

\* The two halves of KeptInOrder.
Sorted == \A i, j \in DOMAIN busy : i < j => busy[i][1].m < busy[j][1].m
NoGap ==
    \A m, n \in DOMAIN stream :
        m < n /\ KeptNow(n) /\ stream[m].kind = "quote" /\ stream[m].conn = stream[n].conn
            => KeptNow(m)

LEMMA OrderParts == KeptInOrder <=> Sorted /\ NoGap
  BY DEF KeptInOrder, Sorted, NoGap, KeptNow

\* A quote is kept when all of its connection's earlier ones are.
LEMMA KeepOrder ==
    ASSUME Inv, Progress, Sorted, NoGap, KeepQuote
    PROVE  Sorted' /\ NoGap'
<1>1. pc = "cut" /\ WholeAtHead /\ Consume /\ stream' = stream /\ Live
  BY DEF KeepQuote, Consume, Live
<1> PICK h : h = inbox[1].m
  OBVIOUS
<1> PICK L \in Nat : L = Len(busy) /\ DOMAIN busy = 1 .. L
  BY InvTypes
<1>2. /\ DOMAIN busy' = 1 .. (L + 1) /\ busy'[L + 1][1].m = h
      /\ \A b \in 1 .. L : b \in 1 .. (L + 1) /\ busy'[b] = busy[b]
      /\ \A b \in 1 .. (L + 1) : b \in 1 .. L \/ b = L + 1
      /\ L + 1 \in DOMAIN busy'
  BY KeepFacts
<1>3. Ordered(inbox) /\ Ahead /\ NoneMissed
  BY <1>1 DEF Progress
<1>4. 1 \in DOMAIN inbox
  BY <1>1, InvTypes DEF WholeAtHead
<1>5. h \in Nat /\ stream[h].conn = conn /\ \A b \in 1 .. L : busy[b][1].m < h
  BY <1>3, <1>4, InvTypes DEF Ahead
<1>6. Sorted'
  <2> SUFFICES ASSUME NEW i \in 1 .. (L + 1), NEW j \in 1 .. (L + 1), i < j
               PROVE  busy'[i][1].m < busy'[j][1].m
    BY <1>2 DEF Sorted
  <2>1. i \in 1 .. L
    OBVIOUS
  <2>2. CASE j \in 1 .. L
    BY <1>2, <2>1, <2>2 DEF Sorted
  <2>3. CASE j = L + 1
    BY <1>2, <1>5, <2>1, <2>3
  <2> QED BY <1>2, <2>2, <2>3
<1>7. \A m : KeptNow(m) => KeptNow(m)'
  BY <1>2 DEF KeptNow
<1>8. NoGap'
  <2> SUFFICES ASSUME NEW m \in DOMAIN stream, NEW n \in DOMAIN stream, m < n, KeptNow(n)',
                      stream[m].kind = "quote", stream[m].conn = stream[n].conn
               PROVE  KeptNow(m)'
    BY <1>1 DEF NoGap
  <2>1. CASE KeptNow(n)
    BY <1>7, <2>1 DEF NoGap
  <2>2. CASE n = h
    <3>0. stream[m].conn = conn /\ m < inbox[1].m
      BY <1>5, <2>2
    <3>1. stream[m].conn = conn /\ Reached(m)
      <4>1. m <= inbox[1].m
        <5>1. inbox[1].m \in Nat
          BY <1>4, InvTypes
        <5>2. m \in Nat
          <6>1. DOMAIN stream = 1 .. Len(stream) /\ Len(stream) \in Nat
            BY InvTypes
          <6> QED BY <6>1
        <5> QED BY <3>0, <5>1, <5>2
      <4> QED BY <1>4, <3>0, <4>1 DEF Reached
    <3>2. KeptNow(m) \/ Held(m)
      BY <1>3, <3>1 DEF NoneMissed
    <3>3. ~Held(m)
      <4> SUFFICES ASSUME NEW i \in DOMAIN inbox, inbox[i].m = m
                   PROVE  FALSE
        BY DEF Held
      <4>1. i = 1 \/ 1 < i
        BY InvTypes
      <4>2. ~(1 < i)
        <5> SUFFICES ASSUME 1 < i PROVE FALSE
          OBVIOUS
        <5>1. inbox[1].m < inbox[i].m \/ inbox[1].m = inbox[i].m
          BY <1>3, <1>4 DEF Ordered
        <5>2. ~(inbox[1].m < m) /\ inbox[1].m # m
          <6>1. m \in Nat /\ inbox[1].m \in Nat
            BY <1>4, InvTypes
          <6> QED BY <3>0, <6>1
        <5> QED BY <5>1, <5>2, Zenon
      <4> QED BY <2>2, <4>1, <4>2, InvTypes
    <3> QED BY <1>7, <3>2, <3>3
  <2> QED BY <1>2, <2>1, <2>2 DEF KeptNow
<1> QED BY <1>6, <1>8

\* Sending changes nothing of what is kept.
LEMMA SendOrder ==
    ASSUME Inv, Sorted, NoGap, ServerSends
    PROVE  Sorted' /\ NoGap'
<1>1. busy' = busy /\ \E e : stream' = Append(stream, e)
  BY DEF ServerSends, nodeVars
<1>2. PICK e : stream' = Append(stream, e)
  BY <1>1
<1> PICK M \in Nat : M = Len(stream) /\ DOMAIN stream = 1 .. M
  BY InvTypes
<1>3. DOMAIN stream' = 1 .. (M + 1) /\ \A m \in 1 .. M : stream'[m] = stream[m]
  BY <1>2, InvTypes
<1>4. \A n : KeptNow(n) => n \in 1 .. M
  BY KeptFirst DEF KeptNow
<1>5. NoGap'
  <2> SUFFICES ASSUME NEW m \in 1 .. (M + 1), NEW n \in 1 .. (M + 1), m < n, KeptNow(n),
                      stream'[m].kind = "quote", stream'[m].conn = stream'[n].conn
               PROVE  KeptNow(m)
    BY <1>1, <1>3 DEF NoGap, KeptNow
  <2>1. n \in 1 .. M /\ m \in 1 .. M
    BY <1>4
  <2> QED BY <1>3, <2>1 DEF NoGap
<1> QED BY <1>1, <1>5 DEF Sorted

LEMMA NextOrder ==
    ASSUME Inv, Progress, KeptInOrder, [Next]_vars
    PROVE  KeptInOrder'
<1>0. Sorted /\ NoGap
  BY OrderParts
<1>1. CASE KeepQuote \/ ServerSends
  <2>1. Sorted' /\ NoGap'
    BY <1>0, <1>1, KeepOrder, SendOrder
  <2> QED BY <2>1 DEF KeptInOrder, Sorted, NoGap, KeptNow
<1>3. CASE ~KeepQuote /\ ~ServerSends
  <2>1. busy' = busy /\ stream' = stream
    BY <1>3, OthersKeep
  <2> QED BY <2>1 DEF KeptInOrder
<1> QED BY <1>1, <1>3

\* The quotes kept are in the order sent, none of them twice, and of one
\* connection none is left out before another, however the stream is cut and
\* wherever a connection is lost.
THEOREM OrderIsKept == Spec => []KeptInOrder
<1>1. Inv /\ Progress /\ KeptInOrder /\ [Next]_vars => (Progress /\ KeptInOrder)'
  BY NextProgress, NextOrder
<1> QED BY <1>1, ProgressInit, Invariant, PTL DEF Spec

-----------------------------------------------------------------------------
(* The alarm.                                                              *)

\* Of the time an alarm was set for, what is left and what has passed without a
\* message make up the whole.
Alarm == timer > 0 => quiet + timer >= Timeout

\* Neither is touched by anything else.
LEMMA OthersWait ==
    ASSUME [Next]_vars, ~(ArmAlarm \/ KeepQuote \/ SkipLarge \/ DropHeartbeat \/ Tick)
    PROVE  timer' = timer /\ quiet' = quiet
<1>1. CASE \/ Connected \/ Refused \/ Restart \/ LoginAccepted \/ LoginFailed \/ LoginShut
           \/ InstallHandler \/ FindIdle \/ NoWhole \/ NullNode \/ IgnoreAlarm
           \/ HandleHeartBeat \/ RBRecv \/ UNCHANGED vars
  BY <1>1 DEF vars, alarmVars, Connected, Refused, Restart, LoginAccepted,
         LoginFailed, LoginShut, InstallHandler, FindIdle, NoWhole, NullNode,
         IgnoreAlarm, HandleHeartBeat, RBRecv
<1>2. CASE \/ RBRecvFails \/ NoIdle \/ BadMessage
           \/ Close \/ ServerSends \/ ServerGoesOn \/ ServerCloses
  BY <1>2 DEF alarmVars, RBRecvFails, NoIdle, BadMessage, Close, ServerSends, ServerGoesOn,
         ServerCloses
<1> QED BY <1>1, <1>2 DEF Next, HandleQuote, Server

LEMMA NextAlarm ==
    ASSUME Inv, Alarm, [Next]_vars
    PROVE  Alarm'
<1>0. timer \in 0 .. Timeout /\ quiet \in 0 .. Timeout /\ Timeout \in Nat
  BY ReceiverAssumption DEF Inv, Sound, TypeOK
<1>1. CASE ArmAlarm \/ KeepQuote \/ SkipLarge \/ DropHeartbeat
  <2>1. timer' = Timeout /\ quiet' = 0
    BY <1>1 DEF ArmAlarm, KeepQuote, SkipLarge, DropHeartbeat, Rearm
  <2> QED BY <1>0, <2>1 DEF Alarm
<1>2. CASE Tick
  <2>1. timer > 0 /\ timer' = timer - 1 /\ quiet' = IF quiet < Timeout THEN quiet + 1 ELSE quiet
    BY <1>2 DEF Tick
  <2> QED BY <1>0, <2>1 DEF Alarm
<1>3. CASE ~(ArmAlarm \/ KeepQuote \/ SkipLarge \/ DropHeartbeat \/ Tick)
  <2>1. timer' = timer /\ quiet' = quiet
    BY <1>3, OthersWait
  <2> QED BY <2>1 DEF Alarm
<1> QED BY <1>1, <1>2, <1>3

\* Only the clock makes the alarm go off.
LEMMA OthersSilent ==
    ASSUME [Next]_vars, fired', ~fired
    PROVE  Tick
<1>1. CASE \/ Connected \/ Refused \/ Restart \/ LoginAccepted \/ LoginFailed \/ LoginShut
           \/ InstallHandler \/ ArmAlarm \/ FindIdle \/ NoWhole \/ NullNode \/ IgnoreAlarm
           \/ HandleHeartBeat \/ RBRecv \/ UNCHANGED vars
  BY <1>1 DEF vars, alarmVars, Connected, Refused, Restart, LoginAccepted,
         LoginFailed, LoginShut, InstallHandler, ArmAlarm, FindIdle, NoWhole, NullNode,
         IgnoreAlarm, HandleHeartBeat, RBRecv
<1>2. CASE \/ RBRecvFails \/ NoIdle \/ BadMessage \/ KeepQuote \/ SkipLarge \/ DropHeartbeat
           \/ Close \/ ServerSends \/ ServerGoesOn \/ ServerCloses
  BY <1>2 DEF alarmVars, RBRecvFails, NoIdle, BadMessage, KeepQuote, SkipLarge, DropHeartbeat,
         Rearm, Close, ServerSends, ServerGoesOn, ServerCloses
<1> QED BY <1>1, <1>2 DEF Next, HandleQuote, Server

\* The alarm goes off only after Timeout ticks without a whole message.
THEOREM AlarmIsRight == Spec => AlarmMeansSilence
<1>1. Init => Alarm
  BY DEF Init, Alarm
<1>2. Inv /\ Alarm /\ [Next]_vars => Alarm'
  BY NextAlarm
<1>3. ASSUME Inv, Alarm, [Next]_vars
      PROVE  fired' /\ ~fired => quiet' = Timeout
  <2> SUFFICES ASSUME fired', ~fired
               PROVE  quiet' = Timeout
    OBVIOUS
  <2>1. Tick
    BY <1>3, OthersSilent
  <2>2. timer = 1 /\ quiet' = IF quiet < Timeout THEN quiet + 1 ELSE quiet
    BY <2>1, Zenon DEF Tick
  <2>3. timer \in Nat /\ quiet \in 0 .. Timeout /\ Timeout \in Nat
    BY <1>3, ReceiverAssumption DEF Inv, Sound, TypeOK
  <2> QED BY <1>3, <2>2, <2>3 DEF Alarm
<1>4. Inv /\ Alarm /\ [Next]_vars => [fired' /\ ~fired => quiet' = Timeout]_vars
  BY <1>3
<1> QED BY <1>1, <1>2, <1>4, Invariant, PTL DEF Spec, AlarmMeansSilence
=============================================================================
