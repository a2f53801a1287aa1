---------------------------- MODULE RewardsProofs ----------------------------
(***************************************************************************)
(* Types, connections and sums of Rewards, for every number of users, of   *)
(* handlers and of connections, whatever the channels hold.                *)
(*                                                                         *)
(* Sound      each handler is at a statement of its program, the tables    *)
(*            and the channels are well formed, the handlers served want   *)
(*            fewer connections than there are, and a client who waits has *)
(*            one request at a time.                                       *)
(* CashInv    what each statement of a withdrawal or a registration relies *)
(*            on: what it has read of its user is still so.                *)
(* ShareInv   an amount that was read is that of a row that is there.      *)
(* GoldInv    the balance that userSignIn has read is still in the table.  *)
(* LedgerInv  what is granted is recorded, or a handler owes its row, or   *)
(*            the row is in the channel or in saveGoldAndCash's hand.      *)
(*                                                                         *)
(* Amounts are counted, not added: the coins on their way are a set, one   *)
(* element for each, and what a handler or a row adds to the sum is what a *)
(* step adds to the set.                                                   *)
(***************************************************************************)
EXTENDS Rewards, FiniteSetTheorems, TLAPS

(* The programs.                                                           *)

\* Which statement each handler has where.
LEMMA ProgramIs ==
    /\ Program["register"] = <<"lookup", "insert", "oneoff", "bonus">>
    /\ Program["login"] = <<"info", "daily">>
    /\ Program["sign"] = <<"check", "begin", "status", "balance", "setGold", "event", "ledger", "commit">>
    /\ Program["share"] = <<"check", "status", "credit", "event", "ledger">>
    /\ Program["profile"] = <<"check", "profile", "credit", "mark", "ledger">>
    /\ Program["report"] = <<"check", "report">>
    /\ Program["effective"] = <<"check", "reward", "valid", "begin", "validate", "creditTx", "ledger", "commit">>
    /\ Program["withdraw"] = <<"check", "pending", "cash", "pay">>
    /\ Program["approve"] = <<"check", "approve">>
    /\ DOMAIN Program = {"register", "login", "sign", "share", "profile", "report", "effective",
                         "withdraw", "approve"}
  BY DEF Program

\* How long they are.
LEMMA ProgramLen ==
    /\ DOMAIN Program["register"] = 1 .. 4 /\ DOMAIN Program["login"] = 1 .. 2
    /\ DOMAIN Program["sign"] = 1 .. 8 /\ DOMAIN Program["share"] = 1 .. 5
    /\ DOMAIN Program["profile"] = 1 .. 5 /\ DOMAIN Program["report"] = 1 .. 2
    /\ DOMAIN Program["effective"] = 1 .. 8 /\ DOMAIN Program["withdraw"] = 1 .. 4
    /\ DOMAIN Program["approve"] = 1 .. 2
  BY ProgramIs

\* A program is a sequence of at most 8 statements.
LEMMA ProgramSteps ==
    ASSUME NEW t \in DOMAIN Program
    PROVE  /\ Len(Program[t]) \in Nat \ {0} /\ DOMAIN Program[t] = 1 .. Len(Program[t])
           /\ DOMAIN Program[t] \subseteq Steps
<1>1. t \in {"register", "login", "sign", "share", "profile", "report", "effective", "withdraw", "approve"}
  BY ProgramIs
<1> QED BY <1>1, ProgramIs DEF Steps

\* Where a statement is.
LEMMA Places ==
    ASSUME NEW t \in DOMAIN Program, NEW k \in DOMAIN Program[t]
    PROVE  /\ Program[t][k] = "lookup" => t = "register" /\ k = 1
           /\ Program[t][k] = "insert" => t = "register" /\ k = 2
           /\ Program[t][k] = "oneoff" => t = "register" /\ k = 3
           /\ Program[t][k] = "bonus" => t = "register" /\ k = 4
           /\ Program[t][k] = "info" => t = "login" /\ k = 1
           /\ Program[t][k] = "daily" => t = "login" /\ k = 2
           /\ Program[t][k] = "check" => t \notin {"register", "login"} /\ k = 1
           /\ Program[t][k] = "begin" => (t = "sign" /\ k = 2) \/ (t = "effective" /\ k = 4)
           /\ Program[t][k] = "status" => (t = "sign" /\ k = 3) \/ (t = "share" /\ k = 2)
           /\ Program[t][k] = "balance" => t = "sign" /\ k = 4
           /\ Program[t][k] = "setGold" => t = "sign" /\ k = 5
           /\ Program[t][k] = "event" => (t = "sign" /\ k = 6) \/ (t = "share" /\ k = 4)
           /\ Program[t][k] = "ledger" => \/ t = "sign" /\ k = 7
                                          \/ t = "share" /\ k = 5
                                          \/ t = "profile" /\ k = 5
                                          \/ t = "effective" /\ k = 7
           /\ Program[t][k] = "commit" => t \in {"sign", "effective"} /\ k = 8
           /\ Program[t][k] = "credit" => t \in {"share", "profile"} /\ k = 3
           /\ Program[t][k] = "profile" => t = "profile" /\ k = 2
           /\ Program[t][k] = "mark" => t = "profile" /\ k = 4
           /\ Program[t][k] = "report" => t = "report" /\ k = 2
           /\ Program[t][k] = "reward" => t = "effective" /\ k = 2
           /\ Program[t][k] = "valid" => t = "effective" /\ k = 3
           /\ Program[t][k] = "validate" => t = "effective" /\ k = 5
           /\ Program[t][k] = "creditTx" => t = "effective" /\ k = 6
           /\ Program[t][k] = "pending" => t = "withdraw" /\ k = 2
           /\ Program[t][k] = "cash" => t = "withdraw" /\ k = 3
           /\ Program[t][k] = "pay" => t = "withdraw" /\ k = 4
           /\ Program[t][k] = "approve" => t = "approve" /\ k = 2
<1>1. t \in {"register", "login", "sign", "share", "profile", "report", "effective", "withdraw", "approve"}
  BY ProgramIs
<1>2. CASE t = "register"
  <2>1. k \in 1 .. 4
    BY <1>2, ProgramLen
  <2> QED BY <1>2, <2>1, ProgramIs
<1>3. CASE t = "login"
  <2>1. k \in 1 .. 2
    BY <1>3, ProgramLen
  <2> QED BY <1>3, <2>1, ProgramIs
<1>4. CASE t = "sign"
  <2>1. k \in 1 .. 8
    BY <1>4, ProgramLen
  <2> QED BY <1>4, <2>1, ProgramIs
<1>5. CASE t = "share"
  <2>1. k \in 1 .. 5
    BY <1>5, ProgramLen
  <2> QED BY <1>5, <2>1, ProgramIs
<1>6. CASE t = "profile"
  <2>1. k \in 1 .. 5
    BY <1>6, ProgramLen
  <2> QED BY <1>6, <2>1, ProgramIs
<1>7. CASE t = "report"
  <2>1. k \in 1 .. 2
    BY <1>7, ProgramLen
  <2> QED BY <1>7, <2>1, ProgramIs
<1>8. CASE t = "effective"
  <2>1. k \in 1 .. 8
    BY <1>8, ProgramLen
  <2> QED BY <1>8, <2>1, ProgramIs
<1>9. CASE t = "withdraw"
  <2>1. k \in 1 .. 4
    BY <1>9, ProgramLen
  <2> QED BY <1>9, <2>1, ProgramIs
<1>10. CASE t = "approve"
  <2>1. k \in 1 .. 2
    BY <1>10, ProgramLen
  <2> QED BY <1>10, <2>1, ProgramIs
<1> QED BY <1>1, <1>2, <1>3, <1>4, <1>5, <1>6, <1>7, <1>8, <1>9, <1>10
-----------------------------------------------------------------------------
(* Types and connections.                                                  *)

Requests == [type : DOMAIN Program \cup {"none"}, user : Users \cup {"none"}, at : 0 .. 8,
             add : Nat, old : Nat]

Events == [user : Users, task : {"sign", "share"}, status : 1 .. (Yesterday + 1)]
Rows == [user : Users, task : Tasks, add : Nat]

\* A handler is at a statement of its program; without a request, a slot is idle.
Handled ==
    /\ req \in [Slots -> Requests]
    /\ \A i \in Slots :
          IF Active(i) THEN /\ req[i].type \in Types /\ req[i].user \in Users
                            /\ req[i].at \in DOMAIN Program[req[i].type]
          ELSE req[i] = Idle

Tables ==
    /\ registered \subseteq Users /\ gold \in [Users -> Nat] /\ cash \in [Users -> Int]
    /\ task \in [Users -> [Tasks -> -1 .. (Yesterday + 1)]]
    /\ opinion \in [Users -> {"none", "new", "valid"}]
    /\ withdrawn \in [Users -> Nat] /\ pending \in [Users -> Nat] /\ unrecorded \in [Users -> Nat]
    /\ granted \in [Users -> [Tasks -> Nat]]

Queues ==
    /\ eventChan \in Seq(Events) /\ Len(eventChan) <= EventCap
    /\ eventHand \in Seq(Events) /\ Len(eventHand) <= 1
    /\ goldChan \in Seq(Rows) /\ Len(goldChan) <= GoldCap
    /\ goldHand \in Seq(Rows) /\ Len(goldHand) <= 1

\* The handlers that are served want fewer connections than there are.
Connections == Cardinality(Wanted) < Conns

Typed ==
    /\ Handled /\ Tables /\ Queues
    /\ received \in 0 .. MaxRequests /\ waiting \subseteq Slots

\* The request of a slot has been answered, or is one statement further.
Moves(i) ==
    /\ req' \in [Slots -> Requests] /\ \A j \in Slots : j # i => req'[j] = req[j]
    /\ \/ req'[i] = Idle
       \/ /\ req'[i].type = req[i].type /\ req'[i].user = req[i].user
          /\ req'[i].at = req[i].at + 1 /\ req'[i].at \in DOMAIN Program[req[i].type]

\* Its local variables are what they were.
Steady(i) == req'[i] # Idle => req'[i].add = req[i].add /\ req'[i].old = req[i].old

\* A slot without a request is well formed.
LEMMA IdleFacts == Idle \in Requests /\ Idle.at = 0
  BY DEF Idle, Requests

\* What a handler that is at work is.
LEMMA ActiveFacts ==
    ASSUME Handled, NEW i \in Slots, Active(i)
    PROVE  /\ req[i] \in Requests /\ req[i].type \in Types /\ req[i].type \in DOMAIN Program
           /\ req[i].user \in Users /\ req[i].at \in DOMAIN Program[req[i].type]
           /\ req[i].at \in 1 .. 8 /\ req[i].add \in Nat /\ req[i].old \in Nat
<1>1. req[i] \in Requests /\ req[i].type \in Types /\ req[i].user \in Users
      /\ req[i].at \in DOMAIN Program[req[i].type]
  BY DEF Handled
<1>2. req[i].type \in DOMAIN Program
  BY <1>1, RewardsAssumption
<1> QED BY <1>1, <1>2, ProgramSteps DEF Requests, Steps

\* The answer frees the slot.
LEMMA AnswerMoves ==
    ASSUME Handled, NEW i \in Slots, Answer(i)
    PROVE  Moves(i) /\ Steady(i) /\ req'[i] = Idle
<1>1. req \in [Slots -> Requests] /\ req' = [req EXCEPT ![i] = Idle]
  BY DEF Handled, Answer
<1>2. req'[i] = Idle /\ req' \in [Slots -> Requests] /\ \A j \in Slots : j # i => req'[j] = req[j]
  BY <1>1, IdleFacts
<1> QED BY <1>2 DEF Moves, Steady

\* On to the next statement, with the amount and the balance that were read.
LEMMA AdvanceMoves ==
    ASSUME Handled, NEW i \in Slots, Active(i), NEW r \in Requests, Advance(i, r),
           r.type = req[i].type, r.user = req[i].user, r.at = req[i].at
    PROVE  /\ Moves(i)
           /\ req'[i] # Idle => req'[i].add = r.add /\ req'[i].old = r.old
           /\ req[i].at # Len(Program[req[i].type]) => req'[i] # Idle
           /\ req[i].at = Len(Program[req[i].type]) => req'[i] = Idle
<1> PICK t \in DOMAIN Program : t = req[i].type
  BY ActiveFacts
<1> PICK n \in Nat \ {0} : n = Len(Program[t]) /\ DOMAIN Program[t] = 1 .. n /\ n <= 8
  <2>1. Len(Program[t]) \in DOMAIN Program[t] /\ DOMAIN Program[t] \subseteq 1 .. 8
    BY ProgramSteps DEF Steps
  <2> QED BY <2>1, ProgramSteps
<1>1. req \in [Slots -> Requests] /\ r.at \in 1 .. n
  BY ActiveFacts DEF Handled
<1>2. CASE r.at = n
  <2>1. req' = [req EXCEPT ![i] = Idle]
    BY <1>2 DEF Advance
  <2>2. req'[i] = Idle /\ req' \in [Slots -> Requests] /\ \A j \in Slots : j # i => req'[j] = req[j]
    BY <1>1, <2>1, IdleFacts
  <2> QED BY <1>2, <2>2 DEF Moves
<1>3. CASE r.at # n
  <2> PICK s : s = [r EXCEPT !.at = r.at + 1]
    OBVIOUS
  <2>1. req' = [req EXCEPT ![i] = s]
    BY <1>3 DEF Advance
  <2>2. /\ s \in Requests /\ s.type = r.type /\ s.user = r.user /\ s.add = r.add /\ s.old = r.old
        /\ s.at = r.at + 1 /\ s.at \in 1 .. n
    <3>1. r.at + 1 \in 1 .. n /\ n <= 8
      BY <1>1, <1>3
    <3>2. PICK k \in 1 .. 8 : k = r.at + 1
      BY <3>1
    <3>3. s = [r EXCEPT !.at = k]
      BY <3>2
    <3>4. /\ s \in Requests /\ s.type = r.type /\ s.user = r.user /\ s.add = r.add
          /\ s.old = r.old /\ s.at = k
      BY <3>3 DEF Requests
    <3> QED BY <3>1, <3>2, <3>4
  <2>3. req'[i] = s /\ req' \in [Slots -> Requests] /\ \A j \in Slots : j # i => req'[j] = req[j]
    BY <1>1, <2>1, <2>2
  <2>4. s # Idle
    <3>1. s.at # Idle.at
      BY <2>2, IdleFacts
    <3> QED BY <3>1
  <2> QED BY <1>3, <2>2, <2>3, <2>4 DEF Moves
<1> QED BY <1>2, <1>3

\* On to the next statement, with nothing read.
LEMMA GoMoves ==
    ASSUME Handled, NEW i \in Slots, Active(i), Go(i)
    PROVE  /\ Moves(i) /\ Steady(i)
           /\ req[i].at # Len(Program[req[i].type]) => req'[i] # Idle
           /\ req[i].at = Len(Program[req[i].type]) => req'[i] = Idle
  BY ActiveFacts, AdvanceMoves DEF Go, Steady

\* The statements' places, for a handler.
LEMMA AtFacts ==
    ASSUME Handled, NEW i \in Slots, NEW op, At(i, op)
    PROVE  /\ Active(i) /\ req[i].type \in DOMAIN Program
           /\ req[i].at \in DOMAIN Program[req[i].type] /\ Program[req[i].type][req[i].at] = op
  BY ActiveFacts DEF At

\* The amounts of gold are natural numbers.
LEMMA AmountFacts ==
    ASSUME NEW u, NEW t
    PROVE  /\ Amount(u, t) \in Nat
           /\ task[u][t] = 0 /\ t = "profile" => Amount(u, t) = 400
           /\ Amount(u, t) > 0 => ~(task[u][t] < 0)
  BY DEF Amount

\* So is the gold of a sign-in.
LEMMA SignGoldNat == SignGold \in Nat
<1>1. CASE Yesterday < 7
  <2>1. Yesterday + 1 \in 1 .. 7
    BY <1>1, RewardsAssumption
  <2>2. \A k \in 1 .. 7 : <<10, 15, 20, 25, 30, 35, 40>>[k] \in Nat
    OBVIOUS
  <2> QED BY <1>1, <2>1, <2>2 DEF SignGold
<1> QED BY <1>1 DEF SignGold

\* A statement that computes the amount.
LEMMA AmountMoves ==
    ASSUME Handled, NEW i \in Slots, NEW add \in Nat, Active(i),
           Advance(i, [req[i] EXCEPT !.add = add])
    PROVE  /\ Moves(i)
           /\ req'[i] # Idle => req'[i].add = add
           /\ req[i].at # Len(Program[req[i].type]) => req'[i] # Idle
<1> PICK r : r = [req[i] EXCEPT !.add = add]
  OBVIOUS
<1>1. /\ r \in Requests /\ r.type = req[i].type /\ r.user = req[i].user /\ r.at = req[i].at
      /\ r.add = add
  BY ActiveFacts DEF Requests
<1>2. Advance(i, r)
  OBVIOUS
<1> QED BY <1>1, <1>2, AdvanceMoves

\* The statements that read into the handler's variables: the status, ...
LEMMA StatusMoves ==
    ASSUME Handled, Tables, NEW i \in Slots, Status(i)
    PROVE  /\ Moves(i)
           /\ req'[i] # Idle => req'[i].add = Amount(req[i].user, TaskOf(req[i].type))
<1>1. Active(i)
  BY AtFacts DEF Status
<1>2. \/ Answer(i)
      \/ Advance(i, [req[i] EXCEPT !.add = Amount(req[i].user, TaskOf(req[i].type))])
  BY DEF Status
<1> QED BY <1>1, <1>2, AnswerMoves, AmountMoves, AmountFacts

\* ... the reward of a feedback, ...
LEMMA RewardMoves ==
    ASSUME Handled, NEW i \in Slots, Reward(i)
    PROVE  Moves(i)
<1>1. Active(i) /\ Advance(i, [req[i] EXCEPT !.add = Amount(req[i].user, "feedback")])
  BY AtFacts DEF Reward
<1> QED BY <1>1, AmountMoves, AmountFacts

\* ... the task of the profile, ...
LEMMA ProfileMoves ==
    ASSUME Handled, Tables, NEW i \in Slots, ReadProfile(i)
    PROVE  /\ Moves(i)
           /\ req'[i] # Idle => req'[i].add = 400 /\ task[req[i].user]["profile"] = 0
<1>1. Active(i)
  BY AtFacts DEF ReadProfile
<1>2. \/ Answer(i)
      \/ /\ task[req[i].user]["profile"] = 0
         /\ Advance(i, [req[i] EXCEPT !.add = Amount(req[i].user, "profile")])
  BY DEF ReadProfile
<1> QED BY <1>1, <1>2, AnswerMoves, AmountMoves, AmountFacts

\* ... the gold before a sign-in.
LEMMA BalanceMoves ==
    ASSUME Handled, Tables, NEW i \in Slots, Balance(i)
    PROVE  /\ Moves(i)
           /\ req'[i] # Idle => req'[i].old = gold[req[i].user]
<1>1. Active(i) /\ gold[req[i].user] \in Nat
  BY AtFacts, ActiveFacts DEF Balance, Tables
<1>2. Advance(i, [req[i] EXCEPT !.old = gold[req[i].user], !.add = SignGold])
  BY DEF Balance
<1> PICK r : r = [req[i] EXCEPT !.old = gold[req[i].user], !.add = SignGold]
  OBVIOUS
<1>3. /\ r \in Requests /\ r.type = req[i].type /\ r.user = req[i].user /\ r.at = req[i].at
      /\ r.old = gold[req[i].user]
  BY <1>1, ActiveFacts, SignGoldNat DEF Requests
<1>4. Advance(i, r)
  BY <1>2
<1> QED BY <1>1, <1>3, <1>4, AdvanceMoves

\* The statements that leave the local variables alone.
Plain(i) ==
    \/ Check(i) \/ Begin(i) \/ Credit(i) \/ PushEvent(i) \/ PushGold(i)
    \/ Lookup(i) \/ InsertUser(i) \/ OneOffTasks(i) \/ RegisterEvent(i)
    \/ Info(i) \/ DailyTasks(i) \/ SetGold(i) \/ MarkProfile(i) \/ Report(i)
    \/ Valid(i) \/ Validate(i) \/ CreditTx(i) \/ Commit(i)
    \/ Pending(i) \/ EnoughCash(i) \/ Pay(i) \/ Approve(i)

\* The other statements read nothing that the handler keeps.
LEMMA PlainMoves ==
    ASSUME Handled, NEW i \in Slots, Plain(i)
    PROVE  Moves(i) /\ Steady(i) /\ Active(i)
<1>1. Active(i)
  BY AtFacts DEF Plain, Check, Begin, Credit, PushEvent, PushGold, Lookup, InsertUser, OneOffTasks,
         RegisterEvent, Info, DailyTasks, SetGold, MarkProfile, Report, Valid, Validate, CreditTx,
         Commit, Pending, EnoughCash, Pay, Approve
<1>2. Go(i) \/ Answer(i)
  BY DEF Plain, Check, Begin, Credit, PushEvent, PushGold, Lookup, InsertUser, OneOffTasks,
         RegisterEvent, Info, DailyTasks, SetGold, MarkProfile, Report, Valid, Validate, CreditTx,
         Commit, Pending, EnoughCash, Pay, Approve
<1> QED BY <1>1, <1>2, GoMoves, AnswerMoves

\* Every statement answers the request or brings it one statement on.
LEMMA HandleMoves ==
    ASSUME Handled, Tables, NEW i \in Slots, Handle(i)
    PROVE  Moves(i) /\ Active(i)
<1>1. CASE Plain(i)
  BY <1>1, PlainMoves
<1>2. CASE Status(i) \/ Reward(i) \/ ReadProfile(i) \/ Balance(i)
  <2>1. Active(i)
    BY <1>2, AtFacts DEF Status, Reward, ReadProfile, Balance
  <2> QED BY <1>2, <2>1, StatusMoves, RewardMoves, ProfileMoves, BalanceMoves
<1> QED BY <1>1, <1>2 DEF Handle, Plain

\* A request is put in an idle slot, with the guards of Receive.
LEMMA ReceiveFacts ==
    ASSUME Receive
    PROVE  \E i \in Slots, type \in Types, u \in Users, add \in Nat :
              /\ ~Active(i)
              /\ u \in Patient /\ type \notin OperatorTypes
                 => ~ \E j \in Slots : req[j].user = u /\ req[j].type \notin OperatorTypes
              /\ Cardinality(Wanted \cup ({i} \X Keeps(type))) < Conns
              /\ req' = [req EXCEPT ![i] = [type |-> type, user |-> u, at |-> 1,
                                            add |-> add, old |-> 0]]
<1> DEFINE P(i) == ~Active(i) /\ \A j \in Slots : j < i => Active(j)
           i == CHOOSE i \in Slots : P(i)
<1>1. \E x \in Slots : P(x)
  BY DEF Receive
<1>2. i \in Slots /\ P(i)
  BY <1>1
<1> HIDE DEF i
<1>3. PICK type \in Types, u \in Users :
         \E add \in IF type = "withdraw" THEN Amounts ELSE {0} :
            /\ u \in Patient /\ type \notin OperatorTypes
               => ~ \E j \in Slots : req[j].user = u /\ req[j].type \notin OperatorTypes
            /\ Cardinality(Wanted \cup ({i} \X Keeps(type))) < Conns
            /\ req' = [req EXCEPT ![i] = [type |-> type, user |-> u, at |-> 1,
                                          add |-> add, old |-> 0]]
  BY DEF Receive, i
<1>4. (IF type = "withdraw" THEN Amounts ELSE {0}) \subseteq Nat
  BY RewardsAssumption
<1> QED BY <1>2, <1>3, <1>4

\* What a slot is after a request has come in.
Arrives(i, type, u, add) ==
    /\ ~Active(i)
    /\ u \in Patient /\ type \notin OperatorTypes
       => ~ \E j \in Slots : req[j].user = u /\ req[j].type \notin OperatorTypes
    /\ Cardinality(Wanted \cup ({i} \X Keeps(type))) < Conns
    /\ req' \in [Slots -> Requests] /\ \A j \in Slots : j # i => req'[j] = req[j]
    /\ req'[i].type = type /\ req'[i].user = u /\ req'[i].at = 1

\* A request comes in at a slot that is idle.
LEMMA ReceiveArrives ==
    ASSUME Handled, Receive
    PROVE  \E i \in Slots, type \in Types, u \in Users, add \in Nat : Arrives(i, type, u, add)
<1>1. PICK i \in Slots, type \in Types, u \in Users, add \in Nat :
         /\ ~Active(i)
         /\ u \in Patient /\ type \notin OperatorTypes
            => ~ \E j \in Slots : req[j].user = u /\ req[j].type \notin OperatorTypes
         /\ Cardinality(Wanted \cup ({i} \X Keeps(type))) < Conns
         /\ req' = [req EXCEPT ![i] = [type |-> type, user |-> u, at |-> 1,
                                       add |-> add, old |-> 0]]
  BY ReceiveFacts
<1> PICK s : s = [type |-> type, user |-> u, at |-> 1, add |-> add, old |-> 0]
  OBVIOUS
<1>2. type \in DOMAIN Program /\ 1 \in 0 .. 8 /\ 0 \in Nat
  BY RewardsAssumption
<1>3. s \in Requests /\ s.type = type /\ s.user = u /\ s.at = 1
  BY <1>2 DEF Requests
<1>4. req \in [Slots -> Requests]
  BY DEF Handled
<1>5. req' = [req EXCEPT ![i] = s]
  BY <1>1
<1>6. req' \in [Slots -> Requests] /\ req'[i] = s /\ \A j \in Slots : j # i => req'[j] = req[j]
  BY <1>3, <1>4, <1>5
<1>7. Arrives(i, type, u, add)
  BY <1>1, <1>3, <1>6 DEF Arrives
<1> QED BY <1>7

\* A statement that waits for a lock changes nothing else.
LEMMA WaitFacts ==
    ASSUME NEW i \in Slots, Wait(i)
    PROVE  /\ waiting' = waiting \cup {i}
           /\ UNCHANGED <<req, received, userInfo, task, opinion, payments, ledger, channels, history>>
  BY DEF Wait

\* Every step is a request's arrival, a handler's statement, or one of the goroutines'.
LEMMA StepCases ==
    ASSUME Handled, Tables, [Next]_vars
    PROVE  \/ \E i \in Slots, type \in Types, u \in Users, add \in Nat : Arrives(i, type, u, add)
           \/ \E i \in Slots : Moves(i) /\ Active(i)
           \/ req' = req
<1>1. CASE Receive
  BY <1>1, ReceiveArrives
<1>2. ASSUME NEW i \in Slots, Handle(i)
      PROVE  Moves(i) /\ Active(i)
  BY <1>2, HandleMoves
<1>3. CASE TakeEvent \/ UpdateEvent \/ TakeGold \/ SaveGold \/ UNCHANGED vars
  BY <1>3 DEF TakeEvent, UpdateEvent, TakeGold, SaveGold, vars
<1>4. ASSUME NEW i \in Slots, Wait(i)
      PROVE  req' = req
  BY <1>4, WaitFacts
<1> QED BY <1>1, <1>2, <1>3, <1>4 DEF Next

\* The slot is then at the first statement ...
LEMMA ArrivesHandled ==
    ASSUME Handled, NEW i \in Slots, NEW type \in Types, NEW u \in Users, NEW add \in Nat,
           Arrives(i, type, u, add)
    PROVE  Handled'
<1>1. 1 \in DOMAIN Program[type]
  BY RewardsAssumption, ProgramSteps
<1>2. ASSUME NEW j \in Slots
      PROVE  IF Active(j)' THEN /\ req'[j].type \in Types /\ req'[j].user \in Users
                                /\ req'[j].at \in DOMAIN Program[req'[j].type]
             ELSE req'[j] = Idle
  <2>1. CASE j = i
    BY <1>1, <2>1 DEF Arrives, Active
  <2>2. CASE j # i
    BY <2>2 DEF Arrives, Active, Handled
  <2> QED BY <2>1, <2>2
<1> QED BY <1>2 DEF Handled, Arrives

\* ... and stays in its program.
LEMMA MovesHandled ==
    ASSUME Handled, NEW i \in Slots, Active(i), Moves(i)
    PROVE  Handled'
<1>1. req[i].type \in Types /\ req[i].user \in Users /\ req[i].at \in 1 .. 8
  BY ActiveFacts
<1>2. ASSUME NEW j \in Slots
      PROVE  IF Active(j)' THEN /\ req'[j].type \in Types /\ req'[j].user \in Users
                                /\ req'[j].at \in DOMAIN Program[req'[j].type]
             ELSE req'[j] = Idle
  <2>1. CASE j = i
    BY <1>1, <2>1, IdleFacts DEF Moves, Active
  <2>2. CASE j # i
    BY <2>2 DEF Moves, Active, Handled
  <2> QED BY <2>1, <2>2
<1> QED BY <1>2 DEF Handled, Moves

\* No step takes a handler out of its program.
LEMMA NextHandled ==
    ASSUME Handled, Tables, [Next]_vars
    PROVE  Handled'
<1>1. CASE req' = req
  BY <1>1 DEF Handled, Active
<1> QED BY <1>1, StepCases, ArrivesHandled, MovesHandled

\* The connections a handler will hold are pairs of a slot and a statement.
LEMMA WantedFinite ==
    /\ Wanted \in SUBSET (Slots \X Steps) /\ IsFiniteSet(Slots \X Steps) /\ IsFiniteSet(Wanted)
    /\ Cardinality(Wanted) \in Nat
<1>1. IsFiniteSet(Slots) /\ IsFiniteSet(Steps)
  <2>1. 1 \in Int /\ 8 \in Int /\ Served \in Int
    BY RewardsAssumption
  <2>2. IsFiniteSet(1 .. Served) /\ IsFiniteSet(1 .. 8)
    BY <2>1, FS_Interval
  <2> QED BY <2>2 DEF Slots, Steps
<1>2. IsFiniteSet(Slots \X Steps)
  BY <1>1, FS_Product
<1>3. Wanted \in SUBSET (Slots \X Steps)
  BY DEF Wanted
<1>4. IsFiniteSet(Wanted)
  BY <1>2, <1>3, FS_Subset
<1> QED BY <1>2, <1>3, <1>4, FS_CardinalityType

\* A handler that goes on wants no connection it did not want.
LEMMA MovesConnections ==
    ASSUME Handled, Connections, NEW i \in Slots, Active(i), Moves(i)
    PROVE  Connections'
<1>1. Wanted' \in SUBSET Wanted
  <2> SUFFICES ASSUME NEW c \in Slots \X Steps, req'[c[1]].at > 0,
                      c[2] \in Keeps(req'[c[1]].type)
               PROVE  Active(c[1]) /\ c[2] \in Keeps(req[c[1]].type)
    BY DEF Wanted, Active
  <2>1. c[1] \in Slots
    OBVIOUS
  <2>2. CASE c[1] = i
    BY <2>2, IdleFacts DEF Moves
  <2>3. CASE c[1] # i
    BY <2>1, <2>3 DEF Moves, Active
  <2> QED BY <2>2, <2>3
<1> PICK W : W = Wanted'
  OBVIOUS
<1>2. IsFiniteSet(W) /\ Cardinality(W) <= Cardinality(Wanted) /\ Cardinality(W) \in Nat
  BY <1>1, WantedFinite, FS_Subset, FS_CardinalityType
<1> QED BY <1>2, WantedFinite, RewardsAssumption DEF Connections

\* A request is received when the connections suffice for it.
LEMMA ArrivesConnections ==
    ASSUME Handled, Connections, NEW i \in Slots, NEW type \in Types, NEW u \in Users,
           NEW add \in Nat, Arrives(i, type, u, add)
    PROVE  Connections'
<1> PICK K : K = {i} \X Keeps(type)
  OBVIOUS
<1>1. Wanted' \in SUBSET (Wanted \cup K)
  <2> SUFFICES ASSUME NEW c \in Slots \X Steps, req'[c[1]].at > 0,
                      c[2] \in Keeps(req'[c[1]].type)
               PROVE  c \in K \/ (Active(c[1]) /\ c[2] \in Keeps(req[c[1]].type))
    BY DEF Wanted, Active
  <2>1. c[1] \in Slots /\ c = <<c[1], c[2]>>
    OBVIOUS
  <2>2. CASE c[1] = i
    BY <2>1, <2>2 DEF Arrives
  <2>3. CASE c[1] # i
    BY <2>1, <2>3 DEF Arrives, Active
  <2> QED BY <2>2, <2>3
<1> PICK W : W = Wanted'
  OBVIOUS
<1>2. K \in SUBSET (Slots \X Steps)
  BY RewardsAssumption, ProgramSteps DEF Keeps
<1>3. IsFiniteSet(Wanted \cup K) /\ Cardinality(Wanted \cup K) \in Nat
  <2>1. Wanted \cup K \in SUBSET (Slots \X Steps)
    BY <1>2, WantedFinite
  <2>2. IsFiniteSet(Wanted \cup K)
    BY <2>1, WantedFinite, FS_Subset
  <2> QED BY <2>2, FS_CardinalityType
<1>4. Cardinality(W) <= Cardinality(Wanted \cup K) /\ Cardinality(W) \in Nat
  BY <1>1, <1>3, FS_Subset, FS_CardinalityType
<1>5. Cardinality(Wanted \cup K) < Conns
  BY DEF Arrives
<1> QED BY <1>3, <1>4, <1>5, RewardsAssumption DEF Connections

\* So the handlers at work never want all the connections.
LEMMA NextConnections ==
    ASSUME Handled, Tables, Connections, [Next]_vars
    PROVE  Connections'
<1>1. CASE req' = req
  BY <1>1 DEF Connections, Wanted, Active
<1> QED BY <1>1, StepCases, ArrivesConnections, MovesConnections

\* There is always a connection for a statement that needs one while it runs.
LEMMA FreeLeft == Connections => Free \in 1 .. Conns
<1> SUFFICES ASSUME Connections PROVE Free \in 1 .. Conns
  OBVIOUS
<1>1. Held \in SUBSET Wanted
  BY DEF Held
<1>2. Cardinality(Held) <= Cardinality(Wanted) /\ Cardinality(Held) \in Nat
  BY <1>1, WantedFinite, FS_Subset, FS_CardinalityType
<1> QED BY <1>2, WantedFinite, RewardsAssumption DEF Connections, Free

-----------------------------------------------------------------------------
(* A client that waits.                                                    *)

\* At most one request of such a user is handled, but for the operator's.
Serial ==
    \A i, j \in Slots :
        /\ Active(i) /\ Active(j) /\ req[i].user = req[j].user /\ req[i].user \in Patient
        /\ req[i].type \notin OperatorTypes /\ req[j].type \notin OperatorTypes
        => i = j

\* A client that waits has a request at a time.
LEMMA NextSerial ==
    ASSUME Handled, Tables, Serial, [Next]_vars
    PROVE  Serial'
<1>1. CASE req' = req
  BY <1>1 DEF Serial, Active
<1>2. ASSUME NEW i \in Slots, Moves(i), Active(i)
      PROVE  Serial'
  <2>1. \A j \in Slots : Active(j)' => /\ Active(j) /\ req'[j].user = req[j].user
                                       /\ req'[j].type = req[j].type
    BY <1>2, IdleFacts DEF Moves, Active
  <2> QED BY <2>1 DEF Serial
<1>3. ASSUME NEW i \in Slots, NEW type \in Types, NEW u \in Users, NEW add \in Nat,
             Arrives(i, type, u, add)
      PROVE  Serial'
  <2>1. \A j \in Slots : j # i /\ Active(j)' => /\ Active(j) /\ req'[j].user = req[j].user
                                                /\ req'[j].type = req[j].type
    BY <1>3 DEF Arrives, Active
  <2>2. req'[i].user = u /\ req'[i].type = type
    BY <1>3 DEF Arrives
  <2>3. \A j \in Slots : j # i /\ Active(j)' /\ req'[j].user = u /\ u \in Patient
                         /\ type \notin OperatorTypes => req'[j].type \in OperatorTypes
    BY <1>3, <2>1 DEF Arrives
  <2> QED BY <2>1, <2>2, <2>3 DEF Serial
<1> QED BY <1>1, <1>2, <1>3, StepCases
-----------------------------------------------------------------------------
(* What the statements change.                                             *)

\* One entry of a table of users and tasks is replaced.
LEMMA EntryFacts ==
    ASSUME NEW S, NEW f \in [Users -> [Tasks -> S]], NEW u \in Users, NEW t \in Tasks, NEW x \in S,
           NEW g, g = [f EXCEPT ![u][t] = x]
    PROVE  /\ g \in [Users -> [Tasks -> S]] /\ g[u][t] = x
           /\ \A v \in Users, w \in Tasks : v # u \/ w # t => g[v][w] = f[v][w]
  OBVIOUS

\* What is granted to a handler's user.
LEMMA GrantFacts ==
    ASSUME Typed, NEW i \in Slots, Active(i), Grant(i),
           req[i].type \in {"sign", "share", "profile", "effective"}
    PROVE  /\ granted' \in [Users -> [Tasks -> Nat]] /\ TaskOf(req[i].type) \in Tasks
           /\ granted'[req[i].user][TaskOf(req[i].type)]
              = granted[req[i].user][TaskOf(req[i].type)] + req[i].add
           /\ \A v \in Users, w \in Tasks :
                 v # req[i].user \/ w # TaskOf(req[i].type) => granted'[v][w] = granted[v][w]
<1> PICK u \in Users : u = req[i].user
  BY ActiveFacts DEF Typed
<1> PICK t \in Tasks : t = TaskOf(req[i].type)
  BY DEF TaskOf, Tasks
<1>0. PICK x \in Nat : x = granted[u][t] + req[i].add
  <2>1. req[i].add \in Nat
    BY ActiveFacts DEF Typed
  <2>2. granted[u][t] \in Nat
    BY DEF Typed, Tables
  <2> QED BY <2>1, <2>2
<1>1. granted' = [granted EXCEPT ![u][t] = x]
  BY <1>0 DEF Grant
<1>2. granted \in [Users -> [Tasks -> Nat]]
  BY DEF Typed, Tables
<1>3. /\ granted' \in [Users -> [Tasks -> Nat]] /\ granted'[u][t] = x
      /\ \A v \in Users, w \in Tasks : v # u \/ w # t => granted'[v][w] = granted[v][w]
  BY <1>1, <1>2, EntryFacts
<1> QED BY <1>0, <1>3

\* A statement that only reads.
Reads(i) ==
    \/ Check(i) \/ Begin(i) \/ Status(i) \/ Lookup(i) \/ Info(i) \/ Balance(i)
    \/ ReadProfile(i) \/ Reward(i) \/ Valid(i) \/ Pending(i) \/ EnoughCash(i)

\* A statement that reads leaves everything but its slot.
LEMMA ReadsFacts ==
    ASSUME NEW i \in Slots, Reads(i)
    PROVE  UNCHANGED <<received, userInfo, task, opinion, payments, ledger, channels, history>>
  BY DEF Reads, Check, Begin, Status, Lookup, Info, Balance, ReadProfile, Reward, Valid, Pending,
         EnoughCash

\* Gold that is added at once.
LEMMA CreditFacts ==
    ASSUME Typed, NEW i \in Slots, Credit(i)
    PROVE  /\ req[i].type \in {"share", "profile"} /\ req[i].at = 3 /\ Grant(i)
           /\ gold' \in [Users -> Nat] /\ gold'[req[i].user] = gold[req[i].user] + req[i].add
           /\ \A v \in Users : v # req[i].user => gold'[v] = gold[v]
           /\ UNCHANGED <<received, registered, cash, task, opinion, payments, channels>>
<1>1. req[i].type \in {"share", "profile"} /\ req[i].at = 3 /\ Active(i)
  BY AtFacts, Places DEF Credit, Typed
<1>2. req[i].user \in Users /\ req[i].add \in Nat /\ gold \in [Users -> Nat]
  BY <1>1, ActiveFacts DEF Typed, Tables
<1>3. gold' = [gold EXCEPT ![req[i].user] = @ + req[i].add]
  BY DEF Credit
<1> QED BY <1>1, <1>2, <1>3 DEF Credit

\* Gold that is set or added in a transaction still open.
LEMMA SetGoldFacts ==
    ASSUME Typed, NEW i \in Slots, SetGold(i) \/ CreditTx(i)
    PROVE  /\ \/ SetGold(i) /\ req[i].type = "sign" /\ req[i].at = 5
              \/ CreditTx(i) /\ req[i].type = "effective" /\ req[i].at = 6
           /\ Grant(i)
           /\ UNCHANGED <<received, userInfo, task, opinion, payments, channels>>
  BY AtFacts, Places DEF SetGold, CreditTx, Typed

\* Its commit.
LEMMA CommitFacts ==
    ASSUME Typed, NEW i \in Slots, Commit(i)
    PROVE  /\ req[i].type \in {"sign", "effective"} /\ req[i].at = 8 /\ req'[i] = Idle
           /\ gold' \in [Users -> Nat]
           /\ gold'[req[i].user] = (IF req[i].type = "sign" THEN req[i].old ELSE gold[req[i].user])
                                   + req[i].add
           /\ \A v \in Users : v # req[i].user => gold'[v] = gold[v]
           /\ opinion' \in [Users -> {"none", "new", "valid"}]
           /\ UNCHANGED <<received, registered, cash, task, payments, channels, granted>>
<1>1. req[i].type \in {"sign", "effective"} /\ req[i].at = 8 /\ Active(i)
  BY AtFacts, Places DEF Commit, Typed
<1>2. req[i].user \in Users /\ req[i].add \in Nat /\ req[i].old \in Nat
      /\ gold \in [Users -> Nat] /\ opinion \in [Users -> {"none", "new", "valid"}]
  BY <1>1, ActiveFacts DEF Typed, Tables
<1>3. PICK x \in Nat : x = (IF req[i].type = "sign" THEN req[i].old ELSE gold[req[i].user])
                            + req[i].add
  BY <1>2
<1>4. gold' = [gold EXCEPT ![req[i].user] = x]
  BY <1>3 DEF Commit
<1>5. opinion' = opinion \/ opinion' = [opinion EXCEPT ![req[i].user] = "valid"]
  BY DEF Commit
<1>6. req'[i] = Idle
  <2>1. 8 = Len(Program[req[i].type])
    BY <1>1, ProgramIs
  <2>2. Go(i)
    BY DEF Commit
  <2> QED BY <1>1, <2>1, <2>2, GoMoves DEF Typed
<1> QED BY <1>1, <1>2, <1>3, <1>4, <1>5, <1>6 DEF Commit, history

\* A row for each of the tasks that has none.
LEMMA CreateFacts ==
    ASSUME Typed, NEW u \in Users, NEW tasks, CreateEvent(u, tasks)
    PROVE  /\ task' \in [Users -> [Tasks -> -1 .. (Yesterday + 1)]]
           /\ \A v \in Users, t \in Tasks : task'[v][t] = task[v][t] \/ (task[v][t] < 0 /\ task'[v][t] = 0)
<1>1. task \in [Users -> [Tasks -> -1 .. (Yesterday + 1)]]
  BY DEF Typed, Tables
<1> PICK row : row = [t \in Tasks |-> IF t \in tasks /\ task[u][t] < 0 THEN 0 ELSE task[u][t]]
  OBVIOUS
<1>2. row \in [Tasks -> -1 .. (Yesterday + 1)]
      /\ \A t \in Tasks : row[t] = task[u][t] \/ (task[u][t] < 0 /\ row[t] = 0)
  BY <1>1, RewardsAssumption
<1>3. task' = [task EXCEPT ![u] = row]
  BY <1>1 DEF CreateEvent
<1> QED BY <1>1, <1>2, <1>3

\* The bonus of a registration.
LEMMA RegisterFacts ==
    ASSUME Typed, NEW i \in Slots, RegisterEvent(i)
    PROVE  /\ req[i].type = "register" /\ req[i].at = 4 /\ req'[i] = Idle
           /\ cash' \in [Users -> Int] /\ cash'[req[i].user] = cash[req[i].user] + BonusCash
           /\ \A v \in Users : v # req[i].user => cash'[v] = cash[v]
           /\ task' \in [Users -> [Tasks -> -1 .. (Yesterday + 1)]]
           /\ \A v \in Users, t \in Tasks : task'[v][t] = task[v][t] \/ task'[v][t] = 1
           /\ granted' \in [Users -> [Tasks -> Nat]]
           /\ granted'[req[i].user]["bonus"] = granted[req[i].user]["bonus"] + BonusCash
           /\ \A v \in Users, w \in Tasks :
                 v # req[i].user \/ w # "bonus" => granted'[v][w] = granted[v][w]
           /\ UNCHANGED <<received, registered, gold, opinion, payments, channels>>
<1>1. req[i].type = "register" /\ req[i].at = 4 /\ Active(i)
  BY AtFacts, Places DEF RegisterEvent, Typed
<1> PICK u \in Users : u = req[i].user
  BY <1>1, ActiveFacts DEF Typed
<1>2. cash \in [Users -> Int] /\ cash' = [cash EXCEPT ![u] = @ + BonusCash] /\ BonusCash \in Nat
  BY DEF Typed, Tables, RegisterEvent, BonusCash
<1>3. "bonus" \in Tasks /\ task' = [task EXCEPT ![u]["bonus"] = 1]
  BY DEF RegisterEvent, Tasks
<1>4. /\ task' \in [Users -> [Tasks -> -1 .. (Yesterday + 1)]]
      /\ \A v \in Users, t \in Tasks : task'[v][t] = task[v][t] \/ task'[v][t] = 1
  <2> PICK S : S = -1 .. (Yesterday + 1)
    OBVIOUS
  <2>a. PICK one \in S : one = 1
    BY RewardsAssumption
  <2>1. task' = [task EXCEPT ![u]["bonus"] = one] /\ task \in [Users -> [Tasks -> S]]
    BY <1>3, <2>a DEF Typed, Tables
  <2>2. /\ task' \in [Users -> [Tasks -> S]] /\ task'[u]["bonus"] = one
        /\ \A v \in Users, w \in Tasks : v # u \/ w # "bonus" => task'[v][w] = task[v][w]
    BY <1>3, <2>1, EntryFacts
  <2> QED BY <2>2, <2>a
<1> PICK x \in Nat : x = granted[u]["bonus"] + BonusCash
  BY <1>2, <1>3 DEF Typed, Tables
<1>5. granted' = [granted EXCEPT ![u]["bonus"] = x] /\ granted \in [Users -> [Tasks -> Nat]]
  BY DEF RegisterEvent, Typed, Tables
<1>6. /\ granted' \in [Users -> [Tasks -> Nat]] /\ granted'[u]["bonus"] = x
      /\ \A v \in Users, w \in Tasks : v # u \/ w # "bonus" => granted'[v][w] = granted[v][w]
  BY <1>3, <1>5, EntryFacts
<1>7. req'[i] = Idle
  <2>1. 4 = Len(Program[req[i].type])
    BY <1>1, ProgramIs
  <2>2. Go(i)
    BY DEF RegisterEvent
  <2> QED BY <1>1, <2>1, <2>2, GoMoves DEF Typed
<1>8. UNCHANGED <<received, registered, gold, opinion, payments, channels>>
  BY DEF RegisterEvent
<1>9. /\ cash' \in [Users -> Int] /\ cash'[u] = cash[u] + BonusCash
      /\ \A v \in Users : v # u => cash'[v] = cash[v]
  BY <1>2
<1> QED BY <1>1, <1>4, <1>6, <1>7, <1>8, <1>9

\* The event of a reward is put in the channel.
LEMMA EventFacts ==
    ASSUME Typed, NEW i \in Slots, PushEvent(i)
    PROVE  /\ \/ req[i].type = "sign" /\ req[i].at = 6
              \/ req[i].type = "share" /\ req[i].at = 4
           /\ \E e \in Events : /\ e.user = req[i].user /\ e.task = req[i].type
                                /\ eventChan' = Append(eventChan, e)
           /\ Len(eventChan) < EventCap
           /\ UNCHANGED <<received, userInfo, task, opinion, payments, eventHand, goldChan, goldHand,
                          granted>>
<1>1. /\ Active(i)
      /\ \/ req[i].type = "sign" /\ req[i].at = 6
         \/ req[i].type = "share" /\ req[i].at = 4
  BY AtFacts, Places DEF PushEvent, Typed
<1> PICK e : e = [user |-> req[i].user, task |-> TaskOf(req[i].type),
                  status |-> IF req[i].type = "sign" THEN Yesterday + 1 ELSE 1]
  OBVIOUS
<1>2. req[i].user \in Users
  BY <1>1, ActiveFacts DEF Typed
<1>3. TaskOf(req[i].type) = req[i].type
  BY <1>1 DEF TaskOf
<1>4. e \in Events /\ e.user = req[i].user /\ e.task = req[i].type
  BY <1>1, <1>2, <1>3, RewardsAssumption DEF Events
<1>5. eventChan' = Append(eventChan, e)
  BY DEF PushEvent
<1> QED BY <1>1, <1>4, <1>5 DEF PushEvent, history

\* The row of the ledger is put in the channel.
LEMMA RowFacts ==
    ASSUME Typed, NEW i \in Slots, PushGold(i)
    PROVE  /\ \/ req[i].type = "sign" /\ req[i].at = 7
              \/ req[i].type = "effective" /\ req[i].at = 7
              \/ req[i].type \in {"share", "profile"} /\ req[i].at = 5
           /\ goldChan' \in Seq(Rows) /\ Len(goldChan') <= GoldCap
           /\ \E d \in Rows : /\ d.user = req[i].user /\ d.task = TaskOf(req[i].type)
                              /\ d.add = req[i].add /\ goldChan' = Append(goldChan, d)
           /\ UNCHANGED <<received, userInfo, task, opinion, payments, eventChan, eventHand, goldHand,
                          granted>>
<1>1. /\ Active(i)
      /\ \/ req[i].type = "sign" /\ req[i].at = 7
         \/ req[i].type = "effective" /\ req[i].at = 7
         \/ req[i].type \in {"share", "profile"} /\ req[i].at = 5
  BY AtFacts, Places DEF PushGold, Typed
<1> PICK d : d = [user |-> req[i].user, task |-> TaskOf(req[i].type), add |-> req[i].add]
  OBVIOUS
<1>2. req[i].user \in Users /\ req[i].add \in Nat
  BY <1>1, ActiveFacts DEF Typed
<1>3. TaskOf(req[i].type) \in Tasks
  BY <1>1 DEF TaskOf, Tasks
<1>4. d \in Rows /\ d.user = req[i].user /\ d.task = TaskOf(req[i].type) /\ d.add = req[i].add
  BY <1>2, <1>3 DEF Rows
<1>5. goldChan' = Append(goldChan, d) /\ Len(goldChan) < GoldCap /\ goldChan \in Seq(Rows)
  BY DEF PushGold, Typed, Queues
<1>6. goldChan' \in Seq(Rows) /\ Len(goldChan') <= GoldCap
  BY <1>4, <1>5, RewardsAssumption
<1> QED BY <1>1, <1>4, <1>5, <1>6 DEF PushGold, history

\* The insert of a user.
LEMMA InsertFacts ==
    ASSUME Typed, NEW i \in Slots, InsertUser(i)
    PROVE  /\ req[i].type = "register" /\ req[i].at = 2
           /\ registered' = registered \cup {req[i].user} /\ req[i].user \in Users
           /\ UNCHANGED <<received, gold, cash, task, opinion, payments, channels, granted>>
  BY AtFacts, Places, ActiveFacts DEF InsertUser, Typed, history

\* The rows of the tasks.
LEMMA TasksFacts ==
    ASSUME Typed, NEW i \in Slots, OneOffTasks(i) \/ DailyTasks(i)
    PROVE  /\ \/ req[i].type = "register" /\ req[i].at = 3
              \/ req[i].type = "login" /\ req[i].at = 2
           /\ task' \in [Users -> [Tasks -> -1 .. (Yesterday + 1)]]
           /\ \A v \in Users, t \in Tasks :
                 task'[v][t] = task[v][t] \/ (task[v][t] < 0 /\ task'[v][t] = 0)
           /\ UNCHANGED <<received, userInfo, opinion, payments, channels, granted>>
<1>1. /\ Active(i)
      /\ \/ req[i].type = "register" /\ req[i].at = 3
         \/ req[i].type = "login" /\ req[i].at = 2
  BY AtFacts, Places DEF OneOffTasks, DailyTasks, Typed
<1>2. req[i].user \in Users
  BY <1>1, ActiveFacts DEF Typed
<1>3. CreateEvent(req[i].user, {"bonus", "profile"})
      \/ CreateEvent(req[i].user, {"sign", "share", "feedback"})
  BY DEF OneOffTasks, DailyTasks
<1>4. UNCHANGED <<received, userInfo, opinion, payments, channels, granted>>
  BY DEF OneOffTasks, DailyTasks, history
<1> QED BY <1>1, <1>2, <1>3, <1>4, CreateFacts

\* The mark of the profile's task.
LEMMA MarkFacts ==
    ASSUME Typed, NEW i \in Slots, MarkProfile(i)
    PROVE  /\ req[i].type = "profile" /\ req[i].at = 4
           /\ task' \in [Users -> [Tasks -> -1 .. (Yesterday + 1)]]
           /\ task'[req[i].user]["profile"] = 1
           /\ \A v \in Users, w \in Tasks :
                 v # req[i].user \/ w # "profile" => task'[v][w] = task[v][w]
           /\ UNCHANGED <<received, userInfo, opinion, payments, channels, granted>>
<1>1. req[i].type = "profile" /\ req[i].at = 4 /\ Active(i)
  BY AtFacts, Places DEF MarkProfile, Typed
<1> PICK u \in Users : u = req[i].user
  BY <1>1, ActiveFacts DEF Typed
<1>2. "profile" \in Tasks
  BY DEF Tasks
<1>3. /\ task' \in [Users -> [Tasks -> -1 .. (Yesterday + 1)]] /\ task'[u]["profile"] = 1
      /\ \A v \in Users, w \in Tasks : v # u \/ w # "profile" => task'[v][w] = task[v][w]
  <2> PICK S : S = -1 .. (Yesterday + 1)
    OBVIOUS
  <2>a. PICK one \in S : one = 1
    BY RewardsAssumption
  <2>1. task' = [task EXCEPT ![u]["profile"] = one] /\ task \in [Users -> [Tasks -> S]]
    BY <2>a DEF Typed, Tables, MarkProfile
  <2>2. /\ task' \in [Users -> [Tasks -> S]] /\ task'[u]["profile"] = one
        /\ \A v \in Users, w \in Tasks : v # u \/ w # "profile" => task'[v][w] = task[v][w]
    BY <1>2, <2>1, EntryFacts
  <2> QED BY <2>2, <2>a
<1>4. UNCHANGED <<received, userInfo, opinion, payments, channels, granted>>
  BY DEF MarkProfile, history
<1> QED BY <1>1, <1>3, <1>4

\* The feedback's row.
LEMMA OpinionFacts ==
    ASSUME Typed, NEW i \in Slots, Report(i) \/ Validate(i)
    PROVE  /\ \/ req[i].type = "report" /\ req[i].at = 2
              \/ req[i].type = "effective" /\ req[i].at = 5
           /\ opinion' \in [Users -> {"none", "new", "valid"}]
           /\ UNCHANGED <<received, userInfo, task, payments, channels, granted>>
<1>1. /\ Active(i)
      /\ \/ req[i].type = "report" /\ req[i].at = 2
         \/ req[i].type = "effective" /\ req[i].at = 5
  BY AtFacts, Places DEF Report, Validate, Typed
<1>2. req[i].user \in Users /\ opinion \in [Users -> {"none", "new", "valid"}]
  BY <1>1, ActiveFacts DEF Typed, Tables
<1>3. opinion' = opinion \/ \E v \in {"new", "valid"} : opinion' = [opinion EXCEPT ![req[i].user] = v]
  BY DEF Report, Validate
<1>4. opinion' \in [Users -> {"none", "new", "valid"}]
  BY <1>2, <1>3
<1>5. UNCHANGED <<received, userInfo, task, payments, channels, granted>>
  BY DEF Report, Validate, history
<1> QED BY <1>1, <1>4, <1>5

\* A withdrawal.
LEMMA PayFacts ==
    ASSUME Typed, NEW i \in Slots, Pay(i)
    PROVE  /\ req[i].type = "withdraw" /\ req[i].at = 4 /\ req'[i] = Idle
           /\ withdrawn' \in [Users -> Nat] /\ unrecorded' \in [Users -> Nat]
           /\ pending' \in [Users -> Nat] /\ cash' \in [Users -> Int]
           /\ withdrawn'[req[i].user] + unrecorded'[req[i].user]
              = withdrawn[req[i].user] + unrecorded[req[i].user] + req[i].add
           /\ pending'[req[i].user] \in {pending[req[i].user], pending[req[i].user] + 1}
           /\ cash'[req[i].user] = cash[req[i].user] - req[i].add
           /\ \A v \in Users : v # req[i].user =>
                 /\ withdrawn'[v] = withdrawn[v] /\ unrecorded'[v] = unrecorded[v]
                 /\ pending'[v] = pending[v] /\ cash'[v] = cash[v]
           /\ UNCHANGED <<received, registered, gold, task, opinion, channels, granted>>
<1>1. req[i].type = "withdraw" /\ req[i].at = 4 /\ Active(i)
  BY AtFacts, Places DEF Pay, Typed
<1>2. /\ req[i].user \in Users /\ req[i].add \in Nat /\ withdrawn \in [Users -> Nat]
      /\ pending \in [Users -> Nat] /\ cash \in [Users -> Int] /\ unrecorded \in [Users -> Nat]
  BY <1>1, ActiveFacts DEF Typed, Tables
<1>3. /\ \/ /\ withdrawn' = [withdrawn EXCEPT ![req[i].user] = @ + req[i].add]
            /\ pending' = [pending EXCEPT ![req[i].user] = @ + 1]
            /\ unrecorded' = unrecorded
         \/ /\ unrecorded' = [unrecorded EXCEPT ![req[i].user] = @ + req[i].add]
            /\ withdrawn' = withdrawn /\ pending' = pending
      /\ cash' = [cash EXCEPT ![req[i].user] = @ - req[i].add]
  BY DEF Pay
<1>4. req'[i] = Idle
  <2>1. 4 = Len(Program[req[i].type])
    BY <1>1, ProgramIs
  <2>2. Go(i)
    BY DEF Pay
  <2> QED BY <1>1, <2>1, <2>2, GoMoves DEF Typed
<1>5. /\ withdrawn' \in [Users -> Nat] /\ unrecorded' \in [Users -> Nat]
      /\ withdrawn'[req[i].user] + unrecorded'[req[i].user]
         = withdrawn[req[i].user] + unrecorded[req[i].user] + req[i].add
      /\ \A v \in Users : v # req[i].user =>
            withdrawn'[v] = withdrawn[v] /\ unrecorded'[v] = unrecorded[v]
  BY <1>2, <1>3
<1>6. /\ pending' \in [Users -> Nat]
      /\ pending'[req[i].user] \in {pending[req[i].user], pending[req[i].user] + 1}
      /\ \A v \in Users : v # req[i].user => pending'[v] = pending[v]
  BY <1>2, <1>3
<1>7. /\ cash' \in [Users -> Int] /\ cash'[req[i].user] = cash[req[i].user] - req[i].add
      /\ \A v \in Users : v # req[i].user => cash'[v] = cash[v]
  BY <1>2, <1>3
<1>8. UNCHANGED <<received, registered, gold, task, opinion, channels, granted>>
  BY DEF Pay, history
<1> QED BY <1>1, <1>4, <1>5, <1>6, <1>7, <1>8

\* Its approval.
LEMMA ApproveFacts ==
    ASSUME Typed, NEW i \in Slots, Approve(i)
    PROVE  /\ req[i].type = "approve" /\ pending' \in [Users -> Nat]
           /\ \A v \in Users : pending'[v] <= pending[v]
           /\ UNCHANGED <<received, userInfo, task, opinion, withdrawn, unrecorded, channels, granted>>
<1>1. req[i].type = "approve" /\ Active(i)
  BY AtFacts, Places DEF Approve, Typed
<1>2. req[i].user \in Users /\ pending \in [Users -> Nat]
  BY <1>1, ActiveFacts DEF Typed, Tables
<1>3. pending' = [pending EXCEPT ![req[i].user] = IF @ > 0 THEN @ - 1 ELSE @]
  BY DEF Approve
<1> QED BY <1>1, <1>2, <1>3 DEF Approve, history

-----------------------------------------------------------------------------
(* The goroutines behind the channels.                                     *)

\* Taking from a channel, with an empty hand.
LEMMA TakeFacts ==
    ASSUME NEW S, NEW q \in Seq(S), q # <<>>
    PROVE  /\ Tail(q) \in Seq(S) /\ Len(Tail(q)) = Len(q) - 1 /\ Len(q) \in Nat \ {0}
           /\ <<Head(q)>> \in Seq(S) /\ Len(<<Head(q)>>) = 1
  OBVIOUS

\* What is in a hand.
LEMMA OneLeft ==
    ASSUME NEW S, NEW q \in Seq(S), q # <<>>, Len(q) <= 1
    PROVE  q[1] \in S /\ q = <<q[1]>>
<1>1. Len(q) \in Nat \ {0}
  BY TakeFacts
<1>2. Len(q) = 1
  BY <1>1
<1> QED BY <1>2

\* update_eventTable takes an event.
LEMMA TakeEventFacts ==
    ASSUME Typed, TakeEvent
    PROVE  /\ eventHand = <<>> /\ eventChan # <<>>
           /\ eventHand' = <<Head(eventChan)>> /\ eventChan' = Tail(eventChan)
           /\ Queues'
           /\ UNCHANGED <<req, received, userInfo, task, opinion, payments, granted>>
<1>1. eventHand = <<>> /\ eventChan # <<>>
      /\ eventHand' = <<Head(eventChan)>> /\ eventChan' = Tail(eventChan)
      /\ goldChan' = goldChan /\ goldHand' = goldHand
      /\ eventChan \in Seq(Events) /\ Len(eventChan) <= EventCap /\ EventCap \in Nat
  BY RewardsAssumption DEF TakeEvent, Typed, Queues
<1>2. eventHand' \in Seq(Events) /\ Len(eventHand') <= 1
      /\ eventChan' \in Seq(Events) /\ Len(eventChan') <= EventCap
  BY <1>1, TakeFacts
<1>3. Queues'
  BY <1>1, <1>2 DEF Typed, Queues
<1> QED BY <1>1, <1>3 DEF TakeEvent, history

\* saveGoldAndCash takes a row.
LEMMA TakeGoldFacts ==
    ASSUME Typed, TakeGold
    PROVE  /\ Queues'
           /\ UNCHANGED <<req, received, userInfo, task, opinion, payments, granted, eventChan, eventHand>>
<1>1. goldHand = <<>> /\ goldChan # <<>>
      /\ goldHand' = <<Head(goldChan)>> /\ goldChan' = Tail(goldChan)
      /\ eventChan' = eventChan /\ eventHand' = eventHand
      /\ goldChan \in Seq(Rows) /\ Len(goldChan) <= GoldCap /\ GoldCap \in Nat
  BY RewardsAssumption DEF TakeGold, Typed, Queues
<1>2. goldHand' \in Seq(Rows) /\ Len(goldHand') <= 1
      /\ goldChan' \in Seq(Rows) /\ Len(goldChan') <= GoldCap
  BY <1>1, TakeFacts
<1>3. Queues'
  BY <1>1, <1>2 DEF Typed, Queues
<1> QED BY <1>1, <1>3 DEF TakeGold, history

\* It writes the row or is refused; the tables of the users stay.
LEMMA SaveGoldFacts ==
    ASSUME Typed, SaveGold
    PROVE  /\ Queues'
           /\ UNCHANGED <<req, received, userInfo, task, opinion, payments, granted, eventChan, eventHand>>
<1>1. goldHand' = <<>> /\ UNCHANGED <<eventChan, eventHand, goldChan>>
  BY DEF SaveGold
<1>2. Queues'
  BY <1>1 DEF Typed, Queues
<1> QED BY <1>2 DEF SaveGold

\* The event in hand is written, if the task has a row.
LEMMA UpdateFacts ==
    ASSUME Typed, UpdateEvent
    PROVE  /\ Queues' /\ task' \in [Users -> [Tasks -> -1 .. (Yesterday + 1)]]
           /\ eventHand' = <<>> /\ eventChan' = eventChan
           /\ \E e \in Events :
                 /\ eventHand = <<e>>
                 /\ task[e.user][e.task] >= 0 => task'[e.user][e.task] >= 1
                 /\ task[e.user][e.task] < 0 => task'[e.user][e.task] = task[e.user][e.task]
                 /\ \A v \in Users, w \in Tasks :
                       v # e.user \/ w # e.task => task'[v][w] = task[v][w]
           /\ UNCHANGED <<req, received, userInfo, opinion, payments, granted>>
<1> PICK S : S = -1 .. (Yesterday + 1)
  OBVIOUS
<1>1. eventHand \in Seq(Events) /\ Len(eventHand) <= 1 /\ eventHand # <<>>
      /\ task \in [Users -> [Tasks -> S]]
  BY DEF UpdateEvent, Typed, Queues, Tables
<1>2. PICK e : e = eventHand[1]
  OBVIOUS
<1>3. e \in Events /\ eventHand = <<e>>
  <2>1. eventHand[1] \in Events /\ eventHand = <<eventHand[1]>>
    BY <1>1, OneLeft
  <2> QED BY <1>2, <2>1
<1> PICK u \in Users, t \in Tasks : u = e.user /\ t = e.task
  BY <1>3 DEF Events, Tasks
<1>4. e.status \in 1 .. (Yesterday + 1)
  BY <1>3 DEF Events
<1>5. PICK x : x = IF task[u][t] < 0 THEN task[u][t] ELSE e.status
  OBVIOUS
<1>6. x \in S
  BY <1>1, <1>4, <1>5, RewardsAssumption
<1>7. task' = [task EXCEPT ![u][t] = x]
  BY <1>2, <1>5 DEF UpdateEvent
<1>8. /\ task' \in [Users -> [Tasks -> S]] /\ task'[u][t] = x
      /\ \A v \in Users, w \in Tasks : v # u \/ w # t => task'[v][w] = task[v][w]
  BY <1>1, <1>6, <1>7, EntryFacts
<1>9. eventHand' = <<>> /\ eventChan' = eventChan /\ goldChan' = goldChan /\ goldHand' = goldHand
  BY DEF UpdateEvent
<1>10. Queues'
  BY <1>9 DEF Typed, Queues
<1>11. /\ task[u][t] >= 0 => task'[u][t] >= 1
       /\ task[u][t] < 0 => task'[u][t] = task[u][t]
  <2>1. task[u][t] \in S
    BY <1>1
  <2> QED BY <1>4, <1>5, <1>8, <2>1, RewardsAssumption
<1>12. UNCHANGED <<req, received, userInfo, opinion, payments, granted>>
  BY DEF UpdateEvent, history
<1> QED BY <1>3, <1>8, <1>9, <1>10, <1>11, <1>12
-----------------------------------------------------------------------------
(* The types.                                                              *)

\* The first state is sound.
LEMMA InitTyped == Init => Typed /\ Connections /\ Serial
<1> SUFFICES ASSUME Init PROVE Typed /\ Connections /\ Serial
  OBVIOUS
<1>1. \A i \in Slots : req[i] = Idle /\ ~Active(i)
  BY IdleFacts DEF Init, Active
<1>2. Handled
  BY <1>1, IdleFacts DEF Init, Handled
<1>3. Tables
  <2> PICK S : S = -1 .. (Yesterday + 1)
    OBVIOUS
  <2>1. -1 \in S /\ 0 \in S /\ 1 \in S
    BY RewardsAssumption
  <2>2. task \in [Users -> [Tasks -> S]]
    BY <2>1 DEF Init
  <2>3. cash \in [Users -> Int] /\ granted \in [Users -> [Tasks -> Nat]]
    BY RewardsAssumption DEF Init
  <2>4. /\ gold \in [Users -> Nat] /\ withdrawn \in [Users -> Nat]
        /\ pending \in [Users -> Nat] /\ unrecorded \in [Users -> Nat]
    BY DEF Init
  <2>5. opinion \in [Users -> {"none", "new", "valid"}]
    BY DEF Init
  <2>6. registered \subseteq Users
    BY RewardsAssumption DEF Init
  <2> QED BY <2>2, <2>3, <2>4, <2>5, <2>6 DEF Tables
<1>4. Queues
  BY RewardsAssumption DEF Init, Queues
<1>5. received \in 0 .. MaxRequests /\ waiting \subseteq Slots
  BY RewardsAssumption DEF Init
<1>6. Connections
  <2>1. Wanted = {}
    BY <1>1 DEF Wanted
  <2> QED BY <2>1, FS_EmptySet, RewardsAssumption DEF Connections
<1> QED BY <1>1, <1>2, <1>3, <1>4, <1>5, <1>6 DEF Typed, Serial

\* A handler's statement leaves the tables and the channels well formed.
LEMMA HandleTyped ==
    ASSUME Typed, NEW i \in Slots, Handle(i)
    PROVE  Tables' /\ Queues' /\ received' = received
<1>1. CASE Reads(i)
  BY <1>1, ReadsFacts DEF Typed, Tables, Queues, userInfo, payments, channels, history
<1>2. CASE Credit(i) \/ SetGold(i) \/ CreditTx(i)
  <2>1. Active(i) /\ req[i].type \in {"sign", "share", "profile", "effective"} /\ Grant(i)
    BY <1>2, AtFacts, CreditFacts, SetGoldFacts DEF Credit, SetGold, CreditTx, Typed
  <2>2. granted' \in [Users -> [Tasks -> Nat]]
    BY <2>1, GrantFacts
  <2>3. gold' \in [Users -> Nat]
        /\ UNCHANGED <<received, registered, cash, task, opinion, payments, channels>>
    BY <1>2, CreditFacts, SetGoldFacts DEF Typed, Tables, userInfo
  <2> QED BY <2>2, <2>3 DEF Typed, Tables, Queues, payments, channels
<1>3. CASE Commit(i)
  BY <1>3, CommitFacts DEF Typed, Tables, Queues, payments, channels
<1>4. CASE PushEvent(i)
  <2>1. PICK e \in Events : eventChan' = Append(eventChan, e)
    BY <1>4, EventFacts
  <2>2. eventChan' \in Seq(Events) /\ Len(eventChan') <= EventCap
    BY <1>4, <2>1, EventFacts, RewardsAssumption DEF Typed, Queues
  <2>3. UNCHANGED <<received, userInfo, task, opinion, payments, eventHand, goldChan, goldHand, granted>>
    BY <1>4, EventFacts
  <2> QED BY <2>2, <2>3 DEF Typed, Tables, Queues, userInfo, payments
<1>5. CASE PushGold(i)
  BY <1>5, RowFacts DEF Typed, Tables, Queues, userInfo, payments
<1>6. CASE InsertUser(i)
  BY <1>6, InsertFacts DEF Typed, Tables, Queues, payments, channels
<1>7. CASE OneOffTasks(i) \/ DailyTasks(i)
  BY <1>7, TasksFacts DEF Typed, Tables, Queues, userInfo, payments, channels
<1>8. CASE RegisterEvent(i)
  BY <1>8, RegisterFacts DEF Typed, Tables, Queues, payments, channels
<1>9. CASE MarkProfile(i)
  BY <1>9, MarkFacts DEF Typed, Tables, Queues, userInfo, payments, channels
<1>10. CASE Report(i) \/ Validate(i)
  BY <1>10, OpinionFacts DEF Typed, Tables, Queues, userInfo, payments, channels
<1>11. CASE Pay(i)
  BY <1>11, PayFacts DEF Typed, Tables, Queues, channels
<1>12. CASE Approve(i)
  BY <1>12, ApproveFacts DEF Typed, Tables, Queues, userInfo, channels
<1> QED BY <1>1, <1>2, <1>3, <1>4, <1>5, <1>6, <1>7, <1>8, <1>9, <1>10, <1>11, <1>12
        DEF Handle, Reads

\* It waits no longer.
LEMMA HandleWaits ==
    ASSUME NEW i \in Slots, Handle(i)
    PROVE  waiting' \in {waiting, waiting \ {i}}
<1>1. CASE Credit(i) \/ RegisterEvent(i) \/ Pay(i)
  BY <1>1 DEF Credit, RegisterEvent, Pay, Executes
<1>2. CASE Check(i) \/ Begin(i) \/ Status(i) \/ Lookup(i) \/ Info(i) \/ Balance(i)
  BY <1>2 DEF Check, Begin, Status, Lookup, Info, Balance
<1>3. CASE ReadProfile(i) \/ Reward(i) \/ Valid(i) \/ Pending(i) \/ EnoughCash(i)
  BY <1>3 DEF ReadProfile, Reward, Valid, Pending, EnoughCash
<1>4. CASE PushEvent(i) \/ PushGold(i) \/ InsertUser(i) \/ OneOffTasks(i) \/ DailyTasks(i)
  BY <1>4 DEF PushEvent, PushGold, InsertUser, OneOffTasks, DailyTasks
<1>5. CASE MarkProfile(i) \/ Report(i) \/ Validate(i) \/ Approve(i)
  BY <1>5 DEF MarkProfile, Report, Validate, Approve
<1>6. CASE SetGold(i) \/ CreditTx(i) \/ Commit(i)
  BY <1>6 DEF SetGold, CreditTx, Commit
<1> QED BY <1>1, <1>2, <1>3, <1>4, <1>5, <1>6 DEF Handle

\* A step keeps the types.
LEMMA NextTyped ==
    ASSUME Typed, [Next]_vars
    PROVE  Typed'
<1>1. Handled'
  BY NextHandled DEF Typed
<1>2. CASE Receive
  <2>1. UNCHANGED <<waiting, userInfo, task, opinion, payments, channels, history>>
    BY <1>2 DEF Receive
  <2>2. received' \in 0 .. MaxRequests
    BY <1>2, RewardsAssumption DEF Receive, Typed
  <2> QED BY <1>1, <2>1, <2>2 DEF Typed, Tables, Queues, userInfo, payments, channels, history
<1>3. ASSUME NEW i \in Slots, Handle(i)
      PROVE  Typed'
  BY <1>1, <1>3, HandleTyped, HandleWaits DEF Typed
<1>4. ASSUME NEW i \in Slots, Wait(i)
      PROVE  Typed'
  BY <1>1, <1>4, WaitFacts DEF Typed, Tables, Queues, userInfo, payments, channels, history
<1>5. CASE TakeEvent
  <2>1. waiting' = waiting
    BY <1>5 DEF TakeEvent
  <2> QED BY <1>1, <1>5, <2>1, TakeEventFacts DEF Typed, Tables, userInfo, payments
<1>6. CASE UpdateEvent
  <2>1. waiting' = waiting
    BY <1>6 DEF UpdateEvent
  <2> QED BY <1>1, <1>6, <2>1, UpdateFacts DEF Typed, Tables, userInfo, payments
<1>7. CASE TakeGold
  <2>1. waiting' = waiting
    BY <1>7 DEF TakeGold
  <2> QED BY <1>1, <1>7, <2>1, TakeGoldFacts DEF Typed, Tables, userInfo, payments
<1>8. CASE SaveGold
  <2>1. waiting' = waiting
    BY <1>8 DEF SaveGold
  <2> QED BY <1>1, <1>8, <2>1, SaveGoldFacts DEF Typed, Tables, userInfo, payments
<1>9. CASE UNCHANGED vars
  BY <1>1, <1>9 DEF Typed, Tables, Queues, vars, userInfo, payments, channels, history
<1> QED BY <1>2, <1>3, <1>4, <1>5, <1>6, <1>7, <1>8, <1>9 DEF Next

\* What every state satisfies, whoever the users are.
Sound == Typed /\ Connections /\ Serial

\* Every state is sound.
LEMMA AlwaysSound == Spec => []Sound
<1>1. Init => Sound
  BY InitTyped DEF Sound
<1>2. Sound /\ [Next]_vars => Sound'
  BY NextTyped, NextConnections, NextSerial DEF Sound, Typed
<1> QED BY <1>1, <1>2, PTL DEF Spec

\* The variables have their types, the channels their limits, and a statement
\* that needs a connection for itself finds one: the handlers served at a time
\* never hold them all (main.go:27).
THEOREM TypeCorrect == Spec => []TypeOK
<1>1. Sound => TypeOK
  <2> SUFFICES ASSUME Sound PROVE TypeOK
    OBVIOUS
  <2>1. Free \in 1 .. Conns
    BY FreeLeft DEF Sound
  <2>2. \A i \in Slots : /\ req[i].type \in Types \cup {"none"} /\ req[i].add \in Nat
                         /\ req[i].old \in Nat /\ Active(i) => req[i].user \in Users
    <3> SUFFICES ASSUME NEW i \in Slots
                 PROVE  /\ req[i].type \in Types \cup {"none"} /\ req[i].add \in Nat
                        /\ req[i].old \in Nat
                        /\ Active(i) => req[i].user \in Users
      OBVIOUS
    <3>1. CASE Active(i)
      BY <3>1, ActiveFacts DEF Sound, Typed
    <3>2. CASE ~Active(i)
      <4>1. req[i] = Idle
        BY <3>2 DEF Sound, Typed, Handled
      <4> QED BY <3>2, <4>1 DEF Idle
    <3> QED BY <3>1, <3>2
  <2>3. \A u \in Users, t \in Tasks : task[u][t] \in -1 .. (Yesterday + 1)
    BY DEF Sound, Typed, Tables
  <2> QED BY <2>1, <2>2, <2>3 DEF Sound, Typed, Tables, Queues, TypeOK
<1> QED BY <1>1, AlwaysSound, PTL
-----------------------------------------------------------------------------
(* The cash.                                                               *)

Asks(i, u, type) == req[i].user = u /\ req[i].type = type

\* What a handler has found out about its user's cash stays true until it uses it.
CashSlot(i, u) ==
    /\ Asks(i, u, "register") /\ req[i].at >= 2 => granted[u]["bonus"] = 0
    /\ Asks(i, u, "register") /\ req[i].at >= 3 => u \in registered
    /\ Asks(i, u, "withdraw") /\ req[i].at >= 3 => pending[u] = 0
    /\ Asks(i, u, "withdraw") /\ req[i].at >= 4 => req[i].add <= cash[u]

\* What the property says of one user.
Accounted(u) ==
    /\ cash[u] >= 0 /\ pending[u] <= 1
    /\ cash[u] + withdrawn[u] + unrecorded[u]
       = (IF u \in Old THEN Cash0 ELSE 0) + granted[u]["bonus"]
    /\ granted[u]["bonus"] <= BonusCash

CashOf(u) ==
    /\ Accounted(u)
    /\ u \notin registered => granted[u]["bonus"] = 0
    /\ \A i \in Slots : CashSlot(i, u)

CashInv == \A u \in Patient : CashOf(u)

\* A slot with a request is at work, and a patient user has one at most.
LEMMA AsksFacts ==
    ASSUME Handled, NEW i \in Slots, NEW u, NEW type \in DOMAIN Program, Asks(i, u, type)
    PROVE  Active(i)
<1>1. type # "none"
  BY ProgramIs
<1>2. CASE ~Active(i)
  <2>1. req[i] = Idle
    BY <1>2 DEF Handled
  <2> QED BY <1>1, <2>1 DEF Asks, Idle
<1> QED BY <1>2

\* A client that waits has one handler at most.
LEMMA Alone ==
    ASSUME Handled, Serial, NEW u \in Patient, NEW i \in Slots, NEW j \in Slots,
           NEW s \in DOMAIN Program \ OperatorTypes, NEW t \in DOMAIN Program \ OperatorTypes,
           Asks(i, u, s), Asks(j, u, t)
    PROVE  i = j
<1>1. Active(i) /\ Active(j)
  BY AsksFacts
<1> QED BY <1>1 DEF Serial, Asks

\* The users' own requests.
LEMMA OwnTypes == \A t \in {"register", "login", "sign", "share", "profile", "report", "withdraw"} :
                      t \in DOMAIN Program \ OperatorTypes
  BY ProgramIs DEF OperatorTypes

\* What a statement has to show when it leaves the user's money alone.
LEMMA CashStep ==
    ASSUME Typed, Typed', NEW u \in Patient, CashOf(u), NEW i \in Slots, Moves(i),
           granted'[u]["bonus"] = granted[u]["bonus"], pending'[u] <= pending[u],
           cash'[u] = cash[u], withdrawn'[u] = withdrawn[u], unrecorded'[u] = unrecorded[u],
           u \in registered => u \in registered',
           CashSlot(i, u)'
    PROVE  CashOf(u)'
<1>1. u \in Users
  BY RewardsAssumption
<1>2. pending[u] \in Nat /\ pending'[u] \in Nat /\ cash[u] \in Int /\ withdrawn[u] \in Nat
  BY <1>1 DEF Typed, Tables
<1>3. Accounted(u)'
  BY <1>2 DEF CashOf, Accounted
<1>4. ASSUME NEW j \in Slots
      PROVE  CashSlot(j, u)'
  <2>1. CASE j = i
    BY <2>1
  <2>2. CASE j # i
    <3>1. req'[j] = req[j]
      BY <2>2 DEF Moves
    <3>2. CashSlot(j, u)
      BY DEF CashOf
    <3> QED BY <1>2, <3>1, <3>2 DEF CashSlot, Asks
  <2> QED BY <2>1, <2>2
<1>5. u \notin registered' => granted'[u]["bonus"] = 0
  BY DEF CashOf
<1> QED BY <1>3, <1>4, <1>5 DEF CashOf

\* A request that is not about cash has nothing to show; nor has one that is answered.
LEMMA OtherSlot ==
    ASSUME NEW u, NEW i \in Slots, Moves(i),
           req'[i] = Idle \/ req[i].user # u \/ req[i].type \notin {"register", "withdraw"}
    PROVE  CashSlot(i, u)'
<1>1. CASE req'[i] = Idle
  BY <1>1 DEF CashSlot, Asks, Idle
<1>2. CASE req'[i] # Idle
  <2>1. req'[i].type = req[i].type /\ req'[i].user = req[i].user
    BY <1>2 DEF Moves
  <2> QED BY <1>2, <2>1 DEF CashSlot, Asks
<1> QED BY <1>1, <1>2

\* Which statements of the two requests only read, and what they find.
LEMMA ReadsCash ==
    ASSUME Typed, NEW i \in Slots, Reads(i), req'[i] # Idle
    PROVE  /\ req[i].type = "register" => req[i].at = 1 /\ req[i].user \notin registered
           /\ req[i].type = "withdraw" =>
                 /\ Steady(i) /\ req[i].at \in {1, 2, 3}
                 /\ req[i].at = 2 => ~(pending[req[i].user] > 0)
                 /\ req[i].at = 3 => req[i].add <= cash[req[i].user]
<1>1. Handled
  BY DEF Typed
<1>2. ASSUME req[i].type = "register"
      PROVE  Lookup(i) /\ req[i].at = 1
  BY <1>1, <1>2, AtFacts, Places
     DEF Reads, Check, Begin, Status, Lookup, Info, Balance, ReadProfile, Reward, Valid, Pending,
         EnoughCash
<1>3. ASSUME req[i].type = "withdraw"
      PROVE  \/ Check(i) /\ req[i].at = 1
             \/ Pending(i) /\ req[i].at = 2
             \/ EnoughCash(i) /\ req[i].at = 3
  BY <1>1, <1>3, AtFacts, Places
     DEF Reads, Check, Begin, Status, Lookup, Info, Balance, ReadProfile, Reward, Valid, Pending,
         EnoughCash
<1>4. ~Answer(i)
  BY <1>1, AnswerMoves
<1>5. Lookup(i) => req[i].user \notin registered
  BY <1>4 DEF Lookup
<1>6. Pending(i) => ~(pending[req[i].user] > 0)
  BY <1>4 DEF Pending
<1>7. EnoughCash(i) => req[i].add <= cash[req[i].user]
  BY <1>4 DEF EnoughCash
<1>8. Check(i) \/ Pending(i) \/ EnoughCash(i) => Steady(i)
  BY <1>1, PlainMoves DEF Plain
<1> QED BY <1>2, <1>3, <1>5, <1>6, <1>7, <1>8

\* A reader's statement keeps the account.
LEMMA CashReads ==
    ASSUME Typed, Typed', NEW u \in Patient, CashOf(u), NEW i \in Slots, Reads(i)
    PROVE  CashOf(u)'
<1>1. Moves(i) /\ Active(i)
  BY HandleMoves DEF Handle, Reads, Typed
<1>2. UNCHANGED <<userInfo, payments, history>>
  BY ReadsFacts
<1>3. CashSlot(i, u)'
  <2> SUFFICES ASSUME req'[i] # Idle, req[i].user = u, req[i].type \in {"register", "withdraw"}
               PROVE  CashSlot(i, u)'
    BY <1>1, OtherSlot
  <2>1. /\ req'[i].user = u /\ req'[i].type = req[i].type /\ req'[i].at = req[i].at + 1
    BY <1>1 DEF Moves
  <2>2. CASE req[i].type = "register"
    <3>1. req'[i].at = 2 /\ u \notin registered
      BY <2>1, <2>2, ReadsCash
    <3>2. granted[u]["bonus"] = 0
      BY <3>1 DEF CashOf
    <3> QED BY <1>2, <2>1, <2>2, <3>1, <3>2 DEF CashSlot, Asks, history
  <2>3. CASE req[i].type = "withdraw"
    <3>1. /\ req'[i].add = req[i].add /\ req[i].at \in {1, 2, 3}
          /\ req[i].at = 2 => ~(pending[u] > 0)
          /\ req[i].at = 3 => req[i].add <= cash[u]
      BY <2>3, ReadsCash DEF Steady
    <3>2. pending[u] \in Nat
      BY RewardsAssumption DEF Typed, Tables
    <3>3. CashSlot(i, u)
      BY DEF CashOf
    <3>4. req'[i].at >= 3 => pending[u] = 0
      BY <2>1, <2>3, <3>1, <3>2, <3>3 DEF CashSlot, Asks
    <3>5. req'[i].at >= 4 => req'[i].add <= cash[u]
      BY <2>1, <2>3, <3>1
    <3> QED BY <1>2, <2>1, <2>3, <3>4, <3>5 DEF CashSlot, Asks, userInfo, payments
  <2> QED BY <2>2, <2>3
<1>4. /\ granted' = granted /\ pending' = pending /\ cash' = cash /\ withdrawn' = withdrawn
      /\ registered' = registered /\ unrecorded' = unrecorded
  BY <1>2 DEF userInfo, payments, history
<1>5. pending'[u] <= pending[u]
  BY <1>4, RewardsAssumption DEF Typed, Tables
<1> QED BY <1>1, <1>3, <1>4, <1>5, CashStep

\* The bonus is given to a user who has had none.
LEMMA CashRegister ==
    ASSUME Typed, Typed', Serial, NEW u \in Patient, CashOf(u), NEW i \in Slots, RegisterEvent(i)
    PROVE  CashOf(u)'
<1>1. Handled /\ u \in Users
  BY RewardsAssumption DEF Typed
<1>2. /\ req[i].type = "register" /\ req[i].at = 4 /\ req'[i] = Idle /\ Moves(i)
      /\ withdrawn' = withdrawn /\ unrecorded' = unrecorded
      /\ pending' = pending /\ registered' = registered
  BY <1>1, RegisterFacts, PlainMoves DEF Plain, payments
<1>3. CASE req[i].user # u
  <2>1. cash'[u] = cash[u] /\ granted'[u]["bonus"] = granted[u]["bonus"]
    BY <1>1, <1>3, RegisterFacts DEF Tasks
  <2>2. pending'[u] <= pending[u]
    BY <1>1, <1>2 DEF Typed, Tables
  <2>3. CashSlot(i, u)'
    BY <1>2, OtherSlot
  <2> QED BY <1>2, <2>1, <2>2, <2>3, CashStep
<1>4. CASE req[i].user = u
  <2>1. cash'[u] = cash[u] + BonusCash /\ granted'[u]["bonus"] = granted[u]["bonus"] + BonusCash
    BY <1>1, <1>4, RegisterFacts
  <2>2. Asks(i, u, "register") /\ granted[u]["bonus"] = 0 /\ u \in registered
    BY <1>2, <1>4 DEF CashOf, CashSlot, Asks
  <2>3. BonusCash \in Nat /\ cash[u] \in Int /\ withdrawn[u] \in Nat /\ unrecorded[u] \in Nat
    BY <1>1 DEF Typed, Tables, BonusCash
  <2>4. Accounted(u)'
    <3>1. Accounted(u) /\ Cash0 \in Nat
      BY RewardsAssumption DEF CashOf
    <3>2. granted'[u]["bonus"] = BonusCash
      BY <2>1, <2>2, <2>3
    <3>3. cash'[u] >= 0 /\ pending'[u] <= 1
      BY <1>2, <2>1, <2>3, <3>1 DEF Accounted
    <3>4. cash'[u] + withdrawn'[u] + unrecorded'[u] = (IF u \in Old THEN Cash0 ELSE 0) + BonusCash
      BY <1>2, <2>1, <2>2, <2>3, <3>1 DEF Accounted
    <3> QED BY <2>3, <3>2, <3>3, <3>4 DEF Accounted
  <2>5. ASSUME NEW j \in Slots
        PROVE  CashSlot(j, u)'
    <3>1. CASE j = i
      BY <1>2, <3>1, OtherSlot
    <3>2. CASE j # i
      <4>1. ~Asks(j, u, "register") /\ ~Asks(j, u, "withdraw")
        BY <1>1, <2>2, <3>2, Alone, OwnTypes
      <4>2. req'[j] = req[j]
        BY <1>2, <3>2 DEF Moves
      <4> QED BY <4>1, <4>2 DEF CashSlot, Asks
    <3> QED BY <3>1, <3>2
  <2> QED BY <1>2, <2>2, <2>4, <2>5 DEF CashOf
<1> QED BY <1>3, <1>4

\* What is taken from the balance goes to one of the two accounts.
LEMMA TakenKept ==
    ASSUME NEW c \in Int, NEW w \in Nat, NEW x \in Nat, NEW a \in Nat, NEW d \in Int,
           NEW v \in Nat, NEW y \in Nat, d = c - a, v + y = w + x + a
    PROVE  d + v + y = c + w + x
  OBVIOUS

\* A withdrawal finds the balance that it has seen, and no other waits.
LEMMA CashPay ==
    ASSUME Typed, Typed', Serial, NEW u \in Patient, CashOf(u), NEW i \in Slots, Pay(i)
    PROVE  CashOf(u)'
<1>1. Handled /\ u \in Users
  BY RewardsAssumption DEF Typed
<1>2. /\ req[i].type = "withdraw" /\ req[i].at = 4 /\ req'[i] = Idle /\ Moves(i)
      /\ registered' = registered /\ granted' = granted
  BY <1>1, PayFacts, PlainMoves DEF Plain
<1>3. CASE req[i].user # u
  <2>1. /\ cash'[u] = cash[u] /\ pending'[u] = pending[u]
        /\ withdrawn'[u] = withdrawn[u] /\ unrecorded'[u] = unrecorded[u]
    BY <1>1, <1>3, PayFacts
  <2>2. pending'[u] <= pending[u]
    BY <1>1, <2>1 DEF Typed, Tables
  <2>3. CashSlot(i, u)'
    BY <1>2, OtherSlot
  <2> QED BY <1>2, <2>1, <2>2, <2>3, CashStep
<1>4. CASE req[i].user = u
  <2>1. /\ cash'[u] = cash[u] - req[i].add /\ pending'[u] \in {pending[u], pending[u] + 1}
        /\ withdrawn'[u] + unrecorded'[u] = withdrawn[u] + unrecorded[u] + req[i].add
    BY <1>1, <1>4, PayFacts
  <2>2. Asks(i, u, "withdraw") /\ pending[u] = 0 /\ req[i].add <= cash[u]
    BY <1>2, <1>4 DEF CashOf, CashSlot, Asks
  <2>3. /\ cash[u] \in Int /\ withdrawn[u] \in Nat /\ unrecorded[u] \in Nat /\ req[i].add \in Nat
        /\ withdrawn'[u] \in Nat /\ unrecorded'[u] \in Nat
    BY <1>1, <2>2, AsksFacts, ActiveFacts, OwnTypes DEF Typed, Tables
  <2>4. Accounted(u)'
    <3>1. Accounted(u) /\ granted'[u]["bonus"] = granted[u]["bonus"]
      BY <1>2 DEF CashOf
    <3>2. cash'[u] >= 0 /\ pending'[u] <= 1
      BY <2>1, <2>2, <2>3
    <3>3. cash'[u] \in Int
      BY <1>1 DEF Typed, Tables
    <3>4. cash'[u] + withdrawn'[u] + unrecorded'[u] = cash[u] + withdrawn[u] + unrecorded[u]
      BY <2>1, <2>3, <3>3, TakenKept
    <3> QED BY <3>1, <3>2, <3>4 DEF Accounted
  <2>5. ASSUME NEW j \in Slots
        PROVE  CashSlot(j, u)'
    <3>1. CASE j = i
      BY <1>2, <3>1, OtherSlot
    <3>2. CASE j # i
      <4>1. ~Asks(j, u, "register") /\ ~Asks(j, u, "withdraw")
        BY <1>1, <2>2, <3>2, Alone, OwnTypes
      <4>2. req'[j] = req[j]
        BY <1>2, <3>2 DEF Moves
      <4> QED BY <4>1, <4>2 DEF CashSlot, Asks
    <3> QED BY <3>1, <3>2
  <2>6. u \notin registered' => granted'[u]["bonus"] = 0
    BY <1>2 DEF CashOf
  <2> QED BY <2>4, <2>5, <2>6 DEF CashOf
<1> QED BY <1>3, <1>4

\* The other statements of a registration.
LEMMA CashInsert ==
    ASSUME Typed, Typed', NEW u \in Patient, CashOf(u), NEW i \in Slots,
           InsertUser(i) \/ OneOffTasks(i)
    PROVE  CashOf(u)'
<1>1. Handled /\ u \in Users
  BY RewardsAssumption DEF Typed
<1>2. /\ Moves(i) /\ Active(i)
      /\ cash' = cash /\ withdrawn' = withdrawn /\ unrecorded' = unrecorded
      /\ pending' = pending /\ granted' = granted /\ registered \subseteq registered'
  BY <1>1, PlainMoves, InsertFacts, TasksFacts DEF Plain, payments, userInfo
<1>3. CashSlot(i, u)'
  <2> SUFFICES ASSUME req'[i] # Idle, req[i].user = u
               PROVE  CashSlot(i, u)'
    BY <1>2, OtherSlot
  <2>1. /\ req'[i].user = u /\ req'[i].type = req[i].type /\ req'[i].at = req[i].at + 1
    BY <1>2 DEF Moves
  <2>2. CashSlot(i, u)
    BY DEF CashOf
  <2>3. CASE InsertUser(i)
    <3>1. req[i].type = "register" /\ req[i].at = 2 /\ u \in registered'
      BY <2>3, InsertFacts
    <3> QED BY <1>2, <2>1, <2>2, <3>1 DEF CashSlot, Asks
  <2>4. CASE OneOffTasks(i)
    <3>1. req[i].type = "register" /\ req[i].at = 3
      BY <1>1, <2>4, AtFacts, Places DEF OneOffTasks
    <3> QED BY <1>2, <2>1, <2>2, <3>1 DEF CashSlot, Asks
  <2> QED BY <2>3, <2>4
<1>4. pending'[u] <= pending[u]
  BY <1>1, <1>2 DEF Typed, Tables
<1> QED BY <1>2, <1>3, <1>4, CashStep

\* The statements that are not about cash, and the operator's work.
LEMMA CashOthers ==
    ASSUME Typed, Typed', NEW u \in Patient, CashOf(u), NEW i \in Slots,
           \/ Credit(i) \/ PushEvent(i) \/ PushGold(i) \/ DailyTasks(i) \/ SetGold(i)
           \/ MarkProfile(i) \/ Report(i) \/ Validate(i) \/ CreditTx(i) \/ Commit(i) \/ Approve(i)
    PROVE  CashOf(u)'
<1>1. Handled /\ u \in Users /\ "bonus" \in Tasks
  BY RewardsAssumption DEF Typed, Tasks
<1>2. Moves(i) /\ Active(i)
  BY <1>1, PlainMoves DEF Plain
<1>3. req[i].type \notin {"register", "withdraw"}
  <2>1. PICK op \in {"credit", "event", "ledger", "daily", "setGold", "mark", "report", "validate",
                     "creditTx", "commit", "approve"} : At(i, op)
    BY DEF Credit, PushEvent, PushGold, DailyTasks, SetGold, MarkProfile, Report, Validate, CreditTx,
           Commit, Approve
  <2>2. req[i].type \in DOMAIN Program /\ req[i].at \in DOMAIN Program[req[i].type]
        /\ Program[req[i].type][req[i].at] = op
    BY <1>1, <2>1, AtFacts
  <2> QED BY <2>1, <2>2, Places
<1>4. /\ cash' = cash /\ withdrawn' = withdrawn /\ unrecorded' = unrecorded
      /\ registered' = registered
  BY DEF Credit, PushEvent, PushGold, DailyTasks, SetGold, MarkProfile, Report,
         Validate, CreditTx, Commit, Approve, userInfo, payments
<1>5. pending'[u] <= pending[u]
  <2>1. CASE Approve(i)
    BY <1>1, <2>1, ApproveFacts
  <2>2. CASE ~Approve(i)
    <3>1. pending' = pending
      BY <2>2 DEF Credit, PushEvent, PushGold, DailyTasks, SetGold, MarkProfile, Report,
             Validate, CreditTx, Commit, payments
    <3> QED BY <1>1, <3>1 DEF Typed, Tables
  <2> QED BY <2>1, <2>2
<1>6. granted'[u]["bonus"] = granted[u]["bonus"]
  <2>1. CASE Credit(i) \/ SetGold(i) \/ CreditTx(i)
    <3>1. /\ req[i].type \in {"sign", "share", "profile", "effective"} /\ Grant(i)
      BY <2>1, CreditFacts, SetGoldFacts
    <3>2. TaskOf(req[i].type) # "bonus"
      BY <3>1 DEF TaskOf
    <3> QED BY <1>1, <1>2, <3>1, <3>2, GrantFacts
  <2>2. CASE ~(Credit(i) \/ SetGold(i) \/ CreditTx(i))
    BY <2>2 DEF PushEvent, PushGold, DailyTasks, MarkProfile, Report,
             Validate, Commit, Approve, history
  <2> QED BY <2>1, <2>2
<1>7. CashSlot(i, u)'
  BY <1>2, <1>3, OtherSlot
<1> QED BY <1>2, <1>4, <1>5, <1>6, <1>7, CashStep

\* A request comes in at its first statement, and nothing is to be shown of it.
LEMMA CashReceive ==
    ASSUME Typed, Typed', NEW u \in Patient, CashOf(u), Receive
    PROVE  CashOf(u)'
<1>1. PICK i \in Slots, type \in Types, w \in Users, add \in Nat : Arrives(i, type, w, add)
  BY ReceiveArrives DEF Typed
<1>2. /\ cash' = cash /\ withdrawn' = withdrawn /\ unrecorded' = unrecorded
      /\ pending' = pending /\ granted' = granted /\ registered' = registered
  BY DEF Receive, userInfo, payments, history
<1>3. ASSUME NEW j \in Slots
      PROVE  CashSlot(j, u)'
  <2>1. CASE j = i
    BY <1>1, <2>1 DEF Arrives, CashSlot, Asks
  <2>2. CASE j # i
    <3>1. req'[j] = req[j] /\ CashSlot(j, u)
      BY <1>1, <2>2 DEF Arrives, CashOf
    <3> QED BY <1>2, <3>1 DEF CashSlot, Asks
  <2> QED BY <2>1, <2>2
<1> QED BY <1>2, <1>3 DEF CashOf, Accounted

\* Every step keeps the accounts.
LEMMA NextCash ==
    ASSUME Sound, Typed', CashInv, [Next]_vars
    PROVE  CashInv'
<1> SUFFICES ASSUME NEW u \in Patient PROVE CashOf(u)'
  BY DEF CashInv
<1>1. Typed /\ Serial /\ CashOf(u)
  BY DEF Sound, CashInv
<1>2. CASE Receive
  BY <1>1, <1>2, CashReceive
<1>3. ASSUME NEW i \in Slots, Handle(i)
      PROVE  CashOf(u)'
  BY <1>1, <1>3, CashReads, CashRegister, CashPay, CashInsert, CashOthers DEF Handle, Reads
<1>4. CASE \/ TakeEvent \/ UpdateEvent \/ TakeGold \/ SaveGold
          \/ (\E j \in Slots : Wait(j)) \/ UNCHANGED vars
  <2>1. /\ cash' = cash /\ withdrawn' = withdrawn /\ pending' = pending /\ granted' = granted
        /\ registered' = registered /\ req' = req /\ unrecorded' = unrecorded
    BY <1>4, WaitFacts DEF TakeEvent, UpdateEvent, TakeGold, SaveGold, vars, userInfo, payments, history
  <2> QED BY <1>1, <2>1 DEF CashOf, Accounted, CashSlot, Asks
<1> QED BY <1>2, <1>3, <1>4 DEF Next

\* The cash of a user whose client waits, what he has withdrawn and what was taken
\* without a row (withdrawalData.go:118-129) are what he started with and one
\* bonus; he is never in debt and has at most one withdrawal waiting.  The
\* statements read a balance that only this request changes, and the operator
\* only takes waiting withdrawals away (withdrawalData.go:80-142).
THEOREM CashAddsUp == Spec => []CashAccounted
<1>1. Init => CashInv
  <2> SUFFICES ASSUME Init, NEW u \in Patient PROVE CashOf(u)
    BY DEF CashInv
  <2>1. u \in Users /\ "bonus" \in Tasks
    BY RewardsAssumption DEF Tasks
  <2>2. /\ cash[u] = (IF u \in Old THEN Cash0 ELSE 0) /\ granted[u]["bonus"] = 0
        /\ withdrawn[u] = 0 /\ unrecorded[u] = 0 /\ pending[u] = 0
    BY <2>1 DEF Init
  <2>3. \A i \in Slots : req[i].type = "none"
    BY DEF Init, Idle
  <2>4. Accounted(u)
    BY <2>2, RewardsAssumption DEF Accounted, BonusCash
  <2> QED BY <2>2, <2>3, <2>4 DEF CashOf, CashSlot, Asks
<1>2. Sound /\ Sound' /\ CashInv /\ [Next]_vars => CashInv'
  BY NextCash DEF Sound
<1>3. CashInv => CashAccounted
  BY DEF CashInv, CashOf, Accounted, CashAccounted
<1> QED BY <1>1, <1>2, <1>3, AlwaysSound, PTL DEF Spec
-----------------------------------------------------------------------------
(* The task that is shared.                                                *)

\* An event about the user's task is in the queue.
Queued(q, u) == \E k \in DOMAIN q : q[k].user = u /\ q[k].task = "share"

\* A handler that grants something has seen a row.
ShareSlot(i, u) == Asks(i, u, "share") /\ req[i].at >= 3 /\ req[i].add > 0 => task[u]["share"] >= 0

\* A granted reward has its event to come, on its way, or written.
ShareOf(u) ==
    /\ granted[u]["share"] > 0 =>
          /\ task[u]["share"] >= 0
          /\ \/ task[u]["share"] > 0 \/ Queued(eventHand, u) \/ Queued(eventChan, u)
             \/ \E i \in Slots : Asks(i, u, "share") /\ req[i].at = 4
    /\ \A i \in Slots : ShareSlot(i, u)

ShareInv == \A u \in Users : ShareOf(u)

\* Statuses only grow.
Grows(u) == /\ task[u]["share"] >= 0 => task'[u]["share"] >= 0
            /\ task[u]["share"] > 0 => task'[u]["share"] > 0

\* An event that is sent is in the channel ...
LEMMA QueuedAppend ==
    ASSUME NEW q \in Seq(Events), NEW e \in Events, NEW u
    PROVE  /\ Queued(q, u) => Queued(Append(q, e), u)
           /\ e.user = u /\ e.task = "share" => Queued(Append(q, e), u)
<1> PICK r : r = Append(q, e)
  OBVIOUS
<1>1. /\ DOMAIN r = 1 .. (Len(q) + 1) /\ DOMAIN q = 1 .. Len(q) /\ Len(q) \in Nat
      /\ \A k \in 1 .. Len(q) : r[k] = q[k]
      /\ r[Len(q) + 1] = e
  OBVIOUS
<1>2. Queued(q, u) => Queued(r, u)
  BY <1>1 DEF Queued
<1>3. e.user = u /\ e.task = "share" => Queued(r, u)
  BY <1>1 DEF Queued
<1> QED BY <1>2, <1>3

\* ... one that is taken is in the hand ...
LEMMA QueuedTake ==
    ASSUME NEW q \in Seq(Events), q # <<>>, NEW u, Queued(q, u)
    PROVE  Queued(<<Head(q)>>, u) \/ Queued(Tail(q), u)
<1>1. PICK k \in DOMAIN q : q[k].user = u /\ q[k].task = "share"
  BY DEF Queued
<1>2. CASE k = 1
  <2>1. <<Head(q)>>[1] = q[k] /\ 1 \in DOMAIN <<Head(q)>>
    BY <1>2
  <2> QED BY <1>1, <2>1 DEF Queued
<1>3. CASE k # 1
  <2>1. k - 1 \in DOMAIN Tail(q) /\ Tail(q)[k - 1] = q[k]
    BY <1>3
  <2> QED BY <1>1, <2>1 DEF Queued
<1> QED BY <1>2, <1>3

\* ... and both are what is on the way.
LEMMA QueuedBoth ==
    ASSUME NEW p \in Seq(Events), NEW q \in Seq(Events), NEW u, Queued(p, u) \/ Queued(q, u)
    PROVE  Queued(p \o q, u)
<1>1. ASSUME NEW k \in DOMAIN p, p[k].user = u, p[k].task = "share"
      PROVE  Queued(p \o q, u)
  <2>1. k \in DOMAIN (p \o q) /\ (p \o q)[k] = p[k]
    OBVIOUS
  <2> QED BY <1>1, <2>1 DEF Queued
<1>2. ASSUME NEW k \in DOMAIN q, q[k].user = u, q[k].task = "share"
      PROVE  Queued(p \o q, u)
  <2>1. Len(p) + k \in DOMAIN (p \o q) /\ (p \o q)[Len(p) + k] = q[k]
    OBVIOUS
  <2> QED BY <1>2, <2>1 DEF Queued
<1> QED BY <1>1, <1>2 DEF Queued

\* What a statement has to show when it grants nothing and sends nothing.
LEMMA ShareStep ==
    ASSUME Typed, Typed', NEW u \in Users, ShareOf(u), NEW i \in Slots, Moves(i), Grows(u),
           granted'[u]["share"] = granted[u]["share"],
           eventHand' = eventHand, eventChan' = eventChan,
           ~(Asks(i, u, "share") /\ req[i].at = 4), ShareSlot(i, u)'
    PROVE  ShareOf(u)'
<1>1. "share" \in Tasks
  BY DEF Tasks
<1>2. task[u]["share"] \in Int /\ task'[u]["share"] \in Int
  BY <1>1, RewardsAssumption DEF Typed, Tables
<1>3. ASSUME NEW j \in Slots, j # i
      PROVE  req'[j] = req[j] /\ ShareSlot(j, u)'
  <2>1. req'[j] = req[j] /\ ShareSlot(j, u)
    BY <1>3 DEF Moves, ShareOf
  <2> QED BY <1>2, <2>1 DEF ShareSlot, Asks, Grows
<1>4. (\E j \in Slots : Asks(j, u, "share") /\ req[j].at = 4)
      => \E j \in Slots : req'[j].user = u /\ req'[j].type = "share" /\ req'[j].at = 4
  BY <1>3 DEF Asks
<1>5. ASSUME granted'[u]["share"] > 0
      PROVE  /\ task'[u]["share"] >= 0
             /\ \/ task'[u]["share"] > 0 \/ Queued(eventHand', u) \/ Queued(eventChan', u)
                \/ \E j \in Slots : req'[j].user = u /\ req'[j].type = "share" /\ req'[j].at = 4
  BY <1>4, <1>5 DEF ShareOf, Grows
<1> QED BY <1>3, <1>5 DEF ShareOf, Asks

\* Where the handlers of the task are.
LEMMA ShareMoves ==
    ASSUME Typed, Typed', NEW u \in Users, ShareOf(u), NEW i \in Slots, Moves(i), Grows(u),
           \/ Steady(i) /\ (req[i].at >= 3 \/ req[i].type # "share" \/ req[i].at = 1)
           \/ req[i].type # "share"
    PROVE  ShareSlot(i, u)'
<1>1. CASE req'[i] = Idle
  BY <1>1 DEF ShareSlot, Asks, Idle
<1>2. CASE req'[i] # Idle
  <2>1. req'[i].type = req[i].type /\ req'[i].user = req[i].user /\ req'[i].at = req[i].at + 1
    BY <1>2 DEF Moves
  <2>2. CASE req[i].type # "share"
    BY <2>1, <2>2 DEF ShareSlot, Asks
  <2>3. CASE Steady(i) /\ req[i].at >= 3
    <3>1. ShareSlot(i, u) /\ req'[i].add = req[i].add
      BY <1>2, <2>3 DEF ShareOf, Steady
    <3> QED BY <2>1, <2>3, <3>1 DEF ShareSlot, Asks, Grows
  <2>4. CASE req[i].at = 1
    BY <2>1, <2>4 DEF ShareSlot
  <2> QED BY <2>2, <2>3, <2>4
<1> QED BY <1>1, <1>2

\* No statement takes a status back.
LEMMA HandleGrows ==
    ASSUME Typed, NEW u \in Users, NEW i \in Slots, Handle(i)
    PROVE  Grows(u)
<1>1. "share" \in Tasks /\ task[u]["share"] \in Int
  BY RewardsAssumption DEF Typed, Tables, Tasks
<1>2. CASE OneOffTasks(i) \/ DailyTasks(i)
  BY <1>1, <1>2, TasksFacts DEF Grows
<1>3. CASE RegisterEvent(i)
  BY <1>1, <1>3, RegisterFacts DEF Grows
<1>4. CASE MarkProfile(i)
  BY <1>1, <1>4, MarkFacts DEF Grows
<1>5. CASE ~(OneOffTasks(i) \/ DailyTasks(i) \/ RegisterEvent(i) \/ MarkProfile(i))
  <2>1. task' = task
    BY <1>5 DEF Handle, Check, Begin, Status, Credit, PushEvent, PushGold, Lookup, InsertUser, Info,
           Balance, SetGold, ReadProfile, Report, Reward, Valid, Validate, CreditTx, Commit, Pending,
           EnoughCash, Pay, Approve
  <2> QED BY <2>1 DEF Grows
<1> QED BY <1>2, <1>3, <1>4, <1>5

\* Statements that read: the status keeps the amount of a row that is there.
LEMMA ShareReads ==
    ASSUME Typed, Typed', NEW u \in Users, ShareOf(u), NEW i \in Slots, Reads(i)
    PROVE  ShareOf(u)'
<1>1. Handled /\ Moves(i) /\ Active(i) /\ Handle(i)
  BY HandleMoves DEF Handle, Reads, Typed
<1>2. /\ task' = task /\ granted' = granted /\ eventHand' = eventHand /\ eventChan' = eventChan
  BY ReadsFacts DEF channels, history
<1>3. Grows(u)
  BY <1>1, HandleGrows
<1>4. ASSUME req[i].type = "share"
      PROVE  \/ Check(i) /\ req[i].at = 1
             \/ Status(i) /\ req[i].at = 2
  BY <1>1, <1>4, AtFacts, Places
     DEF Reads, Check, Begin, Status, Lookup, Info, Balance, ReadProfile, Reward, Valid, Pending,
         EnoughCash
<1>5. ShareSlot(i, u)'
  <2>1. CASE req[i].type # "share"
    BY <1>1, <1>3, <2>1, ShareMoves
  <2>2. CASE Check(i) /\ req[i].at = 1
    <3>1. Steady(i)
      BY <1>1, <2>2, PlainMoves DEF Plain
    <3> QED BY <1>1, <1>3, <2>2, <3>1, ShareMoves
  <2>3. CASE Status(i) /\ req[i].type = "share" /\ req[i].user = u /\ req'[i] # Idle
    <3>1. TaskOf(req[i].type) = "share"
      BY <2>3 DEF TaskOf
    <3>2. req'[i].add = Amount(u, "share")
      BY <1>1, <2>3, <3>1, StatusMoves DEF Typed
    <3>3. Amount(u, "share") > 0 => ~(task[u]["share"] < 0)
      BY AmountFacts
    <3>4. task[u]["share"] \in Int
      BY RewardsAssumption DEF Typed, Tables, Tasks
    <3>5. req'[i].add > 0 => task[u]["share"] >= 0
      BY <3>2, <3>3, <3>4
    <3> QED BY <1>2, <3>5 DEF ShareSlot
  <2>4. CASE req'[i] = Idle \/ req[i].user # u
    BY <1>1, <2>4 DEF ShareSlot, Asks, Idle, Moves
  <2> QED BY <1>4, <2>1, <2>2, <2>3, <2>4
<1>6. ~(Asks(i, u, "share") /\ req[i].at = 4)
  BY <1>4 DEF Asks
<1> QED BY <1>1, <1>2, <1>3, <1>5, <1>6, ShareStep

\* The reward is granted to a user with a row, and the event comes next.
LEMMA ShareCredit ==
    ASSUME Typed, Typed', NEW u \in Users, ShareOf(u), NEW i \in Slots, Credit(i)
    PROVE  ShareOf(u)'
<1>1. Handled /\ Moves(i) /\ Steady(i) /\ Active(i) /\ Grant(i) /\ Handle(i)
  BY PlainMoves, CreditFacts DEF Plain, Typed, Handle
<1>2. /\ task' = task /\ eventHand' = eventHand /\ eventChan' = eventChan
      /\ req[i].type \in {"share", "profile"} /\ req[i].at = 3
  BY CreditFacts DEF channels
<1>3. Grows(u) /\ "share" \in Tasks
  BY <1>1, HandleGrows DEF Tasks
<1>4. ShareSlot(i, u)'
  BY <1>1, <1>2, <1>3, ShareMoves
<1>5. CASE ~Asks(i, u, "share")
  <2>1. req[i].user # u \/ TaskOf(req[i].type) # "share"
    BY <1>2, <1>5 DEF Asks, TaskOf
  <2>2. granted'[u]["share"] = granted[u]["share"]
    BY <1>1, <1>2, <1>3, <2>1, GrantFacts
  <2> QED BY <1>1, <1>2, <1>3, <1>4, <1>5, <2>2, ShareStep
<1>6. CASE Asks(i, u, "share")
  <2>1. req[i].user = u /\ req[i].type = "share" /\ TaskOf(req[i].type) = "share"
    BY <1>6 DEF Asks, TaskOf
  <2>2. granted'[u]["share"] = granted[u]["share"] + req[i].add
    BY <1>1, <2>1, GrantFacts
  <2>3. req[i].add \in Nat /\ granted[u]["share"] \in Nat /\ task[u]["share"] \in Int
    BY <1>1, <1>3, ActiveFacts, RewardsAssumption DEF Typed, Tables
  <2>4. granted'[u]["share"] > 0 => task'[u]["share"] >= 0
    <3>1. ShareSlot(i, u)
      BY DEF ShareOf
    <3>2. req[i].add > 0 => task[u]["share"] >= 0
      BY <1>2, <1>6, <3>1 DEF ShareSlot
    <3>3. granted[u]["share"] > 0 => task[u]["share"] >= 0
      BY DEF ShareOf
    <3> QED BY <1>2, <2>2, <2>3, <3>2, <3>3
  <2>5. req'[i].user = u /\ req'[i].type = "share" /\ req'[i].at = 4
    <3>1. Go(i)
      BY DEF Credit
    <3>2. req[i].at # Len(Program[req[i].type])
      BY <1>2, <2>1, ProgramIs
    <3>3. req'[i] # Idle
      BY <1>1, <3>1, <3>2, GoMoves
    <3> QED BY <1>1, <1>2, <2>1, <3>3 DEF Moves
  <2>6. ASSUME NEW j \in Slots
        PROVE  ShareSlot(j, u)'
    <3>1. CASE j = i
      BY <1>4, <3>1
    <3>2. CASE j # i
      <4>1. req'[j] = req[j] /\ ShareSlot(j, u)
        BY <1>1, <3>2 DEF Moves, ShareOf
      <4> QED BY <1>2, <4>1 DEF ShareSlot, Asks
    <3> QED BY <3>1, <3>2
  <2> QED BY <2>4, <2>5, <2>6 DEF ShareOf, Asks
<1> QED BY <1>5, <1>6

\* The event is in the channel after the statement that sends it.
LEMMA SharePush ==
    ASSUME Typed, Typed', NEW u \in Users, ShareOf(u), NEW i \in Slots, PushEvent(i)
    PROVE  ShareOf(u)'
<1>1. Handled /\ Moves(i) /\ Steady(i) /\ Active(i) /\ Handle(i)
  BY PlainMoves DEF Plain, Typed, Handle
<1>2. /\ task' = task /\ eventHand' = eventHand /\ granted' = granted
      /\ req[i].at >= 3
  BY EventFacts
<1>3. Grows(u) /\ "share" \in Tasks
  BY <1>1, HandleGrows DEF Tasks
<1>4. ASSUME NEW j \in Slots
      PROVE  ShareSlot(j, u)'
  <2>1. CASE j = i
    BY <1>1, <1>2, <1>3, <2>1, ShareMoves
  <2>2. CASE j # i
    <3>1. req'[j] = req[j] /\ ShareSlot(j, u)
      BY <1>1, <2>2 DEF Moves, ShareOf
    <3> QED BY <1>2, <3>1 DEF ShareSlot, Asks
  <2> QED BY <2>1, <2>2
<1>5. PICK e \in Events : /\ e.user = req[i].user /\ e.task = req[i].type
                          /\ eventChan' = Append(eventChan, e)
  BY EventFacts
<1>6. eventChan \in Seq(Events)
  BY DEF Typed, Queues
<1>7. Queued(eventChan, u) => Queued(eventChan', u)
  BY <1>5, <1>6, QueuedAppend
<1>8. Asks(i, u, "share") => Queued(eventChan', u)
  BY <1>5, <1>6, QueuedAppend DEF Asks
<1>9. ASSUME NEW j \in Slots, Asks(j, u, "share"), req[j].at = 4, j # i
      PROVE  req'[j].user = u /\ req'[j].type = "share" /\ req'[j].at = 4
  BY <1>1, <1>9 DEF Moves, Asks
<1>10. ASSUME granted'[u]["share"] > 0
       PROVE  /\ task'[u]["share"] >= 0
              /\ \/ task'[u]["share"] > 0 \/ Queued(eventHand', u) \/ Queued(eventChan', u)
                 \/ \E j \in Slots : req'[j].user = u /\ req'[j].type = "share" /\ req'[j].at = 4
  BY <1>2, <1>7, <1>8, <1>9, <1>10 DEF ShareOf
<1> QED BY <1>4, <1>10 DEF ShareOf, Asks

\* The other statements.
LEMMA ShareOthers ==
    ASSUME Typed, Typed', NEW u \in Users, ShareOf(u), NEW i \in Slots,
           \/ PushGold(i) \/ InsertUser(i) \/ OneOffTasks(i) \/ DailyTasks(i) \/ RegisterEvent(i)
           \/ SetGold(i) \/ MarkProfile(i) \/ Report(i) \/ Validate(i) \/ CreditTx(i)
           \/ Commit(i) \/ Pay(i) \/ Approve(i)
    PROVE  ShareOf(u)'
<1>1. Handled /\ Moves(i) /\ Steady(i) /\ Active(i) /\ Handle(i)
  BY PlainMoves DEF Plain, Typed, Handle
<1>2. eventHand' = eventHand /\ eventChan' = eventChan
  BY DEF PushGold, InsertUser, OneOffTasks, DailyTasks, RegisterEvent, SetGold, MarkProfile, Report,
         Validate, CreditTx, Commit, Pay, Approve, channels
<1>3. Grows(u) /\ "share" \in Tasks
  BY <1>1, HandleGrows DEF Tasks
<1>4. req[i].type # "share" \/ req[i].at = 5
  <2>1. PICK op \in {"ledger", "insert", "oneoff", "daily", "bonus", "setGold", "mark", "report",
                     "validate", "creditTx", "commit", "pay", "approve"} : At(i, op)
    BY DEF PushGold, InsertUser, OneOffTasks, DailyTasks, RegisterEvent, SetGold, MarkProfile, Report,
           Validate, CreditTx, Commit, Pay, Approve
  <2>2. req[i].type \in DOMAIN Program /\ req[i].at \in DOMAIN Program[req[i].type]
        /\ Program[req[i].type][req[i].at] = op
    BY <1>1, <2>1, AtFacts
  <2> QED BY <2>1, <2>2, Places
<1>5. ShareSlot(i, u)'
  BY <1>1, <1>3, <1>4, ShareMoves
<1>6. ~(Asks(i, u, "share") /\ req[i].at = 4)
  BY <1>4 DEF Asks
<1>7. granted'[u]["share"] = granted[u]["share"]
  <2>1. CASE SetGold(i) \/ CreditTx(i)
    <3>1. Grant(i) /\ req[i].type \in {"sign", "effective"}
      BY <2>1, SetGoldFacts
    <3>2. TaskOf(req[i].type) # "share"
      BY <3>1 DEF TaskOf
    <3> QED BY <1>1, <1>3, <3>1, <3>2, GrantFacts
  <2>2. CASE RegisterEvent(i)
    BY <1>3, <2>2, RegisterFacts
  <2>3. CASE ~(SetGold(i) \/ CreditTx(i) \/ RegisterEvent(i))
    BY <2>3 DEF PushGold, InsertUser, OneOffTasks, DailyTasks, MarkProfile, Report, Validate,
           Commit, Pay, Approve, history
  <2> QED BY <2>1, <2>2, <2>3
<1> QED BY <1>1, <1>2, <1>3, <1>5, <1>6, <1>7, ShareStep

\* A request comes in with no amount.
LEMMA ShareReceive ==
    ASSUME Typed, Typed', NEW u \in Users, ShareOf(u), Receive
    PROVE  ShareOf(u)'
<1>1. PICK i \in Slots, type \in Types, w \in Users, add \in Nat : Arrives(i, type, w, add)
  BY ReceiveArrives DEF Typed
<1>2. task' = task /\ granted' = granted /\ eventHand' = eventHand /\ eventChan' = eventChan
  BY DEF Receive, channels, history
<1>3. ASSUME NEW j \in Slots
      PROVE  ShareSlot(j, u)'
  <2>1. CASE j = i
    BY <1>1, <2>1 DEF Arrives, ShareSlot, Asks
  <2>2. CASE j # i
    <3>1. req'[j] = req[j] /\ ShareSlot(j, u)
      BY <1>1, <2>2 DEF Arrives, ShareOf
    <3> QED BY <1>2, <3>1 DEF ShareSlot, Asks
  <2> QED BY <2>1, <2>2
<1>4. ASSUME NEW j \in Slots, Asks(j, u, "share"), req[j].at = 4
      PROVE  req'[j].user = u /\ req'[j].type = "share" /\ req'[j].at = 4
  <2>1. j # i
    BY <1>1, <1>4 DEF Arrives, Active
  <2> QED BY <1>1, <1>4, <2>1 DEF Arrives, Asks
<1>5. ASSUME granted'[u]["share"] > 0
      PROVE  /\ task'[u]["share"] >= 0
             /\ \/ task'[u]["share"] > 0 \/ Queued(eventHand', u) \/ Queued(eventChan', u)
                \/ \E j \in Slots : req'[j].user = u /\ req'[j].type = "share" /\ req'[j].at = 4
  BY <1>2, <1>4, <1>5 DEF ShareOf
<1> QED BY <1>3, <1>5 DEF ShareOf, Asks

\* The event goes from the channel to the hand ...
LEMMA ShareTake ==
    ASSUME Typed, Typed', NEW u \in Users, ShareOf(u), TakeEvent
    PROVE  ShareOf(u)'
<1>1. /\ eventHand = <<>> /\ eventChan # <<>> /\ eventHand' = <<Head(eventChan)>>
      /\ eventChan' = Tail(eventChan) /\ task' = task /\ granted' = granted /\ req' = req
  BY TakeEventFacts
<1>2. eventChan \in Seq(Events)
  BY DEF Typed, Queues
<1>3. ~Queued(eventHand, u)
  BY <1>1 DEF Queued
<1>4. Queued(eventChan, u) => Queued(eventHand', u) \/ Queued(eventChan', u)
  BY <1>1, <1>2, QueuedTake
<1>5. \A j \in Slots : ShareSlot(j, u)'
  BY <1>1 DEF ShareOf, ShareSlot, Asks
<1>6. ASSUME granted'[u]["share"] > 0
      PROVE  /\ task'[u]["share"] >= 0
             /\ \/ task'[u]["share"] > 0 \/ Queued(eventHand', u) \/ Queued(eventChan', u)
                \/ \E j \in Slots : req'[j].user = u /\ req'[j].type = "share" /\ req'[j].at = 4
  BY <1>1, <1>3, <1>4, <1>6 DEF ShareOf, Asks
<1> QED BY <1>5, <1>6 DEF ShareOf, Asks

\* ... and is written: the row was there when the reward was granted.
LEMMA ShareUpdate ==
    ASSUME Typed, Typed', NEW u \in Users, ShareOf(u), UpdateEvent
    PROVE  ShareOf(u)'
<1>1. PICK e \in Events :
         /\ eventHand = <<e>>
         /\ task[e.user][e.task] >= 0 => task'[e.user][e.task] >= 1
         /\ task[e.user][e.task] < 0 => task'[e.user][e.task] = task[e.user][e.task]
         /\ \A v \in Users, w \in Tasks : v # e.user \/ w # e.task => task'[v][w] = task[v][w]
  BY UpdateFacts
<1>2. eventChan' = eventChan /\ granted' = granted /\ req' = req
  BY UpdateFacts
<1>3. "share" \in Tasks /\ task[u]["share"] \in Int /\ task'[u]["share"] \in Int
  BY RewardsAssumption DEF Typed, Tables, Tasks
<1>4. Grows(u)
  BY <1>1, <1>3 DEF Grows
<1>5. Queued(eventHand, u) => e.user = u /\ e.task = "share"
  BY <1>1 DEF Queued
<1>6. Queued(eventHand, u) /\ task[u]["share"] >= 0 => task'[u]["share"] > 0
  BY <1>1, <1>3, <1>5
<1>7. \A j \in Slots : ShareSlot(j, u)'
  BY <1>2, <1>4 DEF ShareOf, ShareSlot, Asks, Grows
<1>8. ASSUME granted'[u]["share"] > 0
      PROVE  /\ task'[u]["share"] >= 0
             /\ \/ task'[u]["share"] > 0 \/ Queued(eventHand', u) \/ Queued(eventChan', u)
                \/ \E j \in Slots : req'[j].user = u /\ req'[j].type = "share" /\ req'[j].at = 4
  BY <1>2, <1>4, <1>6, <1>8 DEF ShareOf, Asks, Grows
<1> QED BY <1>7, <1>8 DEF ShareOf, Asks

\* Every step keeps it.
LEMMA NextShare ==
    ASSUME Typed, Typed', ShareInv, [Next]_vars
    PROVE  ShareInv'
<1> SUFFICES ASSUME NEW u \in Users PROVE ShareOf(u)'
  BY DEF ShareInv
<1>1. ShareOf(u)
  BY DEF ShareInv
<1>2. CASE Receive
  BY <1>1, <1>2, ShareReceive
<1>3. ASSUME NEW i \in Slots, Handle(i)
      PROVE  ShareOf(u)'
  BY <1>1, <1>3, ShareReads, ShareCredit, SharePush, ShareOthers DEF Handle, Reads
<1>4. CASE TakeEvent
  BY <1>1, <1>4, ShareTake
<1>5. CASE UpdateEvent
  BY <1>1, <1>5, ShareUpdate
<1>6. CASE TakeGold \/ SaveGold \/ (\E j \in Slots : Wait(j)) \/ UNCHANGED vars
  <2>1. /\ task' = task /\ granted' = granted /\ req' = req
        /\ eventHand' = eventHand /\ eventChan' = eventChan
    BY <1>6, WaitFacts DEF TakeGold, SaveGold, vars, channels, history
  <2> QED BY <1>1, <2>1 DEF ShareOf, ShareSlot, Asks
<1> QED BY <1>2, <1>3, <1>4, <1>5, <1>6 DEF Next

\* Once the event of a granted reward is through the channel, the task counts as
\* done: the event is only sent for a user whose row is there, and nothing takes
\* a status back (eventTable.go:21-34).
THEOREM RewardStaysMarked == Spec => []RewardMarked
<1>1. Init => ShareInv
  <2> SUFFICES ASSUME Init, NEW u \in Users PROVE ShareOf(u)
    BY DEF ShareInv
  <2>1. granted[u]["share"] = 0
    BY DEF Init, Tasks
  <2>2. \A i \in Slots : req[i].type = "none"
    BY DEF Init, Idle
  <2> QED BY <2>1, <2>2 DEF ShareOf, ShareSlot, Asks
<1>2. Sound /\ Sound' /\ ShareInv /\ [Next]_vars => ShareInv'
  BY NextShare DEF Sound
<1>3. Sound /\ ShareInv => RewardMarked
  <2> SUFFICES ASSUME Sound, ShareInv, NEW u \in Users, granted[u]["share"] > 0,
                      ~(task[u]["share"] > 0)
               PROVE  \/ \E i \in Slots : req[i].user = u /\ req[i].type = "share" /\ Active(i)
                      \/ Queued(eventHand \o eventChan, u)
    BY DEF RewardMarked, Queued
  <2>1. CASE Queued(eventHand, u) \/ Queued(eventChan, u)
    <3>1. eventHand \in Seq(Events) /\ eventChan \in Seq(Events)
      BY DEF Sound, Typed, Queues
    <3> QED BY <2>1, <3>1, QueuedBoth
  <2>2. CASE \E i \in Slots : Asks(i, u, "share") /\ req[i].at = 4
    BY <2>2 DEF Asks, Active
  <2> QED BY <2>1, <2>2 DEF ShareInv, ShareOf
<1> QED BY <1>1, <1>2, <1>3, AlwaysSound, PTL DEF Spec
-----------------------------------------------------------------------------
(* The gold.                                                               *)

\* What a user was granted, but for the operator's rewards.
Sum(u) == granted[u]["profile"] + granted[u]["sign"] + granted[u]["share"]

\* The reward of the profile is granted once: it is marked, or is about to be.
ProfileOnce(u) ==
    granted[u]["profile"] > 0 =>
        /\ granted[u]["profile"] = 400
        /\ task[u]["profile"] > 0 \/ \E i \in Slots : Asks(i, u, "profile") /\ req[i].at = 4

\* What the handlers know of the user's gold: the sum that userSignIn has read is
\* the gold, up to its commit.
GoldSlot(i, u) ==
    /\ Asks(i, u, "profile") /\ req[i].at >= 3 => req[i].add = 400
    /\ Asks(i, u, "profile") /\ req[i].at = 3 => granted[u]["profile"] = 0
    /\ Asks(i, u, "effective") /\ req[i].at >= 7 => req[i].add <= granted[u]["feedback"]
    /\ granted[u]["feedback"] = 0 =>
          /\ Asks(i, u, "sign") /\ req[i].at >= 5 => req[i].old = gold[u]
          /\ Asks(i, u, "sign") /\ req[i].at >= 6 => gold[u] + req[i].add = Sum(u)

\* No transaction has set the user's gold.
Closed(u) == \A i \in Slots : Asks(i, u, "sign") => req[i].at < 6

GoldOf(u) ==
    /\ ProfileOnce(u)
    /\ \A i \in Slots : GoldSlot(i, u)
    /\ granted[u]["feedback"] = 0 /\ Closed(u) => gold[u] = Sum(u)

GoldInv == \A u \in Patient : GoldOf(u)

\* The user's gold is left alone.
GoldSame(u) == gold'[u] = gold[u] /\ \A t \in Tasks \ {"bonus"} : granted'[u][t] = granted[u][t]

\* The numbers the sums are made of.
LEMMA GoldTypes ==
    ASSUME Typed, NEW u \in Patient
    PROVE  /\ u \in Users /\ gold[u] \in Nat
           /\ granted[u]["profile"] \in Nat /\ granted[u]["sign"] \in Nat
           /\ granted[u]["share"] \in Nat /\ granted[u]["feedback"] \in Nat
           /\ {"profile", "sign", "share", "feedback", "bonus"} \subseteq Tasks
           /\ task[u]["profile"] \in Int
<1>1. u \in Users /\ {"profile", "sign", "share", "feedback", "bonus"} \subseteq Tasks
  BY RewardsAssumption DEF Tasks
<1> QED BY <1>1, RewardsAssumption DEF Typed, Tables

\* The sum of what was granted stays when its parts stay.
LEMMA SumSame ==
    ASSUME NEW u, GoldSame(u)
    PROVE  /\ Sum(u)' = Sum(u) /\ gold'[u] = gold[u]
           /\ granted'[u]["profile"] = granted[u]["profile"]
           /\ granted'[u]["feedback"] = granted[u]["feedback"]
<1>1. {"profile", "sign", "share", "feedback"} \subseteq Tasks \ {"bonus"}
  BY DEF Tasks
<1> QED BY <1>1 DEF Sum, GoldSame

\* A slot that stays keeps what it knows, when the gold does.
LEMMA GoldStays ==
    ASSUME NEW u, NEW j \in Slots, GoldSlot(j, u), GoldSame(u), req'[j] = req[j]
    PROVE  GoldSlot(j, u)'
  BY SumSame DEF GoldSlot, Asks

\* So does one whose variables stay, but where it finds something out.
LEMMA GoldMoves ==
    ASSUME Handled, NEW u, NEW i \in Slots, GoldSlot(i, u), GoldSame(u), Moves(i), Active(i), Steady(i),
           req[i].type = "profile" => req[i].at \notin {2, 3},
           req[i].type = "effective" => req[i].at # 6,
           req[i].type = "sign" => req[i].at \notin {4, 5}
    PROVE  GoldSlot(i, u)'
<1>1. CASE req'[i] = Idle
  BY <1>1 DEF GoldSlot, Asks, Idle
<1>2. CASE req'[i] # Idle
  <2>1. /\ req'[i].type = req[i].type /\ req'[i].user = req[i].user /\ req'[i].at = req[i].at + 1
        /\ req'[i].add = req[i].add /\ req'[i].old = req[i].old /\ req[i].at \in 1 .. 8
    BY <1>2, ActiveFacts DEF Moves, Steady
  <2>2. CASE req[i].type \notin {"profile", "effective", "sign"}
    BY <2>1, <2>2 DEF GoldSlot, Asks
  <2>3. CASE req[i].type = "profile"
    BY <2>1, <2>3, SumSame DEF GoldSlot, Asks
  <2>4. CASE req[i].type = "effective"
    BY <2>1, <2>4, SumSame DEF GoldSlot, Asks
  <2>5. CASE req[i].type = "sign"
    BY <2>1, <2>5, SumSame DEF GoldSlot, Asks
  <2> QED BY <2>2, <2>3, <2>4, <2>5
<1> QED BY <1>1, <1>2

\* What a statement has to show when it leaves the user's gold alone.
LEMMA GoldStep ==
    ASSUME Typed, Typed', NEW u \in Patient, GoldOf(u), NEW i \in Slots, Moves(i), GoldSame(u),
           task[u]["profile"] > 0 => task'[u]["profile"] > 0,
           Asks(i, u, "profile") /\ req[i].at = 4 => task'[u]["profile"] > 0,
           Asks(i, u, "sign") /\ req[i].at >= 6 => req'[i] # Idle,
           GoldSlot(i, u)'
    PROVE  GoldOf(u)'
<1>1. ASSUME NEW j \in Slots, j # i
      PROVE  req'[j] = req[j] /\ GoldSlot(j, u)'
  <2>1. req'[j] = req[j] /\ GoldSlot(j, u)
    BY <1>1 DEF Moves, GoldOf
  <2> QED BY <2>1, GoldStays
<1>2. ProfileOnce(u)'
  <2>1. ProfileOnce(u) /\ granted'[u]["profile"] = granted[u]["profile"]
    BY SumSame DEF GoldOf
  <2>2. ASSUME NEW j \in Slots, Asks(j, u, "profile"), req[j].at = 4
        PROVE  \/ task'[u]["profile"] > 0
               \/ req'[j].user = u /\ req'[j].type = "profile" /\ req'[j].at = 4
    BY <1>1, <2>2 DEF Asks
  <2> QED BY <2>1, <2>2 DEF ProfileOnce, Asks
<1>3. Closed(u)' => Closed(u)
  <2> SUFFICES ASSUME Closed(u)', NEW j \in Slots, Asks(j, u, "sign"), ~(req[j].at < 6)
               PROVE  FALSE
    BY DEF Closed
  <2>1. CASE j # i
    BY <1>1, <2>1 DEF Closed, Asks
  <2>2. CASE j = i
    <3>1. req[i].at \in 1 .. 8
      BY <2>2, AsksFacts, ActiveFacts, OwnTypes DEF Typed
    <3>2. req'[i] # Idle
      BY <2>2, <3>1
    <3> QED BY <2>2, <3>1, <3>2 DEF Closed, Asks, Moves
  <2> QED BY <2>1, <2>2
<1>4. (granted[u]["feedback"] = 0 /\ Closed(u) => gold[u] = Sum(u))'
  BY <1>3, SumSame DEF GoldOf
<1> QED BY <1>1, <1>2, <1>4 DEF GoldOf

\* Another user's handler shows nothing.
LEMMA StrangeSlot ==
    ASSUME NEW u, NEW i \in Slots, Moves(i), req'[i] = Idle \/ req[i].user # u
    PROVE  GoldSlot(i, u)'
<1>1. CASE req'[i] = Idle
  BY <1>1 DEF GoldSlot, Asks, Idle
<1>2. CASE req'[i] # Idle /\ req[i].user # u
  <2>1. req'[i].user = req[i].user
    BY <1>2 DEF Moves
  <2> QED BY <1>2, <2>1 DEF GoldSlot, Asks
<1> QED BY <1>1, <1>2

\* The statements that only read.
LEMMA GoldReads ==
    ASSUME Typed, Typed', Serial, NEW u \in Patient, GoldOf(u), NEW i \in Slots, Reads(i)
    PROVE  GoldOf(u)'
<1>1. Handled /\ Moves(i) /\ Active(i) /\ req[i].at \in 1 .. 8
  BY HandleMoves, ActiveFacts DEF Handle, Reads, Typed
<1>2. task' = task /\ granted' = granted /\ gold' = gold
  BY ReadsFacts DEF userInfo, history
<1>3. GoldSame(u)
  BY <1>2 DEF GoldSame
<1>4. /\ req[i].type = "profile" => (Check(i) /\ req[i].at = 1) \/ (ReadProfile(i) /\ req[i].at = 2)
      /\ req[i].type = "effective" => req[i].at < 6
      /\ req[i].type = "sign" => req[i].at \in {1, 2, 3} \/ (Balance(i) /\ req[i].at = 4)
  <2>1. PICK op \in {"check", "begin", "status", "lookup", "info", "balance", "profile", "reward",
                     "valid", "pending", "cash"} :
           /\ At(i, op)
           /\ op = "check" => Check(i)
           /\ op = "profile" => ReadProfile(i)
           /\ op = "balance" => Balance(i)
    BY DEF Reads, Check, Begin, Status, Lookup, Info, Balance, ReadProfile, Reward, Valid, Pending,
           EnoughCash
  <2>2. req[i].type \in DOMAIN Program /\ req[i].at \in DOMAIN Program[req[i].type]
        /\ Program[req[i].type][req[i].at] = op
    BY <1>1, <2>1, AtFacts
  <2>3. req[i].type = "profile" => (op = "check" /\ req[i].at = 1) \/ (op = "profile" /\ req[i].at = 2)
    BY <2>1, <2>2, Places
  <2>4. req[i].type = "effective" => req[i].at < 6
    BY <2>1, <2>2, Places
  <2>5. req[i].type = "sign" => req[i].at \in {1, 2, 3} \/ (op = "balance" /\ req[i].at = 4)
    BY <2>1, <2>2, Places
  <2> QED BY <2>1, <2>3, <2>4, <2>5
<1>5. GoldSlot(i, u)'
  <2> SUFFICES ASSUME req'[i] # Idle, req[i].user = u
               PROVE  GoldSlot(i, u)'
    BY <1>1, StrangeSlot
  <2>1. req'[i].type = req[i].type /\ req'[i].user = u /\ req'[i].at = req[i].at + 1
    BY <1>1 DEF Moves
  <2>2. CASE req[i].type \notin {"profile", "effective", "sign"}
    BY <2>1, <2>2 DEF GoldSlot, Asks
  <2>3. CASE req[i].type = "effective"
    BY <1>1, <1>4, <2>1, <2>3 DEF GoldSlot, Asks
  <2>4. CASE req[i].type = "sign" /\ req[i].at \in {1, 2, 3}
    BY <2>1, <2>4 DEF GoldSlot, Asks
  <2>5. CASE req[i].type = "sign" /\ Balance(i) /\ req[i].at = 4
    <3>1. req'[i].old = gold[u] /\ req'[i].at = 5
      BY <1>1, <2>1, <2>5, BalanceMoves DEF Typed
    <3> QED BY <1>2, <2>1, <2>5, <3>1 DEF GoldSlot, Asks
  <2>6. CASE req[i].type = "profile" /\ req[i].at = 1
    BY <2>1, <2>6 DEF GoldSlot, Asks
  <2>7. CASE req[i].type = "profile" /\ ReadProfile(i) /\ req[i].at = 2
    <3>1. req'[i].add = 400 /\ task[u]["profile"] = 0
      BY <1>1, <2>7, ProfileMoves DEF Typed
    <3>2. ~ \E j \in Slots : Asks(j, u, "profile") /\ req[j].at = 4
      <4> SUFFICES ASSUME NEW j \in Slots, Asks(j, u, "profile"), req[j].at = 4 PROVE FALSE
        OBVIOUS
      <4>1. Asks(i, u, "profile")
        BY <2>7 DEF Asks
      <4>2. i = j
        BY <1>1, <4>1, Alone, OwnTypes
      <4> QED BY <2>7, <4>2
    <3>3. ~(task[u]["profile"] > 0)
      BY <3>1
    <3>4. granted[u]["profile"] = 0
      BY <3>2, <3>3, GoldTypes DEF GoldOf, ProfileOnce
    <3> QED BY <1>2, <2>1, <2>7, <3>1, <3>4 DEF GoldSlot, Asks
  <2> QED BY <1>4, <2>2, <2>3, <2>4, <2>5, <2>6, <2>7
<1>6. ~(Asks(i, u, "profile") /\ req[i].at = 4)
  BY <1>4 DEF Asks
<1>7. ~(Asks(i, u, "sign") /\ req[i].at >= 6)
  BY <1>4 DEF Asks
<1>8. task[u]["profile"] > 0 => task'[u]["profile"] > 0
  BY <1>2
<1> QED BY <1>1, <1>3, <1>5, <1>6, <1>7, <1>8, GoldStep

\* The statements that change neither gold nor the task of the profile.
LEMMA GoldOthers ==
    ASSUME Typed, Typed', NEW u \in Patient, GoldOf(u), NEW i \in Slots,
           \/ PushEvent(i) \/ PushGold(i) \/ InsertUser(i) \/ OneOffTasks(i) \/ DailyTasks(i)
           \/ Report(i) \/ Validate(i) \/ Pay(i) \/ Approve(i)
    PROVE  GoldOf(u)'
<1>1. Handled /\ Moves(i) /\ Active(i) /\ Steady(i) /\ req[i].at \in 1 .. 8
  BY PlainMoves, ActiveFacts DEF Plain, Typed
<1>2. granted' = granted /\ gold' = gold
  BY DEF PushEvent, PushGold, InsertUser, OneOffTasks, DailyTasks, Report, Validate, Pay, Approve,
         userInfo, history
<1>3. GoldSame(u)
  BY <1>2 DEF GoldSame
<1>4. task[u]["profile"] > 0 => task'[u]["profile"] > 0
  <2>1. CASE OneOffTasks(i) \/ DailyTasks(i)
    BY <2>1, TasksFacts, GoldTypes
  <2>2. CASE ~(OneOffTasks(i) \/ DailyTasks(i))
    <3>1. task' = task
      BY <2>2 DEF PushEvent, PushGold, InsertUser, Report, Validate, Pay, Approve
    <3> QED BY <3>1
  <2> QED BY <2>1, <2>2
<1>5. /\ req[i].type = "profile" => req[i].at = 5
      /\ req[i].type = "effective" => req[i].at \in {5, 7}
      /\ req[i].type = "sign" => req[i].at \in {6, 7}
  <2>1. PICK op \in {"event", "ledger", "insert", "oneoff", "daily", "report", "validate", "pay", "approve"} :
           At(i, op)
    BY DEF PushEvent, PushGold, InsertUser, OneOffTasks, DailyTasks, Report, Validate, Pay, Approve
  <2>2. req[i].type \in DOMAIN Program /\ req[i].at \in DOMAIN Program[req[i].type]
        /\ Program[req[i].type][req[i].at] = op
    BY <1>1, <2>1, AtFacts
  <2> QED BY <2>1, <2>2, Places
<1>6. GoldSlot(i, u)'
  BY <1>1, <1>3, <1>5, GoldMoves DEF GoldOf
<1>7. ~(Asks(i, u, "profile") /\ req[i].at = 4)
  BY <1>5 DEF Asks
<1>8. ASSUME Asks(i, u, "sign"), req[i].at >= 6
      PROVE  req'[i] # Idle
  <2>1. req[i].type = "sign" /\ req[i].at # 8
    BY <1>5, <1>8 DEF Asks
  <2>2. PushEvent(i) \/ PushGold(i)
    <3> SUFFICES ASSUME ~(PushEvent(i) \/ PushGold(i)) PROVE FALSE
      OBVIOUS
    <3>1. PICK op \in {"insert", "oneoff", "daily", "report", "validate", "pay", "approve"} : At(i, op)
      BY DEF InsertUser, OneOffTasks, DailyTasks, Report, Validate, Pay, Approve
    <3>2. Program["sign"][req[i].at] = op /\ req[i].at \in {6, 7}
      BY <1>1, <1>5, <2>1, <3>1, AtFacts
    <3> QED BY <3>1, <3>2, ProgramIs
  <2>3. Go(i)
    BY <2>2 DEF PushEvent, PushGold
  <2>4. req[i].at # Len(Program[req[i].type])
    BY <2>1, ProgramIs
  <2> QED BY <1>1, <2>3, <2>4, GoMoves
<1> QED BY <1>1, <1>3, <1>4, <1>6, <1>7, <1>8, GoldStep

\* A registration grants cash and no gold.
LEMMA GoldRegister ==
    ASSUME Typed, Typed', NEW u \in Patient, GoldOf(u), NEW i \in Slots, RegisterEvent(i)
    PROVE  GoldOf(u)'
<1>1. Handled /\ Moves(i) /\ req[i].type = "register" /\ req'[i] = Idle /\ gold' = gold
  BY PlainMoves, RegisterFacts DEF Plain, Typed
<1>2. GoldSame(u)
  BY <1>1, RegisterFacts, GoldTypes DEF GoldSame
<1>3. task[u]["profile"] > 0 => task'[u]["profile"] > 0
  BY RegisterFacts, GoldTypes
<1>4. GoldSlot(i, u)'
  BY <1>1, StrangeSlot
<1>5. ~Asks(i, u, "profile") /\ ~Asks(i, u, "sign")
  BY <1>1 DEF Asks
<1> QED BY <1>1, <1>2, <1>3, <1>4, <1>5, GoldStep

\* The mark leaves the gold, and the profile is not rewarded again.
LEMMA GoldMark ==
    ASSUME Typed, Typed', NEW u \in Patient, GoldOf(u), NEW i \in Slots, MarkProfile(i)
    PROVE  GoldOf(u)'
<1>1. Handled /\ Moves(i) /\ Active(i) /\ Steady(i) /\ req[i].type = "profile" /\ req[i].at = 4
      /\ gold' = gold /\ granted' = granted
  BY PlainMoves, MarkFacts DEF Plain, Typed, userInfo
<1>2. GoldSame(u)
  BY <1>1 DEF GoldSame
<1>3. task[u]["profile"] > 0 => task'[u]["profile"] > 0
  BY MarkFacts, GoldTypes
<1>4. GoldSlot(i, u)'
  BY <1>1, <1>2, GoldMoves DEF GoldOf
<1>5. ~Asks(i, u, "sign")
  BY <1>1 DEF Asks
<1>6. Asks(i, u, "profile") /\ req[i].at = 4 => task'[u]["profile"] > 0
  BY MarkFacts DEF Asks
<1> QED BY <1>1, <1>2, <1>3, <1>4, <1>5, <1>6, GoldStep

\* What is granted to another user, or set for him.
LEMMA GoldForeign ==
    ASSUME Typed, Typed', NEW u \in Patient, GoldOf(u), NEW i \in Slots, req[i].user # u,
           Credit(i) \/ SetGold(i) \/ CreditTx(i) \/ Commit(i)
    PROVE  GoldOf(u)'
<1>1. Handled /\ Moves(i) /\ Active(i)
  BY PlainMoves DEF Plain, Typed
<1>2. gold'[u] = gold[u] /\ task' = task
  BY CreditFacts, SetGoldFacts, CommitFacts, GoldTypes DEF userInfo
<1>3. GoldSame(u)
  <2>1. CASE Commit(i)
    BY <1>2, <2>1, CommitFacts DEF GoldSame
  <2>2. CASE ~Commit(i)
    <3>1. Grant(i) /\ req[i].type \in {"sign", "share", "profile", "effective"}
      BY <2>2, CreditFacts, SetGoldFacts
    <3> QED BY <1>1, <1>2, <3>1, GrantFacts, GoldTypes DEF GoldSame
  <2> QED BY <2>1, <2>2
<1>4. GoldSlot(i, u)'
  BY <1>1, StrangeSlot
<1>5. ~Asks(i, u, "profile") /\ ~Asks(i, u, "sign")
  BY DEF Asks
<1>6. task[u]["profile"] > 0 => task'[u]["profile"] > 0
  BY <1>2
<1> QED BY <1>1, <1>3, <1>4, <1>5, <1>6, GoldStep

\* While a request of the user's own is handled, the others are the operator's.
LEMMA Lonely ==
    ASSUME Handled, Serial, NEW u \in Patient, NEW i \in Slots, NEW j \in Slots, j # i,
           Asks(i, u, "sign") \/ Asks(i, u, "share") \/ Asks(i, u, "profile")
    PROVE  ~Asks(j, u, "sign") /\ ~Asks(j, u, "profile")
  BY Alone, OwnTypes

\* The other handlers of a client that waits are the operator's, and stay.
LEMMA QuietSlot ==
    ASSUME Typed, Typed', Serial, NEW u \in Patient, NEW i \in Slots, NEW j \in Slots, j # i,
           Asks(i, u, "sign") \/ Asks(i, u, "share") \/ Asks(i, u, "profile"),
           Moves(i), GoldOf(u), granted'[u]["feedback"] = granted[u]["feedback"]
    PROVE  GoldSlot(j, u)'
<1>1. req'[j] = req[j] /\ GoldSlot(j, u)
  BY DEF Moves, GoldOf
<1>2. ~Asks(j, u, "sign") /\ ~Asks(j, u, "profile")
  BY Lonely DEF Typed
<1> QED BY <1>1, <1>2 DEF GoldSlot, Asks

\* The gold of a task is added.
LEMMA GoldCredit ==
    ASSUME Typed, Typed', Serial, NEW u \in Patient, GoldOf(u), NEW i \in Slots, Credit(i),
           req[i].user = u
    PROVE  GoldOf(u)'
<1>1. Handled /\ Moves(i) /\ Steady(i) /\ Active(i) /\ Grant(i) /\ task' = task
      /\ req[i].type \in {"share", "profile"} /\ req[i].at = 3
  BY PlainMoves, CreditFacts DEF Plain, Typed
<1>2. Asks(i, u, "share") \/ Asks(i, u, "profile")
  BY <1>1 DEF Asks
<1> PICK n \in Nat : n = req[i].add
  BY <1>1, ActiveFacts
<1>3. gold'[u] = gold[u] + n
  BY CreditFacts
<1>4. /\ TaskOf(req[i].type) = req[i].type
      /\ granted'[u][TaskOf(req[i].type)] = granted[u][TaskOf(req[i].type)] + n
      /\ \A t \in Tasks : t # TaskOf(req[i].type) => granted'[u][t] = granted[u][t]
  <2>1. req[i].type \in {"sign", "share", "profile", "effective"}
    BY <1>1
  <2>2. u \in Users /\ n = req[i].add /\ TaskOf(req[i].type) = req[i].type
    BY <1>1, GoldTypes DEF TaskOf
  <2> QED BY <1>1, <2>1, <2>2, GrantFacts
<1>5. granted'[u]["sign"] = granted[u]["sign"] /\ granted'[u]["feedback"] = granted[u]["feedback"]
  BY <1>1, <1>4, GoldTypes
<1>6. \A j \in Slots : j # i => GoldSlot(j, u)'
  BY <1>1, <1>2, <1>5, QuietSlot
<1>7. req'[i].user = u /\ req'[i].type = req[i].type /\ req'[i].at = 4 /\ req'[i].add = n
  <2>1. Go(i)
    BY DEF Credit
  <2>2. req[i].at # Len(Program[req[i].type])
    BY <1>1, ProgramIs
  <2>3. req'[i] # Idle
    BY <1>1, <2>1, <2>2, GoMoves
  <2> QED BY <1>1, <2>3 DEF Moves, Steady
<1>8. Closed(u)
  <2>1. \A j \in Slots : j # i => ~Asks(j, u, "sign")
    BY <1>1, <1>2, Lonely
  <2>2. ~Asks(i, u, "sign")
    BY <1>1 DEF Asks
  <2> QED BY <2>1, <2>2 DEF Closed
<1>9. granted[u]["feedback"] = 0 => gold[u] = Sum(u)
  BY <1>8 DEF GoldOf
<1>10. CASE req[i].type = "share"
  <2>1. granted'[u]["share"] = granted[u]["share"] + n
        /\ granted'[u]["profile"] = granted[u]["profile"]
    BY <1>4, <1>10, GoldTypes
  <2>2. GoldSlot(i, u)'
    BY <1>7, <1>10 DEF GoldSlot, Asks
  <2>3. ProfileOnce(u)'
    <3>1. ProfileOnce(u)
      BY DEF GoldOf
    <3>2. ~Asks(i, u, "profile")
      BY <1>10 DEF Asks
    <3>3. \A j \in Slots : j # i => ~Asks(j, u, "profile")
      BY <1>1, <1>2, Lonely
    <3> QED BY <1>1, <2>1, <3>1, <3>2, <3>3 DEF ProfileOnce
  <2>4. granted'[u]["feedback"] = 0 => gold'[u] = Sum(u)'
    BY <1>3, <1>5, <1>9, <2>1, GoldTypes DEF Sum
  <2> QED BY <1>6, <2>2, <2>3, <2>4 DEF GoldOf
<1>11. CASE req[i].type = "profile"
  <2>1. GoldSlot(i, u) /\ Asks(i, u, "profile")
    BY <1>11 DEF GoldOf, Asks
  <2>2. n = 400 /\ granted[u]["profile"] = 0
    BY <1>1, <2>1 DEF GoldSlot
  <2>3. granted'[u]["share"] = granted[u]["share"] /\ granted'[u]["profile"] = granted[u]["profile"] + n
    BY <1>4, <1>11, GoldTypes
  <2>4. GoldSlot(i, u)'
    BY <1>7, <1>11, <2>2 DEF GoldSlot, Asks
  <2>5. ProfileOnce(u)'
    BY <1>7, <1>11, <2>2, <2>3 DEF ProfileOnce, Asks
  <2>6. granted'[u]["feedback"] = 0 => gold'[u] = Sum(u)'
    BY <1>3, <1>5, <1>9, <2>3, GoldTypes DEF Sum
  <2> QED BY <1>6, <2>4, <2>5, <2>6 DEF GoldOf
<1> QED BY <1>1, <1>10, <1>11

\* The sum is set, in a transaction: from here the gold is what the commit brings.
LEMMA GoldSet ==
    ASSUME Typed, Typed', Serial, NEW u \in Patient, GoldOf(u), NEW i \in Slots, SetGold(i),
           req[i].user = u
    PROVE  GoldOf(u)'
<1>1. Handled /\ Moves(i) /\ Steady(i) /\ Active(i) /\ Grant(i) /\ task' = task /\ gold' = gold
      /\ req[i].type = "sign" /\ req[i].at = 5
  <2>1. ~CreditTx(i)
    BY AtFacts, Places DEF SetGold, CreditTx, Typed
  <2> QED BY <2>1, PlainMoves, SetGoldFacts, AtFacts, Places DEF Plain, Typed, SetGold, userInfo
<1>2. Asks(i, u, "sign")
  BY <1>1 DEF Asks
<1> PICK n \in Nat : n = req[i].add
  BY <1>1, ActiveFacts
<1>3. /\ TaskOf(req[i].type) = "sign"
      /\ granted'[u]["sign"] = granted[u]["sign"] + n
      /\ \A t \in Tasks : t # "sign" => granted'[u][t] = granted[u][t]
  <2>1. req[i].type \in {"sign", "share", "profile", "effective"}
    BY <1>1
  <2>2. u \in Users /\ n = req[i].add /\ TaskOf(req[i].type) = "sign"
    BY <1>1, GoldTypes DEF TaskOf
  <2> QED BY <1>1, <2>1, <2>2, GrantFacts
<1>4. granted'[u]["profile"] = granted[u]["profile"] /\ granted'[u]["share"] = granted[u]["share"]
      /\ granted'[u]["feedback"] = granted[u]["feedback"]
  BY <1>3, GoldTypes
<1>5. \A j \in Slots : j # i => GoldSlot(j, u)'
  BY <1>1, <1>2, <1>4, QuietSlot
<1>6. /\ req'[i].user = u /\ req'[i].type = "sign" /\ req'[i].at = 6 /\ req'[i].add = n
      /\ req'[i].old = req[i].old
  <2>1. Go(i)
    BY DEF SetGold
  <2>2. req[i].at # Len(Program[req[i].type])
    BY <1>1, ProgramIs
  <2>3. req'[i] # Idle
    BY <1>1, <2>1, <2>2, GoMoves
  <2> QED BY <1>1, <2>3 DEF Moves, Steady
<1>7. Closed(u)
  <2>1. \A j \in Slots : j # i => ~Asks(j, u, "sign")
    BY <1>1, <1>2, Lonely
  <2> QED BY <1>1, <2>1 DEF Closed
<1>8. granted[u]["feedback"] = 0 => gold[u] = Sum(u) /\ req[i].old = gold[u]
  <2>1. GoldSlot(i, u)
    BY DEF GoldOf
  <2> QED BY <1>1, <1>2, <1>7, <2>1 DEF GoldOf, GoldSlot
<1>9. Sum(u)' = Sum(u) + n
  BY <1>3, <1>4, GoldTypes DEF Sum
<1>10. GoldSlot(i, u)'
  BY <1>1, <1>4, <1>6, <1>8, <1>9 DEF GoldSlot, Asks
<1>11. ProfileOnce(u)'
  <2>1. ProfileOnce(u)
    BY DEF GoldOf
  <2>2. ~Asks(i, u, "profile")
    BY <1>1 DEF Asks
  <2>3. \A j \in Slots : j # i => ~Asks(j, u, "profile")
    BY <1>1, <1>2, Lonely
  <2> QED BY <1>1, <1>4, <2>1, <2>2, <2>3 DEF ProfileOnce
<1>12. ~Closed(u)'
  BY <1>6 DEF Closed, Asks
<1> QED BY <1>5, <1>10, <1>11, <1>12 DEF GoldOf

\* The operator's reward.
LEMMA GoldCreditTx ==
    ASSUME Typed, Typed', NEW u \in Patient, GoldOf(u), NEW i \in Slots, CreditTx(i),
           req[i].user = u
    PROVE  GoldOf(u)'
<1>1. Handled /\ Moves(i) /\ Steady(i) /\ Active(i) /\ Grant(i) /\ task' = task /\ gold' = gold
      /\ req[i].type = "effective" /\ req[i].at = 6
  BY PlainMoves, SetGoldFacts, AtFacts, Places DEF Plain, Typed, CreditTx, userInfo
<1> PICK n \in Nat : n = req[i].add
  BY <1>1, ActiveFacts
<1>2. /\ TaskOf(req[i].type) = "feedback"
      /\ granted'[u]["feedback"] = granted[u]["feedback"] + n
      /\ \A t \in Tasks : t # "feedback" => granted'[u][t] = granted[u][t]
  <2>1. req[i].type \in {"sign", "share", "profile", "effective"}
    BY <1>1
  <2>2. u \in Users /\ n = req[i].add /\ TaskOf(req[i].type) = "feedback"
    BY <1>1, GoldTypes DEF TaskOf
  <2> QED BY <1>1, <2>1, <2>2, GrantFacts
<1>3. granted'[u]["profile"] = granted[u]["profile"] /\ Sum(u)' = Sum(u)
  BY <1>2, GoldTypes DEF Sum
<1>4. granted'[u]["feedback"] = 0 => granted[u]["feedback"] = 0
  BY <1>2, GoldTypes
<1>5. ASSUME NEW j \in Slots, j # i
      PROVE  req'[j] = req[j] /\ GoldSlot(j, u)'
  <2>1. req'[j] = req[j] /\ GoldSlot(j, u)
    BY <1>1, <1>5 DEF Moves, GoldOf
  <2>2. Asks(j, u, "effective") /\ req[j].at >= 7 => req[j].add <= granted'[u]["feedback"]
    <3> SUFFICES ASSUME Asks(j, u, "effective"), req[j].at >= 7
                 PROVE  req[j].add <= granted'[u]["feedback"]
      OBVIOUS
    <3>1. req[j].add <= granted[u]["feedback"]
      BY <2>1 DEF GoldSlot
    <3>2. req[j].add \in Nat
      BY <1>1, AsksFacts, ActiveFacts, ProgramIs
    <3> QED BY <1>2, <3>1, <3>2, GoldTypes
  <2> QED BY <1>1, <1>3, <1>4, <2>1, <2>2 DEF GoldSlot, Asks
<1>6. GoldSlot(i, u)'
  <2>1. CASE req'[i] = Idle
    BY <1>1, <2>1, StrangeSlot
  <2>2. CASE req'[i] # Idle
    <3>1. req'[i].type = "effective" /\ req'[i].add = n
      BY <1>1, <2>2 DEF Moves, Steady
    <3>2. n <= granted'[u]["feedback"]
      BY <1>2, GoldTypes
    <3> QED BY <3>1, <3>2 DEF GoldSlot, Asks
  <2> QED BY <2>1, <2>2
<1>7. ProfileOnce(u)'
  <2>1. ASSUME NEW j \in Slots, Asks(j, u, "profile"), req[j].at = 4
        PROVE  req'[j].user = u /\ req'[j].type = "profile" /\ req'[j].at = 4
    <3>1. j # i
      BY <1>1, <2>1 DEF Asks
    <3> QED BY <1>5, <2>1, <3>1 DEF Asks
  <2> QED BY <1>1, <1>3, <2>1 DEF GoldOf, ProfileOnce, Asks
<1>8. Closed(u)' => Closed(u)
  <2>1. ~Asks(i, u, "sign")
    BY <1>1 DEF Asks
  <2> QED BY <1>5, <2>1 DEF Closed, Asks
<1>9. (granted[u]["feedback"] = 0 /\ Closed(u) => gold[u] = Sum(u))'
  BY <1>1, <1>3, <1>4, <1>8 DEF GoldOf
<1> QED BY <1>5, <1>6, <1>7, <1>9 DEF GoldOf

\* A commit brings the sum that was read and what was added to it, or adds the
\* operator's reward.
LEMMA GoldCommit ==
    ASSUME Typed, Typed', Serial, NEW u \in Patient, GoldOf(u), NEW i \in Slots, Commit(i),
           req[i].user = u
    PROVE  GoldOf(u)'
<1>1. Handled /\ Moves(i) /\ Active(i) /\ task' = task /\ granted' = granted
      /\ req[i].type \in {"sign", "effective"} /\ req[i].at = 8 /\ req'[i] = Idle
  BY PlainMoves, CommitFacts DEF Plain, Typed
<1>2. gold'[u] = (IF req[i].type = "sign" THEN req[i].old ELSE gold[u]) + req[i].add
  BY CommitFacts
<1>3. req[i].add \in Nat /\ req[i].old \in Nat
  BY <1>1, ActiveFacts
<1>4. GoldSlot(i, u)' /\ GoldSlot(i, u)
  BY <1>1, StrangeSlot DEF GoldOf
<1>5. CASE req[i].type = "effective"
  <2>1. Asks(i, u, "effective") /\ ~Asks(i, u, "sign") /\ ~Asks(i, u, "profile")
    BY <1>5 DEF Asks
  <2>2. granted[u]["feedback"] = 0 => gold'[u] = gold[u]
    <3>1. req[i].add <= granted[u]["feedback"]
      BY <1>1, <1>4, <2>1 DEF GoldSlot
    <3>2. gold'[u] = gold[u] + req[i].add
      BY <1>2, <1>5
    <3> QED BY <1>3, <3>1, <3>2, GoldTypes
  <2>3. ASSUME NEW j \in Slots, j # i
        PROVE  req'[j] = req[j] /\ GoldSlot(j, u)'
    <3>1. req'[j] = req[j] /\ GoldSlot(j, u)
      BY <1>1, <2>3 DEF Moves, GoldOf
    <3> QED BY <1>1, <2>2, <3>1 DEF GoldSlot, Asks, Sum
  <2>4. ProfileOnce(u)'
    <3>1. ASSUME NEW j \in Slots, Asks(j, u, "profile"), req[j].at = 4
          PROVE  req'[j].user = u /\ req'[j].type = "profile" /\ req'[j].at = 4
      <4>1. j # i
        BY <2>1, <3>1
      <4> QED BY <2>3, <3>1, <4>1 DEF Asks
    <3> QED BY <1>1, <3>1 DEF GoldOf, ProfileOnce, Asks
  <2>5. Closed(u)' => Closed(u)
    BY <2>1, <2>3 DEF Closed, Asks
  <2>6. (granted[u]["feedback"] = 0 /\ Closed(u) => gold[u] = Sum(u))'
    BY <1>1, <2>2, <2>5 DEF GoldOf, Sum
  <2> QED BY <1>4, <2>3, <2>4, <2>6 DEF GoldOf
<1>6. CASE req[i].type = "sign"
  <2>1. Asks(i, u, "sign")
    BY <1>6 DEF Asks
  <2>2. \A j \in Slots : j # i => GoldSlot(j, u)'
    BY <1>1, <2>1, QuietSlot
  <2>3. granted[u]["feedback"] = 0 => gold'[u] = Sum(u)
    <3> SUFFICES ASSUME granted[u]["feedback"] = 0 PROVE gold'[u] = Sum(u)
      OBVIOUS
    <3>1. req[i].old = gold[u] /\ gold[u] + req[i].add = Sum(u)
      BY <1>1, <1>4, <2>1 DEF GoldSlot
    <3>2. gold'[u] = req[i].old + req[i].add
      BY <1>2, <1>6
    <3> QED BY <3>1, <3>2
  <2>4. ProfileOnce(u)'
    <3>1. ProfileOnce(u)
      BY DEF GoldOf
    <3>2. ~Asks(i, u, "profile")
      BY <1>6 DEF Asks
    <3>3. \A j \in Slots : j # i => ~Asks(j, u, "profile")
      BY <1>1, <2>1, Lonely
    <3> QED BY <1>1, <3>1, <3>2, <3>3 DEF ProfileOnce
  <2>5. (granted[u]["feedback"] = 0 /\ Closed(u) => gold[u] = Sum(u))'
    BY <1>1, <2>3 DEF Sum
  <2> QED BY <1>4, <2>2, <2>4, <2>5 DEF GoldOf
<1> QED BY <1>1, <1>5, <1>6

\* A step that is not a handler's.
LEMMA GoldQuiet ==
    ASSUME NEW u, GoldOf(u), GoldSame(u),
           task[u]["profile"] > 0 => task'[u]["profile"] > 0,
           \A j \in Slots : req'[j] = req[j] \/ (req[j].at = 0 /\ req'[j].at = 1)
    PROVE  GoldOf(u)'
<1>1. \A j \in Slots : GoldSlot(j, u)'
  <2> SUFFICES ASSUME NEW j \in Slots PROVE GoldSlot(j, u)'
    OBVIOUS
  <2>1. CASE req'[j] = req[j]
    BY <2>1, GoldStays DEF GoldOf
  <2>2. CASE req'[j].at = 1
    BY <2>2 DEF GoldSlot
  <2> QED BY <2>1, <2>2
<1>2. ProfileOnce(u)'
  <2>1. ASSUME NEW j \in Slots, Asks(j, u, "profile"), req[j].at = 4
        PROVE  req'[j].user = u /\ req'[j].type = "profile" /\ req'[j].at = 4
    BY <2>1 DEF Asks
  <2>2. ProfileOnce(u) /\ granted'[u]["profile"] = granted[u]["profile"]
    BY SumSame DEF GoldOf
  <2> QED BY <2>1, <2>2 DEF ProfileOnce, Asks
<1>3. Closed(u)' => Closed(u)
  <2> SUFFICES ASSUME Closed(u)', NEW j \in Slots, Asks(j, u, "sign") PROVE req[j].at < 6
    BY DEF Closed
  <2>1. CASE req'[j] = req[j]
    BY <2>1 DEF Closed, Asks
  <2>2. CASE req[j].at = 0
    BY <2>2
  <2> QED BY <2>1, <2>2
<1>4. (granted[u]["feedback"] = 0 /\ Closed(u) => gold[u] = Sum(u))'
  BY <1>3, SumSame DEF GoldOf
<1> QED BY <1>1, <1>2, <1>4 DEF GoldOf

\* Every step keeps the gold.
LEMMA NextGold ==
    ASSUME Sound, Typed', GoldInv, [Next]_vars
    PROVE  GoldInv'
<1> SUFFICES ASSUME NEW u \in Patient PROVE GoldOf(u)'
  BY DEF GoldInv
<1>1. Typed /\ Handled /\ Serial /\ GoldOf(u)
  BY DEF Sound, Typed, GoldInv
<1>2. CASE Receive
  <2>1. PICK i \in Slots, type \in Types, w \in Users, add \in Nat : Arrives(i, type, w, add)
    BY <1>1, <1>2, ReceiveArrives
  <2>2. \A j \in Slots : req'[j] = req[j] \/ (req[j].at = 0 /\ req'[j].at = 1)
    BY <1>1, <2>1, IdleFacts DEF Arrives, Handled
  <2>3. task' = task /\ GoldSame(u)
    BY <1>2 DEF Receive, userInfo, history, GoldSame
  <2> QED BY <1>1, <2>2, <2>3, GoldQuiet
<1>3. ASSUME NEW i \in Slots, Handle(i)
      PROVE  GoldOf(u)'
  BY <1>1, <1>3, GoldReads, GoldOthers, GoldRegister, GoldMark, GoldForeign, GoldCredit, GoldSet,
     GoldCreditTx, GoldCommit
     DEF Handle, Reads
<1>4. CASE UpdateEvent
  <2>1. PICK e \in Events :
           \A v \in Users, w \in Tasks : v # e.user \/ w # e.task => task'[v][w] = task[v][w]
    BY <1>1, <1>4, UpdateFacts
  <2>2. e.task # "profile"
    BY DEF Events
  <2>3. task'[u]["profile"] = task[u]["profile"]
    BY <1>1, <2>1, <2>2, GoldTypes
  <2>4. req' = req /\ GoldSame(u)
    BY <1>4 DEF UpdateEvent, userInfo, history, GoldSame
  <2> QED BY <1>1, <2>3, <2>4, GoldQuiet
<1>5. CASE TakeEvent \/ TakeGold \/ SaveGold \/ (\E j \in Slots : Wait(j)) \/ UNCHANGED vars
  <2>1. req' = req /\ task' = task /\ GoldSame(u)
    BY <1>5, WaitFacts DEF TakeEvent, TakeGold, SaveGold, vars, userInfo, history, GoldSame
  <2> QED BY <1>1, <2>1, GoldQuiet
<1> QED BY <1>2, <1>3, <1>4, <1>5 DEF Next

\* The transactions that have set the gold of a user.
LEMMA OpenFacts ==
    ASSUME Handled, NEW i \in Slots, req[i].type = "sign"
    PROVE  Past(i, "setGold") <=> req[i].at >= 6
<1>1. CASE ~Active(i)
  <2>1. req[i] = Idle
    BY <1>1 DEF Handled
  <2> QED BY <2>1 DEF Idle
<1>2. CASE Active(i)
  <2>1. req[i].at \in 1 .. 8
    BY <1>2, ActiveFacts
  <2>2. \A k \in 1 .. 8 : Program["sign"][k] = "setGold" <=> k = 5
    BY ProgramIs
  <2> QED BY <1>2, <2>1, <2>2 DEF Past
<1> QED BY <1>1, <1>2

\* A user whose client waits keeps all the gold he is granted and gets that of his
\* profile once, as long as the operator grants him nothing: between the select of
\* userSignIn and its commit no other statement changes his gold (sign.go:62-103).
THEOREM GoldIsKept == Spec => []GoldKept
<1>1. Init => GoldInv
  <2> SUFFICES ASSUME Init, NEW u \in Patient PROVE GoldOf(u)
    BY DEF GoldInv
  <2>1. u \in Users /\ {"profile", "sign", "share", "feedback"} \subseteq Tasks
    BY RewardsAssumption DEF Tasks
  <2>2. gold[u] = 0 /\ granted[u]["profile"] = 0 /\ granted[u]["sign"] = 0 /\ granted[u]["share"] = 0
    BY <2>1 DEF Init
  <2>3. \A i \in Slots : req[i].type = "none"
    BY DEF Init, Idle
  <2> QED BY <2>2, <2>3 DEF GoldOf, ProfileOnce, GoldSlot, Asks, Sum
<1>2. Sound /\ Sound' /\ GoldInv /\ [Next]_vars => GoldInv'
  BY NextGold DEF Sound
<1>3. Sound /\ GoldInv => GoldKept
  <2> SUFFICES ASSUME Sound, GoldInv, NEW u \in Patient, granted[u]["feedback"] = 0
               PROVE  gold[u] + Uncommitted(u) = Sum(u) /\ granted[u]["profile"] <= 400
    BY DEF GoldKept, Sum
  <2>1. Typed /\ Handled /\ GoldOf(u)
    BY DEF Sound, Typed, GoldInv
  <2>2. granted[u]["profile"] <= 400
    BY <2>1, GoldTypes DEF GoldOf, ProfileOnce
  <2> PICK open : open = {i \in Slots : req[i].user = u /\ req[i].type = "sign" /\ Past(i, "setGold")}
    OBVIOUS
  <2>3. Uncommitted(u) = IF open = {} THEN 0 ELSE req[CHOOSE i \in open : TRUE].add
    BY DEF Uncommitted
  <2>4. CASE open = {}
    <3>1. Closed(u)
      <4> SUFFICES ASSUME NEW i \in Slots, Asks(i, u, "sign"), ~(req[i].at < 6) PROVE FALSE
        BY DEF Closed
      <4>1. req[i].at \in 1 .. 8
        BY <2>1, AsksFacts, ActiveFacts, OwnTypes
      <4>2. i \in open
        BY <2>1, <4>1, OpenFacts DEF Asks
      <4> QED BY <2>4, <4>2
    <3>2. gold[u] = Sum(u) /\ Uncommitted(u) = 0
      BY <2>1, <2>3, <2>4, <3>1 DEF GoldOf
    <3>3. gold[u] \in Nat
      BY <2>1, GoldTypes
    <3> QED BY <2>2, <3>2, <3>3
  <2>5. CASE open # {}
    <3>1. PICK i \in open : i = CHOOSE j \in open : TRUE
      BY <2>5
    <3>2. Asks(i, u, "sign") /\ req[i].at >= 6 /\ i \in Slots
      BY <2>1, OpenFacts DEF Asks
    <3>3. gold[u] + req[i].add = Sum(u)
      BY <2>1, <3>2 DEF GoldOf, GoldSlot
    <3>4. Uncommitted(u) = req[i].add
      BY <2>3, <2>5, <3>1
    <3> QED BY <2>2, <3>3, <3>4
  <2> QED BY <2>4, <2>5
<1> QED BY <1>1, <1>2, <1>3, AlwaysSound, PTL DEF Spec
-----------------------------------------------------------------------------
(* The ledger.                                                             *)

\* The coins of one owner.
LEMMA CoinsOfOne ==
    ASSUME NEW i, NEW n \in Nat
    PROVE  IsFiniteSet({i} \X (1 .. n)) /\ Cardinality({i} \X (1 .. n)) = n
<1>1. IsFiniteSet(1 .. n) /\ Cardinality(1 .. n) = n
  BY FS_Interval
<1>2. IsFiniteSet({i}) /\ Cardinality({i}) = 1
  BY FS_Singleton
<1>3. IsFiniteSet({i} \X (1 .. n)) /\ Cardinality({i} \X (1 .. n)) = Cardinality({i}) * Cardinality(1 .. n)
  BY <1>1, <1>2, FS_Product
<1> QED BY <1>1, <1>2, <1>3

\* An owner more.
LEMMA CoinsAdd ==
    ASSUME NEW C, IsFiniteSet(C), NEW i, NEW n \in Nat, \A c \in C : c[1] # i
    PROVE  /\ IsFiniteSet(C \cup ({i} \X (1 .. n)))
           /\ Cardinality(C \cup ({i} \X (1 .. n))) = Cardinality(C) + n
<1> PICK D : D = {i} \X (1 .. n)
  OBVIOUS
<1>1. IsFiniteSet(D) /\ Cardinality(D) = n
  BY CoinsOfOne
<1>2. C \cap D = {}
  OBVIOUS
<1>3. IsFiniteSet(C \cup D)
      /\ Cardinality(C \cup D) = Cardinality(C) + Cardinality(D) - Cardinality(C \cap D)
  BY <1>1, FS_Union
<1>4. Cardinality(C \cap D) = 0 /\ Cardinality(C) \in Nat
  BY <1>2, FS_EmptySet, FS_CardinalityType
<1> QED BY <1>1, <1>3, <1>4

\* An owner less.
LEMMA CoinsRemove ==
    ASSUME NEW D, NEW i, NEW n \in Nat, IsFiniteSet(D \cup ({i} \X (1 .. n))), \A c \in D : c[1] # i
    PROVE  IsFiniteSet(D) /\ Cardinality(D \cup ({i} \X (1 .. n))) = Cardinality(D) + n
<1>1. IsFiniteSet(D)
  BY FS_Subset
<1> QED BY <1>1, CoinsAdd

\* The owners get other numbers.
LEMMA CoinsShift ==
    ASSUME NEW C \in SUBSET (Nat \X Nat), IsFiniteSet(C), NEW D,
           D = {<<c[1] - 1, c[2]>> : c \in C}
    PROVE  IsFiniteSet(D) /\ Cardinality(D) = Cardinality(C)
<1> PICK f : f = [c \in C |-> <<c[1] - 1, c[2]>>]
  OBVIOUS
<1>1. f \in [C -> D]
  OBVIOUS
<1>2. \A a, b \in C : f[a] = f[b] => a = b
  <2> SUFFICES ASSUME NEW a \in C, NEW b \in C, f[a] = f[b] PROVE a = b
    OBVIOUS
  <2>1. <<a[1] - 1, a[2]>> = <<b[1] - 1, b[2]>>
    OBVIOUS
  <2>2. a[1] - 1 = b[1] - 1 /\ a[2] = b[2] /\ a[1] \in Nat /\ b[1] \in Nat
    BY <2>1
  <2>3. a = <<a[1], a[2]>> /\ b = <<b[1], b[2]>>
    OBVIOUS
  <2> QED BY <2>2, <2>3
<1>3. \A d \in D : \E c \in C : f[c] = d
  OBVIOUS
<1>4. f \in Bijection(C, D)
  BY <1>1, <1>2, <1>3 DEF Bijection, Injection, Surjection, IsInjective
<1>5. ExistsBijection(C, D)
  BY <1>4 DEF ExistsBijection
<1> QED BY <1>5, FS_Bijection

\* A handler that has granted and not yet sent the row.
Owes(i) ==
    \/ req[i].type = "sign" /\ req[i].at \in {6, 7}
    \/ req[i].type \in {"share", "profile"} /\ req[i].at \in {4, 5}
    \/ req[i].type = "effective" /\ req[i].at = 7

\* The handlers that are counted are those that owe a row.
LEMMA OwesFacts ==
    ASSUME Handled, NEW i \in Slots, NEW u, NEW t
    PROVE  i \in Granting(u, t) <=> Owes(i) /\ req[i].user = u /\ TaskOf(req[i].type) = t
<1>0. i \in Granting(u, t) <=> /\ req[i].user = u /\ TaskOf(req[i].type) = t /\ ~Past(i, "ledger")
                              /\ (Past(i, "credit") \/ Past(i, "setGold") \/ Past(i, "creditTx"))
  BY Zenon DEF Granting
<1>1. CASE ~Active(i)
  <2>1. ~Past(i, "credit") /\ ~Past(i, "setGold") /\ ~Past(i, "creditTx")
    BY <1>1 DEF Past
  <2>2. req[i].type = "none"
    BY <1>1 DEF Handled, Idle
  <2> QED BY <1>0, <2>1, <2>2 DEF Owes
<1>2. CASE Active(i)
  <2> PICK s \in DOMAIN Program : s = req[i].type
    BY <1>2, ActiveFacts
  <2> PICK n \in DOMAIN Program[s] : n = req[i].at
    BY <1>2, ActiveFacts
  <2>1. n \in 1 .. Len(Program[s]) /\ Len(Program[s]) \in Nat /\ DOMAIN Program[s] = 1 .. Len(Program[s])
    BY ProgramSteps
  <2>2. 1 .. (n - 1) \subseteq DOMAIN Program[s]
    BY <2>1
  <2>3. /\ Past(i, "ledger") <=> \E k \in 1 .. (n - 1) : Program[s][k] = "ledger"
        /\ Past(i, "credit") <=> \E k \in 1 .. (n - 1) : Program[s][k] = "credit"
        /\ Past(i, "setGold") <=> \E k \in 1 .. (n - 1) : Program[s][k] = "setGold"
        /\ Past(i, "creditTx") <=> \E k \in 1 .. (n - 1) : Program[s][k] = "creditTx"
    BY <1>2 DEF Past
  <2>4. CASE s = "sign"
    <3>1. n \in 1 .. 8 /\ \A k \in 1 .. 8 : /\ Program[s][k] = "ledger" <=> k = 7
                                            /\ Program[s][k] = "setGold" <=> k = 5
                                            /\ Program[s][k] # "credit" /\ Program[s][k] # "creditTx"
      BY <2>1, <2>4, ProgramIs
    <3>2. Past(i, "ledger") <=> n >= 8
      BY <2>3, <3>1
    <3>3. Past(i, "setGold") <=> n >= 6
      BY <2>3, <3>1
    <3>4. ~Past(i, "credit") /\ ~Past(i, "creditTx")
      BY <2>3, <3>1
    <3>5. Owes(i) <=> ~Past(i, "ledger") /\ (Past(i, "credit") \/ Past(i, "setGold") \/ Past(i, "creditTx"))
      BY <2>4, <3>1, <3>2, <3>3, <3>4 DEF Owes
    <3> QED BY <1>0, <3>5
  <2>5. CASE s = "effective"
    <3>1. n \in 1 .. 8 /\ \A k \in 1 .. 8 : /\ Program[s][k] = "ledger" <=> k = 7
                                            /\ Program[s][k] = "creditTx" <=> k = 6
                                            /\ Program[s][k] # "credit" /\ Program[s][k] # "setGold"
      BY <2>1, <2>5, ProgramIs
    <3>2. Past(i, "ledger") <=> n >= 8
      BY <2>3, <3>1
    <3>3. Past(i, "creditTx") <=> n >= 7
      BY <2>3, <3>1
    <3>4. ~Past(i, "credit") /\ ~Past(i, "setGold")
      BY <2>3, <3>1
    <3>5. Owes(i) <=> ~Past(i, "ledger") /\ (Past(i, "credit") \/ Past(i, "setGold") \/ Past(i, "creditTx"))
      BY <2>5, <3>1, <3>2, <3>3, <3>4 DEF Owes
    <3> QED BY <1>0, <3>5
  <2>6. CASE s \in {"share", "profile"}
    <3>0. n \in 1 .. 5 /\ DOMAIN Program[s] = 1 .. 5
      BY <2>6, ProgramLen
    <3>1. \A k \in 1 .. 5 : /\ Program[s][k] = "ledger" <=> k = 5
                            /\ Program[s][k] = "credit" <=> k = 3
                            /\ Program[s][k] # "creditTx" /\ Program[s][k] # "setGold"
      <4>1. CASE s = "share"
        BY <4>1, ProgramIs
      <4>2. CASE s = "profile"
        BY <4>2, ProgramIs
      <4> QED BY <2>6, <4>1, <4>2
    <3>2. ~Past(i, "ledger")
      BY <2>3, <3>0, <3>1
    <3>3. Past(i, "credit") <=> n >= 4
      BY <2>3, <3>0, <3>1
    <3>4. ~Past(i, "creditTx") /\ ~Past(i, "setGold")
      BY <2>3, <3>0, <3>1
    <3>5. Owes(i) <=> ~Past(i, "ledger") /\ (Past(i, "credit") \/ Past(i, "setGold") \/ Past(i, "creditTx"))
      BY <2>6, <3>0, <3>2, <3>3, <3>4 DEF Owes
    <3> QED BY <1>0, <3>5
  <2>7. CASE s \notin {"sign", "effective", "share", "profile"}
    <3>1. \A k \in DOMAIN Program[s] : Program[s][k] \notin {"credit", "setGold", "creditTx"}
      BY <2>7, Places
    <3>2. ~Past(i, "credit") /\ ~Past(i, "setGold") /\ ~Past(i, "creditTx")
      BY <2>2, <2>3, <3>1
    <3> QED BY <1>0, <2>7, <3>2 DEF Owes
  <2> QED BY <2>4, <2>5, <2>6, <2>7
<1> QED BY <1>1, <1>2

\* Also in the state after a step.
LEMMA OwesNext ==
    Handled' => \A i \in Slots : \A u, t :
        (i \in Granting(u, t))' <=> Owes(i)' /\ req'[i].user = u /\ TaskOf(req'[i].type) = t
<1>1. Handled => \A i \in Slots : \A u, t :
          i \in Granting(u, t) <=> Owes(i) /\ req[i].user = u /\ TaskOf(req[i].type) = t
  BY OwesFacts
<1>2. (Handled => \A i \in Slots : \A u, t :
          i \in Granting(u, t) <=> Owes(i) /\ req[i].user = u /\ TaskOf(req[i].type) = t)'
  BY <1>1, PTL
<1> QED BY <1>2

\* The coins are the same when the handlers and their amounts are.
LEMMA HandlersSame ==
    ASSUME NEW u, NEW t, Granting(u, t)' = Granting(u, t),
           \A j \in Granting(u, t) : req'[j].add = req[j].add
    PROVE  InHandlers(u, t)' = InHandlers(u, t)
  BY DEF InHandlers

\* The handlers that are counted have slots.
LEMMA GrantingIn == \A u, t : Granting(u, t) \subseteq Slots /\ Granting(u, t)' \subseteq Slots
  BY DEF Granting

\* A handler that is not about the user and the task, or stays in debt, or out of it.
LEMMA OwingSame ==
    ASSUME Handled, Handled', NEW i \in Slots, Moves(i), NEW u, NEW t,
           \/ Owes(i)' <=> Owes(i)
           \/ req[i].user # u \/ TaskOf(req[i].type) # t,
           Owes(i) /\ Owes(i)' => req'[i].add = req[i].add
    PROVE  InHandlers(u, t)' = InHandlers(u, t)
<1>1. ASSUME NEW j \in Slots
      PROVE  /\ (j \in Granting(u, t))' <=> j \in Granting(u, t)
             /\ j \in Granting(u, t) => req'[j].add = req[j].add
  <2>1. CASE j # i
    <3>1. req'[j] = req[j]
      BY <2>1 DEF Moves
    <3> QED BY <3>1, OwesFacts, OwesNext DEF Owes
  <2>2. CASE j = i
    <3>1. CASE req'[i] = Idle
      <4>1. ~Owes(i)'
        BY <3>1 DEF Owes, Idle
      <4> QED BY <2>2, <4>1, OwesFacts, OwesNext
    <3>2. CASE req'[i] # Idle
      <4>1. req'[i].user = req[i].user /\ req'[i].type = req[i].type
        BY <3>2 DEF Moves
      <4> QED BY <2>2, <4>1, OwesFacts, OwesNext
    <3> QED BY <3>1, <3>2
  <2> QED BY <2>1, <2>2
<1>2. Granting(u, t)' = Granting(u, t)
  BY <1>1, GrantingIn
<1>3. \A j \in Granting(u, t) : req'[j].add = req[j].add
  BY <1>1, GrantingIn
<1> QED BY <1>2, <1>3, HandlersSame

\* A handler grants: it owes a row from here.
LEMMA OwingMore ==
    ASSUME Handled, Handled', NEW i \in Slots, Moves(i), NEW u, NEW t, NEW n \in Nat,
           ~Owes(i), Owes(i)', req[i].user = u, TaskOf(req[i].type) = t, req'[i].add = n,
           IsFiniteSet(InHandlers(u, t))
    PROVE  /\ IsFiniteSet(InHandlers(u, t)')
           /\ Cardinality(InHandlers(u, t)') = Cardinality(InHandlers(u, t)) + n
<1>1. req'[i].user = u /\ TaskOf(req'[i].type) = t
  <2>1. req'[i] # Idle
    BY DEF Owes, Idle
  <2> QED BY <2>1 DEF Moves
<1>2. i \notin Granting(u, t) /\ i \in Granting(u, t)'
  BY <1>1, OwesFacts, OwesNext
<1>3. ASSUME NEW j \in Slots, j # i
      PROVE  req'[j] = req[j] /\ ((j \in Granting(u, t))' <=> j \in Granting(u, t))
  <2>1. req'[j] = req[j]
    BY <1>3 DEF Moves
  <2> QED BY <2>1, OwesFacts, OwesNext DEF Owes
<1>4. InHandlers(u, t)' = InHandlers(u, t) \cup ({i} \X (1 .. n))
  <2> PICK G : G = Granting(u, t)
    OBVIOUS
  <2>1. Granting(u, t)' = G \cup {i}
    BY <1>2, <1>3, GrantingIn
  <2>2. \A j \in G : req'[j].add = req[j].add
    BY <1>2, <1>3, GrantingIn
  <2>3. InHandlers(u, t) = UNION {{j} \X (1 .. req[j].add) : j \in G}
    BY DEF InHandlers
  <2>4. InHandlers(u, t)' = UNION {{j} \X (1 .. req'[j].add) : j \in G \cup {i}}
    BY <2>1 DEF InHandlers
  <2> QED BY <2>2, <2>3, <2>4
<1>5. \A c \in InHandlers(u, t) : c[1] # i
  BY <1>2 DEF InHandlers
<1>6. /\ IsFiniteSet(InHandlers(u, t) \cup ({i} \X (1 .. n)))
      /\ Cardinality(InHandlers(u, t) \cup ({i} \X (1 .. n))) = Cardinality(InHandlers(u, t)) + n
  BY <1>5, CoinsAdd
<1> QED BY <1>4, <1>6

\* A handler sends the row.
LEMMA OwingLess ==
    ASSUME Handled, Handled', NEW i \in Slots, Moves(i), NEW u, NEW t, NEW n \in Nat,
           Owes(i), ~Owes(i)', req[i].user = u, TaskOf(req[i].type) = t, req[i].add = n,
           IsFiniteSet(InHandlers(u, t))
    PROVE  /\ IsFiniteSet(InHandlers(u, t)')
           /\ Cardinality(InHandlers(u, t)) = Cardinality(InHandlers(u, t)') + n
<1>2. i \in Granting(u, t) /\ i \notin Granting(u, t)'
  BY OwesFacts, OwesNext
<1>3. ASSUME NEW j \in Slots, j # i
      PROVE  req'[j] = req[j] /\ ((j \in Granting(u, t))' <=> j \in Granting(u, t))
  <2>1. req'[j] = req[j]
    BY <1>3 DEF Moves
  <2> QED BY <2>1, OwesFacts, OwesNext DEF Owes
<1>4. InHandlers(u, t) = InHandlers(u, t)' \cup ({i} \X (1 .. n))
  <2> PICK G : G = Granting(u, t)'
    OBVIOUS
  <2>1. Granting(u, t) = G \cup {i}
    BY <1>2, <1>3, GrantingIn
  <2>2. \A j \in G : req'[j].add = req[j].add
    BY <1>2, <1>3, GrantingIn
  <2>3. InHandlers(u, t)' = UNION {{j} \X (1 .. req'[j].add) : j \in G}
    BY DEF InHandlers
  <2>4. InHandlers(u, t) = UNION {{j} \X (1 .. req[j].add) : j \in G \cup {i}}
    BY <2>1 DEF InHandlers
  <2> QED BY <2>2, <2>3, <2>4
<1>5. \A c \in InHandlers(u, t)' : c[1] # i
  BY <1>2 DEF InHandlers
<1>6. IsFiniteSet(InHandlers(u, t)' \cup ({i} \X (1 .. n)))
  BY <1>4
<1>7. /\ IsFiniteSet(InHandlers(u, t)')
      /\ Cardinality(InHandlers(u, t)' \cup ({i} \X (1 .. n))) = Cardinality(InHandlers(u, t)') + n
  BY <1>5, <1>6, CoinsRemove
<1> QED BY <1>4, <1>7

\* The coins of a row.
RowCoins(d, u, t) == IF d.user = u /\ d.task = t THEN d.add ELSE 0

\* A row is put behind the others ...
LEMMA QueueAppend ==
    ASSUME NEW q \in Seq(Rows), NEW d \in Rows, NEW u, NEW t, IsFiniteSet(InQueue(q, u, t))
    PROVE  /\ IsFiniteSet(InQueue(Append(q, d), u, t))
           /\ Cardinality(InQueue(Append(q, d), u, t))
              = Cardinality(InQueue(q, u, t)) + RowCoins(d, u, t)
<1> PICK m \in Nat : m = Len(q)
  OBVIOUS
<1>1. /\ DOMAIN Append(q, d) = 1 .. (m + 1) /\ DOMAIN q = 1 .. m
      /\ \A k \in 1 .. m : Append(q, d)[k] = q[k]
      /\ Append(q, d)[m + 1] = d
  OBVIOUS
<1>2. d.add \in Nat /\ Cardinality(InQueue(q, u, t)) \in Nat
  BY FS_CardinalityType DEF Rows
<1> PICK R : R = RowsOf(q, u, t)
  OBVIOUS
<1>3. R \subseteq 1 .. m
  BY <1>1 DEF RowsOf
<1>4. InQueue(q, u, t) = UNION {{k} \X (1 .. q[k].add) : k \in R}
  BY DEF InQueue
<1>5. CASE d.user = u /\ d.task = t
  <2>1. RowsOf(Append(q, d), u, t) = R \cup {m + 1}
    BY <1>1, <1>5 DEF RowsOf
  <2>2. InQueue(Append(q, d), u, t)
        = UNION {{k} \X (1 .. Append(q, d)[k].add) : k \in R \cup {m + 1}}
    BY <2>1 DEF InQueue
  <2>3. \A k \in R : Append(q, d)[k] = q[k]
    BY <1>1, <1>3
  <2> PICK F : F = {{k} \X (1 .. Append(q, d)[k].add) : k \in R}
    OBVIOUS
  <2>4. F = {{k} \X (1 .. q[k].add) : k \in R}
    BY <2>3
  <2>5. {{k} \X (1 .. Append(q, d)[k].add) : k \in R \cup {m + 1}} = F \cup {{m + 1} \X (1 .. d.add)}
    BY <1>1
  <2>6. InQueue(Append(q, d), u, t) = InQueue(q, u, t) \cup ({m + 1} \X (1 .. d.add))
    <3>1. UNION (F \cup {{m + 1} \X (1 .. d.add)}) = (UNION F) \cup ({m + 1} \X (1 .. d.add))
      OBVIOUS
    <3>2. InQueue(q, u, t) = UNION F
      BY <1>4, <2>4
    <3>3. InQueue(Append(q, d), u, t) = UNION (F \cup {{m + 1} \X (1 .. d.add)})
      BY <2>2, <2>5
    <3> QED BY <3>1, <3>2, <3>3
  <2>7. \A c \in InQueue(q, u, t) : c[1] # m + 1
    BY <1>3, <1>4
  <2>8. PICK j \in Int : j = m + 1
    OBVIOUS
  <2>9. PICK n \in Nat : n = d.add
    BY <1>2
  <2>10. \A c \in InQueue(q, u, t) : c[1] # j
    BY <2>7, <2>8
  <2>11. /\ IsFiniteSet(InQueue(q, u, t) \cup ({j} \X (1 .. n)))
         /\ Cardinality(InQueue(q, u, t) \cup ({j} \X (1 .. n))) = Cardinality(InQueue(q, u, t)) + n
    BY <2>10, CoinsAdd
  <2> QED BY <1>5, <2>6, <2>8, <2>9, <2>11 DEF RowCoins
<1>6. CASE ~(d.user = u /\ d.task = t)
  <2>1. RowsOf(Append(q, d), u, t) = R
    BY <1>1, <1>6 DEF RowsOf
  <2>2. InQueue(Append(q, d), u, t) = UNION {{k} \X (1 .. Append(q, d)[k].add) : k \in R}
    BY <2>1 DEF InQueue
  <2>3. \A k \in R : Append(q, d)[k] = q[k]
    BY <1>1, <1>3
  <2>4. {{k} \X (1 .. Append(q, d)[k].add) : k \in R} = {{k} \X (1 .. q[k].add) : k \in R}
    BY <2>3
  <2>5. InQueue(Append(q, d), u, t) = InQueue(q, u, t)
    BY <1>4, <2>2, <2>4
  <2> QED BY <1>2, <1>6, <2>5 DEF RowCoins
<1> QED BY <1>5, <1>6

\* ... and taken from the front.
LEMMA QueueTake ==
    ASSUME NEW q \in Seq(Rows), q # <<>>, NEW u, NEW t, IsFiniteSet(InQueue(q, u, t))
    PROVE  /\ IsFiniteSet(InQueue(Tail(q), u, t))
           /\ Cardinality(InQueue(q, u, t))
              = Cardinality(InQueue(Tail(q), u, t)) + RowCoins(Head(q), u, t)
<1> PICK m \in Nat : m = Len(q)
  OBVIOUS
<1>1. /\ m > 0 /\ DOMAIN Tail(q) = 1 .. (m - 1) /\ DOMAIN q = 1 .. m
      /\ \A k \in 1 .. (m - 1) : Tail(q)[k] = q[k + 1]
      /\ q[1] = Head(q) /\ Head(q) \in Rows
      /\ \A k \in 1 .. m : q[k] \in Rows
  OBVIOUS
<1> PICK d \in Rows : d = q[1]
  BY <1>1
<1> PICK R : R = {k \in 2 .. m : q[k].user = u /\ q[k].task = t}
  OBVIOUS
<1> PICK E : E = UNION {{k} \X (1 .. q[k].add) : k \in R}
  OBVIOUS
<1>2. d.add \in Nat
  BY DEF Rows
<1>3. \A c \in E : c[1] # 1
  OBVIOUS
<1>4. /\ d.user = u /\ d.task = t => InQueue(q, u, t) = E \cup ({1} \X (1 .. d.add))
      /\ ~(d.user = u /\ d.task = t) => InQueue(q, u, t) = E
  <2>1. CASE d.user = u /\ d.task = t
    <3>1. RowsOf(q, u, t) = R \cup {1}
      BY <1>1, <2>1 DEF RowsOf
    <3>2. InQueue(q, u, t) = UNION {{k} \X (1 .. q[k].add) : k \in R \cup {1}}
      BY <3>1 DEF InQueue
    <3> QED BY <2>1, <3>2
  <2>2. CASE ~(d.user = u /\ d.task = t)
    <3>1. RowsOf(q, u, t) = R
      BY <1>1, <2>2 DEF RowsOf
    <3> QED BY <2>2, <3>1 DEF InQueue
  <2> QED BY <2>1, <2>2
<1>5. IsFiniteSet(E) /\ Cardinality(InQueue(q, u, t)) = Cardinality(E) + RowCoins(d, u, t)
  <2>1. CASE d.user = u /\ d.task = t
    <3>1. PICK first : first = 1
      OBVIOUS
    <3>2. PICK n \in Nat : n = d.add
      BY <1>2
    <3>3. PICK X : X = E
      OBVIOUS
    <3>4. IsFiniteSet(X \cup ({first} \X (1 .. n))) /\ \A c \in X : c[1] # first
      BY <1>3, <1>4, <2>1, <3>1, <3>2, <3>3
    <3>5. IsFiniteSet(X) /\ Cardinality(X \cup ({first} \X (1 .. n))) = Cardinality(X) + n
      BY <3>4, CoinsRemove, ZenonT(20)
    <3> QED BY <1>4, <2>1, <3>1, <3>2, <3>3, <3>5 DEF RowCoins
  <2>2. CASE ~(d.user = u /\ d.task = t)
    <3>1. IsFiniteSet(E) /\ Cardinality(E) \in Nat /\ InQueue(q, u, t) = E
      BY <1>4, <2>2, FS_CardinalityType
    <3> QED BY <2>2, <3>1 DEF RowCoins
  <2> QED BY <2>1, <2>2
<1>6. E \in SUBSET (Nat \X Nat)
  OBVIOUS
<1>7. InQueue(Tail(q), u, t) = {<<c[1] - 1, c[2]>> : c \in E}
  <2> PICK T : T = RowsOf(Tail(q), u, t)
    OBVIOUS
  <2>1. \A k : k \in T <=> k + 1 \in R /\ k \in Int
    BY <1>1 DEF RowsOf
  <2>2. T \subseteq 1 .. (m - 1)
    BY <1>1 DEF RowsOf
  <2>3. InQueue(Tail(q), u, t) = UNION {{k} \X (1 .. Tail(q)[k].add) : k \in T}
    BY DEF InQueue
  <2>4. ASSUME NEW x \in InQueue(Tail(q), u, t)
        PROVE  x \in {<<c[1] - 1, c[2]>> : c \in E}
    <3>1. PICK k \in T : x \in {k} \X (1 .. Tail(q)[k].add)
      BY <2>3, <2>4
    <3>2. k + 1 \in R /\ Tail(q)[k] = q[k + 1] /\ k \in Int
      BY <1>1, <2>1, <2>2, <3>1
    <3>3. <<k + 1, x[2]>> \in E /\ x = <<k, x[2]>>
      BY <3>1, <3>2
    <3>4. x = <<(k + 1) - 1, x[2]>>
      BY <3>2, <3>3
    <3> QED BY <3>3, <3>4
  <2>5. ASSUME NEW c \in E
        PROVE  <<c[1] - 1, c[2]>> \in InQueue(Tail(q), u, t)
    <3>1. PICK k \in R : c \in {k} \X (1 .. q[k].add)
      BY <2>5
    <3> PICK j \in Int : j = k - 1
      OBVIOUS
    <3>2. j \in T /\ Tail(q)[j] = q[k]
      BY <1>1, <2>1
    <3>3. <<j, c[2]>> \in {j} \X (1 .. Tail(q)[j].add)
      BY <3>1, <3>2
    <3>4. <<j, c[2]>> \in InQueue(Tail(q), u, t)
      BY <2>3, <3>2, <3>3
    <3> QED BY <3>1, <3>4
  <2> QED BY <2>4, <2>5
<1>8. IsFiniteSet(InQueue(Tail(q), u, t)) /\ Cardinality(InQueue(Tail(q), u, t)) = Cardinality(E)
  BY <1>5, <1>6, <1>7, CoinsShift
<1> QED BY <1>1, <1>5, <1>8

\* The rows that were written, or refused.
Recorded(u, t) == ledger[u][t] + clashed[u][t]

\* The coins that were granted are recorded, or on their way.
Booked(u, t) ==
    /\ IsFiniteSet(InHandlers(u, t)) /\ IsFiniteSet(InQueue(goldHand \o goldChan, u, t))
    /\ Recorded(u, t) + Cardinality(InHandlers(u, t))
       + Cardinality(InQueue(goldHand \o goldChan, u, t)) = granted[u][t]

Registers == ledger \in [Users -> [Tasks -> Nat]] /\ clashed \in [Users -> [Tasks -> Nat]]

LedgerInv == Registers /\ \A u \in Users, t \in Tasks : Booked(u, t)

\* The statements of a reward are not the last of their programs.
LEMMA NotLast ==
    ASSUME NEW s, NEW n,
           \/ s \in {"share", "profile"} /\ n \in {3, 4}
           \/ s = "sign" /\ n \in {5, 6}
           \/ s = "effective" /\ n = 6
    PROVE  n # Len(Program[s])
<1>1. /\ Len(Program["sign"]) = 8 /\ Len(Program["effective"]) = 8
      /\ Len(Program["share"]) = 5 /\ Len(Program["profile"]) = 5
  BY ProgramIs
<1>2. CASE s \in {"share", "profile"} /\ n \in {3, 4}
  <2>1. Len(Program[s]) = 5
    BY <1>1, <1>2
  <2> QED BY <1>2, <2>1
<1>3. CASE s = "sign" /\ n \in {5, 6}
  <2>1. Len(Program[s]) = 8
    BY <1>1, <1>3
  <2> QED BY <1>3, <2>1
<1>4. CASE s = "effective" /\ n = 6
  <2>1. Len(Program[s]) = 8
    BY <1>1, <1>4
  <2> QED BY <1>4, <2>1
<1> QED BY <1>2, <1>3, <1>4

\* The statements that make no debt and pay none.
Harmless == {"check", "begin", "status", "lookup", "insert", "oneoff", "bonus", "info", "daily",
             "balance", "profile", "report", "reward", "valid", "validate", "commit", "pending",
             "cash", "pay", "approve"}

\* Which statement makes a handler owe a row, and which one sends it.
LEMMA HandleOwes ==
    ASSUME Typed, Typed', NEW i \in Slots, Handle(i)
    PROVE  /\ Moves(i)
           /\ Credit(i) \/ SetGold(i) \/ CreditTx(i) => ~Owes(i) /\ Owes(i)' /\ req'[i].add = req[i].add
           /\ PushGold(i) => Owes(i) /\ ~Owes(i)'
           /\ ~(Credit(i) \/ SetGold(i) \/ CreditTx(i) \/ PushGold(i)) => (Owes(i)' <=> Owes(i))
           /\ Owes(i) /\ Owes(i)' => req'[i].add = req[i].add
<1>1. Handled /\ Moves(i) /\ Active(i)
  BY HandleMoves DEF Typed
<1>2. req[i].at \in 1 .. 8
  BY <1>1, ActiveFacts
<1>3. /\ req'[i] = Idle => ~Owes(i)'
      /\ req'[i] # Idle => /\ req'[i].type = req[i].type /\ req'[i].at = req[i].at + 1
  BY <1>1 DEF Owes, Idle, Moves
<1>4. CASE Credit(i) \/ SetGold(i) \/ CreditTx(i)
  <2>1. \/ req[i].type \in {"share", "profile"} /\ req[i].at = 3
        \/ req[i].type = "sign" /\ req[i].at = 5
        \/ req[i].type = "effective" /\ req[i].at = 6
    BY <1>4, CreditFacts, SetGoldFacts
  <2>2. ~Credit(i) \/ ~PushGold(i)
    BY <1>1, AtFacts, Places DEF Credit, PushGold
  <2>3. Go(i) /\ req[i].at # Len(Program[req[i].type])
    <3>1. Go(i)
      BY <1>4 DEF Credit, SetGold, CreditTx
    <3>2. req[i].at # Len(Program[req[i].type])
      BY <2>1, NotLast
    <3> QED BY <3>1, <3>2
  <2>4. req'[i] # Idle /\ Steady(i)
    BY <1>1, <2>3, GoMoves
  <2>5. ~Owes(i) /\ Owes(i)' /\ req'[i].add = req[i].add
    BY <1>3, <2>1, <2>4 DEF Owes, Steady
  <2>6. ~PushGold(i)
    BY <2>1, RowFacts
  <2> QED BY <1>1, <1>4, <2>5, <2>6
<1>5. CASE PushGold(i)
  <2>1. \/ req[i].type = "sign" /\ req[i].at = 7
        \/ req[i].type = "effective" /\ req[i].at = 7
        \/ req[i].type \in {"share", "profile"} /\ req[i].at = 5
    BY <1>5, RowFacts
  <2>2. Owes(i) /\ ~Owes(i)'
    BY <1>3, <2>1 DEF Owes
  <2>3. ~(Credit(i) \/ SetGold(i) \/ CreditTx(i))
    BY <2>1, CreditFacts, SetGoldFacts
  <2> QED BY <1>1, <1>5, <2>2, <2>3
<1>6. CASE PushEvent(i) \/ MarkProfile(i)
  <2>1. \/ req[i].type = "sign" /\ req[i].at = 6
        \/ req[i].type \in {"share", "profile"} /\ req[i].at = 4
    BY <1>6, EventFacts, MarkFacts
  <2>2. Go(i) /\ req[i].at # Len(Program[req[i].type])
    <3>1. Go(i)
      BY <1>6 DEF PushEvent, MarkProfile
    <3>2. req[i].at # Len(Program[req[i].type])
      BY <2>1, NotLast
    <3> QED BY <3>1, <3>2
  <2>3. req'[i] # Idle /\ Steady(i)
    BY <1>1, <2>2, GoMoves
  <2>4. Owes(i) /\ Owes(i)' /\ req'[i].add = req[i].add
    BY <1>3, <2>1, <2>3 DEF Owes, Steady
  <2>5. ~(Credit(i) \/ SetGold(i) \/ CreditTx(i) \/ PushGold(i))
    BY <2>1, CreditFacts, SetGoldFacts, RowFacts
  <2> QED BY <1>1, <2>4, <2>5
<1>7. CASE ~(Credit(i) \/ SetGold(i) \/ CreditTx(i) \/ PushGold(i) \/ PushEvent(i) \/ MarkProfile(i))
  <2>1. PICK op \in Harmless : At(i, op)
    BY <1>7 DEF Handle, Harmless, Check, Begin, Status, Lookup, InsertUser, OneOffTasks,
         RegisterEvent, Info, DailyTasks, Balance, ReadProfile, Report, Reward, Valid, Validate,
         Commit, Pending, EnoughCash, Pay, Approve
  <2>4. req[i].type \in DOMAIN Program /\ req[i].at \in DOMAIN Program[req[i].type]
        /\ Program[req[i].type][req[i].at] \in Harmless
    BY <1>1, <2>1, AtFacts
  <2>5. /\ req[i].type = "sign" => req[i].at \notin {5, 6, 7}
        /\ req[i].type \in {"share", "profile"} => req[i].at \notin {3, 4, 5}
        /\ req[i].type = "effective" => req[i].at \notin {6, 7}
    BY <2>4, ProgramIs DEF Harmless
  <2>2. ~Owes(i)
    BY <2>5 DEF Owes
  <2>3. ~Owes(i)'
    BY <1>2, <1>3, <2>5 DEF Owes
  <2> QED BY <1>1, <1>7, <2>2, <2>3
<1> QED BY <1>4, <1>5, <1>6, <1>7

\* An amount is written to the ledger, or refused by it.
LEMMA RecordFacts ==
    ASSUME Registers, NEW u \in Users, NEW t \in Tasks, NEW x \in Nat,
           \/ ledger' = [ledger EXCEPT ![u][t] = @ + x] /\ clashed' = clashed
           \/ clashed' = [clashed EXCEPT ![u][t] = @ + x] /\ ledger' = ledger
    PROVE  /\ Registers' /\ Recorded(u, t)' = Recorded(u, t) + x
           /\ \A v \in Users, w \in Tasks : v # u \/ w # t => Recorded(v, w)' = Recorded(v, w)
<1>1. /\ ledger \in [Users -> [Tasks -> Nat]] /\ clashed \in [Users -> [Tasks -> Nat]]
  BY DEF Registers
<1>2. ASSUME NEW f \in [Users -> [Tasks -> Nat]]
      PROVE  /\ [f EXCEPT ![u][t] = @ + x] \in [Users -> [Tasks -> Nat]]
             /\ [f EXCEPT ![u][t] = @ + x][u][t] = f[u][t] + x
             /\ \A v \in Users, w \in Tasks : v # u \/ w # t => [f EXCEPT ![u][t] = @ + x][v][w] = f[v][w]
  <2> PICK y \in Nat : y = f[u][t] + x
    OBVIOUS
  <2> PICK g : g = [f EXCEPT ![u][t] = y]
    OBVIOUS
  <2>1. /\ g \in [Users -> [Tasks -> Nat]] /\ g[u][t] = y
        /\ \A v \in Users, w \in Tasks : v # u \/ w # t => g[v][w] = f[v][w]
    BY EntryFacts
  <2> QED BY <2>1
<1>3. CASE ledger' = [ledger EXCEPT ![u][t] = @ + x] /\ clashed' = clashed
  <2>1. /\ ledger' \in [Users -> [Tasks -> Nat]] /\ ledger'[u][t] = ledger[u][t] + x
        /\ \A v \in Users, w \in Tasks : v # u \/ w # t => ledger'[v][w] = ledger[v][w]
    BY <1>1, <1>2, <1>3
  <2> QED BY <1>1, <1>3, <2>1 DEF Registers, Recorded
<1>4. CASE clashed' = [clashed EXCEPT ![u][t] = @ + x] /\ ledger' = ledger
  <2>1. /\ clashed' \in [Users -> [Tasks -> Nat]] /\ clashed'[u][t] = clashed[u][t] + x
        /\ \A v \in Users, w \in Tasks : v # u \/ w # t => clashed'[v][w] = clashed[v][w]
    BY <1>1, <1>2, <1>4
  <2> QED BY <1>1, <1>4, <2>1 DEF Registers, Recorded
<1> QED BY <1>3, <1>4

\* The numbers of the account.
LEMMA BookedTypes ==
    ASSUME Typed, LedgerInv, NEW u \in Users, NEW t \in Tasks
    PROVE  /\ Recorded(u, t) \in Nat /\ granted[u][t] \in Nat
           /\ Cardinality(InHandlers(u, t)) \in Nat
           /\ Cardinality(InQueue(goldHand \o goldChan, u, t)) \in Nat
<1>1. Registers /\ Booked(u, t)
  BY DEF LedgerInv
<1>2. ledger[u][t] \in Nat /\ clashed[u][t] \in Nat /\ granted[u][t] \in Nat
  BY <1>1 DEF Registers, Typed, Tables
<1>3. Recorded(u, t) \in Nat
  BY <1>2 DEF Recorded
<1> QED BY <1>1, <1>2, <1>3, FS_CardinalityType DEF Booked

\* The rows on their way are a sequence.
LEMMA QueueIs ==
    ASSUME Typed
    PROVE  goldHand \o goldChan \in Seq(Rows)
<1>1. goldHand \in Seq(Rows) /\ goldChan \in Seq(Rows)
  BY DEF Typed, Queues
<1> QED BY <1>1

\* Granting makes a debt.
LEMMA LedgerCredit ==
    ASSUME Typed, Typed', LedgerInv, NEW i \in Slots, Credit(i) \/ SetGold(i) \/ CreditTx(i)
    PROVE  LedgerInv'
<1>1. Handle(i)
  BY DEF Handle
<1>2. /\ Handled /\ Handled' /\ Moves(i) /\ ~Owes(i) /\ Owes(i)' /\ req'[i].add = req[i].add
      /\ Active(i)
  BY <1>1, HandleOwes, HandleMoves DEF Typed
<1>3. /\ req[i].type \in {"sign", "share", "profile", "effective"} /\ Grant(i)
  BY CreditFacts, SetGoldFacts
<1>4. ledger' = ledger /\ clashed' = clashed /\ goldHand' = goldHand /\ goldChan' = goldChan
  BY DEF Credit, SetGold, CreditTx, channels
<1>5. Registers'
  BY <1>4 DEF LedgerInv, Registers
<1>6. ASSUME NEW u \in Users, NEW t \in Tasks
      PROVE  Booked(u, t)'
  <2>1. Booked(u, t)
    BY DEF LedgerInv
  <2>2. Recorded(u, t)' = Recorded(u, t)
    BY <1>4 DEF Recorded
  <2>3. InQueue(goldHand \o goldChan, u, t)' = InQueue(goldHand \o goldChan, u, t)
    BY <1>4 DEF InQueue, RowsOf
  <2>4. CASE req[i].user # u \/ TaskOf(req[i].type) # t
    <3>1. InHandlers(u, t)' = InHandlers(u, t)
      BY <1>2, <2>4, OwingSame
    <3>2. granted'[u][t] = granted[u][t]
      BY <1>2, <1>3, <2>4, GrantFacts
    <3> QED BY <2>1, <2>2, <2>3, <3>1, <3>2 DEF Booked
  <2>5. CASE req[i].user = u /\ TaskOf(req[i].type) = t
    <3>1. PICK n \in Nat : n = req[i].add
      BY <1>2, ActiveFacts
    <3>2. granted'[u][t] = granted[u][t] + n
      BY <1>2, <1>3, <2>5, <3>1, GrantFacts
    <3>3. req[i].user = u /\ TaskOf(req[i].type) = t /\ req'[i].add = n
          /\ IsFiniteSet(InHandlers(u, t))
      BY <1>2, <2>1, <2>5, <3>1 DEF Booked
    <3>4. /\ IsFiniteSet(InHandlers(u, t)')
          /\ Cardinality(InHandlers(u, t)') = Cardinality(InHandlers(u, t)) + n
      BY <1>2, <3>3, OwingMore
    <3> QED BY <2>1, <2>2, <2>3, <3>2, <3>4, BookedTypes DEF Booked
  <2> QED BY <2>4, <2>5
<1> QED BY <1>5, <1>6 DEF LedgerInv

\* The row that is sent is the debt.
LEMMA LedgerPush ==
    ASSUME Typed, Typed', LedgerInv, NEW i \in Slots, PushGold(i)
    PROVE  LedgerInv'
<1>1. Handle(i)
  BY DEF Handle
<1>2. Handled /\ Handled' /\ Moves(i) /\ Owes(i) /\ ~Owes(i)' /\ Active(i)
  BY <1>1, HandleOwes, HandleMoves DEF Typed
<1>3. PICK d \in Rows : /\ d.user = req[i].user /\ d.task = TaskOf(req[i].type)
                        /\ d.add = req[i].add /\ goldChan' = Append(goldChan, d)
  BY RowFacts
<1>4. ledger' = ledger /\ clashed' = clashed /\ goldHand' = goldHand /\ granted' = granted
  BY DEF PushGold, history
<1>5. Registers'
  BY <1>4 DEF LedgerInv, Registers
<1>6. PICK q \in Seq(Rows) : q = goldHand \o goldChan
  BY QueueIs
<1>7. goldHand' \o goldChan' = Append(q, d)
  <2>1. goldHand \in Seq(Rows) /\ goldChan \in Seq(Rows)
    BY DEF Typed, Queues
  <2> QED BY <1>3, <1>4, <1>6, <2>1
<1>8. ASSUME NEW u \in Users, NEW t \in Tasks
      PROVE  Booked(u, t)'
  <2>1. Booked(u, t)
    BY DEF LedgerInv
  <2>2. Recorded(u, t)' = Recorded(u, t) /\ granted'[u][t] = granted[u][t]
    BY <1>4 DEF Recorded
  <2>3. IsFiniteSet(InQueue(q, u, t))
    BY <1>6, <2>1 DEF Booked
  <2>4. /\ IsFiniteSet(InQueue(Append(q, d), u, t))
        /\ Cardinality(InQueue(Append(q, d), u, t)) = Cardinality(InQueue(q, u, t)) + RowCoins(d, u, t)
    BY <2>3, QueueAppend
  <2>5. InQueue(goldHand \o goldChan, u, t)' = InQueue(Append(q, d), u, t)
    BY <1>7 DEF InQueue, RowsOf
  <2>6. CASE d.user # u \/ d.task # t
    <3>1. RowCoins(d, u, t) = 0
      BY <2>6 DEF RowCoins
    <3>2. req[i].user # u \/ TaskOf(req[i].type) # t
      BY <1>3, <2>6
    <3>3. InHandlers(u, t)' = InHandlers(u, t)
      BY <1>2, <3>2, OwingSame
    <3> QED BY <1>6, <2>1, <2>2, <2>4, <2>5, <3>1, <3>3, BookedTypes DEF Booked
  <2>7. CASE d.user = u /\ d.task = t
    <3>1. PICK n \in Nat : n = d.add
      BY DEF Rows
    <3>2. RowCoins(d, u, t) = n
      BY <2>7, <3>1 DEF RowCoins
    <3>3. req[i].user = u /\ TaskOf(req[i].type) = t /\ req[i].add = n
          /\ IsFiniteSet(InHandlers(u, t))
      BY <1>3, <2>1, <2>7, <3>1 DEF Booked
    <3>4. /\ IsFiniteSet(InHandlers(u, t)')
          /\ Cardinality(InHandlers(u, t)) = Cardinality(InHandlers(u, t)') + n
      BY <1>2, <3>3, OwingLess
    <3>5. Cardinality(InHandlers(u, t)') \in Nat
      BY <3>4, FS_CardinalityType
    <3> QED BY <1>6, <2>1, <2>2, <2>4, <2>5, <3>2, <3>4, <3>5, BookedTypes DEF Booked
  <2> QED BY <2>6, <2>7
<1> QED BY <1>5, <1>8 DEF LedgerInv

\* The bonus is granted and recorded at once.
LEMMA LedgerRegister ==
    ASSUME Typed, Typed', LedgerInv, NEW i \in Slots, RegisterEvent(i)
    PROVE  LedgerInv'
<1>1. Handle(i)
  BY DEF Handle
<1>2. Handled /\ Handled' /\ Moves(i) /\ Active(i) /\ req'[i] = Idle /\ req[i].type = "register"
  BY <1>1, HandleMoves, RegisterFacts DEF Typed
<1>3. ~Owes(i) /\ ~Owes(i)'
  BY <1>2 DEF Owes, Idle
<1>4. PICK w \in Users : w = req[i].user
  BY <1>2, ActiveFacts
<1>5. "bonus" \in Tasks /\ BonusCash \in Nat
  BY DEF Tasks, BonusCash
<1>6. Registers
  BY DEF LedgerInv
<1>7. \/ ledger' = [ledger EXCEPT ![w]["bonus"] = @ + BonusCash] /\ clashed' = clashed
      \/ clashed' = [clashed EXCEPT ![w]["bonus"] = @ + BonusCash] /\ ledger' = ledger
  BY <1>4 DEF RegisterEvent
<1>8. PICK b \in Tasks, x \in Nat : b = "bonus" /\ x = BonusCash
  BY <1>5
<1>9. \/ ledger' = [ledger EXCEPT ![w][b] = @ + x] /\ clashed' = clashed
      \/ clashed' = [clashed EXCEPT ![w][b] = @ + x] /\ ledger' = ledger
  BY <1>7, <1>8
<1>10. /\ Registers' /\ Recorded(w, b)' = Recorded(w, b) + x
       /\ \A u \in Users, t \in Tasks : u # w \/ t # b => Recorded(u, t)' = Recorded(u, t)
  BY <1>6, <1>9, RecordFacts
<1>11. /\ granted'[w][b] = granted[w][b] + x
       /\ \A u \in Users, t \in Tasks : u # w \/ t # b => granted'[u][t] = granted[u][t]
  BY <1>4, <1>8, RegisterFacts
<1>12. goldHand' = goldHand /\ goldChan' = goldChan
  BY RegisterFacts DEF channels
<1>13. ASSUME NEW u \in Users, NEW t \in Tasks
       PROVE  Booked(u, t)'
  <2>1. Booked(u, t)
    BY DEF LedgerInv
  <2>2. InHandlers(u, t)' = InHandlers(u, t)
    BY <1>2, <1>3, OwingSame
  <2>3. InQueue(goldHand \o goldChan, u, t)' = InQueue(goldHand \o goldChan, u, t)
    BY <1>12 DEF InQueue, RowsOf
  <2>4. CASE u # w \/ t # b
    BY <1>10, <1>11, <2>1, <2>2, <2>3, <2>4 DEF Booked
  <2>5. CASE u = w /\ t = b
    <3>1. Recorded(u, t)' = Recorded(u, t) + x /\ granted'[u][t] = granted[u][t] + x
      BY <1>10, <1>11, <2>5
    <3> QED BY <2>1, <2>2, <2>3, <3>1, BookedTypes DEF Booked
  <2> QED BY <2>4, <2>5
<1> QED BY <1>10, <1>13 DEF LedgerInv

\* The other statements grant nothing, and make and pay no debt.
LEMMA LedgerOthers ==
    ASSUME Typed, Typed', LedgerInv, NEW i \in Slots, Handle(i),
           ~(Credit(i) \/ SetGold(i) \/ CreditTx(i) \/ PushGold(i) \/ RegisterEvent(i))
    PROVE  LedgerInv'
<1>1. /\ Handled /\ Handled' /\ Moves(i) /\ (Owes(i)' <=> Owes(i))
      /\ Owes(i) /\ Owes(i)' => req'[i].add = req[i].add
  BY HandleOwes DEF Typed
<1>2. /\ ledger' = ledger /\ clashed' = clashed /\ goldHand' = goldHand /\ goldChan' = goldChan
      /\ granted' = granted
  BY DEF Handle, Check, Begin, Status, PushEvent, Lookup, InsertUser, OneOffTasks, Info, DailyTasks,
         Balance, ReadProfile, MarkProfile, Report, Reward, Valid, Validate, Commit, Pending,
         EnoughCash, Pay, Approve, channels, history
<1>3. ASSUME NEW u \in Users, NEW t \in Tasks
      PROVE  Booked(u, t)'
  <2>1. Booked(u, t)
    BY DEF LedgerInv
  <2>2. InHandlers(u, t)' = InHandlers(u, t)
    BY <1>1, OwingSame
  <2>3. InQueue(goldHand \o goldChan, u, t)' = InQueue(goldHand \o goldChan, u, t)
    BY <1>2 DEF InQueue, RowsOf
  <2> QED BY <1>2, <2>1, <2>2, <2>3 DEF Booked, Recorded
<1> QED BY <1>2, <1>3 DEF LedgerInv, Registers

\* A row that is taken is still on its way.
LEMMA LedgerTake ==
    ASSUME Typed, LedgerInv, TakeGold
    PROVE  LedgerInv'
<1>1. /\ ledger' = ledger /\ clashed' = clashed /\ granted' = granted /\ req' = req
      /\ goldHand = <<>> /\ goldHand' = <<Head(goldChan)>> /\ goldChan' = Tail(goldChan)
      /\ goldChan \in Seq(Rows) /\ goldChan # <<>>
  BY DEF TakeGold, history, Typed, Queues
<1>2. goldHand' \o goldChan' = goldHand \o goldChan
  <2>1. goldHand \o goldChan = goldChan
    BY <1>1
  <2>2. <<Head(goldChan)>> \o Tail(goldChan) = goldChan
    BY <1>1
  <2> QED BY <1>1, <2>1, <2>2
<1>3. ASSUME NEW u \in Users, NEW t \in Tasks
      PROVE  Booked(u, t)'
  <2>1. Booked(u, t)
    BY DEF LedgerInv
  <2>2. InHandlers(u, t)' = InHandlers(u, t)
    BY <1>1 DEF InHandlers, Granting, Past, Active
  <2>3. InQueue(goldHand \o goldChan, u, t)' = InQueue(goldHand \o goldChan, u, t)
    BY <1>2 DEF InQueue, RowsOf
  <2> QED BY <1>1, <2>1, <2>2, <2>3 DEF Booked, Recorded
<1> QED BY <1>1, <1>3 DEF LedgerInv, Registers

\* The row in hand is written, or refused.
LEMMA LedgerSave ==
    ASSUME Typed, LedgerInv, SaveGold
    PROVE  LedgerInv'
<1>1. /\ goldHand # <<>> /\ goldHand' = <<>> /\ goldChan' = goldChan /\ granted' = granted /\ req' = req
      /\ goldHand \in Seq(Rows) /\ Len(goldHand) <= 1 /\ goldChan \in Seq(Rows)
  BY DEF SaveGold, Typed, Queues
<1>2. goldHand[1] \in Rows /\ goldHand = <<goldHand[1]>>
  BY <1>1, OneLeft
<1>3. PICK d \in Rows : d = goldHand[1]
  BY <1>2
<1>4. PICK q \in Seq(Rows) : q = goldHand \o goldChan
  BY QueueIs
<1>5. q # <<>> /\ Head(q) = d /\ Tail(q) = goldChan
  BY <1>1, <1>2, <1>3, <1>4
<1>6. goldHand' \o goldChan' = Tail(q)
  BY <1>1, <1>5
<1>7. d.user \in Users /\ d.task \in Tasks /\ d.add \in Nat
  BY DEF Rows
<1>8. PICK w \in Users, b \in Tasks, x \in Nat : w = d.user /\ b = d.task /\ x = d.add
  BY <1>7
<1>9. \/ ledger' = [ledger EXCEPT ![w][b] = @ + x] /\ clashed' = clashed
      \/ clashed' = [clashed EXCEPT ![w][b] = @ + x] /\ ledger' = ledger
  BY <1>3, <1>8 DEF SaveGold
<1>10. Registers
  BY DEF LedgerInv
<1>11. /\ Registers' /\ Recorded(w, b)' = Recorded(w, b) + x
       /\ \A u \in Users, t \in Tasks : u # w \/ t # b => Recorded(u, t)' = Recorded(u, t)
  BY <1>9, <1>10, RecordFacts
<1>12. ASSUME NEW u \in Users, NEW t \in Tasks
       PROVE  Booked(u, t)'
  <2>1. Booked(u, t)
    BY DEF LedgerInv
  <2>2. InHandlers(u, t)' = InHandlers(u, t)
    BY <1>1 DEF InHandlers, Granting, Past, Active
  <2>3. IsFiniteSet(InQueue(q, u, t))
    BY <1>4, <2>1 DEF Booked
  <2>4. /\ IsFiniteSet(InQueue(Tail(q), u, t))
        /\ Cardinality(InQueue(q, u, t)) = Cardinality(InQueue(Tail(q), u, t)) + RowCoins(Head(q), u, t)
    BY <1>5, <2>3, QueueTake
  <2>5. InQueue(goldHand \o goldChan, u, t)' = InQueue(Tail(q), u, t)
    BY <1>6 DEF InQueue, RowsOf
  <2>6. Cardinality(InQueue(Tail(q), u, t)) \in Nat /\ Cardinality(InQueue(q, u, t)) \in Nat
    BY <2>3, <2>4, FS_CardinalityType
  <2>7. Recorded(u, t)' = Recorded(u, t) + RowCoins(Head(q), u, t)
    <3>1. CASE u = w /\ t = b
      <4>1. RowCoins(Head(q), u, t) = x
        BY <1>5, <1>8, <3>1 DEF RowCoins
      <4> QED BY <1>11, <3>1, <4>1
    <3>2. CASE u # w \/ t # b
      <4>1. RowCoins(Head(q), u, t) = 0
        BY <1>5, <1>8, <3>2 DEF RowCoins
      <4> QED BY <1>11, <3>2, <4>1, BookedTypes
    <3> QED BY <3>1, <3>2
  <2>8. RowCoins(Head(q), u, t) \in Nat
    BY <1>5, <1>7 DEF RowCoins
  <2>9. Recorded(u, t) + Cardinality(InHandlers(u, t)) + Cardinality(InQueue(q, u, t)) = granted[u][t]
    BY <1>4, <2>1 DEF Booked
  <2>10. /\ Recorded(u, t)' + Cardinality(InHandlers(u, t))
            + Cardinality(InQueue(Tail(q), u, t)) = granted[u][t]
    <3>1. PICK a \in Nat : a = Recorded(u, t)
      BY BookedTypes
    <3>2. PICK h \in Nat : h = Cardinality(InHandlers(u, t))
      BY BookedTypes
    <3>3. PICK c \in Nat : c = Cardinality(InQueue(Tail(q), u, t))
      BY <2>6
    <3>4. PICK e \in Nat : e = RowCoins(Head(q), u, t)
      BY <2>8
    <3>5. a + h + (c + e) = granted[u][t]
      BY <2>4, <2>9, <3>1, <3>2, <3>3, <3>4
    <3>6. Recorded(u, t)' = a + e
      BY <2>7, <3>1, <3>4
    <3>7. (a + e) + h + c = granted[u][t]
      BY <3>5
    <3> QED BY <3>2, <3>3, <3>6, <3>7
  <2> QED BY <1>1, <2>1, <2>2, <2>4, <2>5, <2>10 DEF Booked
<1> QED BY <1>11, <1>12 DEF LedgerInv

\* A request that comes in owes nothing.
LEMMA LedgerReceive ==
    ASSUME Typed, Typed', LedgerInv, Receive
    PROVE  LedgerInv'
<1>1. PICK i \in Slots, type \in Types, w \in Users, add \in Nat : Arrives(i, type, w, add)
  BY ReceiveArrives DEF Typed
<1>2. /\ ledger' = ledger /\ clashed' = clashed /\ goldHand' = goldHand /\ goldChan' = goldChan
      /\ granted' = granted
  BY DEF Receive, channels, history
<1>3. Handled /\ Handled'
  BY DEF Typed
<1>4. ~Owes(i) /\ ~Owes(i)'
  <2>1. req[i] = Idle
    BY <1>1, <1>3 DEF Arrives, Handled
  <2>2. req'[i].at = 1
    BY <1>1 DEF Arrives
  <2> QED BY <2>1, <2>2 DEF Owes, Idle
<1>5. ASSUME NEW j \in Slots, j # i
      PROVE  req'[j] = req[j] /\ (Owes(j)' <=> Owes(j))
  <2>1. req'[j] = req[j]
    BY <1>1, <1>5 DEF Arrives
  <2> QED BY <2>1 DEF Owes
<1>6. ASSUME NEW u \in Users, NEW t \in Tasks
      PROVE  Booked(u, t)'
  <2>1. Booked(u, t)
    BY DEF LedgerInv
  <2>2. ASSUME NEW j \in Slots
        PROVE  /\ (j \in Granting(u, t))' <=> j \in Granting(u, t)
               /\ j \in Granting(u, t) => req'[j] = req[j]
    <3>1. CASE j = i
      BY <1>3, <1>4, <3>1, OwesFacts, OwesNext
    <3>2. CASE j # i
      BY <1>3, <1>5, <3>2, OwesFacts, OwesNext
    <3> QED BY <3>1, <3>2
  <2>3. Granting(u, t)' = Granting(u, t) /\ \A j \in Granting(u, t) : req'[j].add = req[j].add
    BY <2>2, GrantingIn
  <2>4. InHandlers(u, t)' = InHandlers(u, t)
    BY <2>3, HandlersSame
  <2>5. InQueue(goldHand \o goldChan, u, t)' = InQueue(goldHand \o goldChan, u, t)
    BY <1>2 DEF InQueue, RowsOf
  <2> QED BY <1>2, <2>1, <2>4, <2>5 DEF Booked, Recorded
<1> QED BY <1>2, <1>6 DEF LedgerInv, Registers

\* Every step keeps the ledger's account.
LEMMA NextLedger ==
    ASSUME Typed, Typed', LedgerInv, [Next]_vars
    PROVE  LedgerInv'
<1>1. CASE Receive
  BY <1>1, LedgerReceive
<1>2. ASSUME NEW i \in Slots, Handle(i)
      PROVE  LedgerInv'
  BY <1>2, LedgerCredit, LedgerPush, LedgerRegister, LedgerOthers
<1>3. CASE TakeGold
  BY <1>3, LedgerTake
<1>4. CASE SaveGold
  BY <1>4, LedgerSave
<1>5. CASE TakeEvent \/ UpdateEvent \/ (\E j \in Slots : Wait(j)) \/ UNCHANGED vars
  <2>1. /\ ledger' = ledger /\ clashed' = clashed /\ goldHand' = goldHand /\ goldChan' = goldChan
        /\ granted' = granted /\ req' = req
    BY <1>5, WaitFacts DEF TakeEvent, UpdateEvent, vars, channels, history
  <2>2. ASSUME NEW u \in Users, NEW t \in Tasks
        PROVE  Booked(u, t)'
    <3>1. Booked(u, t)
      BY DEF LedgerInv
    <3>2. InHandlers(u, t)' = InHandlers(u, t)
      BY <2>1 DEF InHandlers, Granting, Past, Active
    <3>3. InQueue(goldHand \o goldChan, u, t)' = InQueue(goldHand \o goldChan, u, t)
      BY <2>1 DEF InQueue, RowsOf
    <3> QED BY <2>1, <3>1, <3>2, <3>3 DEF Booked, Recorded
  <2> QED BY <2>1, <2>2 DEF LedgerInv, Registers
<1> QED BY <1>1, <1>2, <1>3, <1>4, <1>5 DEF Next

\* Whatever gold or bonus was granted to anyone is in the ledger, on its way to
\* it, or was refused by the table (goldCash.go:24-39).
THEOREM NothingGetsLost == Spec => []Ledgered
<1>1. Init => LedgerInv
  <2> SUFFICES ASSUME Init PROVE LedgerInv
    OBVIOUS
  <2>1. ledger = [u \in Users |-> [t \in Tasks |-> 0]] /\ clashed = [u \in Users |-> [t \in Tasks |-> 0]]
    BY DEF Init
  <2>2. Registers
    BY <2>1 DEF Registers
  <2>3. ASSUME NEW u \in Users, NEW t \in Tasks
        PROVE  Booked(u, t)
    <3>1. Recorded(u, t) = 0 /\ granted[u][t] = 0
      BY <2>1 DEF Recorded, Init
    <3>2. InHandlers(u, t) = {}
      <4>1. \A i \in Slots : ~Active(i)
        BY IdleFacts DEF Init, Active
      <4>2. Granting(u, t) = {}
        BY <4>1 DEF Granting, Past
      <4> QED BY <4>2 DEF InHandlers
    <3>3. InQueue(goldHand \o goldChan, u, t) = {}
      <4>1. goldHand \o goldChan = <<>>
        BY DEF Init
      <4>2. RowsOf(goldHand \o goldChan, u, t) = {}
        BY <4>1 DEF RowsOf
      <4> QED BY <4>2 DEF InQueue
    <3> QED BY <3>1, <3>2, <3>3, FS_EmptySet DEF Booked
  <2> QED BY <2>2, <2>3 DEF LedgerInv
<1>2. Sound /\ Sound' /\ LedgerInv /\ [Next]_vars => LedgerInv'
  BY NextLedger DEF Sound
<1>3. Sound /\ LedgerInv => Ledgered
  <2> SUFFICES ASSUME Sound, LedgerInv, NEW u \in Users, NEW t \in Tasks
               PROVE  ledger[u][t] + clashed[u][t] + Unsaved(u, t) = granted[u][t]
    BY DEF Ledgered
  <2>1. Booked(u, t) /\ Registers
    BY DEF LedgerInv
  <2>2. ledger[u][t] \in Nat /\ clashed[u][t] \in Nat
    BY <2>1 DEF Registers
  <2> QED BY <2>1, <2>2, BookedTypes DEF Sound, Booked, Recorded, Unsaved
<1> QED BY <1>1, <1>2, <1>3, AlwaysSound, PTL DEF Spec
=============================================================================
