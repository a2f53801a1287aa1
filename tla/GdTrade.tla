------------------------------ MODULE GdTrade ------------------------------
(***************************************************************************)
(* class gd_trade (c++/trunk/pemc/trade/src/gd_trade.cpp): one trading     *)
(* session object.  It owns at most one SDK interface and is driven by two *)
(* threads: its worker calls the methods, the SDK's own thread reports     *)
(* answers through procTradeEvent.                                         *)
(*                                                                         *)
(* The module has no variables: an instance is a record and a method is an *)
(* operator from the record before the call to the record after it.        *)
(*                                                                         *)
(*   status  _login_status                                                 *)
(*   acct    _login_accout                                                 *)
(*   iface   _ptr_interface # NULL                                         *)
(*   stale   now - _last_logout_status_time > _out_of_time_interval        *)
(*   slot    _callback_result: result type -> the reply kept under it   *)
(*   pend    calls the SDK accepted and has not answered yet (external)    *)
(*   sess    the account the SDK has a session for (external)              *)
(***************************************************************************)
EXTENDS Naturals, RequestTypes

CONSTANTS Accounts,   \* customer accounts
          NoAccount,  \* the empty account name
          Types,      \* the request types the clients of a run send
          NoReply     \* an empty slot

ASSUME AccountAssumption == NoAccount \notin Accounts
ASSUME TypesAssumption == Types \subseteq RequestTypes

\* The types under which _callback_result can hold a reply.
ResultTypes == {"login"} \cup ({Filed(y) : y \in Types \cap LaterTypes} \ {NoType})

\* A request the SDK accepted for account "for"; sid identifies the answer.
PendingCalls ==
    [op : {"login"} \cup (Types \cap LaterTypes), sid : Nat \ {0}, for : Accounts]

Replies == [sid : Nat \ {0}]

Instances ==
    [status : {"in", "out"}, acct : Accounts \cup {NoAccount},
     iface : BOOLEAN, stale : BOOLEAN,
     slot : [ResultTypes -> Replies \cup {NoReply}],
     pend : SUBSET PendingCalls, sess : Accounts \cup {NoAccount}]

\* The constructor: _last_logout_status_time is 0, decades ago.
NewInstance ==
    [status |-> "out", acct |-> NoAccount, iface |-> FALSE, stale |-> TRUE,
     slot |-> [y \in ResultTypes |-> NoReply], pend |-> {}, sess |-> NoAccount]

SetLogoutStatus(g) == [g EXCEPT !.status = "out", !.stale = FALSE]

\* The timestamp becomes the largest time_t: a logged-in instance is never stale.
SetLoginStatus(g) == [g EXCEPT !.status = "in", !.stale = FALSE]

\* init(): nothing to do, not even set_logout_status, when the interface is
\* still there from an earlier customer; otherwise init_network decides.
InitOk(g, networkOk) == g.iface \/ networkOk
InitInterface(g, networkOk) ==
    IF ~g.iface /\ networkOk
    THEN SetLogoutStatus([g EXCEPT !.iface = TRUE])
    ELSE g

\* Mutant of DoLogin: set_login_status() is called at once (the commented-out
\* call of gd_trade.cpp:108).
DoLogin_AtOnce(g, k, sid, accepted) ==
    IF g.status = "in" \/ ~accepted THEN g
    ELSE [SetLoginStatus(g) EXCEPT
            !.acct = k,
            !.pend = @ \cup {[op |-> "login", sid |-> sid, for |-> k]}]

\* login(): the status stays "out", the answer comes later as an event.
LoginOk(g, accepted) == g.status = "in" \/ accepted
DoLogin(g, k, sid, accepted) ==
    IF g.status = "in" THEN g
    ELSE [g EXCEPT !.acct = k,
                   !.pend = IF accepted
                            THEN @ \cup {[op |-> "login", sid |-> sid, for |-> k]}
                            ELSE @]

\* logout() = release(): the SDK's Release may refuse (-1); status and account
\* are cleared before it is asked.
Logout(g, released) ==
    LET out == [SetLogoutStatus(g) EXCEPT !.acct = NoAccount]
    IN  IF g.iface /\ released
        THEN [out EXCEPT !.iface = FALSE, !.pend = {}, !.sess = NoAccount]
        ELSE out

\* get_account_info() and its like read the SDK's local copy, if there is an SDK
\* interface: nothing tests the pointer.
Readable(g) == g.iface

\* request_open_market_order() and its like: the SDK takes the order or not.
SendOrder(g, op, sid, k, accepted) ==
    IF accepted THEN [g EXCEPT !.pend = @ \cup {[op |-> op, sid |-> sid, for |-> k]}]
    ELSE g

\* on_callback_task(): one slot per result type, the newcomer replaces the
\* reply there.  An event the SDK reports as failed carries no type and no sid
\* and lands in a slot no poll names; it is not represented.
OnCallback(g, cb) ==
    LET h == IF cb.ev # "login" THEN g
             ELSE IF cb.success THEN SetLoginStatus(g) ELSE SetLogoutStatus(g)
    IN  IF cb.named
        THEN [h EXCEPT !.slot[cb.ev] = [sid |-> cb.sid]]
        ELSE h

\* get_callback_response(): the reply stays where it is.
HasResponse(g, ask, sid) ==
    ask \in ResultTypes /\ g.slot[ask] # NoReply /\ g.slot[ask].sid = sid

\* Mutant of Inactive: only instances with an interface are reclaimed.
Inactive_WithInterface(g) == g.status = "out" /\ g.stale /\ g.iface

\* check_active(): FALSE sends the instance back to the store.
Inactive(g) == g.status = "out" /\ g.stale

\* start_heart_beat() on a logged-in instance
HeartBeatFailed(g) == SetLogoutStatus(g)

\* procTradeEvent(), EVENT_CODE_LOGIN: 99999 is success; DROPUSER (4006) and
\* LOGACCERR (4001) are failures that the handler reports as successes, but
\* without type and sid.
LoginEvent(g, sid, code) ==
    [kind |-> "callback", acct |-> g.acct, ev |-> "login", sid |-> sid,
     success |-> code # "fail", named |-> code = "ok", code |-> code]

\* procTradeEvent(), the events of the asynchronous requests.
OrderEvent(g, op, sid, code) ==
    [kind |-> "callback", acct |-> g.acct, ev |-> Filed(op), sid |-> sid,
     success |-> FALSE, named |-> code = "ok", code |-> code]
=============================================================================
