---------------------------- MODULE RequestTypes ----------------------------
(***************************************************************************)
(* The request types of the trade gateway, as far as they differ in        *)
(* control: the switch of proc_thread::request_type (proc_thread.cpp) and  *)
(* the events that answer them (gd_trade::procTradeEvent, gd_trade.cpp).   *)
(*                                                                         *)
(* A request type is a row of Table:                                       *)
(*   serve    "login", "logout", "poll"                                    *)
(*            "now"     answered at once from the SDK's local copy         *)
(*            "later"   handed to the SDK, whose event is the real answer  *)
(*            "silent"  recognised or not, the response says nothing       *)
(*   checked  the parameters are checked, and may be refused, before the   *)
(*            SDK's interface is touched                                   *)
(*   event    the event that answers it ("later" only)                     *)
(***************************************************************************)

Now(type, checked) ==
    [type |-> type, serve |-> "now", checked |-> checked, event |-> "none"]
Later(type, checked, event) ==
    [type |-> type, serve |-> "later", checked |-> checked, event |-> event]
Other(type, serve, checked) ==
    [type |-> type, serve |-> serve, checked |-> checked, event |-> "none"]

Session == {Other("login", "login", TRUE), Other("logout", "logout", FALSE),
            Other("exit", "logout", FALSE)}

AccountQueries == {Now("get.accountinfo", FALSE), Now("get.marketstatus", FALSE)}

MarketConf == {Now("get.openmarketconf", TRUE), Now("get.closemarketconf", TRUE)}
LimitConf == {Now("get.openlimitconf", TRUE), Now("get.closelimitconf", TRUE)}
DeliveryConf == {Now("get.opendeliverconf", TRUE)}

PositionQueries == {Now("req.quote", FALSE), Now("req.hodeposition", FALSE)}
OrderQueries == {Now("req.limitorders", FALSE), Now("req.closeorders", FALSE)}
TotalQuery == {Now("req.holdpositiontotal", FALSE)}

\* Recognised, but their cases only set the return value, which nobody reads.
QueryById ==
    {Other(y, "silent", FALSE) :
        y \in {"que.quoteid", "que.holdpositionid", "que.limitordersid",
               "que.closeordersid", "que.holdpositiontotalid",
               "que.holdpositiontotaldirec"}}

\* get_type() is -1: the default case, which only logs.
Unknown == {Other("unknown", "silent", FALSE)}

OpenMarket == {Later("req.openmarket", TRUE, "OPENMARKETORDER")}
CloseMarket == {Later("req.closemarket", TRUE, "CLOSEMARKETORDER")}

\* The SDK has one event for closing positions, one or many (TradeEventCode.h).
CloseMany == {Later("req.closemaretmany", TRUE, "CLOSEMARKETORDER")}

OpenLimit == {Later("req.openlimit", TRUE, "OPENLIMITORDER")}
CloseLimit == {Later("req.closelimit", TRUE, "LIMITCLOSEPOSITION")}
LimitRevoke == {Later("req.limitrevoke", TRUE, "LIMITREVOKE")}
OpenDelivery == {Later("req.opendeliverorder", TRUE, "OPENDELIVERYORDER")}

HoldPositionReport ==
    {Later("req.custmtradereportholdposition", TRUE, "HOLDPOSITIONREPORT")}
ClosePositionReport ==
    {Later("req.custmtradereportcloseposition", TRUE, "CLOSEPOSITIONREPORT")}
LimitOrderReport ==
    {Later("req.custmtradereportlimitorder", TRUE, "LIMITORDERREPORT")}

Money == {Later("req.moneyquery", FALSE, "MONEYQUERY"),
          Later("req.moneyinout", TRUE, "MONEYINOUT")}

\* Both passwords are modified under one event.
Passwords == {Later("req.loginpwdupd", TRUE, "PWDMODIFY"),
              Later("req.fundpwdupd", TRUE, "PWDMODIFY")}

FundFlow == {Later("req.fundflowquery", TRUE, "FUNDFLOWQUERY")}
SignResult == {Later("req.signresultnotifyquery", TRUE, "SIGNRESULTNOTIFYQUERY")}
PayForward == {Later("req.payforward", TRUE, "PAYFORWARD")}
AllowLogin == {Later("req.customerallowlogin", TRUE, "CUSTOMERALLOWLOGIN")}

Poll == {Other("get.result", "poll", TRUE)}

Table ==
    UNION {Session, AccountQueries, MarketConf, LimitConf, DeliveryConf,
           PositionQueries, OrderQueries, TotalQuery, QueryById, Unknown,
           OpenMarket, CloseMarket, CloseMany, OpenLimit, CloseLimit, LimitRevoke,
           OpenDelivery, HoldPositionReport, ClosePositionReport, LimitOrderReport,
           Money, Passwords, FundFlow, SignResult, PayForward, AllowLogin, Poll}

\* request_type2int
RequestTypes == {r.type : r \in Table}
Row(type) == CHOOSE r \in Table : r.type = type

Serve(type) == Row(type).serve
Checked(type) == Row(type).checked
LaterTypes == {type \in RequestTypes : Serve(type) = "later"}

-----------------------------------------------------------------------------
(* The type under which procTradeEvent files an answer.  The three         *)
(* ...REPORT events are CUSTMTRADEREPORT...QUERY in the source.            *)

NoType == "none"

OrderEvents ==
    {[event |-> "OPENMARKETORDER",    filed |-> "req.openmarket"],
     [event |-> "CLOSEMARKETORDER",   filed |-> "req.closemarket"],
     [event |-> "OPENLIMITORDER",     filed |-> "req.openlimit"],
     [event |-> "LIMITCLOSEPOSITION", filed |-> "req.closelimit"],
     [event |-> "LIMITREVOKE",        filed |-> "req.limitrevoke"]}

MoneyEvents ==
    {[event |-> "MONEYINOUT", filed |-> "req.moneyinout"],
     [event |-> "MONEYQUERY", filed |-> "req.moneyquery"]}

HoldPositionEvents ==
    {[event |-> "HOLDPOSITIONREPORT",  filed |-> "req.hodeposition"]}
ReportEvents ==
    {[event |-> "CLOSEPOSITIONREPORT", filed |-> "req.closeorders"],
     [event |-> "LIMITORDERREPORT",    filed |-> "req.limitorders"]}

AccountEvents ==
    {[event |-> "PWDMODIFY",     filed |-> "req.loginpwdupd"],
     [event |-> "FUNDFLOWQUERY", filed |-> "req.fundflowquery"]}

BankEvents ==
    {[event |-> "OPENDELIVERYORDER",     filed |-> "req.opendeliverorder"],
     [event |-> "SIGNRESULTNOTIFYQUERY", filed |-> "req.signresultnotifyquery"],
     [event |-> "PAYFORWARD",            filed |-> "req.payforward"]}

\* Received and dropped: the handler is commented out.
DroppedEvents == {[event |-> "CUSTOMERALLOWLOGIN", filed |-> NoType]}

Events == UNION {OrderEvents, MoneyEvents, HoldPositionEvents, ReportEvents,
                 AccountEvents, BankEvents, DroppedEvents}

Filed(type) == (CHOOSE e \in Events : e.event = Row(type).event).filed

\* Is there a handler that turns the answer into a callback?
Answered(type) == Filed(type) # NoType
=============================================================================
