--------------------------- MODULE MCTradeWorker ---------------------------
(* TradeWorker for TLC: the constants are in the configurations.           *)
EXTENDS TradeWorker, TLC

\* Accounts are interchangeable in the runs that check safety only.
Symmetric == Permutations(Accounts)
=============================================================================
