--------------------------- MODULE MCQuoteReceiver ---------------------------
(* QuoteReceiver for TLC: the constants are in the configurations.         *)
EXTENDS QuoteReceiver
=============================================================================
