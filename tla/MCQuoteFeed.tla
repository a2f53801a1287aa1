---------------------------- MODULE MCQuoteFeed ----------------------------
(* QuoteFeed for TLC: the constants are in the configurations.             *)
EXTENDS QuoteFeed, TLC

\* No program treats one product, or one quoteGet, differently from another.
Symmetric == Permutations(Products) \cup Permutations(Feeds)
=============================================================================
