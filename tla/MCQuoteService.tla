--------------------------- MODULE MCQuoteService ---------------------------
(* QuoteService for TLC: the constants are in the configurations.          *)
EXTENDS QuoteService

Quote(p, m, d, x) == [product |-> p, minute |-> m, date |-> d, price |-> x]

\* A second price, a second minute, a new date at once and after a minute, and
\* another product that is late with the new date.
FeedValue ==
    {Quote("ag", 1, 1, 10), Quote("ag", 1, 1, 11), Quote("ag", 2, 2, 10),
     Quote("ag", 1, 2, 10), Quote("pd", 2, 1, 10)}
=============================================================================
