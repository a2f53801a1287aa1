--------------------------- MODULE MCThreadSelect ---------------------------
(* ThreadSelect for TLC: the constants are in the configurations.          *)
EXTENDS ThreadSelect, TLC

\* Accounts, and threads, are interchangeable in the runs that check safety.
Symmetric == Permutations(Accounts) \cup Permutations(Threads)
=============================================================================
