------------------------------ MODULE ConnPool ------------------------------
(***************************************************************************)
(* The pool of MySQL connections (class DBPool,                            *)
(* c++/trunk/pemc/quoteSave/DBPool.cpp; quoteGet has the same file).  A    *)
(* pool is a record of two numbers: free, the length of connList, and cur, *)
(* its own count curSize of the connections it made and has not given up.  *)
(* Each operation holds the pool's lock throughout, so it is one step.     *)
(***************************************************************************)
EXTENDS Integers

CONSTANTS MaxSize, \* maxSize, 100 in quoteSave
          DbFails  \* whether a connection can be refused or an INSERT can fail

ASSUME PoolAssumption == MaxSize \in Nat \ {0} /\ DbFails \in BOOLEAN

Pools == [free : Nat, cur : Nat]

\* initPool: half of the pool is made at once, as far as MySQL accepts.
InitialPools ==
    {[free |-> n, cur |-> n] :
        n \in IF DbFails THEN 0 .. (MaxSize \div 2) ELSE {MaxSize \div 2}}

\* Mutant of Refusals: a pooled connection that was closed and cannot be
\* made again is still counted.
Refusals_Counted(pl) ==
    IF pl.free > 0 THEN IF DbFails THEN {[pl EXCEPT !.free = @ - 1]} ELSE {}
    ELSE IF DbFails \/ pl.cur >= MaxSize THEN {pl} ELSE {}

\* The pools GetConnection can leave when it returns NULL: a pooled
\* connection was closed and cannot be made again; or the pool is empty and
\* it is full, or MySQL refuses.
Refusals(pl) ==
    IF pl.free > 0
    THEN IF DbFails THEN {[free |-> pl.free - 1, cur |-> pl.cur - 1]} ELSE {}
    ELSE IF DbFails \/ pl.cur >= MaxSize THEN {pl} ELSE {}

\* The pools GetConnection can leave when it returns a connection, taken
\* from the list (open, or closed and made again) or made for the caller.
Grants(pl) ==
    IF pl.free > 0 THEN {[pl EXCEPT !.free = @ - 1]}
    ELSE IF pl.cur < MaxSize THEN {[pl EXCEPT !.cur = @ + 1]} ELSE {}

ReleaseConnection(pl) == [pl EXCEPT !.free = @ + 1]
=============================================================================
