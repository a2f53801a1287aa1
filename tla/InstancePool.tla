---------------------------- MODULE InstancePool ----------------------------
(***************************************************************************)
(* What a processing thread promises about its trading instances, whatever *)
(* its customers and the SDK do: an instance serves one account at a time, *)
(* none is lost, and at most Cap of them ever exist.  The SDK licence      *)
(* allows 3000 per program, 300 for each of the ten threads.               *)
(***************************************************************************)
EXTENDS Naturals, FiniteSets

CONSTANTS Accounts,
          Cap,      \* the limit
          Start     \* instances made in advance, at most Cap

VARIABLES serving,  \* account -> its instance, 0 for none
          spare,    \* instances that serve nobody
          made      \* number of instances made so far: they are 1 .. made

poolVars == <<serving, spare, made>>

Served == {k \in Accounts : serving[k] # 0}

PoolInit ==
    /\ serving = [k \in Accounts |-> 0]
    /\ spare = 1 .. Start
    /\ made = Start

\* A new customer gets a spare instance.
Assign(k) ==
    /\ k \notin Served
    /\ \E t \in spare : /\ serving' = [serving EXCEPT ![k] = t]
                        /\ spare' = spare \ {t}
    /\ UNCHANGED made

\* No instance is spare and the limit is not reached: one is made.
Make(k) ==
    /\ k \notin Served
    /\ spare = {} /\ made < Cap
    /\ made' = made + 1
    /\ serving' = [serving EXCEPT ![k] = made + 1]
    /\ UNCHANGED spare

\* The customers K lose their instances together.
GiveBack(K) ==
    /\ serving' = [k \in Accounts |-> IF k \in K THEN 0 ELSE serving[k]]
    /\ spare' = spare \cup {serving[k] : k \in K}
    /\ UNCHANGED made

PoolNext ==
    \/ \E k \in Accounts : Assign(k) \/ Make(k)
    \/ \E K \in SUBSET Served : GiveBack(K)

PoolSpec == PoolInit /\ [][PoolNext]_poolVars
=============================================================================
