------------------------------ MODULE MCRewards ------------------------------
(* Rewards for TLC: the constants are in the configurations.               *)
EXTENDS Rewards
=============================================================================
