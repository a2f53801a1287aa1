---------------------------- MODULE MCSoapServer ----------------------------
(* SoapServer for TLC: the constants are in the configurations.            *)
EXTENDS SoapServer

CONSTANTS a, b, c, s, w1, w2
=============================================================================
