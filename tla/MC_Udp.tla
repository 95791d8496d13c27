------------------------------- MODULE MC_Udp -------------------------------
(* Small instance of Udp for TLC: the constants are given in Udp.cfg; a    *)
(* 4-bit int keeps the wrap-around of `count' within reach.               *)
EXTENDS Udp

=============================================================================
