---------------------------- MODULE MC_TcpServer ----------------------------
(* Small instance of TcpServer for TLC: two clients, one data token.       *)
EXTENDS TcpServer

MCPayload == {"d"}

=============================================================================
