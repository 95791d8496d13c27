---------------------------- MODULE MC_TcpClient ----------------------------
(* Small instance of TcpClient for TLC.                                    *)
EXTENDS TcpClient

MCPayload == {"d"}

=============================================================================
