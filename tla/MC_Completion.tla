--------------------------- MODULE MC_Completion ---------------------------
(* Instance of Completion for TLC.                                         *)
EXTENDS Completion

=============================================================================
