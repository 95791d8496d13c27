-------------------------------- MODULE MC_Spi --------------------------------
(* Small instance of Spi for TLC: two clock rates, a frame length the      *)
(* controller accepts and one it refuses, and the two modes whose CPOL and *)
(* CPHA differ (a swap of the switch's cases shows on them).               *)
EXTENDS Spi

MCFrameLens == 4..16

=============================================================================
