--------------------------- MODULE MC_Dw8250Uart ---------------------------
EXTENDS Dw8250Uart

\* The baud rates a reconfiguration asks for.
MCBauds == {1200}

=============================================================================
