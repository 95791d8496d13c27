\* configure() against the live UART: characters arrive, spurious RX
\* timeouts fire, the ISR runs between any two register accesses.
CONSTANTS
    InputClk = 25000000
    OpenBaud = 115200
    Bauds <- MCBauds
    MaxTries = 2
    Settles = FALSE
    RxFifo = 2
    MaxRx = 3
    MaxSpurious = 1
    MaxConfig = 2
    MaxCtl = 0
    MaxPutc = 0
SPECIFICATION FairSpec
INVARIANT DivisorProgrammed NoIsrHang IerOnlyRx
PROPERTY IrqQuiesces
CHECK_DEADLOCK FALSE
