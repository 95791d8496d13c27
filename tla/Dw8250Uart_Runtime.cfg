\* control() and putc() against the live UART and the ISR, no reconfiguration.
CONSTANTS
    InputClk = 25000000
    OpenBaud = 115200
    Bauds <- MCBauds
    MaxTries = 2
    Settles = TRUE
    RxFifo = 2
    MaxRx = 3
    MaxSpurious = 1
    MaxConfig = 0
    MaxCtl = 2
    MaxPutc = 2
SPECIFICATION FairSpec
INVARIANT TypeOK
PROPERTY IrqQuiesces
CHECK_DEADLOCK FALSE
