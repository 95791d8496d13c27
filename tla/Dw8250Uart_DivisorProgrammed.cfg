\* putc() during configure(): no lock keeps them apart.
CONSTANTS
    InputClk = 25000000
    OpenBaud = 115200
    Bauds <- MCBauds
    MaxTries = 2
    Settles = TRUE
    RxFifo = 2
    MaxRx = 1
    MaxSpurious = 1
    MaxConfig = 1
    MaxCtl = 0
    MaxPutc = 1
SPECIFICATION Spec
INVARIANT DivisorProgrammed
CHECK_DEADLOCK FALSE
