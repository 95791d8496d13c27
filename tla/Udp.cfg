CONSTANTS
    BufSize = 32
    DataLen = 35
    DefaultCount = 3
    CountArgs = {0, 2}
    IntWidth = 4
    MaxRecvErr = 1
SPECIFICATION FairSpec
INVARIANT TypeOK
INVARIANT ServerBufferLifecycle
INVARIANT SendsRequestedCount
PROPERTY ClientTerminates
CHECK_DEADLOCK FALSE
