CONSTANTS
    Payload <- MCPayload
    MaxSends = 3
    MaxCoalesce = 2
    MaxSelectErr = 2
    Variants = {"plain", "select"}
SPECIFICATION FairSpec
INVARIANT TypeOK
INVARIANT ResourceLifecycle
PROPERTY ClientTerminates
CHECK_DEADLOCK FALSE
