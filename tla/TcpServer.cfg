CONSTANTS
    Clients = {c1, c2}
    Payload <- MCPayload
    MaxSends = 3
    MaxCoalesce = 2
    MaxAcceptFail = 1
    Backlog = 5
    NoClient = NoClient
SPECIFICATION FairSpec
INVARIANT TypeOK
INVARIANT ConnectionHygiene
INVARIANT BufferReleasedOnReturn
PROPERTY EveryClientServed
CHECK_DEADLOCK FALSE
