CONSTANTS
    Clients = {c1, c2}
    Payload <- MCPayload
    MaxSends = 2
    MaxCoalesce = 2
    MaxAcceptFail = 1
    Backlog = 5
    NoClient = NoClient
SPECIFICATION Spec
INVARIANT ExitHonoured
CHECK_DEADLOCK FALSE
