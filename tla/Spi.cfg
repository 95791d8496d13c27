CONSTANTS
    Rates = {1, 2}
    Widths = {8, 32}
    FrameLens <- MCFrameLens
    Modes = {1, 2}
    Lens = {1}
    MaxCalls = 4
SPECIFICATION Spec
INVARIANT TypeOK
INVARIANT ConfigApplied
INVARIANT TranModeMatchesMessage
CHECK_DEADLOCK FALSE
