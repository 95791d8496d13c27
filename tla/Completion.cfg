CONSTANTS
    ShellPrio = 20
    ThreadPrio = 20
    MaxRuns = 3
SPECIFICATION FairSpec
INVARIANT TypeOK
INVARIANT WaitEndsAfterDone
PROPERTY BothThreadsLeave
CHECK_DEADLOCK FALSE
