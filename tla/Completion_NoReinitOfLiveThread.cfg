CONSTANTS
    ShellPrio = 20
    ThreadPrio = 20
    MaxRuns = 2
SPECIFICATION Spec
PROPERTY NoReinitOfLiveThread
CHECK_DEADLOCK FALSE
