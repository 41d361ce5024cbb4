CONSTANTS
    NumMsgs = 5
    Backlog <- NoBacklog
    LoopTimes = 1
    SpillAt = 2
    MaxFiles = 100
    MaxFails = 4
    MaxTime = 1
    MayQuit = FALSE
    DiskMayFail = FALSE
    MaxRestarts = 0

SPECIFICATION SafeSpec
INVARIANTS NothingLost
CHECK_DEADLOCK FALSE
