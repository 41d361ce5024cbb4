\* The sends as shipped: they never fail.
CONSTANTS
    NumMsgs = 1
    Backlog <- OneFile
    LoopTimes = 1
    SpillAt = 5
    MaxFiles = 100
    MaxFails = 0
    MaxTime = 1
    MayQuit = FALSE
    DiskMayFail = FALSE
    MaxRestarts = 0

SPECIFICATION SafeSpec
INVARIANTS DeliveredIntact
