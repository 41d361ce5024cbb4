\* Failing sends, never enough of them for a spill; one file left behind;
\* sys_quit at any time.
CONSTANTS
    NumMsgs = 2
    Backlog <- OneFile
    LoopTimes = 1
    SpillAt = 5
    MaxFiles = 100
    MaxFails = 2
    MaxTime = 1
    MayQuit = TRUE
    DiskMayFail = TRUE
    MaxRestarts = 0

SPECIFICATION Spec
INVARIANTS ExactlyOnce NeverPopsEmpty
PROPERTIES TornBySwap ImplementsUplink WaitsForSuccessOnly BacklogStarts QuitEnds
\* Both threads end after sys_quit.
CHECK_DEADLOCK FALSE
