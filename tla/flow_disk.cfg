\* Spilling and evicting, crashes and a restart; an earlier crash left an
\* empty file behind.
CONSTANTS
    NumMsgs = 1
    Backlog <- Interrupted
    LoopTimes = 1
    SpillAt = 1
    MaxFiles = 1
    MaxFails = 2
    MaxTime = 4
    MayQuit = TRUE
    DiskMayFail = TRUE
    MaxRestarts = 1

SPECIFICATION SafeSpec
INVARIANTS TypeOK IndexBounded FilesAscending
PROPERTIES WaysToOrphans StoredUntilReplayed
\* The process may end for good.
CHECK_DEADLOCK FALSE
