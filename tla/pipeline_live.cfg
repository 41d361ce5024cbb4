\* One camera; its file may vanish and sys_quit be set at any time.
CONSTANTS
    Loaders = {l1}
    Capacity = 2
    MayVanish = TRUE
    MayQuit = TRUE

SPECIFICATION Spec
INVARIANTS LagBounded
PROPERTIES KeepsReporting ComesToRest
\* After sys_quit, or without the file, the nodes stop.
CHECK_DEADLOCK FALSE
