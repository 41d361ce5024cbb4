\* Two cameras, which can always be read.
CONSTANTS
    Loaders = {l1, l2}
    Capacity = 2
    MayVanish = FALSE
    MayQuit = FALSE

SPECIFICATION SafeSpec
INVARIANTS TypeOK EventsBalance LoggerFirst
SYMMETRY Cameras
