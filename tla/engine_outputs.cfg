\* One run that succeeds is enough.
CONSTANTS
    Neon = TRUE
    Models <- OneModel
    MaxRuns = 1

SPECIFICATION SafeSpec
INVARIANTS OutputsFilled
CHECK_DEADLOCK FALSE
