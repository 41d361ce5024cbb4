\* Three runs on any of the platforms, any of the calls failing.
CONSTANTS
    Neon = TRUE
    Models <- ManyModels
    MaxRuns = 3

SPECIFICATION SpecApi
INVARIANTS TypesOK DefinedForCareful Owned ReleaseReturnsAll SafeAfterSuccess
           AlignedInputExact
PROPERTIES ImplementsContract
\* The caller may stop calling.
CHECK_DEADLOCK FALSE
