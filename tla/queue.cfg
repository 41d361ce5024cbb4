\* As many producers as the queue has places, and two different objects.
CONSTANTS
    Producers = {p1, p2}
    Consumer = c
    Items = {a, b}
    Capacity = 2
    NotEmptyInit = {FALSE}
    MaxSent = 4

SPECIFICATION SpecF
INVARIANTS TypeOK FlagTellsTruth NeverPopsEmpty NoLostWakeup
PROPERTIES BackPressureEnds ImplementsFairChannel
\* Producers stop at MaxSent, and the consumer then sleeps.
CHECK_DEADLOCK FALSE
