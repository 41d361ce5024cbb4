\* One producer more than the queue has places.
CONSTANTS
    Producers = {p1, p2, p3}
    Consumer = c
    Items = {a}
    Capacity = 2
    NotEmptyInit = {FALSE}

SPECIFICATION Spec
PROPERTIES BackPressureEnds
