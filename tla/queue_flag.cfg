\* m_not_empty as the constructor leaves it, and the behaviours that survive.
CONSTANTS
    Producers = {p1, p2}
    Consumer = c
    Items = {a, b}
    Capacity = 2
    NotEmptyInit = {TRUE, FALSE}
    MaxSent = 3

SPECIFICATION SafeSpecF
PROPERTIES ImplementsChannel UndefinedOnlyBeforeFirstPush
\* After the undefined step nothing is modelled.
CHECK_DEADLOCK FALSE
