SPECIFICATION Spec
CONSTANTS
    Firings = 2
    Views = 1
INVARIANTS
    ToldOnceAndWhole
    InterruptReachesItsTurn
PROPERTIES
    UngroupedNeverSettles
    EveryFiringEnds
    UnconfirmedIsCondemned
CHECK_DEADLOCK FALSE
