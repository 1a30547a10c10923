SPECIFICATION MCSpec
CONSTANTS
    Background = TRUE
    Resettable = TRUE
    MaxNotes = 2
    Bound = 6
    ProbeEvery = 2
    MaxLate = 8
    MaxChange = 1
    Enumerable = TRUE
INVARIANTS
    OutcomeMatches
    StopOpensOneTurn
PROPERTIES
    HoldIsNotSilence
    NothingHoldsIt
    CondemnedOnEvidence
    WedgedIsCondemned
