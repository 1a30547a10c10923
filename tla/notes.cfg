SPECIFICATION MCSpec
CONSTANTS
    Offers = {1, 2}
    Callers = {1, 2, 3}
INVARIANTS
    AnswerIsTrue
    CallerHearsTheTruth
PROPERTIES
    KeepsItsWord
    TurnCountsItsNotes
    NobodyHangs
CHECK_DEADLOCK FALSE
