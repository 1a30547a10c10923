SPECIFICATION JournalSpec
CONSTANTS
    Turns = 3
    Candidates = 2
    Falls = 1
    Rows = 2
    Delivered = {3}
INVARIANTS
    RenderedAsSaid
    OpeningsAreTold
    LittleAfterTheOutcome
    OutcomeAgreesWithRecords
CHECK_DEADLOCK FALSE
