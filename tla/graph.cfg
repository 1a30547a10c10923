SPECIFICATION SafeSpec
CONSTANTS
    Main = "main"
    Members = {"ticker", "base", "summary", "publish"}
    Deps <- PublishAfterBoth
    Background = {"base", "summary", "publish"}
    TwoParty = {}
    Scheduled = {"ticker"}
    Deferred = {}
    Resettable = {"ticker"}
    Verbs = {"stop", "halt", "trigger", "reset"}
INVARIANTS
    Ledger
    DefiedOnce
    RecordTellsTheTruth
    CadenceKept
    TurnsFollowDeps
