SPECIFICATION Spec
CONSTANTS
    Main = "main"
    Members = {"keeper", "ticker", "report"}
    Deps <- ReportAfterTicker
    Background = {"ticker", "report"}
    TwoParty = {"keeper"}
    Scheduled = {"keeper", "ticker"}
    Deferred = {"ticker"}
    Resettable = {"ticker"}
    Verbs = {"stop", "reset"}
PROPERTIES
    KeepsThePromise
    StopSettles
