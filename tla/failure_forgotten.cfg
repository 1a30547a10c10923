SPECIFICATION SafeSpec
CONSTANTS
    Main = "main"
    Members = {"keeper", "ticker"}
    Deps <- NoDeps
    Background = {"ticker"}
    TwoParty = {}
    Scheduled = {"ticker"}
    Deferred = {"ticker"}
    Resettable = {}
    Verbs = {}
INVARIANT
    EveryFailureFailsTheRun
