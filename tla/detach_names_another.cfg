SPECIFICATION SafeSpec
CONSTANTS
    Runs = {"mine", "other"}
    Host = "host"
    LastMilli = 1
INVARIANT
    DetachNamesItsOwn
CHECK_DEADLOCK FALSE
