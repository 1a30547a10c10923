SPECIFICATION MCSpec
CONSTANTS
    Runs = {"first", "second"}
    Host = "host"
    LastMilli = 1
    Chain = 2
    Bytes <- OutputBytes
    Scripts <- AllScripts
    Pipe = 2
    Keep = 2
    Buffer = 2
INVARIANT
    CutIsMarked
CHECK_DEADLOCK FALSE
