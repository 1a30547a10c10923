SPECIFICATION MCSpec
CONSTANTS
    Owners = {"smoke", "smoke_again"}
    Keepers = {"smoke"}
    Workers = {"harness", "tool"}
    Strangers = {"editor"}
    Members = {"coder"}
    Pid <- Recycled
    Root = "root"
    Sweeper = "sweep"
    Nobody = "nobody"
PROPERTIES
    LiveScratchStays
    ReapSparesStrangers
    AbandonedIsReclaimed
