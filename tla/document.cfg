SPECIFICATION PrepareSpec
CONSTANTS
    Names = {"a", "b", "c"}
    Stranger = "stranger"
    Documents <- MCDocuments
    Environs <- MCEnvirons
    Sets <- MCSets
    Built <- MCBuilt
    Idle <- MCIdle
    Order <- MCOrder
    Requests <- MCRequests
    PlanOf <- MCPlanOf
    Files <- MCFiles
    Graph = "graph"
    Catalog = "catalog"
    FileOf <- MCFileOf
    Says <- MCSays
    Versions = 2
    Edits = 2
    Shipped = {"planner"}
    Folded <- MCFolded
INVARIANTS
    VerdictIsTheSchedulers
    SidesRunAsWritten
    InventoryIsWhatRan
    NobodyUnjudged
CHECK_DEADLOCK FALSE
