SPECIFICATION Spec
CONSTANTS
    Roles = {"compute", "storage"}
    VMs = {"v1", "v2"}
    UserOf <- MCUser
    Jobs = {"j1", "j2", "j3"}
    VmOf <- MCVm
    Paths <- MCPaths
    Preload <- MCPreload
    Script <- MCScript
    TotalBlocks = 6
    CellBlocks <- MCCells
    OverheadBlocks = 1
    MaxTurnOns = 2
INVARIANTS
    RequestsNotLost
    NoBlockCountedTwice
PROPERTIES
    StartsWhenPreloaded
    JobsEnd
CHECK_DEADLOCK FALSE
