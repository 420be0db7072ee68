SPECIFICATION Spec
CONSTANTS
    Programs = {"HPC", "collectives"}
    NumProcesses = 3
    SetSizes = {3}
    NumIterations = 2
    SliceToWorkers = 2
    SliceToMaster = 1
    Script <- MCScript
INVARIANTS
    IterationsInStep
    CollectiveOrder
PROPERTIES
    JobsFinish
CHECK_DEADLOCK FALSE
