CONSTANTS
    MaxConcurrency = 3
    c = c
    th = th
    Crs = {c}
    Threads = {th}
    Delayed = {a}
    Cap = 1
    MaxTasks = 3
    Programs <- Mixes
SPECIFICATION FairSpec
INVARIANTS BarrierRunsAlone WorkIsCounted NothingDangles SerialInOrder
PROPERTIES AcceptedTasksRun 
CHECK_DEADLOCK FALSE
