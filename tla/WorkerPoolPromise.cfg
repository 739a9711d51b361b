SPECIFICATION Spec
CONSTANTS
    Size = 2
    MaxTasks = 4
    Shutdown = Shutdown
INVARIANT
    ResolvesWhenComplete
CHECK_DEADLOCK FALSE
