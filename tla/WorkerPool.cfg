\* Two threads and four tasks: one thread can die or be flagged free while busy
\* and the other one still serves a queue that holds more than one task.
SPECIFICATION Spec
CONSTANTS
    Size = 2
    MaxTasks = 4
    Shutdown = Shutdown
INVARIANTS
    TypeOK
    FifoOrder
    Conservation
    NoLostWakeup
PROPERTIES
    QueueDrains
    PostedTasksEnd
    ImplementsTaskPool
CHECK_DEADLOCK FALSE
