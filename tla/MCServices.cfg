SPECIFICATION Spec
CONSTANTS
    s1 = s1  s2 = s2  m1 = m1  r1 = r1  r2 = r2  n1 = n1  n2 = n2  c1 = c1  c2 = c2
    Sessions = {s1, s2}
    Marks = {m1, s1}
    Rows = {r1, r2}
    SavedRows <- SavedTogether
    MaxConns = 3
    MaxRetries = 3
    MaxCalls = 4
    MaxRemoteCalls = 3
    MaxRestarts = 1
    Graphs <- SmallGraphs
    GraphCallers = {c1, c2}
    MaxAttempts = 2
    MaxGraphCalls = 3
    MaxReloads = 1
    Variables = 3
    TauMax = 1
    MaxCondVars = 1
    MaxRuns = 4
    Setups <- Configurations
    Datasets <- SomeDatasets
    Processes <- SomeProcesses
    N = 3
    Regimes <- SomeRegimes
    Engines <- SomeEngines
    BatchSizes = {5}
    MaxWindows = 5
    Pipelines <- SomePipelines
    MaxPoints = 18
    MaxGaps = 2
INVARIANTS
    CommittedIsDurable SavedGraphsAreRead
    PartitionIsInvisible ConflictsAreResolved WindowsDecide
PROPERTIES
    TurnsAreTransactions InitialisationSettles
CHECK_DEADLOCK FALSE
