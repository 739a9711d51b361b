SPECIFICATION Spec
CONSTANTS
    Graphs <- MCGraphs
    AskedVersions = {1}
    MaxReloads = 1
    MaxSteps = 3
    MaxFailures = 1
INVARIANT
    SurvivesReload
CHECK_DEADLOCK FALSE
