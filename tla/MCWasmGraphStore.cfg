SPECIFICATION Spec
CONSTANTS
    Graphs <- MCGraphs
    AskedVersions = {1}
    MaxReloads = 1
    MaxSteps = 3
    MaxFailures = 1
INVARIANTS
    Accounted
    SavedVersionsAreWhole
    LoadsAreSaved
    SavesSurvive
PROPERTIES
    Answered
CHECK_DEADLOCK FALSE
