SPECIFICATION Spec
CONSTANTS
    Clients = {c1}
    MaxRequests = 2
    WindowMs = 1500
    Steps = {500, 1000}
    MaxTime = 2000
    None = None
    MaxArrivals = 5
    MaxStarts = 2
INVARIANT
    ErrorsAnswered
CHECK_DEADLOCK FALSE
