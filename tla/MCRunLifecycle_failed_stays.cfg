\* A task that waited reserved beyond the visibility timeout is delivered twice.
SPECIFICATION Spec
CONSTANTS
    Runs = {r1}
    Workers = {w1, w2}
    NoRun = NoRun
    MaxNodes = 1
    MaxRedeliveries = 1
    MaxCrashes = 0
CHECK_DEADLOCK FALSE
PROPERTY
    FailedRunsStayFailed
