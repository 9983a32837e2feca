\* The broker delivers a task twice and a worker crashes; with fairness.
SPECIFICATION FairSpec
CONSTANTS
    Runs = {r1}
    Workers = {w1, w2}
    NoRun = NoRun
    MaxNodes = 2
    MaxRedeliveries = 1
    MaxCrashes = 1
CHECK_DEADLOCK FALSE
INVARIANT
    ActiveRunIsInFlight
PROPERTY
    PublishedRunsSettle
