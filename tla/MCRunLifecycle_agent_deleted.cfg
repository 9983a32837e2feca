\* No crash and no redelivery: only an agent deleted during its node.
SPECIFICATION FairSpec
CONSTANTS
    Runs = {r1}
    Workers = {w1}
    NoRun = NoRun
    MaxNodes = 2
    MaxRedeliveries = 0
    MaxCrashes = 0
CHECK_DEADLOCK FALSE
PROPERTY
    StartedRunsSettle
