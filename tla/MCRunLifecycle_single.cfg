\* Tasks are delivered once; one worker crash, stops and deletes at any time.
SPECIFICATION Spec
CONSTANTS
    Runs = {r1, r2}
    Workers = {w1, w2}
    NoRun = NoRun
    MaxNodes = 2
    MaxRedeliveries = 0
    MaxCrashes = 1
SYMMETRY Symmetry
CHECK_DEADLOCK FALSE
INVARIANTS
    TypeOK
    ActiveRunIsInFlight
    EarlyStopNeverStarts
    CancelledOnlyIfAsked
    ChatIsKnown
    DeliveredOnce ExecutorOwnsRow
    StopIsPrompt
    OutcomeLogAgrees
    FailureNoticeIsTrue
PROPERTIES
    SettledIsFinal
    ImplementsContract
