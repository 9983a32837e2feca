SPECIFICATION Spec
CONSTANTS
  Replicas = {a, b}
  NoReplica = NoReplica
  MaxUpdates = 2
  Ttl = 2
  PollTime = 1
  HookTime = 1
  JoinTime = 1
  FirstBackoff = 1
  LastBackoff = 3
  ErrorSleep = 1
  MaxMishaps = 1
SYMMETRY Replicas2
INVARIANTS TypeOK EnqueuedOnce EachMishapLosesOne PollerHoldsLock
CHECK_DEADLOCK FALSE
