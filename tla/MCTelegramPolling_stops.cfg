SPECIFICATION PromptSpec
CONSTANTS
  Replicas = {a, b}
  NoReplica = NoReplica
  MaxUpdates = 1
  Ttl = 2
  PollTime = 1
  HookTime = 1
  JoinTime = 1
  FirstBackoff = 1
  LastBackoff = 3
  ErrorSleep = 1
  MaxMishaps = 0
PROPERTY StopsForAnotherLeader
CHECK_DEADLOCK FALSE
