SPECIFICATION ThreadsSpec
CONSTANTS
  Calls <- MCCalls
  Contexts = {"c", "d"}
  Ttl = 1
  StaleTtl = 1
  MissingTtl = 1
  MaxEntries = 1
  Timeout = 1
  DefaultBackoff = 1
  MaxBackoff = 2
  RetryAfters <- MCRetryAfters
  ServerLag = 1
  MaxChanges = 1
  Horizon = 3
  None = None
INVARIANTS TypeOK EtagMatchesBody AnswersAreRecent
PROPERTIES GivesUpOnlyWithoutReading
CHECK_DEADLOCK FALSE
