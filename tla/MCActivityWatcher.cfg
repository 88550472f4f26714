CONSTANTS
  MaxTime = 6
  Steps = {1, 3}
  IdleLimit = 2
  Cooldown = 2
  AiDetection = TRUE
  LockModes = {"manual", "ai"}
SPECIFICATION WatcherSpec
INVARIANTS IdleDatesFromLastActivity BeatsAreThrottled
CHECK_DEADLOCK FALSE
