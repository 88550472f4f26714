CONSTANTS
  MaxTime = 6
  Steps = {1, 2, 3}
  IdleLimit = 2
  Cooldown = 2
  AiDetection = TRUE
  LockModes = {"manual", "ai"}
  SleepGap = 2
  Midnights = {4}
  MaxWait = 1
  TruncateFails = TRUE
SPECIFICATION Spec
CONSTRAINT FewInFlight
VIEW WithoutReports
INVARIANTS NothingCountedTwice SleepIsNotWorked SessionStartsToday
           StateFollowsEngine IdlenessIsNoticed
CHECK_DEADLOCK FALSE
