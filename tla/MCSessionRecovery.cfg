CONSTANTS
  MaxTime = 5
  MaxCalls = 2
  MaxCrashes = 1
  MaxIncidents = 1
  Incidents = {"flush", "truncate", "clear", "primary", "backup", "earlyPause", "save", "lateSave"}
  Midnights = {4}
  SleepGap = 2
  SleepTicks = 3
  SaveEvery = 2
  CompLimit = 2
SPECIFICATION Spec
VIEW WithoutStaleTimes
INVARIANTS NoDoubleCounting CrashCostsOnlySlicesInMemory
           StopLosesNothingUnlessPrimaryFails
CHECK_DEADLOCK FALSE
