CONSTANTS
  Windows = {"w1", "w2"}
  MaxTotal = 1
  MaxTime = 1
  StaleTtl = 0
  MaxResets = 1
  MaxPeriods = 1
  MaxFaults = 1
SPECIFICATION Spec
INVARIANTS EntryKept ResetIsFinal
PROPERTIES TotalsArePublished
CHECK_DEADLOCK FALSE
