CONSTANTS
  Operations = {"toggleWorkspace", "toggleGlobal", "newPeriod", "clearHistory"}
  Switches = {"s1"}
  Handlers = {h1, h2}
  MaxQueue = 1
  Faults = {"flush", "truncate"}
SPECIFICATION Spec
SYMMETRY HandlersSymmetry
INVARIANTS DisabledCountsNothing EnabledIsCounting StateIsTrue AbsenceIsNotCounted
