CONSTANTS
  MaxDaemons = 2
  MaxCommands = 2
  Clients = {"c1", "c2"}
  Holders = {"c1"}
  MaxScans = 1
  MaxKills = 1
SPECIFICATION Spec
INVARIANTS ServingIsReachable StartSucceeds AnswersOwnRequest
PROPERTIES IdleExitCutsNobodyOff DaemonsLeave
CHECK_DEADLOCK FALSE
