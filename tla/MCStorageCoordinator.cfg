CONSTANTS
  Commands = {"c1"}
  MaxCrashes = 1
  Faults = {"primary", "backup"}
SPECIFICATION Spec
INVARIANTS ErasedStaysErased KeptUnlessErased BackupIsWhole
