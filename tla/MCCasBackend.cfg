CONSTANTS
  Blocks = {b1, b2}
  Processes = {p1, p2}
  MaxDepth = 8
  MaxLosses = 1
SPECIFICATION Spec
SYMMETRY Interchangeable
VIEW WithoutRefusals
INVARIANTS StoredIsReadable ReadsTerminate PutFailsForACause
