CONSTANTS
  Blocks = {b1, b2, b3}
  Processes = {p1}
  MaxDepth = 1
  MaxLosses = 0
SPECIFICATION Spec
SYMMETRY Interchangeable
INVARIANTS ChainsAreShort
