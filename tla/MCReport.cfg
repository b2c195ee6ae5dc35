SPECIFICATION Spec
CONSTANTS
  Heaps = {root, low}
  root = root
  low = low
  Window = 2
  Works = {1, 3}
  Frees = {1, 2}
  MaxFrames = 5
INVARIANTS
  HarnessReadsThisBoot
  FiguresTold
