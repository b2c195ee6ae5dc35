SPECIFICATION Spec
CONSTANTS
  Callers = {summary, hack}
  hack = hack
  summary = summary
  SUMMARY = summary
  Size = 4
  Returns <- LineLengths
  HackLines = 1
CHECK_DEADLOCK FALSE
INVARIANTS
  EndsInBuffer
  LineWhole
