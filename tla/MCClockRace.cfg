SPECIFICATION Spec
CONSTANTS
  Callers = {main, other}
  main = main
  other = other
  BOOT = boot
  ArenaStubs = 2
INVARIANT
  ClockTruthful
