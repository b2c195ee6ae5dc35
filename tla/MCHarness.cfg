SPECIFICATION FairSpec
CONSTANTS
  Consoles = {first, second}
  second = second
  first = first
  FIRST = first
  Frames = 3
  FrameBits = 4
  Presses <- ScriptPresses
  Touches <- ScriptTouches
  Outputs <- ScriptOutputs
  Recorded = {first}
CHECK_DEADLOCK FALSE
INVARIANTS
  SuccessMeansAllWritten
  PlayedAsScripted
  OpensAsAsked
PROPERTIES
  ProcessEnds
