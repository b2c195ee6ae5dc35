SPECIFICATION Spec
CONSTANTS
  Consoles = {first, second}
  second = second
  first = first
  FIRST = first
  Frames = 2
  FrameBits = 4
  Presses <- ScriptPresses
  Touches <- ScriptTouches
  Outputs <- ScriptOutputs
  Recorded = {first}
CHECK_DEADLOCK FALSE
INVARIANTS
  SavesCounted
