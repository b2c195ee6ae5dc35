SPECIFICATION ScriptFairSpec
CONSTANTS
  MaxPin = 2
  MaxFaults = 3
INVARIANTS
  DoneMeansReady
  EnvNamesWhatIsThere
PROPERTIES
  RerunSucceeds
