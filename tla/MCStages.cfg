SPECIFICATION Spec
CONSTANTS
  ArenasLeft <- MCArenas
  LoaderArenas <- MCLoaderArenas
  Protections <- MCProtections
  MbkFound <- MCMbkFound
  Ext9Kept <- MCExt9Kept
  HeapHeader = 64
INVARIANTS
  HeapsApart
  HeapsMapped
  NwramAllOrNothing
  NwramComesBack
  ClockTold
  ChecksTell
PROPERTIES
  NothingOfOthers
  KeepsApi
