SPECIFICATION Spec
CONSTANTS
  N = 5
  H = 3
  UnitWord = 3
  GameWords <- MCGameWords
  Ext9Found <- MCExt9
  Ext7Found <- MCExt7
  LoaderRegions <- MCLoaderRegions
  StaleFlags <- MCStaleFlags
INVARIANT
  BootAreaOkMeansDone
