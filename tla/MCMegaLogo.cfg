SPECIFICATION Spec
CONSTANT MaxRoom = 2
INVARIANTS
  ArchiveNeverDangles
  AllGivenBack
  PlaysOnlyWhatIsLoaded
