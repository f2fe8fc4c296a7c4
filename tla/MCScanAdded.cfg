SPECIFICATION ScanSpec
CONSTANTS
  Scanners = {p1}
  Roots = {"root"}
  DirOf <- MCDirOf
  ParentOf <- MCParentOf
  AudioFiles = {"song", "track"}
  Tagged = {"a"}
  Bare = {"bare"}
  BrokenFiles = {"torn"}
  Remotes = {}
  MaxClock = 3
  MaxChanges = 2
PROPERTIES
  AdditionsShowUp
