SPECIFICATION LibrarySpec
CONSTANTS
  Alike <- MCAlike
  VariantMarkers = {"live"}
  ReissueMarkers = {"remaster"}
  ShortWords = {"at"}
  YearLength = 10
  MinPlayed = 5
  Procs = {p1, p2}
  Migrations <- MCMigrations
  Tracks <- MCTracks
  Archives <- MCArchives
  Replies <- MCReplies
  WellFormed = {1, 2, 3, 4}
  SearchLimit = 25
  Questions <- MCQuestions
  Played <- MCPlayed
  MaxCrashes = 1
  Scanners = {p1, p2}
  Roots = {"root"}
  DirOf <- MCDirOf
  ParentOf <- MCParentOf
  AudioFiles = {"song", "track"}
  Tagged = {"a"}
  Bare = {"bare"}
  BrokenFiles = {"torn"}
  Remotes = {}
  MaxClock = 2
  MaxChanges = 2
SYMMETRY ProcsAlike
INVARIANTS
  OpenMeansMigrated
  FinishedImportIsResolved
  SearchAgreesWithStats
  IdentityIsEvidence
  StampsAreHonest
PROPERTIES
  QuietScanMirrors
  SkipIsJustified
CHECK_DEADLOCK FALSE
