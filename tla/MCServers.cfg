CONSTANTS
  None = None
  Torn = Torn
  Urls = {"sub", "jel"}
  Older = {"jel"}
  KindOf <- KindOfA
  Names = {"home"}
  Plugins <- PluginsA
  Procs = {"desktop", "cli"}
  Desktop = "desktop"
  MaxEpoch = 1
  MaxCommands = 2
SPECIFICATION Spec
INVARIANT
  ReachableMeansAccepted
CHECK_DEADLOCK FALSE
