SPECIFICATION SpecSetup
CONSTANTS
  PluginApi = 3
  BadNames = {""}
  Platforms = {"linux", "windows"}
  Name = "p"
  ManifestOf <- MCManifestOf
  Platform = "linux"
  Repositories <- MCRepositories
  WrongIndexes <- MCWrongIndexes
  Hosts <- MCHosts
  MaxEdits = 1
  NoServer = NoServer
  Torn = Torn
  Urls = {"sub", "jel"}
  Older = {"jel"}
  KindOf <- KindOfA
  Names = {"home"}
  Plugins <- PluginsA
  Procs = {"desktop", "cli"}
  Desktop = "desktop"
  MaxEpoch = 1
  MaxCommands = 3
  Manifests <- MCManifests
  Net <- MCNet
  Addresses <- MCAddresses
  Locations <- MCLocations
  Secrets = {"cookie"}
  Required = {"yt"}
  StartTimeout = 1
  CallTimeout = 4
  PluginTimeout = 3
  MaxRedirects = 2
  MaxFiles = 2
INVARIANTS
  HalfDoneIsRepairable
  ServersAreAsTold
  StaysInGrant
  OverrunIsOneRequest
  SecretFilesEnd
PROPERTIES
  LoadedWithinGrant
  HandWorkIsKept
CHECK_DEADLOCK FALSE
