SPECIFICATION LookupsSpec
CONSTANTS
  Threads = {core, covers}
  CoverThreads = {covers}
  Services <- MCServices
  Limited = {"musicbrainz", "acoustid"}
  Interval <- MCInterval
  MaxLate = 1
  Retries = 2
  MaxTracks = 2
PROPERTIES
  OwnCallsAreSpaced
  LookupsReturn
