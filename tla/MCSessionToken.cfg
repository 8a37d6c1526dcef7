CONSTANTS
  Download = {d1, d2}
  NoOne = NoOne
  MaxToken = 3
SPECIFICATION FairSpec
INVARIANTS
  RefreshIsNewer
  StopIsPrivate
PROPERTIES
  DownloadsEnd
CHECK_DEADLOCK FALSE
