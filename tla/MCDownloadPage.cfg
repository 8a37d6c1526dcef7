CONSTANTS
  qa = qa
  qb = qb
  Queue = {qa, qb}
  Playlists = {qa}
  Track = {1, 2, 3}
  Unavailable = {3}
  NoQueue = NoQueue
  Batches <- SmallBatches
  MaxJobs = 3
  MaxCallbacks = 2
  MaxSessions = 1
SPECIFICATION FairSpec
INVARIANTS
  NoJobIsMissed
  PlaylistIsCurrent
  OfferedRowsHaveRequests
  SessionsAreSeparate
PROPERTIES
  ReplacedStaysReplaced
  SessionsStart
CHECK_DEADLOCK FALSE
