CONSTANTS
  i1 = i1
  qa = qa
  qb = qb
  c1 = c1
  c2 = c2
  None = None
  ItemId = {i1}
  Queue = {qa, qb}
  QueueOf <- OneQueue
  Call = {c1, c2}
  Sweep = {1}
  Results = {"file", "exists", "error", "canceled"}
SPECIFICATION FairSpec
INVARIANTS
  NoDownloadEscapes
  NoDownloadWritesAfterClose
PROPERTIES
  StoppedDownloadsEnd
  ShutdownCompletes
CHECK_DEADLOCK FALSE
