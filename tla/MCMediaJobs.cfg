CONSTANTS
  i1 = i1
  qa = qa
  None = None
  ItemId = {i1}
  Queue = {qa}
  QueueOf <- OneQueue
  Call <- Calls
  s1 = s1
  s2 = s2
  s3 = s3
  Sweep = {s1, s2, s3}
  Results = {"file", "suspicious", "exists", "error", "canceled"}
SPECIFICATION FairJobSpec
INVARIANTS
  NoGhostItems
  
  FreshSessionIsClean
PROPERTIES
  StoppedJobsSendNothing
  StoppedJobsSettle
CHECK_DEADLOCK FALSE
