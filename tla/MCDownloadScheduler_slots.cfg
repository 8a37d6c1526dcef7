CONSTANTS
  q1 = q1
  q2 = q2
  q3 = q3
  t1 = t1
  t2 = t2
  Queue = {q1, q2}
  Track = {t1, t2}
  Concurrency = 2
  Batches <- MixedBatches
  Results <- MixedResults
  MaxTickets = 3
SPECIFICATION FairSpec
INVARIANTS
  OneLiveJobPerKey
  WorkConserving
PROPERTIES
  OneUnforcedAttemptPerKey
  ImplementsSlotPool
  QueuedJobsSettle
