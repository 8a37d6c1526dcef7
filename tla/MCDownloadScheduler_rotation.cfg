CONSTANTS
  q1 = q1
  q2 = q2
  q3 = q3
  t1 = t1
  t2 = t2
  Queue = {q1, q2, q3}
  Track = {t1, t2}
  Concurrency = 1
  Batches <- PlainBatches
  Results <- OneResult
  MaxTickets = 4
SPECIFICATION Spec
SYMMETRY QueueSymmetry
INVARIANT
  RoundRobin
