CONSTANTS
  p1 = p1
  p2 = p2
  j1 = j1
  j2 = j2
  j3 = j3
  Process = {p1, p2}
  Caller = {j1, j2, j3}
  Home <- Homes
  NoOne = NoOne
  MaxRelease = 3
  Runnable = {1, 3}
SPECIFICATION FairSpec
INVARIANTS
  CommittedStays
PROPERTIES
  StoppedCallsEnd
