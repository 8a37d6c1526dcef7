CONSTANTS
  p1 = p1
  p2 = p2
  t1 = t1
  t2 = t2
  t3 = t3
  r1 = r1
  r2 = r2
  r3 = r3
  None = None
  Path = {p1, p2}
  Slots = 3
  Track = {t1, t2, t3}
  Redo = {r1, r2, r3}
  PathOf <- TrackPaths
  NamesOf <- SameNames
  Forced = {t2}
  Original <- Originals
  Replacement <- Replacements
  Before = {p1, 1}
  Perhaps = {p2}
SPECIFICATION FairSpec
CONSTRAINT
  TwoJobs
INVARIANTS
  OriginalSurvives
  AnnouncedFilesAreWhole
PROPERTIES
  FailureRestores
  JobsEnd
CHECK_DEADLOCK FALSE
