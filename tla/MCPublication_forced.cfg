CONSTANTS
  p1 = p1
  p2 = p2
  t1 = t1
  t2 = t2
  t3 = t3
  r1 = r1
  r2 = r2
  r3 = r3
  None = None
  Path = {p1}
  Slots = 2
  Track = {t1}
  Redo = {}
  PathOf <- OneTrack
  NamesOf <- SameNames
  Forced = {t1}
  Original <- NoRedo
  Replacement <- NoRedo
  Before = {p1}
  Perhaps = {}
SPECIFICATION Spec
INVARIANT
  ExistingFilesSurvive
CHECK_DEADLOCK FALSE
