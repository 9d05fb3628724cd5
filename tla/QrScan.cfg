CONSTANTS
  None = None
  Sessions = {s1, s2}
  Platforms = {"android", "ios"}
  Frames <- MCFrames
  Values <- MCValues
  Length <- MCLength
  Valid <- MCValid
  Checked = {}
  MaxFrames = 2
  MaxBytes = 2
SPECIFICATION FairScan
INVARIANTS
  DeliveredOnce
  IosLeftDeliversNothing
PROPERTIES
  SessionsEnd
  NoDeadEnd
CHECK_DEADLOCK FALSE
