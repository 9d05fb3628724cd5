CONSTANTS
  None = None
  Sessions = {s1, s2}
  Platforms = {"android"}
  Frames <- MCFrames
  Values <- MCValues
  Length <- MCLength
  Valid <- MCValid
  Checked = {}
  MaxFrames = 2
  MaxBytes = 2
SPECIFICATION ScanSpec
INVARIANTS
  LeftDeliversNothing
CHECK_DEADLOCK FALSE
