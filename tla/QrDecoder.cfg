CONSTANTS
  None = None
  Sessions = {s1}
  Frames <- MCFrames
  Values <- MCValues
  Length <- MCLength
  Valid <- MCValid
  Checked <- MCChecked
  MaxFrames = 4
  MaxBytes = 3
SPECIFICATION DecoderSpec
INVARIANTS
  ConsistentOrFailed
  PayloadFromFrames
  ProgressTrue
PROPERTIES
  ClosedForGood
