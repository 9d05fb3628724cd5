CONSTANTS
  a = a
  b = b
  d1 = d1
  d2 = d2
  None = None
  Coins <- MCCoins
  DraftIds <- ChangeDraft
  Inputs <- MCInputs
  Outputs <- ChangeOutputs
  LabelTexts = {"", "approved", "edited"}
  DraftLabel <- ChangeLabel
  Keys = {1, 2, 3}
  Required = 2
  MaxAttempts = 1
  Freezable = {a}
  UserLabels = {"", "edited"}
  Reported = {"unknown", "spent", "immature", "spendable"}
  BackupAllowed = FALSE
SPECIFICATION Spec
INVARIANTS
  FinalBytesStand
PROPERTIES
  LabelsAppliedOnce
