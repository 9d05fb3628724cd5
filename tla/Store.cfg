CONSTANTS
  a = a
  b = b
  d1 = d1
  d2 = d2
  None = None
  Coins <- MCCoins
  DraftIds <- TwoDrafts
  Inputs <- MCInputs
  Outputs <- NoOutputs
  LabelTexts = {""}
  DraftLabel <- NoLabels
  Keys = {1}
  Required = 1
  MaxAttempts = 1
  Freezable = {}
  UserLabels = {}
  Reported = {"spent", "spendable"}
  BackupAllowed = TRUE
SPECIFICATION Spec
INVARIANTS
  TypeOK
  ReservationsMatchLiveDrafts
  LiveDraftsStand
  HeldCoinsNotReused
  BackupRestorable
PROPERTIES
  CoinsLocked
  SubmissionsIndelible
  NeverRevived
  HeldUntilSettled
