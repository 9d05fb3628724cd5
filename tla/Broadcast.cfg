CONSTANTS
  a = a
  d = d
  None = None
  Clients = {p, q}
  Coins <- MCCoins
  DraftIds <- MCDrafts
  Inputs <- MCInputs
  Outputs <- MCOutputs
  LabelTexts = {""}
  DraftLabel <- MCLabel
  Keys = {1, 2}
  Required = 1
  MaxAttempts = 2
  Freezable = {}
  UserLabels = {}
  Reported = {"spent", "spendable"}
  BackupAllowed = TRUE
SPECIFICATION FairBroadcast
INVARIANTS
  SentIsRecorded
  AcknowledgedWasSent
  OneInitialRequest
PROPERTIES
  AttemptsVetted
  CallsReturn
