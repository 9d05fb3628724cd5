CONSTANTS
  w1 = w1
  w2 = w2
  d1 = d1
  d2 = d2
  f = f
  None = None
  Wallets = {w1}
  Devices = {d1}
  Fingerprint <- MCFingerprint
  Signers <- MCSigners
  Indexes = {0}
  MaxExchanges = 5
  MaxReports = 6
  MaxLaunches = 2
SPECIFICATION FairUsb
PROPERTIES
  OperationsEnd
