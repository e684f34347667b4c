SPECIFICATION RecSpec
CONSTANTS
  NumberOfUnits = 96
  Unit = 2250
  Jitter = 50
  Stretch = 400
  Lag = 20
  RiseErrors <- EarlyOrLate
  FallErrors <- EarlyOrStretched
  Lags <- PromptOrLate
  Addresses <- SentAddresses
  SentCommands <- PressedKeys
  CorruptedCommands = {}
  Remains <- DarkOrLight
INVARIANTS
  RecTypeOK
  Aligned
  UnitsAsSent
  KeysReceived
PROPERTIES
  NecSpec
