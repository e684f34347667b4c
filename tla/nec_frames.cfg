SPECIFICATION NecSpec
CONSTANTS
  Addresses <- SentAddresses
  SentCommands <- AllCommands
  CorruptedCommands <- EdgeCommands
INVARIANTS
  TypeOK
  IndexNeverWraps
  FailuresRejected
  FittingDelivered
  KeysDelivered
  CommandProtected
  KeysNotMistaken
