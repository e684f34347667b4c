SPECIFICATION NecSpec
CONSTANTS
  Addresses <- SentAddresses
  SentCommands <- AllCommands
  CorruptedCommands <- EdgeCommands
INVARIANT StandardFramesDelivered
