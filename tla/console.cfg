SPECIFICATION FairSpec
CONSTANTS
  Commands <- TwoCommands
  NoCommand <- Zeroed
  BufferSize = 2
  BufferNumber = 2
INVARIANTS
  TypeOK
  PrintsLastCall
  SerialFollowsBus
  LineOnItsWay
  DescriptionServed
PROPERTIES
  MainNeverStuck
  LastCallHeard
