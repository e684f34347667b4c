SPECIFICATION FairSpec
CONSTANTS
  c1 = c1
  Commands = {c1}
  NoCommand = NoCommand
  NumberOfBits = 2
  MeasuresPerBit = 2
  MeasuresPerPulse = 2
  RepeatTimeout = 60
  StartTime = 50
  TimeStep = 10
  Timer10Msec = 6
  LeadPulseMin = 4
  LeadPulseMax = 6
  SyncSpaceMin = 3
  SyncSpaceMax = 5
  RepeatPauseMin = 40
  RepeatSpaceMin = 2
  RepeatSpaceMax = 4
  MaxLag = 1
PROPERTY WaitEnds
