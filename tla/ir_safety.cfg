SPECIFICATION Spec
CONSTANTS
  c1 = c1
  c2 = c2
  Commands = {c1, c2}
  NoCommand = NoCommand
  NumberOfBits = 3
  MeasuresPerBit = 2
  MeasuresPerPulse = 2
  RepeatTimeout = 60
  StartTime = 50
  TimeStep = 10
  Timer10Msec = 8
  LeadPulseMin = 4
  LeadPulseMax = 8
  SyncSpaceMin = 4
  SyncSpaceMax = 7
  RepeatPauseMin = 40
  RepeatSpaceMin = 3
  RepeatSpaceMax = 5
  MaxLag = 2
SYMMETRY CommandSymmetry
INVARIANTS
  TypeOK
  BitIndexInBounds
  FrameStartsClean
  ReceiveNeverStalls
  FaultKeepsTicking
  MeasuredByOneShot
  TimeoutSeenOnlyInCallback
PROPERTY ChannelSpec
