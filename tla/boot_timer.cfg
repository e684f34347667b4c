SPECIFICATION BootSpec
CONSTANTS
  Presses <- AllPresses
  MaxBrightness = 20
  DefaultBrightness = 10
  FrameTime = 14
INVARIANTS
  ReceiverInitialized
