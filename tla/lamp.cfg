SPECIFICATION FairSpec
CONSTANTS
  Presses <- AllPresses
  MaxBrightness = 50
  DefaultBrightness = 20
INVARIANTS
  TypeOK
  OnGrid
  OneStaleMove
PROPERTIES
  SmoothDuty
  Converges
