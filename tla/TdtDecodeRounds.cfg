CONSTANTS
  Frames = 4
  Token = {x, y}
  Blank = Blank
  Durations <- StallOrMove
  MaxTokensPerStep = 2
  MaxSteps = 7
  MayFail = TRUE
SPECIFICATION Spec
INVARIANTS NetFedOnce EmissionsPerFrame 
