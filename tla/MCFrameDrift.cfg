SPECIFICATION FrameSpec
CONSTANTS
  Flash <- McTightLoop
  Beyond <- McNothing
  ResetPc = 0
  StepCosts <- McOnlyTwo
  MaxStepCost = 2
  Asks <- McNothing
  CycleBound = 30
  SUBSTEPS = 64
  WantCap = 2000000
  Den = 1
  FrameTimes <- McWholeFrames
  StepBursts <- McNothing
INVARIANTS NeverDriftsAcrossFrames
