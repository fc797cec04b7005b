SPECIFICATION FairFrameSpec
CONSTANTS
  Flash <- McFlash
  Beyond <- McBeyond
  ResetPc = 0
  StepCosts <- McOneOrTwo
  MaxStepCost = 2
  Asks <- McNothing
  CycleBound = 8
  SUBSTEPS = 2
  WantCap = 3
  Den = 2
  FrameTimes <- McFrameTimes
  StepBursts <- McBursts
INVARIANTS FrameRunsWhatItWants FractionsCarried NoHiddenBreakpoint
PROPERTIES PausesAtBreakpoint ResumeMakesProgress HandlersReturn
