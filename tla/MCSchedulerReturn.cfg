SPECIFICATION Spec
CONSTANTS
  Flash <- McFlash
  Beyond <- McBeyond
  ResetPc = 0
  StepCosts <- McStepCosts
  MaxStepCost = 4
  Asks <- McAsks
  CycleBound = 5
INVARIANTS ReturnsCyclesRun
