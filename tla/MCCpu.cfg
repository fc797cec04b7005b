SPECIFICATION GuestSpec
CONSTANTS
  Firmware <- McFirmware
  Code <- Programs
  Watched <- McDigits
  Pins <- McPins
  Edits <- McEdits
  Detours <- McDetours
  FrameMin <- McFrameMin
  CycleBound <- McCycleBound
  TmrSize = 256
  StackSize = 8
  EeSize = 128
INVARIANTS InterruptsAreInvisible FrameIsAccounted DigitsShareTheFrame
PROPERTIES ReturnsWhereItCame InterruptsAreEntered StorageCounts StepFitsItsParts
