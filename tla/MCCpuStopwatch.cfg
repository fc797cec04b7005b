SPECIFICATION GuestSpec
CONSTANTS
  Firmware <- McStopwatch
  Code <- Programs
  Watched <- McDigits
  Pins <- McPins
  Edits <- McEdits
  Detours <- McDetours
  FrameMin <- McFrameMin
  CycleBound <- McCycleBound
  TmrSize = 256
  StackSize = 8
  EeSize = 128
PROPERTIES CountsEveryCycle
