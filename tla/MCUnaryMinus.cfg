SPECIFICATION McSpec
CONSTANTS
  TmrSize = 5
  InstrCosts <- McInstrCosts
  Loads <- McLoads
  Options <- McOptions
  StackSize = 4
  Addr <- McAddr
  EeSize = 2
  Data <- McData
  Addresses <- McAddresses
  Keys <- McKeys
  Registers <- McRegisters
  Literals <- McLiterals
  Targets <- McTargets
  Operands <- McOperands
  Texts <- McTexts
  ValueOf <- McValueOf
INVARIANT UnaryBindsTightest
CHECK_DEADLOCK FALSE
