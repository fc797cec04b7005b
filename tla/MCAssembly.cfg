SPECIFICATION McSpec
CONSTANTS
  RecordSize = 4
  Sources <- McSources
  BuiltIns <- McBuiltIns
  MaxDepth = 2
  MaxRounds = 3
  NoName = NoName
INVARIANTS LabelsNameTheirCode LoadsWhatTheRecordsSay
INVARIANTS FlashIsWhatWasAssembled CorruptRecordIsRejected OracleReadsTheFlash
PROPERTIES AssemblyEnds
CHECK_DEADLOCK FALSE
