SPECIFICATION McSpec
CONSTANTS
  Pins <- McPins
  Labels = {"", "S2"}
  Labs <- McLabs
  ButtonsOf <- McButtonsOf
  HasHex = {"example", "no source", "bad hex"}
  HasAsm = {"example"}
  Files = {"good.hex", "bad.hex"}
  Corrupt = {"bad.hex", "bad hex"}
  Pointers = {1, 2, 3}
  NoButton = NoButton
  NoProgram = NoProgram
  Draft = Draft
  BoardNames = {"A", "B"}
  Contents = {0, 1}
  FirstBoard <- McFirstBoard
  LabsFiles <- McLabsFiles
  MaxBoards = 2
  SavedLists <- McSavedLists
  Requests = {1, 2, 3}
  NotSaved = NotSaved
  SHELL = {"root", "index"}
  AppFiles = {"root"}
  Others = {}
  Fallback = "index"
  ScriptOf <- McScriptOf
  CacheOf <- McCacheOf
  NoResponse = NoResponse
  MaxLate = 2
  MaxFaults = 2
INVARIANTS ReleasedButtonsAreIdle NoButtonStaysDown EditorShowsWhatRuns
INVARIANTS UpdateHitsItsBoard StoredIsShown SavedIsOnDisk ShellIsAnswered
PROPERTIES EventuallyCurrent
