----------------------------- MODULE PageProofs -----------------------------
(***************************************************************************)
(* Proofs about the deployed page: its board, for every set of labs, files  *)
(* and pointers, and its service worker, for every history of releases.     *)
(***************************************************************************)
EXTENDS Board, OfflineCache, FiniteSetTheorems, TLAPS

(***************************************************************************)
(* The board.  The three properties are nearly inductive; what is missing    *)
(* is that no board or file is chosen before the core is up, that only       *)
(* buttons of this board are among those that have driven their pin, and     *)
(* that the pointer's button, which may be of an old board, is a button.     *)
(***************************************************************************)
BoardTypes ==
  /\ coreUp \in BOOLEAN
  /\ buttons \subseteq Buttons /\ wired \subseteq buttons
  /\ pressedComp \in Buttons \cup {NoButton}
  /\ level \in [Pins -> {0, 1}]
  /\ ~coreUp => buttons = {} /\ chosen = {}

BoardInv ==
  /\ BoardTypes
  /\ ReleasedButtonsAreIdle
  /\ NoButtonStaysDown
  /\ EditorShowsWhatRuns

LEMMA Levels ==
  ASSUME NEW b \in Buttons
  PROVE  b.pin \in Pins /\ IdleLevel(b) \in {0, 1} /\ ActiveLevel(b) \in {0, 1}
BY DEF Buttons, IdleLevel, ActiveLevel

(* Idling a board drives a pin to the idle level of each of its buttons that *)
(* shares it with buttons of its own kind only.                              *)
LEMMA IdledIsIdle ==
  ASSUME NEW bs \in SUBSET Buttons, NEW lv \in [Pins -> {0, 1}]
  PROVE  /\ Idled(bs, lv) \in [Pins -> {0, 1}]
         /\ \A b \in bs : (\A c \in bs : c.pin = b.pin => c.activeLow = b.activeLow)
                            => Idled(bs, lv)[b.pin] = IdleLevel(b)
<1>1. ASSUME NEW p \in Pins, \E b \in bs : b.pin = p
      PROVE  LET c == CHOOSE b \in bs : b.pin = p
             IN  c \in bs /\ c.pin = p /\ IdleLevel(c) \in {0, 1}
  BY <1>1, Levels
<1>2. Idled(bs, lv) \in [Pins -> {0, 1}]
  BY <1>1 DEF Idled
<1>3. ASSUME NEW b \in bs, \A c \in bs : c.pin = b.pin => c.activeLow = b.activeLow
      PROVE  Idled(bs, lv)[b.pin] = IdleLevel(b)
  <2>1. b.pin \in Pins /\ \E c \in bs : c.pin = b.pin
    BY Levels
  <2>2. IdleLevel(CHOOSE c \in bs : c.pin = b.pin) = IdleLevel(b)
    BY <1>1, <1>3, <2>1 DEF IdleLevel
  <2>3. QED
    BY <2>1, <2>2 DEF Idled
<1>4. QED
  BY <1>2, <1>3

LEMMA FloatingLevels == Floating \in [Pins -> {0, 1}]
BY DEF Floating

(* Driving a button moves no pin but its own. *)
LEMMA DrivenLevels ==
  ASSUME BoardTypes, NEW b \in Buttons, NEW v \in {0, 1}
  PROVE  /\ Driven(b, v) \in [Pins -> {0, 1}]
         /\ \A p \in Pins : p # b.pin => Driven(b, v)[p] = level[p]
         /\ coreUp => Driven(b, v)[b.pin] = v
BY Levels DEF BoardTypes, Driven

LEMMA BoardInitInv == BoardInit => BoardInv
<1> SUFFICES ASSUME BoardInit PROVE BoardInv
  OBVIOUS
<1>1. BoardTypes
  BY FloatingLevels DEF BoardInit, BoardTypes
<1>2. QED
  BY <1>1 DEF BoardInit, BoardInv, ReleasedButtonsAreIdle, NoButtonStaysDown,
              EditorShowsWhatRuns

(* A step that idles the whole board, whatever was driven before, leaves no  *)
(* released button active.                                                  *)
LEMMA IdledBoard ==
  ASSUME coreUp', buttons' \subseteq Buttons, wired' = buttons',
         pressedComp' \in Buttons \cup {NoButton},
         NEW lv \in [Pins -> {0, 1}], level' = Idled(buttons', lv)
  PROVE  BoardTypes' /\ ReleasedButtonsAreIdle'
<1>1. /\ level' \in [Pins -> {0, 1}]
      /\ \A b \in buttons' :
           (\A c \in buttons' : c.pin = b.pin => c.activeLow = b.activeLow)
             => level'[b.pin] = IdleLevel(b)
  BY IdledIsIdle
<1>2. BoardTypes'
  BY <1>1 DEF BoardTypes
<1>3. ReleasedButtonsAreIdle'
  BY <1>1 DEF ReleasedButtonsAreIdle, HasItsPin
<1>4. QED
  BY <1>2, <1>3

(* Releasing all presses leaves every pin of the board idle. *)
LEMMA ReleaseInv ==
  ASSUME BoardInv, ReleasePresses, UNCHANGED <<coreUp, buttons, chosen>>
  PROVE  /\ BoardTypes' /\ ReleasedButtonsAreIdle'
         /\ pressed' = {} /\ pressedComp' = NoButton
<1> USE DEF BoardInv
<1>1. pressedComp # NoButton =>
        Driven(pressedComp, IdleLevel(pressedComp)) \in [Pins -> {0, 1}]
  <2> SUFFICES ASSUME pressedComp # NoButton
               PROVE  Driven(pressedComp, IdleLevel(pressedComp)) \in [Pins -> {0, 1}]
    OBVIOUS
  <2>1. pressedComp \in Buttons
    BY DEF BoardTypes
  <2>2. QED
    BY <2>1, Levels, DrivenLevels
<1>2. CASE coreUp
  <2>1. PICK lv \in [Pins -> {0, 1}] : level' = Idled(buttons, lv)
    BY <1>1, <1>2 DEF ReleasePresses, BoardTypes
  <2>2. /\ coreUp' /\ buttons' \subseteq Buttons /\ wired' = buttons'
        /\ pressedComp' \in Buttons \cup {NoButton} /\ level' = Idled(buttons', lv)
    BY <1>2, <2>1 DEF ReleasePresses, BoardTypes
  <2>3. QED
    BY <2>2, IdledBoard DEF ReleasePresses
<1>3. CASE ~coreUp
  <2>1. level' = level /\ wired' = wired /\ pressed' = {} /\ pressedComp' = NoButton
    BY <1>3 DEF ReleasePresses
  <2>2. wired' = {}
    BY <1>3, <2>1 DEF BoardTypes
  <2>3. QED
    BY <1>3, <2>1, <2>2 DEF BoardTypes, ReleasedButtonsAreIdle
<1>4. QED
  BY <1>2, <1>3 DEF BoardTypes

(* Every handler preserves the invariant. *)
LEMMA BoardStep == BoardInv /\ BoardNext => BoardInv'
<1> SUFFICES ASSUME BoardInv, BoardNext PROVE BoardInv'
  OBVIOUS
<1> USE DEF BoardInv
<1>1. ASSUME coreUp, level' = ResetThenIdle(buttons), wired' = buttons,
             UNCHANGED <<coreUp, buttons, pressedComp>>
      PROVE  BoardTypes' /\ ReleasedButtonsAreIdle'
  BY <1>1, IdledBoard, FloatingLevels DEF ResetThenIdle, BoardTypes
<1>2. CASE CoreReady
  <2>1. /\ coreUp' = TRUE /\ level' = Floating /\ program' = NoProgram /\ wired' = {}
        /\ UNCHANGED <<buttons, pressed, pressedComp, pointers, editor>>
    BY <1>2 DEF CoreReady, handVars
  <2>2. BoardTypes'
    BY <2>1, FloatingLevels DEF BoardTypes
  <2>3. QED
    BY <2>1, <2>2 DEF ReleasedButtonsAreIdle, NoButtonStaysDown, EditorShowsWhatRuns
<1>3. CASE \E lab \in Labs : SelectLab(lab)
  <2>1. PICK lab \in Labs : SelectLab(lab)
    BY <1>3
  <2>2. ButtonsOf[lab] \subseteq Buttons
    BY BoardAssumption DEF BoardAssumption
  <2>3. /\ coreUp /\ coreUp' = coreUp /\ buttons' = ButtonsOf[lab] /\ pressed' = {}
        /\ UNCHANGED <<pressedComp, pointers>>
    BY <2>1 DEF SelectLab, handVars
  <2>4. BoardTypes' /\ ReleasedButtonsAreIdle'
    <3>1. CASE lab \in HasHex \cap Corrupt
      <4>1. wired' = {} /\ level' = level
        BY <2>1, <3>1 DEF SelectLab
      <4>2. QED
        BY <2>2, <2>3, <4>1 DEF BoardTypes, ReleasedButtonsAreIdle
    <3>2. CASE ~(lab \in HasHex \cap Corrupt)
      <4>1. PICK lv \in [Pins -> {0, 1}] : level' = Idled(ButtonsOf[lab], lv)
        BY <2>1, <3>2, FloatingLevels DEF SelectLab, Loaded, ResetThenIdle, BoardTypes
      <4>2. wired' = ButtonsOf[lab]
        BY <2>1, <3>2 DEF SelectLab, Loaded
      <4>3. /\ coreUp' /\ buttons' \subseteq Buttons /\ wired' = buttons'
            /\ pressedComp' \in Buttons \cup {NoButton} /\ level' = Idled(buttons', lv)
        BY <2>2, <2>3, <4>1, <4>2 DEF BoardTypes
      <4>4. QED
        BY <4>1, <4>3, IdledBoard
    <3>3. QED
      BY <3>1, <3>2
  <2>5. NoButtonStaysDown'
    BY <2>3 DEF NoButtonStaysDown
  <2>6. EditorShowsWhatRuns'
    BY <2>1, BoardAssumption DEF SelectLab, Loaded, EditorShowsWhatRuns, BoardAssumption
  <2>7. QED
    BY <2>4, <2>5, <2>6
<1>4. CASE \E f \in Files : ChooseFile(f)
  BY <1>4 DEF ChooseFile, NotLoaded, handVars, BoardTypes, ReleasedButtonsAreIdle,
              HasItsPin, NoButtonStaysDown, EditorShowsWhatRuns
<1>5. CASE \E f \in Files : FileRead(f)
  <2>1. PICK f \in Files : FileRead(f)
    BY <1>5
  <2>2. UNCHANGED <<coreUp, buttons, pressed, pressedComp, pointers>>
    BY <2>1 DEF FileRead, handVars
  <2>3. BoardTypes' /\ ReleasedButtonsAreIdle'
    <3>1. CASE f \in Corrupt
      BY <2>1, <2>2, <3>1
         DEF FileRead, NotLoaded, BoardTypes, ReleasedButtonsAreIdle, HasItsPin
    <3>2. CASE f \notin Corrupt
      <4>1. coreUp
        BY <2>1 DEF FileRead, BoardTypes
      <4>2. level' = ResetThenIdle(buttons) /\ wired' = buttons
        BY <2>1, <3>2 DEF FileRead, Loaded
      <4>3. QED
        BY <1>1, <2>2, <4>1, <4>2
    <3>3. QED
      BY <3>1, <3>2
  <2>4. NoButtonStaysDown'
    BY <2>2 DEF NoButtonStaysDown
  <2>5. EditorShowsWhatRuns'
    BY <2>1, BoardAssumption
       DEF FileRead, Loaded, NotLoaded, EditorShowsWhatRuns, BoardAssumption
  <2>6. QED
    BY <2>3, <2>4, <2>5
<1>6. CASE Edit
  BY <1>6, BoardAssumption
     DEF Edit, NotLoaded, handVars, BoardTypes, ReleasedButtonsAreIdle, HasItsPin,
         NoButtonStaysDown, EditorShowsWhatRuns, BoardAssumption
<1>7. CASE Build
  BY <1>7, <1>1 DEF Build, Loaded, handVars, NoButtonStaysDown, EditorShowsWhatRuns
<1>8. CASE PowerOff
  BY <1>8, <1>1 DEF PowerOff, handVars, NoButtonStaysDown, EditorShowsWhatRuns
<1>9. CASE \E p \in Pointers : EndPointer(p)
  <2>1. PICK p \in Pointers : EndPointer(p)
    BY <1>9
  <2>2. UNCHANGED <<coreUp, buttons, program, editor, chosen>>
    BY <2>1 DEF EndPointer
  <2>3. CASE pointers' = {}
    BY <2>1, <2>2, <2>3, ReleaseInv DEF EndPointer, NoButtonStaysDown,
       EditorShowsWhatRuns
  <2>4. CASE pointers' # {}
    BY <2>1, <2>2, <2>4 DEF EndPointer, BoardTypes, ReleasedButtonsAreIdle, HasItsPin,
       NoButtonStaysDown, EditorShowsWhatRuns
  <2>5. QED
    BY <2>3, <2>4
<1>10. CASE \E p \in Pointers, b \in buttons \cup {NoButton} : PointerDown(p, b)
  <2>1. PICK p \in Pointers, b \in buttons \cup {NoButton} : PointerDown(p, b)
    BY <1>10
  <2>2. UNCHANGED <<coreUp, buttons, program, editor, chosen>> /\ p \in pointers'
    BY <2>1 DEF PointerDown
  <2>3. NoButtonStaysDown' /\ EditorShowsWhatRuns'
    BY <2>2 DEF NoButtonStaysDown, EditorShowsWhatRuns
  <2>4. CASE Cardinality(pointers') = 2
    BY <2>1, <2>2, <2>3, <2>4, ReleaseInv DEF PointerDown
  <2>5. CASE Cardinality(pointers') # 2 /\ b = NoButton
    <3>1. pressedComp' = NoButton /\ pressed' = pressed /\ level' = level /\ wired' = wired
      BY <2>1, <2>5 DEF PointerDown
    <3>2. QED
      BY <2>2, <2>3, <3>1 DEF BoardTypes, ReleasedButtonsAreIdle, HasItsPin
  <2>6. CASE Cardinality(pointers') # 2 /\ b # NoButton
    <3>1. b \in buttons /\ b \in Buttons /\ coreUp
      BY <2>6 DEF BoardTypes
    <3>2. /\ pressedComp' = b /\ pressed' = pressed \cup {b} /\ wired' = wired \cup {b}
          /\ level' = Driven(b, ActiveLevel(b))
      BY <2>1, <2>6, <3>1 DEF PointerDown
    <3>3. /\ level' \in [Pins -> {0, 1}]
          /\ \A q \in Pins : q # b.pin => level'[q] = level[q]
      BY <3>1, <3>2, Levels, DrivenLevels
    <3>4. BoardTypes'
      BY <2>2, <3>1, <3>2, <3>3 DEF BoardTypes
    <3>5. ASSUME NEW c \in wired' \ pressed', HasItsPin(c)'
          PROVE  level'[c.pin] = IdleLevel(c)
      <4>1. c \in wired \ pressed /\ c \in Buttons
        BY <3>2 DEF BoardTypes
      <4>2. HasItsPin(c) /\ b.pin # c.pin
        BY <2>2, <3>1, <3>2, <3>5 DEF HasItsPin
      <4>3. c.pin \in Pins /\ level[c.pin] = IdleLevel(c)
        BY <4>1, <4>2, Levels DEF ReleasedButtonsAreIdle
      <4>4. QED
        BY <3>3, <4>2, <4>3
    <3>6. QED
      BY <2>3, <3>4, <3>5 DEF ReleasedButtonsAreIdle
  <2>7. QED
    BY <2>4, <2>5, <2>6
<1>11. QED
  BY <1>2, <1>3, <1>4, <1>5, <1>6, <1>7, <1>8, <1>9, <1>10 DEF BoardNext

LEMMA BoardInductive == BoardSpec => []BoardInv
<1>1. BoardInv /\ UNCHANGED boardVars => BoardInv'
  BY DEF boardVars, BoardInv, BoardTypes, ReleasedButtonsAreIdle, HasItsPin,
         NoButtonStaysDown, EditorShowsWhatRuns
<1>2. QED
  BY <1>1, BoardInitInv, BoardStep, PTL DEF BoardSpec

(* A button that is not drawn pressed does not read as pressed, from the     *)
(* first time it drives its pin, wherever it does not share the pin with a    *)
(* pressed button or one of the other polarity.                              *)
THEOREM NoGhostPresses == BoardSpec => []ReleasedButtonsAreIdle
<1>1. BoardInv => ReleasedButtonsAreIdle
  BY DEF BoardInv
<1>2. QED
  BY <1>1, BoardInductive, PTL

(* With the last pointer the last button goes up. *)
THEOREM ButtonsComeUp == BoardSpec => []NoButtonStaysDown
<1>1. BoardInv => NoButtonStaysDown
  BY DEF BoardInv
<1>2. QED
  BY <1>1, BoardInductive, PTL

(* The editor never shows the source of an example while another program    *)
(* is in the chip.                                                          *)
THEOREM EditorIsHonest == BoardSpec => []EditorShowsWhatRuns
<1>1. BoardInv => EditorShowsWhatRuns
  BY DEF BoardInv
<1>2. QED
  BY <1>1, BoardInductive, PTL

(***************************************************************************)
(* The service worker.  What must be known beyond the property itself is     *)
(* where an answer comes from: the cache of the worker in control is the     *)
(* oldest one and whole, an installation has files no older than its         *)
(* release, and a response that is still to be stored goes into a cache that *)
(* a worker named at that release or before.                                 *)
(***************************************************************************)
(* response is from no release before the first whose cache is this. *)
Fresh(cache, response) ==
  response \in Responses /\ \E r \in 1..response.from : CacheOf[r] = cache

Whole(cache) == \A f \in SHELL : Fresh(cache, held[cache][f])

OfflineTypes ==
  /\ site \in Releases /\ active \in 0..site /\ coming \in 0..site
  /\ caches \in Seq(CacheNames)
  /\ held \in [CacheNames -> [SiteFiles -> Responses \cup {NoResponse}]]
  /\ late \subseteq [cache : CacheNames, file : SiteFiles, response : Responses]

ControlIsOldest ==
  active # 0 => /\ Len(caches) >= 1 /\ caches[1] = CacheOf[active]
                /\ Whole(CacheOf[active])

InstallsBeside ==
  /\ coming # 0 /\ active # 0 => active < coming
  /\ \A f \in DOMAIN fetched : fetched[f] \in Releases /\ fetched[f] >= coming
  /\ stored => coming # 0 /\ Whole(CacheOf[coming])

LateIsOfAWorker ==
  \A p \in late :
    /\ \E r \in 1..active : p.cache = CacheOf[r]
    /\ Fresh(p.cache, p.response)

OfflineInv ==
  OfflineTypes /\ ControlIsOldest /\ InstallsBeside /\ LateIsOfAWorker

LEMMA ReleaseFacts ==
  /\ Len(CacheOf) \in Nat /\ Len(CacheOf) >= 1 /\ Releases = 1..Len(CacheOf)
  /\ \A r \in Releases : CacheOf[r] \in CacheNames
  /\ SHELL \subseteq SiteFiles
BY OfflineAssumption DEF OfflineAssumption, Releases, CacheNames, SiteFiles

(* What a release has is fresh in the cache of any release up to it. *)
LEMMA FreshFromRelease ==
  ASSUME NEW r \in Releases, NEW response \in Responses, response.from >= r
  PROVE  Fresh(CacheOf[r], response)
<1>1. r \in 1..response.from
  BY ReleaseFacts DEF Responses
<1>2. QED
  BY <1>1 DEF Fresh

(* A fresh response that is put leaves every whole cache whole. *)
LEMMA PutKeepsWhole ==
  ASSUME OfflineTypes, NEW cache \in CacheNames, NEW f \in SiteFiles,
         NEW response \in Responses, Fresh(cache, response),
         held' = [held EXCEPT ![cache][f] = response],
         NEW other \in CacheNames, Whole(other)
  PROVE  Whole(other)'
<1>1. ASSUME NEW g \in SHELL PROVE Fresh(other, held'[other][g])
  <2>1. g \in SiteFiles /\ Fresh(other, held[other][g])
    BY ReleaseFacts DEF Whole
  <2>2. CASE other = cache /\ g = f
    <3>1. held'[other][g] = response
      BY <2>1, <2>2 DEF OfflineTypes
    <3>2. QED
      BY <2>2, <3>1
  <2>3. CASE ~(other = cache /\ g = f)
    <3>1. held'[other][g] = held[other][g]
      BY <2>1, <2>3 DEF OfflineTypes
    <3>2. QED
      BY <2>1, <3>1
  <2>4. QED
    BY <2>2, <2>3
<1>2. QED
  BY <1>1 DEF Whole, Fresh

(* Opening a cache keeps the oldest one in its place. *)
LEMMA OpenedKeepsFirst ==
  ASSUME caches \in Seq(CacheNames), NEW name \in CacheNames
  PROVE  /\ Opened(name) \in Seq(CacheNames)
         /\ Len(caches) >= 1 => Len(Opened(name)) >= 1 /\ Opened(name)[1] = caches[1]
<1>1. CASE Opened(name) = caches
  BY <1>1
<1>2. CASE Opened(name) = Append(caches, name)
  BY <1>2
<1>3. QED
  BY <1>1, <1>2 DEF Opened

LEMMA OfflineInitInv == OfflineInit => OfflineInv
<1> SUFFICES ASSUME OfflineInit PROVE OfflineInv
  OBVIOUS
<1>1. OfflineTypes
  BY ReleaseFacts DEF OfflineInit, OfflineTypes, Nothing
<1>2. QED
  BY <1>1 DEF OfflineInit, OfflineInv, ControlIsOldest, InstallsBeside, LateIsOfAWorker,
              NoFiles

LEMMA OfflineStep == OfflineInv /\ OfflineNext => OfflineInv'
<1> SUFFICES ASSUME OfflineInv, OfflineNext PROVE OfflineInv'
  OBVIOUS
<1> USE DEF OfflineInv
<1>0. Releases \subseteq Nat /\ 0 \notin Releases
  BY ReleaseFacts
<1>1. CASE Deploy
  <2>1. site \in Nat /\ site' \in Releases /\ site' = site + 1
    BY <1>1, ReleaseFacts DEF Deploy, OfflineTypes
  <2>2. UNCHANGED <<active, coming, fetched, stored, caches, held, late>>
    BY <1>1 DEF Deploy, workerVars
  <2>3. active \in 0..site' /\ coming \in 0..site'
    BY <2>1 DEF OfflineTypes
  <2>4. QED
    BY <2>1, <2>2, <2>3
       DEF OfflineTypes, ControlIsOldest, InstallsBeside, LateIsOfAWorker, Whole, Fresh
<1>2. CASE GoOffline \/ GoOnline
  BY <1>2 DEF GoOffline, GoOnline, workerVars,
     OfflineTypes, ControlIsOldest, InstallsBeside, LateIsOfAWorker, Whole, Fresh
<1>3. CASE Register
  <2>1. /\ coming' = site /\ fetched' = NoFiles /\ caches' = Opened(CacheOf[site])
        /\ active # 0 => ScriptOf[active] # ScriptOf[site]
        /\ coming = 0 /\ UNCHANGED <<site, active, stored, held, late>>
    BY <1>3 DEF Register
  <2>2. site \in Nat /\ CacheOf[site] \in CacheNames
    BY <1>0, ReleaseFacts DEF OfflineTypes
  <2>3. OfflineTypes'
    BY <2>1, <2>2, OpenedKeepsFirst DEF OfflineTypes
  <2>4. ControlIsOldest'
    BY <2>1, <2>2, OpenedKeepsFirst DEF OfflineTypes, ControlIsOldest, Whole, Fresh
  <2>5. InstallsBeside'
    BY <2>1, <2>2 DEF OfflineTypes, InstallsBeside, NoFiles
  <2>6. LateIsOfAWorker'
    BY <2>1 DEF LateIsOfAWorker, Fresh
  <2>7. QED
    BY <2>3, <2>4, <2>5, <2>6
<1>4. CASE Install
  <2>1. /\ coming # 0 /\ coming \in Releases /\ DOMAIN fetched = SHELL /\ stored' = TRUE
        /\ UNCHANGED <<site, active, coming, fetched, caches, late>>
    BY <1>0, <1>4, ReleaseFacts DEF Install, OfflineTypes
  <2> DEFINE files == [f \in SiteFiles |-> IF f \in SHELL THEN Good(fetched[f])
                                           ELSE held[CacheOf[coming]][f]]
  <2>2. CacheOf[coming] \in CacheNames
    BY <2>1, ReleaseFacts
  <2>3. /\ files \in [SiteFiles -> Responses \cup {NoResponse}]
        /\ \A f \in SHELL : Fresh(CacheOf[coming], files[f])
    <3>1. \A f \in SHELL : /\ Good(fetched[f]) \in Responses
                          /\ Fresh(CacheOf[coming], Good(fetched[f]))
      <4>1. \A f \in SHELL : Good(fetched[f]) \in Responses /\ Good(fetched[f]).from >= coming
        BY <2>1 DEF InstallsBeside, Good, Responses
      <4>2. QED
        BY <2>1, <4>1, FreshFromRelease
    <3>2. held[CacheOf[coming]] \in [SiteFiles -> Responses \cup {NoResponse}]
      BY <2>2 DEF OfflineTypes
    <3>3. QED
      BY <3>1, <3>2, ReleaseFacts
  <2>4. held' = [held EXCEPT ![CacheOf[coming]] = files]
    BY <1>4 DEF Install
  <2> HIDE DEF files
  <2>5. OfflineTypes'
    BY <2>1, <2>3, <2>4 DEF OfflineTypes
  <2>6. Whole(CacheOf[coming])'
    <3>1. held'[CacheOf[coming]] = files
      BY <2>2, <2>4 DEF OfflineTypes
    <3>2. QED
      BY <2>1, <2>3, <3>1 DEF Whole, Fresh
  <2>7. ControlIsOldest'
    <3> SUFFICES ASSUME active # 0 PROVE ControlIsOldest'
      BY <2>1 DEF ControlIsOldest
    <3>1. active \in Releases /\ CacheOf[active] \in CacheNames
      BY <1>0, ReleaseFacts DEF OfflineTypes
    <3>2. Whole(CacheOf[active])'
      <4>1. CASE CacheOf[active] = CacheOf[coming]
        BY <2>1, <2>6, <4>1 DEF Whole
      <4>2. CASE CacheOf[active] # CacheOf[coming]
        <5>1. held'[CacheOf[active]] = held[CacheOf[active]]
          BY <2>4, <3>1, <4>2 DEF OfflineTypes
        <5>2. QED
          BY <2>1, <5>1 DEF ControlIsOldest, Whole, Fresh
      <4>3. QED
        BY <4>1, <4>2
    <3>3. QED
      BY <2>1, <3>2 DEF ControlIsOldest
  <2>8. InstallsBeside' /\ LateIsOfAWorker'
    BY <2>1, <2>6 DEF InstallsBeside, LateIsOfAWorker, Fresh
  <2>9. QED
    BY <2>5, <2>7, <2>8
<1>5. CASE Activate
  <2>1. /\ coming # 0 /\ stored /\ active' = coming /\ coming' = 0 /\ fetched' = NoFiles
        /\ stored' = FALSE /\ caches' = <<CacheOf[coming]>>
        /\ held' = [n \in CacheNames |-> IF n = CacheOf[coming] THEN held[n] ELSE Nothing]
        /\ UNCHANGED <<site, late>>
    BY <1>5 DEF Activate
  <2>2. coming \in Releases /\ CacheOf[coming] \in CacheNames /\ coming \in Nat
    BY <1>0, <2>1, ReleaseFacts DEF OfflineTypes
  <2>3. OfflineTypes'
    <3>1. held' \in [CacheNames -> [SiteFiles -> Responses \cup {NoResponse}]]
      BY <2>1 DEF OfflineTypes, Nothing
    <3>2. <<CacheOf[coming]>> \in Seq(CacheNames)
      BY <2>2
    <3>3. active' \in 0..site' /\ coming' \in 0..site'
      BY <2>1, <1>0 DEF OfflineTypes
    <3>4. QED
      BY <2>1, <3>1, <3>2, <3>3 DEF OfflineTypes
  <2>4. ControlIsOldest'
    <3>1. held'[CacheOf[coming]] = held[CacheOf[coming]]
      BY <2>1, <2>2
    <3>2. QED
      BY <2>1, <3>1 DEF ControlIsOldest, InstallsBeside, Whole, Fresh
  <2>5. InstallsBeside'
    BY <2>1 DEF InstallsBeside, NoFiles
  <2>6. LateIsOfAWorker'
    <3> SUFFICES ASSUME NEW p \in late
                 PROVE  \E r \in 1..coming : p.cache = CacheOf[r]
      BY <2>1 DEF LateIsOfAWorker, Fresh
    <3>1. PICK r \in 1..active : p.cache = CacheOf[r]
      BY DEF LateIsOfAWorker
    <3>2. active \in Nat /\ r \in Nat /\ 1 <= r /\ r <= active
      BY <1>0, <3>1 DEF OfflineTypes
    <3>3. active < coming
      BY <2>1, <3>2 DEF InstallsBeside
    <3>4. r \in 1..coming
      BY <2>2, <3>2, <3>3
    <3>5. QED
      BY <3>1, <3>4
  <2>7. QED
    BY <2>3, <2>4, <2>5, <2>6
<1>6. CASE \E f \in SHELL : FetchForShell(f)
  <2>1. PICK f \in SHELL : FetchForShell(f)
    BY <1>6
  <2>2. /\ ~stored /\ UNCHANGED <<site, active, coming, stored, caches, held, late>>
        /\ fetched' = [g \in DOMAIN fetched \cup {f} |-> IF g = f THEN site ELSE fetched[g]]
    BY <2>1 DEF FetchForShell
  <2>3. \A g \in DOMAIN fetched' : fetched'[g] \in Releases /\ fetched'[g] >= coming
    <3>1. site \in Releases /\ site >= coming
      BY <1>0 DEF OfflineTypes
    <3>2. QED
      BY <2>2, <3>1 DEF InstallsBeside
  <2>4. QED
    BY <2>2, <2>3
       DEF OfflineTypes, ControlIsOldest, InstallsBeside, LateIsOfAWorker, Whole, Fresh
<1>7. CASE \E f \in SHELL : InstallFails(f)
  <2>1. PICK f \in SHELL : InstallFails(f)
    BY <1>7
  <2>2. /\ ~stored /\ coming' = 0 /\ fetched' = NoFiles
        /\ UNCHANGED <<site, active, stored, caches, held, late>>
    BY <2>1 DEF InstallFails
  <2>3. OfflineTypes'
    BY <1>0, <2>2 DEF OfflineTypes
  <2>4. QED
    BY <2>2, <2>3 DEF ControlIsOldest, InstallsBeside, LateIsOfAWorker, Whole, Fresh,
                        NoFiles
<1>8. CASE \E f \in SiteFiles : Fetch(f, Good(site)) \/ Fetch(f, Bad(site))
  <2>1. PICK f \in SiteFiles, response \in {Good(site), Bad(site)} : Fetch(f, response)
    BY <1>8
  <2>2. response \in Responses /\ response.from = site
    <3>1. site \in Releases
      BY DEF OfflineTypes
    <3>2. CASE response = Good(site)
      BY <3>1, <3>2 DEF Good, Responses
    <3>3. CASE response = Bad(site)
      BY <3>1, <3>3 DEF Bad, Responses
    <3>4. QED
      BY <2>1, <3>2, <3>3
  <2> DEFINE p == [cache |-> CacheOf[active], file |-> f, response |-> response]
  <2>3. /\ active # 0 /\ late' = late \cup {p}
        /\ UNCHANGED <<site, active, coming, fetched, stored, caches, held>>
    BY <2>1 DEF Fetch, workerVars
  <2>4. active \in Releases /\ active \in Nat /\ site >= active
    BY <1>0, <2>3, ReleaseFacts DEF OfflineTypes
  <2>5. /\ p \in [cache : CacheNames, file : SiteFiles, response : Responses]
        /\ p.cache = CacheOf[active] /\ Fresh(p.cache, p.response)
    BY <2>2, <2>4, ReleaseFacts, FreshFromRelease
  <2> HIDE DEF p
  <2>6. OfflineTypes'
    BY <2>3, <2>5 DEF OfflineTypes
  <2>7. LateIsOfAWorker'
    <3> SUFFICES ASSUME NEW q \in late'
                 PROVE  /\ \E r \in 1..active : q.cache = CacheOf[r]
                        /\ Fresh(q.cache, q.response)
      BY <2>3 DEF LateIsOfAWorker, Fresh
    <3>1. CASE q \in late
      BY <3>1 DEF LateIsOfAWorker
    <3>2. CASE q = p
      <4>1. active \in 1..active
        BY <1>0, <2>3, <2>4
      <4>2. QED
        BY <2>5, <3>2, <4>1
    <3>3. QED
      BY <2>3, <3>1, <3>2
  <2>8. QED
    BY <2>3, <2>6, <2>7 DEF ControlIsOldest, InstallsBeside, Whole, Fresh
<1>9. CASE \E p \in late : Put(p)
  <2>1. PICK p \in late : Put(p)
    BY <1>9
  <2>2. /\ late' = late \ {p} /\ caches' = Opened(p.cache)
        /\ held' = [held EXCEPT ![p.cache][p.file] = p.response]
        /\ UNCHANGED <<site, active, coming, fetched, stored>>
    BY <2>1 DEF Put, workerVars
  <2>3. /\ p.cache \in CacheNames /\ p.file \in SiteFiles /\ p.response \in Responses
        /\ Fresh(p.cache, p.response)
    BY DEF OfflineTypes, LateIsOfAWorker
  <2>4. \A cache \in CacheNames :
          Whole(cache) => \A f \in SHELL : Fresh(cache, held'[cache][f])
    <3>1. ASSUME NEW cache \in CacheNames, Whole(cache) PROVE Whole(cache)'
      BY <2>2, <2>3, <3>1, PutKeepsWhole
    <3>2. QED
      BY <3>1 DEF Whole, Fresh
  <2>5. active # 0 => active \in Releases /\ CacheOf[active] \in CacheNames
    BY <1>0, ReleaseFacts DEF OfflineTypes
  <2>6. OfflineTypes'
    BY <2>2, <2>3, OpenedKeepsFirst DEF OfflineTypes
  <2>7. ControlIsOldest'
    <3> SUFFICES ASSUME active # 0 PROVE ControlIsOldest'
      BY <2>2 DEF ControlIsOldest
    <3>1. Whole(CacheOf[active])'
      BY <2>2, <2>4, <2>5 DEF ControlIsOldest, Whole, Fresh
    <3>2. /\ Len(caches') >= 1 /\ caches'[1] = CacheOf[active]
      BY <2>2, <2>3, OpenedKeepsFirst DEF OfflineTypes, ControlIsOldest
    <3>3. QED
      BY <2>2, <3>1, <3>2 DEF ControlIsOldest
  <2>8. InstallsBeside'
    <3>1. ASSUME stored PROVE Whole(CacheOf[coming])'
      <4>1. CacheOf[coming] \in CacheNames /\ Whole(CacheOf[coming])
        BY <1>0, <3>1, ReleaseFacts DEF InstallsBeside, OfflineTypes
      <4>2. QED
        BY <2>2, <2>4, <4>1 DEF Whole, Fresh
    <3>2. QED
      BY <2>2, <3>1 DEF InstallsBeside
  <2>9. LateIsOfAWorker'
    BY <2>2 DEF LateIsOfAWorker, Fresh
  <2>10. QED
    BY <2>6, <2>7, <2>8, <2>9
<1>10. CASE \E p \in late : Lose(p)
  BY <1>10 DEF Lose, workerVars,
     OfflineTypes, ControlIsOldest, InstallsBeside, LateIsOfAWorker, Whole, Fresh
<1>11. QED
  BY <1>1, <1>2, <1>3, <1>4, <1>5, <1>6, <1>7, <1>8, <1>9, <1>10 DEF OfflineNext

LEMMA OfflineInductive == OfflineSpec => []OfflineInv
<1>1. OfflineInv /\ UNCHANGED offlineVars => OfflineInv'
  BY DEF offlineVars, OfflineInv, OfflineTypes, ControlIsOldest, InstallsBeside,
         LateIsOfAWorker, Whole, Fresh
<1>2. QED
  BY <1>1, OfflineInitInv, OfflineStep, PTL DEF OfflineSpec

(* A file that the oldest cache has is answered from it. *)
LEMMA OldestAnswers ==
  ASSUME caches \in Seq(CacheNames), Len(caches) >= 1,
         NEW f \in SiteFiles, held[caches[1]][f] # NoResponse
  PROVE  Match(f) = held[caches[1]][f]
<1> DEFINE having == {i \in DOMAIN caches : held[caches[i]][f] # NoResponse}
<1>1. Len(caches) \in Nat /\ DOMAIN caches = 1..Len(caches)
  OBVIOUS
<1>2. 1 \in having /\ having \subseteq 1..Len(caches)
  BY <1>1
<1>3. \A x \in having : (\A y \in having : x <= y) => x = 1
  BY <1>1, <1>2
<1>4. \A y \in having : 1 <= y
  BY <1>1, <1>2
<1> HIDE DEF having
<1>5. Min(having) = 1
  BY <1>2, <1>3, <1>4 DEF Min
<1>6. QED
  BY <1>2, <1>5 DEF Match, having

(* Without a network, the app has every file of its shell, and none from     *)
(* before the first release whose cache has the name of the worker's.        *)
THEOREM AppAnswersOffline == OfflineSpec => []ShellIsAnswered
<1>1. OfflineInv => ShellIsAnswered
  <2> SUFFICES ASSUME OfflineInv, active # 0, NEW f \in SHELL
               PROVE  Match(f) # NoResponse /\ Fresh(CacheOf[active], Match(f))
    BY DEF ShellIsAnswered, Fresh
  <2>1. /\ Len(caches) >= 1 /\ caches \in Seq(CacheNames)
        /\ Fresh(CacheOf[active], held[caches[1]][f])
    BY DEF OfflineInv, OfflineTypes, ControlIsOldest, Whole
  <2>2. held[caches[1]][f] # NoResponse
    BY <2>1, OfflineAssumption DEF OfflineAssumption, Fresh
  <2>3. Match(f) = held[caches[1]][f]
    BY <2>1, <2>2, OldestAnswers, ReleaseFacts
  <2>4. QED
    BY <2>1, <2>2, <2>3
<1>2. QED
  BY <1>1, OfflineInductive, PTL

=============================================================================
