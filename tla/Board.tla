------------------------------- MODULE Board -------------------------------
(***************************************************************************)
(* The page's side of a running board (runtime/index.html): its buttons,    *)
(* the pointers that press them, the levels they drive on the chip's pins,  *)
(* and the ways a program and the editor's text get where they are.  Every  *)
(* handler is one step; the two that read a file go on when it has been     *)
(* read, with other handlers in between.                                    *)
(***************************************************************************)
EXTENDS Naturals, FiniteSets

CONSTANTS
  Pins, Labels,   \* pins buttons may be on, and what tells them apart there
  Labs,           \* the boards and examples of the drop-down list
  ButtonsOf,      \* lab -> its buttons
  HasHex, HasAsm, \* labs that bring a program, that bring its source
  Files,          \* .hex files a student has, and their contents
  Corrupt,        \* the files, and labs by their .hex, that np_load_hex rejects
  Pointers,       \* pointer ids: the mouse, fingers
  NoButton, NoProgram, Draft

Buttons == [label : Labels, pin : Pins, activeLow : BOOLEAN]

(* The source of an example comes with its program, which is sound: only the *)
(* built-in examples have one (index.html:1062-1073).                       *)
ASSUME BoardAssumption ==
  /\ \A lab \in Labs : ButtonsOf[lab] \subseteq Buttons
  /\ NoButton \notin Buttons
  /\ HasAsm \subseteq HasHex \ Corrupt /\ HasHex \subseteq Labs
  /\ Labs \cap {NoProgram, Draft} = {}

VARIABLES
  coreUp,       \* X # null
  buttons,      \* the buttons of `components'
  pressed,      \* those that are drawn pressed
  pressedComp,  \* the one the last pointer went down on, of this or an old board
  pointers,     \* the keys of the map `pointers'
  level,        \* pin -> level driven from outside (ext_a, ext_b of the core)
  program,      \* what is in flash
  editor,       \* whose source the editor shows: a lab, Draft or NoProgram
  canStop,      \* stopBtn is enabled
  chosen,       \* files that are being read
  wired         \* history: the buttons that have driven their pin since the
                \* board was built and the core was loaded

boardVars == <<coreUp, buttons, pressed, pressedComp, pointers, level, program,
               editor, canStop, chosen, wired>>
handVars == <<pressedComp, pointers>>

IdleLevel(b) == IF b.activeLow THEN 1 ELSE 0
ActiveLevel(b) == 1 - IdleLevel(b)

(* press(v) and idle() drive the pin if there is a core. *)
Driven(b, v) == IF coreUp THEN [level EXCEPT ![b.pin] = v] ELSE level

(* idle() of every button of bs, the other pins as in lv.  Where buttons of  *)
(* both polarities share a pin the last of the board wins: any of them here. *)
Idled(bs, lv) ==
  [p \in Pins |-> IF \E b \in bs : b.pin = p
                  THEN IdleLevel(CHOOSE b \in bs : b.pin = p) ELSE lv[p]]

(* np_reset: the core forgets what is driven. *)
Floating == [p \in Pins |-> 0]

(* Mutant: the reset comes after the idle levels. *)
ResetAfterIdle(bs) == Floating
(* np_reset(), then idle() of every component. *)
ResetThenIdle(bs) == Idled(bs, Floating)

BoardInit ==
  /\ coreUp = FALSE
  /\ buttons = {} /\ pressed = {}            \* LED_DIAGRAM
  /\ pressedComp = NoButton /\ pointers = {}
  /\ level = Floating
  /\ program = NoProgram
  /\ editor \in {Draft, NoProgram} \cup HasAsm     \* np_src of an earlier visit
  /\ canStop = FALSE /\ chosen = {} /\ wired = {}

----------------------------------------------------------------------------
(* afterHex of a sound file: what was loaded is reset and runs. *)
Loaded(bs, p) ==
  /\ level' = ResetThenIdle(bs) /\ wired' = bs
  /\ program' = p /\ canStop' = TRUE

(* afterHex of one that np_load_hex rejects, and of none. *)
NotLoaded == UNCHANGED <<level, wired, program, canStop>>

(* The embedded core is instantiated once the page is there; where none is   *)
(* embedded, a .wasm file is, and another one later.  Nobody tells the new   *)
(* core what the board's buttons drive.                                     *)
CoreReady ==
  /\ coreUp' = TRUE /\ level' = Floating /\ program' = NoProgram /\ wired' = {}
  /\ UNCHANGED <<buttons, pressed, editor, canStop, chosen>> /\ UNCHANGED handVars

(* The lab's board; then its source, or none if the program has none; then   *)
(* its program, which resets the core, or idle buttons only.  If the program *)
(* is rejected the buttons of the new board have driven nothing.             *)
SelectLab(lab) ==
  /\ coreUp
  /\ buttons' = ButtonsOf[lab] /\ pressed' = {}
  /\ editor' = IF lab \in HasAsm THEN lab
               ELSE IF lab \in HasHex THEN NoProgram ELSE editor
  /\ \/ lab \in HasHex \ Corrupt /\ Loaded(ButtonsOf[lab], lab)
     \/ lab \in HasHex \cap Corrupt /\ wired' = {} /\ UNCHANGED <<level, program, canStop>>
     \/ /\ lab \notin HasHex
        /\ level' = Idled(ButtonsOf[lab], level) /\ wired' = ButtonsOf[lab]
        /\ UNCHANGED <<program, canStop>>
  /\ UNCHANGED <<coreUp, chosen>> /\ UNCHANGED handVars

(* hexFile, drop: up to the await of f.text(). *)
ChooseFile(f) ==
  /\ coreUp /\ chosen' = chosen \cup {f}
  /\ NotLoaded /\ UNCHANGED <<coreUp, buttons, pressed, editor>> /\ UNCHANGED handVars

(* Mutant: the editor is left alone when the file has been read. *)
FileReadNoClear(f) ==
  /\ f \in chosen /\ chosen' = chosen \ {f}
  /\ IF f \in Corrupt THEN NotLoaded ELSE Loaded(buttons, f)
  /\ UNCHANGED <<coreUp, buttons, pressed, editor>> /\ UNCHANGED handVars

(* loadHex, afterHex and, if that went well, clearEditorSource.  Buttons that *)
(* are held stay drawn so although their pins are driven idle.               *)
FileRead(f) ==
  /\ f \in chosen /\ chosen' = chosen \ {f}
  /\ IF f \in Corrupt THEN NotLoaded /\ UNCHANGED editor
     ELSE Loaded(buttons, f) /\ editor' = NoProgram
  /\ UNCHANGED <<coreUp, buttons, pressed>> /\ UNCHANGED handVars

(* Typing, opening an .asm file, emptying the editor. *)
Edit ==
  /\ editor' \in {Draft, NoProgram}
  /\ NotLoaded /\ UNCHANGED <<coreUp, buttons, pressed, chosen>> /\ UNCHANGED handVars

(* edBuild: the editor's text becomes the program; one that does not         *)
(* assemble, or an empty one, changes nothing.                               *)
Build ==
  /\ coreUp /\ editor # NoProgram /\ Loaded(buttons, editor)
  /\ UNCHANGED <<coreUp, buttons, pressed, editor, chosen>> /\ UNCHANGED handVars

(* stop(), once a program has been there: power off, buttons idle and drawn  *)
(* so.                                                                      *)
PowerOff ==
  /\ coreUp /\ canStop
  /\ level' = ResetThenIdle(buttons) /\ pressed' = {} /\ wired' = buttons
  /\ UNCHANGED <<coreUp, buttons, program, editor, canStop, chosen>> /\ UNCHANGED handVars

----------------------------------------------------------------------------
(* Mutant: only the button under the pointer is let go. *)
ReleaseOne ==
  /\ pressed' = pressed \ {pressedComp} /\ pressedComp' = NoButton
  /\ wired' = wired \cup ({pressedComp} \cap buttons)
  /\ level' = IF pressedComp = NoButton THEN level
              ELSE Driven(pressedComp, IdleLevel(pressedComp))

(* releasePresses(): the button the pointer went down on, which may be of a  *)
(* board that is gone, then all of this board's.                             *)
ReleasePresses ==
  /\ pressed' = {} /\ pressedComp' = NoButton
  /\ wired' = IF coreUp THEN buttons ELSE wired
  /\ level' = IF ~coreUp THEN level
              ELSE Idled(buttons, IF pressedComp = NoButton THEN level
                                  ELSE Driven(pressedComp, IdleLevel(pressedComp)))

(* pointerdown on button b, or beside all of them (NoButton). *)
PointerDown(p, b) ==
  /\ pointers' = pointers \cup {p}
  /\ IF Cardinality(pointers') = 2
     THEN ReleasePresses
     ELSE /\ pressedComp' = b
          /\ pressed' = pressed \cup ({b} \ {NoButton})
          /\ wired' = IF coreUp THEN wired \cup ({b} \ {NoButton}) ELSE wired
          /\ level' = IF b = NoButton THEN level ELSE Driven(b, ActiveLevel(b))
  /\ UNCHANGED <<coreUp, buttons, program, editor, canStop, chosen>>

(* pointerup and pointercancel. *)
EndPointer(p) ==
  /\ pointers' = pointers \ {p}
  /\ IF pointers' = {} THEN ReleasePresses
     ELSE UNCHANGED <<pressed, pressedComp, level, wired>>
  /\ UNCHANGED <<coreUp, buttons, program, editor, canStop, chosen>>

BoardNext ==
  \/ CoreReady \/ Edit \/ Build \/ PowerOff
  \/ \E lab \in Labs : SelectLab(lab)
  \/ \E f \in Files : ChooseFile(f) \/ FileRead(f)
  \/ \E p \in Pointers : EndPointer(p) \/ \E b \in buttons \cup {NoButton} : PointerDown(p, b)

BoardSpec == BoardInit /\ [][BoardNext]_boardVars

----------------------------------------------------------------------------
(* The other buttons on b's pin, if any, are of its kind and not pressed. *)
HasItsPin(b) ==
  \A c \in buttons : c.pin = b.pin => c.activeLow = b.activeLow /\ c \notin pressed

(* A button that is not drawn pressed leaves its pin at its idle level,     *)
(* however loads, resets, changes of board and fingers are interleaved: the *)
(* program reads no press that nobody makes.  That is from the first time    *)
(* the button drives its pin, which every load, reset, bare board and        *)
(* release sees to for the whole board; a new core and a lab whose .hex is   *)
(* rejected do not, and until then an active-low button reads as pressed.    *)
ReleasedButtonsAreIdle ==
  \A b \in wired \ pressed : HasItsPin(b) => level[b.pin] = IdleLevel(b)

(* When the last pointer is gone no button of the board is down, one whose  *)
(* pointerup never came and one pressed beside a pinch included.            *)
NoButtonStaysDown ==
  pointers = {} => pressed = {} /\ pressedComp = NoButton

(* "wipe the editor so its stale code can't be mistaken for the loaded      *)
(* program" (index.html:1385): if the editor shows the source of an example *)
(* then no other program is in the chip, in whatever order files are read.  *)
EditorShowsWhatRuns ==
  editor \in Labs => program \in {editor, NoProgram}

=============================================================================
