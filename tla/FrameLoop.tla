----------------------------- MODULE FrameLoop -----------------------------
(***************************************************************************)
(* The render loop and the transport controls of the runtime                *)
(* (runtime/index.html), composed with the core they drive (Scheduler).     *)
(*                                                                         *)
(* JavaScript is single threaded: a handler or a frame runs to its end      *)
(* before another starts.  `phase' says which one is in progress and where; *)
(* every call into the core is a Scheduler action of its own, taken while   *)
(* the handler waits for it.  Wall-clock time is counted in 1/Den of an     *)
(* instruction cycle, so that cycleBudget keeps its fraction.               *)
(***************************************************************************)
EXTENDS Scheduler

CONSTANTS
  SUBSTEPS,    \* calls a frame is cut into (64 in the code)
  WantCap,     \* most cycles one frame asks for (2000000 in the code)
  Den,         \* ticks of wall-clock time in one instruction cycle
  FrameTimes,  \* wall-clock ticks that may pass between two frames
  StepBursts   \* the N of the Step buttons (1, 10, 100 in the code)

ASSUME FrameAssumption ==
  /\ SUBSTEPS \in Nat \ {0}
  /\ WantCap \in Nat
  /\ Den \in Nat \ {0}
  /\ FrameTimes \subseteq Nat
  /\ StepBursts \subseteq Nat \ {0}

VARIABLES
  running,     \* the simulation plays
  breakSet,    \* the breakpoints the program list shows
  cycleBudget, \* wall-clock time not yet turned into cycles, in 1/Den
  hexLoaded,   \* the play and stop buttons are enabled
  phase,       \* the handler in progress and its place, "idle" if none
  want, per, left, ran, brk,   \* locals of frame() and of stepN()
  (* history *)
  frameRan,    \* cycles the core executed in this frame
  wanted,      \* cycles the frames asked for since the last fresh start
  wallTime,    \* wall-clock time turned into cycles since then, in 1/Den
  excused      \* since then: a breakpoint, a failure, a single step or a cap

locals   == <<want, per, left, ran, brk>>
account  == <<frameRan, wanted, wallTime, excused>>
controls == <<running, breakSet, cycleBudget, hexLoaded>>
frameVars == <<controls, phase, locals, account>>
allVars  == <<vars, frameVars>>

NoLocals == /\ want' = 0 /\ per' = 0 /\ left' = 0 /\ ran' = 0 /\ brk' = FALSE

(* History is kept from a fresh start (reset, load) until something happens  *)
(* after which frames and clock need not agree: then it is closed.          *)
AccountClosed ==
  /\ excused' = TRUE
  /\ frameRan' = 0 /\ wanted' = 0 /\ wallTime' = 0

FreshAccount ==
  /\ excused' = FALSE
  /\ frameRan' = 0 /\ wanted' = 0 /\ wallTime' = cycleBudget

Least(a, b) == IF a < b THEN a ELSE b
Most(a, b)  == IF a > b THEN a ELSE b

FrameInit ==
  /\ Init
  /\ running = FALSE /\ breakSet = {} /\ cycleBudget = 0 /\ hexLoaded = FALSE
  /\ phase = "idle"
  /\ want = 0 /\ per = 0 /\ left = 0 /\ ran = 0 /\ brk = FALSE
  /\ frameRan = 0 /\ wanted = 0 /\ wallTime = 0 /\ excused = FALSE

HandlerFree == phase = "idle" /\ mode = "idle"

----------------------------------------------------------------------------
(* frame()                                                                  *)

(* Whole cycles in a wall-clock budget, and the fraction that is carried. *)
Whole(b) == b \div Den

(* Mutant: the fraction is dropped. *)
RestDropped(b) == 0

Rest(b) == b - Den * Whole(b)

(* dt of wall-clock time has passed. The bound leaves room for the frame:   *)
(* it never asks for more than twice `want'.                                *)
FrameBegin(dt) ==
  LET budget == cycleBudget + dt
      w      == Least(Whole(budget), WantCap)
  IN /\ HandlerFree /\ running
     /\ Most(target, cycles) + 2 * w <= CycleBound
     /\ cycleBudget' = Rest(budget)
     /\ IF excused \/ w < Whole(budget)
        THEN AccountClosed
        ELSE /\ wallTime' = wallTime + dt
             /\ wanted' = wanted + w
             /\ frameRan' = 0
             /\ UNCHANGED excused
     /\ IF w = 0
        THEN UNCHANGED <<phase, locals>>
        ELSE /\ phase' = "sub"
             /\ want' = w
             /\ left' = Least(SUBSTEPS, w)
             /\ per' = Most(1, w \div Least(SUBSTEPS, w))
             /\ ran' = 0 /\ brk' = FALSE
     /\ UNCHANGED <<vars, running, breakSet, hexLoaded>>

(* One call of the sub-step loop ... *)
SubCall ==
  /\ phase = "sub" /\ mode = "idle" /\ left > 0 /\ ~brk
  /\ RunCycles(per)
  /\ phase' = "subRet"
  /\ UNCHANGED <<controls, locals, account>>

(* ... the core at work ... *)
CoreLoop ==
  /\ Loop
  /\ IF excused \/ outcome' \in {"break", "err"}
     THEN AccountClosed
     ELSE /\ frameRan' = frameRan + (cycles' - cycles)
          /\ UNCHANGED <<wanted, wallTime, excused>>
  /\ UNCHANGED <<controls, phase, locals>>

(* ... and its return. *)
SubReturn ==
  /\ phase = "subRet" /\ mode = "idle"
  /\ ran' = ran + retval
  /\ brk' = breakHit
  /\ left' = left - 1
  /\ phase' = "sub"
  /\ UNCHANGED <<vars, controls, want, per, account>>

SubLoopOver == phase = "sub" /\ mode = "idle" /\ (left = 0 \/ brk)

(* The top-up call for the cycles the sub-steps left over. *)
(* Mutant: the whole request again. *)
TopUpAll == want

TopUpAmount == want - ran

TopUpCall ==
  /\ SubLoopOver /\ ~brk /\ ran < want
  /\ RunCycles(TopUpAmount)
  /\ phase' = "topRet"
  /\ UNCHANGED <<controls, locals, account>>

(* Mutant: the top-up is repeated until the request is met. *)
TopUpReturnRepeats ==
  /\ phase = "topRet" /\ mode = "idle"
  /\ ran' = ran + retval
  /\ brk' = breakHit
  /\ phase' = "sub"
  /\ UNCHANGED <<vars, controls, want, per, left, account>>

TopUpReturn ==
  /\ phase = "topRet" /\ mode = "idle"
  /\ brk' = breakHit
  /\ phase' = "end"
  /\ UNCHANGED <<vars, controls, want, per, left, ran, account>>

NoTopUp ==
  /\ SubLoopOver /\ (brk \/ ran >= want)
  /\ phase' = "end"
  /\ UNCHANGED <<vars, controls, locals, account>>

(* Mutant: the simulation plays on. *)
FrameEndPlaysOn ==
  /\ phase = "end"
  /\ phase' = "idle"
  /\ NoLocals
  /\ UNCHANGED <<vars, running, breakSet, cycleBudget, hexLoaded, account>>

(* A frame that hit a breakpoint pauses the simulation. *)
FrameEnd ==
  /\ phase = "end"
  /\ running' = (running /\ ~brk)
  /\ phase' = "idle"
  /\ NoLocals
  /\ UNCHANGED <<vars, breakSet, cycleBudget, hexLoaded, account>>

----------------------------------------------------------------------------
(* Transport controls and debugger                                          *)

(* Mutant: play() does not step off a breakpoint. *)
PlayAtOnce ==
  /\ HandlerFree /\ hexLoaded /\ ~running
  /\ running' = TRUE
  /\ UNCHANGED <<vars, account, breakSet, cycleBudget, hexLoaded, phase, locals>>

(* play(): step off a breakpoint first, then run. *)
Play ==
  /\ HandlerFree /\ hexLoaded /\ ~running
  /\ running' = TRUE
  /\ IF pc \in breakSet
     THEN /\ \E c \in StepCosts : StepOne(c)
          /\ AccountClosed
     ELSE UNCHANGED <<vars, account>>
  /\ UNCHANGED <<breakSet, cycleBudget, hexLoaded, phase, locals>>

Pause ==
  /\ HandlerFree /\ hexLoaded /\ running
  /\ running' = FALSE
  /\ UNCHANGED <<vars, breakSet, cycleBudget, hexLoaded, phase, locals, account>>

(* stop() *)
Stop ==
  /\ HandlerFree /\ hexLoaded
  /\ Reset
  /\ running' = FALSE
  /\ FreshAccount
  /\ UNCHANGED <<breakSet, cycleBudget, hexLoaded, phase, locals>>

(* loadHex of a well-formed file and afterHex: the core is reset, the       *)
(* simulation starts, and then both breakpoint sets are emptied.  A file    *)
(* that does not parse changes nothing.                                     *)
LoadHex ==
  /\ HandlerFree
  /\ Reset
  /\ hexLoaded' = TRUE
  /\ running' = TRUE
  /\ phase' = "hexClear"
  /\ FreshAccount
  /\ UNCHANGED <<breakSet, cycleBudget, locals>>

(* Mutant: only the page forgets its breakpoints. *)
AfterHexClearPage ==
  /\ phase = "hexClear"
  /\ breakSet' = {}
  /\ phase' = "idle"
  /\ UNCHANGED <<vars, running, cycleBudget, hexLoaded, locals, account>>

AfterHexClear ==
  /\ phase = "hexClear"
  /\ ClearBreaks
  /\ breakSet' = {}
  /\ phase' = "idle"
  /\ UNCHANGED <<running, cycleBudget, hexLoaded, locals, account>>

(* stepN(n): n single steps, fewer when a breakpoint is reached. *)
StepBegin(n) ==
  /\ HandlerFree
  /\ cycles + MaxStepCost * n <= CycleBound
  /\ running' = FALSE
  /\ left' = n
  /\ phase' = "step"
  /\ AccountClosed
  /\ UNCHANGED <<vars, breakSet, cycleBudget, hexLoaded, want, per, ran, brk>>

StepPass ==
  /\ phase = "step" /\ left > 0
  /\ \/ \E c \in StepCosts : StepOne(c)
     \/ pc \notin Flash /\ UNCHANGED vars
  /\ left' = IF pc' \in breakSet THEN 0 ELSE left - 1
  /\ UNCHANGED <<controls, phase, want, per, ran, brk, account>>

StepEnd ==
  /\ phase = "step" /\ left = 0
  /\ phase' = "idle"
  /\ UNCHANGED <<vars, controls, locals, account>>

(* A click on a line of the program list. *)
ToggleBreak(a) ==
  /\ HandlerFree
  /\ IF a \in breakSet
     THEN breakSet' = breakSet \ {a} /\ ClearBreak(a)
     ELSE breakSet' = breakSet \cup {a} /\ SetBreak(a)
  /\ UNCHANGED <<running, cycleBudget, hexLoaded, phase, locals, account>>

(* The core (.wasm) is loaded again: a new Core, without breakpoints; the   *)
(* page keeps its own state.                                                *)
ReloadCore ==
  /\ HandlerFree
  /\ cycles' = 0 /\ pc' = ResetPc /\ breaks' = {} /\ breakHit' = FALSE
  /\ target' = 0 /\ retval' = 0
  /\ ask' = 0 /\ outcome' = "none" /\ executed' = 0 /\ granted' = 0
  /\ stray' = 0
  /\ FreshAccount
  /\ UNCHANGED <<mode, start, controls, phase, locals>>

FrameStep ==
  \/ SubCall \/ CoreLoop \/ SubReturn
  \/ TopUpCall \/ TopUpReturn \/ NoTopUp \/ FrameEnd
  \/ AfterHexClear \/ StepPass \/ StepEnd

User ==
  \/ Play \/ Pause \/ Stop \/ LoadHex \/ ReloadCore
  \/ \E n \in StepBursts : StepBegin(n)
  \/ \E a \in Flash : ToggleBreak(a)

FrameNext == (\E dt \in FrameTimes : FrameBegin(dt)) \/ FrameStep \/ User

FrameSpec == FrameInit /\ [][FrameNext]_allVars

(* A handler that has begun is straight-line code and runs to its end. *)
FairFrameSpec == FrameSpec /\ WF_allVars(FrameStep)

----------------------------------------------------------------------------
(* Properties                                                               *)

(* A frame executes what it asked for, within one instruction either way,   *)
(* whatever was carried into it and however it was cut into calls - unless  *)
(* it stopped at a breakpoint, the PC left the flash, or single steps left  *)
(* the clock ahead of the target.                                           *)
FrameRunsWhatItWants ==
  phase = "end" /\ ~excused /\ stray = 0 =>
    frameRan \in (want - Slack)..(want + Slack)

(* Wall-clock time is neither lost nor invented on its way to cycles:       *)
(* fractions are carried from frame to frame, whatever starts and stops lie *)
(* between them.                                                            *)
FractionsCarried == ~excused => wallTime = Den * wanted + cycleBudget

(* The core never stops at a line the program list does not mark.           *)
NoHiddenBreakpoint ==
  phase # "hexClear" => breaks \subseteq breakSet

(* A frame that ends at a breakpoint leaves the simulation paused in front  *)
(* of the marked instruction, with no unspent budget in the core.           *)
PausesAtBreakpoint ==
  [][ phase = "end" /\ brk =>
        /\ ~running'
        /\ pc' \in breaks
        /\ target' = cycles' ]_allVars

(* scheduler.rs:43: the runtime steps once past a breakpoint on resume, so  *)
(* pressing play in front of one always executes something.                 *)
ResumeMakesProgress ==
  [][ ~running /\ running' /\ phase' = "idle" /\ pc \in breaks =>
        cycles' > cycles ]_allVars

(* Every frame, load and step burst comes to its end. *)
HandlersReturn == phase # "idle" ~> phase = "idle"

(* scheduler.rs:6 "simulated time never drifts", across frames: however     *)
(* many frames were rendered, the clock is within one instruction of what   *)
(* they asked for in all.                                                   *)
NeverDriftsAcrossFrames ==
  phase = "idle" /\ ~excused /\ stray = 0 =>
    cycles \in (wanted - Slack)..(wanted + Slack)

=============================================================================
