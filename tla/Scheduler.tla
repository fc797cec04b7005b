----------------------------- MODULE Scheduler -----------------------------
(***************************************************************************)
(* The cycle scheduler of the simulator core: Scheduler (scheduler.rs) and  *)
(* the operations of Core (lib.rs, wasm.rs) that move its clock.            *)
(*                                                                         *)
(* The CPU is abstracted to what the scheduler sees of it: the cycle count, *)
(* the program counter, the breakpoint flags, and that one step costs at    *)
(* least one cycle and leads to any address.  Module Cpu models the step.   *)
(*                                                                         *)
(* run_cycles is a loop; each pass through it is one step here, so that its *)
(* progress and its partial effects are visible.  The core is single        *)
(* threaded: no other operation starts while a run is in progress.          *)
(***************************************************************************)
EXTENDS Integers

CONSTANTS
  Flash,       \* addresses inside the 2K program memory
  Beyond,      \* addresses outside it: step() fails there
  ResetPc,     \* where a power-on reset starts
  StepCosts,   \* cycles one step() may take, interrupt entry included
  MaxStepCost, \* the most it takes: 4, an instruction of two cycles and the
               \* two of an interrupt entry (cpu.rs, INTERRUPT_ENTRY_CYCLES)
  Asks,        \* the n of run_cycles(n)
  CycleBound   \* bound of the model: no operation starts past this count

ASSUME SchedulerAssumption ==
  /\ ResetPc \in Flash
  /\ Flash \cap Beyond = {}
  /\ MaxStepCost \in Nat \ {0}
  /\ StepCosts \subseteq 1..MaxStepCost
  /\ Asks \subseteq Nat
  /\ CycleBound \in Nat

VARIABLES
  cycles,      \* Cpu.cycles: instruction cycles since reset, the master clock
  pc,          \* Cpu.pc
  breaks,      \* Cpu.breaks: the marked program addresses
  breakHit,    \* Cpu.break_hit
  target,      \* Scheduler.target: the absolute cycle target
  mode,        \* "running" while run_cycles is in its loop
  start,       \* local `start' of run_cycles
  retval,      \* what np_run_cycles last returned
  (* history, not in the code *)
  ask,         \* the n of the last run_cycles
  outcome,     \* how it ended: "none", "ok", "break" or "err"
  executed,    \* cycles stepped by it
  granted,     \* sum of all n since reset, less what breakpoints wrote off
  stray        \* cycles run by step_one since reset

cpuVars == <<cycles, pc, breaks, breakHit>>
history == <<ask, outcome, executed, granted, stray>>
vars    == <<cycles, pc, breaks, breakHit, target, mode, start, retval,
             ask, outcome, executed, granted, stray>>

Pcs == Flash \cup Beyond

(* Core::new followed by nothing: pc 0, all counters 0, no breakpoint. *)
Init ==
  /\ cycles = 0 /\ pc = ResetPc /\ breaks = {} /\ breakHit = FALSE
  /\ target = 0 /\ mode = "idle" /\ start = 0 /\ retval = 0
  /\ ask = 0 /\ outcome = "none" /\ executed = 0
  /\ granted = 0 /\ stray = 0

----------------------------------------------------------------------------
(* run_cycles(n)                                                            *)

(* Mutant: break_hit is not cleared when a run begins. *)
RunCyclesKeepsBreakHit(n) ==
  /\ mode = "idle"
  /\ target + n <= CycleBound
  /\ target' = target + n
  /\ start' = cycles
  /\ mode' = "running"
  /\ ask' = n /\ executed' = 0 /\ granted' = granted + n
  /\ UNCHANGED <<cycles, pc, breaks, breakHit, retval, outcome, stray>>

(* Mutant: the target is n cycles from the clock. *)
RunCyclesRelative(n) ==
  /\ mode = "idle"
  /\ target + n <= CycleBound
  /\ breakHit' = FALSE
  /\ target' = cycles + n
  /\ start' = cycles
  /\ mode' = "running"
  /\ ask' = n /\ executed' = 0 /\ granted' = granted + n
  /\ UNCHANGED <<cycles, pc, breaks, retval, outcome, stray>>

RunCycles(n) ==
  /\ mode = "idle"
  /\ target + n <= CycleBound
  /\ breakHit' = FALSE
  /\ target' = target + n
  /\ start' = cycles
  /\ mode' = "running"
  /\ ask' = n /\ executed' = 0 /\ granted' = granted + n
  /\ UNCHANGED <<cycles, pc, breaks, retval, outcome, stray>>

(* The loop condition of run_cycles. *)
InBudget == mode = "running" /\ cycles < target

(* The local `start' dies with the call. *)
Return(result, how) ==
  /\ mode' = "idle"
  /\ start' = 0
  /\ retval' = result
  /\ outcome' = how

(* Stop before the instruction at a marked address. *)
RunBreak ==
  /\ InBudget
  /\ pc \in breaks
  /\ breakHit' = TRUE
  /\ target' = cycles
  /\ Return(cycles - start, "break")
  /\ granted' = granted - (target - cycles)
  /\ UNCHANGED <<cycles, pc, breaks, ask, executed, stray>>

RunStep(c) ==
  /\ InBudget
  /\ pc \notin breaks
  /\ pc \in Flash
  /\ cycles' = cycles + c
  /\ pc' \in Pcs
  /\ executed' = executed + c
  /\ UNCHANGED <<breaks, breakHit, target, mode, start, retval, ask, outcome,
                 granted, stray>>

(* step() returns PcOutOfRange: `?' leaves the loop, and np_run_cycles turns *)
(* the error into 0.                                                        *)
RunFail ==
  /\ InBudget
  /\ pc \notin breaks
  /\ pc \notin Flash
  /\ Return(0, "err")
  /\ UNCHANGED <<cycles, pc, breaks, breakHit, target,
                 ask, executed, granted, stray>>

(* Mutants: the loop ends one cycle early; the request is returned instead  *)
(* of what was run.                                                         *)
RunDoneEarly ==
  /\ mode = "running"
  /\ cycles + 1 >= target
  /\ Return(cycles - start, "ok")
  /\ UNCHANGED <<cycles, pc, breaks, breakHit, target,
                 ask, executed, granted, stray>>

RunDoneReturnsAsk ==
  /\ mode = "running"
  /\ cycles >= target
  /\ Return(ask, "ok")
  /\ UNCHANGED <<cycles, pc, breaks, breakHit, target,
                 ask, executed, granted, stray>>

RunDone ==
  /\ mode = "running"
  /\ cycles >= target
  /\ Return(cycles - start, "ok")
  /\ UNCHANGED <<cycles, pc, breaks, breakHit, target,
                 ask, executed, granted, stray>>

Loop == RunBreak \/ (\E c \in StepCosts : RunStep(c)) \/ RunFail \/ RunDone

----------------------------------------------------------------------------
(* The other operations of Core                                             *)

(* step_one: one instruction, with no regard for the target or breakpoints; *)
(* off the flash step() fails and nothing happens.                          *)
StepOne(c) ==
  /\ mode = "idle"
  /\ cycles < CycleBound
  /\ pc \in Flash
  /\ cycles' = cycles + c
  /\ pc' \in Pcs
  /\ stray' = stray + c
  /\ UNCHANGED <<breaks, breakHit, target, mode, start, retval,
                 ask, outcome, executed, granted>>

(* reset, and load_hex of a well-formed file: Cpu::reset + Scheduler::reset. *)
(* Breakpoints survive both.                                                *)
Reset ==
  /\ mode = "idle"
  /\ cycles' = 0 /\ pc' = ResetPc /\ breakHit' = FALSE
  /\ target' = 0
  /\ ask' = 0 /\ outcome' = "none" /\ executed' = 0 /\ retval' = 0
  /\ granted' = 0 /\ stray' = 0
  /\ UNCHANGED <<breaks, mode, start>>

SetPc(a) ==
  /\ mode = "idle"
  /\ pc' = a
  /\ UNCHANGED <<cycles, breaks, breakHit, target, mode, start, retval, history>>

(* set_break, clear_break (an address off the flash is ignored) and         *)
(* clear_breaks.                                                            *)
EditBreaks(b) ==
  /\ mode = "idle"
  /\ breaks' = b
  /\ UNCHANGED <<cycles, pc, breakHit, target, mode, start, retval, history>>

SetBreak(a)   == EditBreaks(breaks \cup ({a} \cap Flash))
ClearBreak(a) == EditBreaks(breaks \ {a})
ClearBreaks   == EditBreaks({})

Client ==
  \/ \E n \in Asks : RunCycles(n)
  \/ \E c \in StepCosts : StepOne(c)
  \/ Reset
  \/ \E a \in Pcs : SetPc(a) \/ SetBreak(a) \/ ClearBreak(a)
  \/ ClearBreaks

Next == Client \/ Loop

Spec == Init /\ [][Next]_vars

----------------------------------------------------------------------------
(* Properties                                                               *)

TypeOK ==
  /\ cycles \in Nat /\ target \in Nat /\ start \in Nat /\ retval \in Nat
  /\ pc \in Pcs
  /\ breaks \subseteq Flash
  /\ breakHit \in BOOLEAN
  /\ mode \in {"idle", "running"}
  /\ outcome \in {"none", "ok", "break", "err"}
  /\ ask \in Nat /\ executed \in Nat
  /\ granted \in Nat /\ stray \in Nat

(* How far one instruction may reach past the target it straddles. *)
Slack == MaxStepCost - 1

(* The clock is never more than one instruction ahead of what the caller    *)
(* asked for, less what breakpoints wrote off, plus what was stepped by hand. *)
NeverAhead == cycles <= granted + stray + Slack

(* Once a call has returned without an error, every cycle asked for and not *)
(* written off at a breakpoint has been run.                                *)
NeverBehind ==
  mode = "idle" /\ outcome # "err" => granted <= cycles

(* Simulated time never drifts (scheduler.rs, module comment), however many *)
(* calls, breakpoints, failures, single steps and resets there were.        *)
NoDrift == NeverAhead /\ NeverBehind

(* The value np_run_cycles returns is the number of cycles the call ran,    *)
(* whenever the call did not fail: the runtime adds it up frame by frame.   *)
ReturnsCyclesRunUnlessFailed ==
  mode = "idle" /\ outcome # "err" => retval = executed

(* wasm.rs:65 without the exception: "Returns the cycles actually run."     *)
ReturnsCyclesRun == mode = "idle" => retval = executed

(* Within one run the clock moves only while budget is left and the PC is   *)
(* on a plain flash address; so a breakpoint hit, a failure and a finished  *)
(* run are final: a run that reports break_hit stopped with the PC still on *)
(* the marked address and its target at the present cycle.                  *)
HaltsWhereItSays ==
  [][ (mode = "running" /\ mode' = "idle") =>
        /\ breakHit' <=> pc' \in breaks /\ cycles < target
        /\ breakHit' => target' = cycles' ]_vars

(* run_cycles, loop and all, is one atomic request on the client's account. *)
Contract == INSTANCE CycleContract WITH
  Tail <- Slack,
  Requests <- Asks,
  now  <- IF mode = "running" THEN start ELSE cycles,
  due  <- IF mode = "running" THEN target - ask ELSE target

ImplementsContract == Contract!Spec

=============================================================================
