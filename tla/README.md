# picsim in TLA+

picsim (SimuPIC) simulates a PIC16F628A in the browser: a Rust core compiled to
WebAssembly executes firmware instruction by instruction, and a JavaScript page
gives it wall-clock time, buttons, a debugger and an assembler. This directory
holds a TLA+ model of it, the TLC configurations that check the model on small
instances, and TLAPS proofs of what matters most for every instance.

Paths below are relative to the repository root.

## 1. The system

### Components, their state and their operations

| Component | Code | State | Operations | Correct when |
|---|---|---|---|---|
| Cycle scheduler | `core/src/scheduler.rs`, `core/src/lib.rs`, `core/src/wasm.rs` | cycle counter, absolute `target`, PC, breakpoint set, `break_hit` | `run_cycles`, `step_one`, `reset`, `load_hex`, `set_pc`, `set_break`, `clear_break(s)` | simulated time does not drift; return values and `break_hit` are exact; every call returns |
| Render loop and transport | `runtime/index.html` 980-1110, 1278-1313 | `running`, `breakSet`, `cycleBudget`, locals of `frame()` and `stepN()` | `frame`, `play`, `pause`, `stop`, file load, `stepN`, program list, core reload | frames execute the time that passed; breakpoints pause and are visible; play always makes progress |
| Processor | `core/src/cpu.rs`, `interrupts.rs` | W, PC, stack, data memory, timer, EEPROM | `step`, `set_pin`, `reset`, `load_image`, debugger writes | interrupts are invisible to the main program and never wait |
| Decoder | `core/src/decode.rs` | none (a table) | `decode`, `disassemble` | one row per word; agrees with the assembler |
| Arithmetic | `core/src/cpu.rs` 306-596 | register, C, DC | every instruction's result and flags | agrees with the hardware's adders |
| Return stack | `core/src/cpu.rs` 224-231 | ring of eight, `sp` | `push`, `pop`, reset | innermost eight return addresses, in order |
| TMR0 | `core/src/timer.rs` | TMR0, T0IF, prescaler, inhibit | `tick`, `on_tmr0_write`, `reset` | one cycle counter that loses nothing |
| Data EEPROM | `core/src/cpu.rs` 154-183 | array, unlock state, EECON1, EEDATA, EEADR | `eecon1_write`, `eecon2_write`, load, reset | changes only after the unlock sequence; survives resets |
| Data memory and ports | `core/src/memory.rs` | 512 cells, external pin levels | `read`, `write`, `write_indirect`, `set_pin` levels | banks, sharing and TRIS as on the chip |
| Pin sampler | `core/src/sampler.rs` | high time per pin, frame length | `accumulate`, `reset_frame` | accounts for every cycle of a frame |
| Assembler | `runtime/asm.js` | defines, macros, symbol table, location counter | `preprocess`, two passes, `evalExpr`, `encode`, `toIntelHex` | labels agree between passes; words and operands mean what was written; every source gets an answer |
| HEX loader | `core/src/hex.rs` | byte map, base address | `parse` | loads exactly what the records say |
| Board | `runtime/index.html` 780-980, 1046-1101, 1483-1503 | pressed buttons, persistence of LEDs and digits | `press`, `idle`, `clear`, `sample`, `integrate` | pins follow the drawn buttons across resets |
| Service worker | `runtime/sw.js` | caches | install, activate, fetch | fresh when online, complete when offline |
| Authoring page | `runtime/authoring.html` | board on the bench, list of boards, edit index, localStorage | edit, save to the list, open, remove, import, reload | "Update" hits the board that was opened; the list survives a crash |
| Development server | `serve.js` | `runtime/labs.js` on disk, open requests | `POST /__save_labs`, `GET` | what was answered "ok" is in the file |
| Test of the assembler | `test-asm.js` | none | `decodeHex`, the comparison with MPLAB | reads a .hex file as the core does |

The other scripts (`embed-core.js`, `verify-core.js`, `core/examples/run.rs`) and
the example data keep no state a model could be about.

### How they interact

Everything runs on the browser's one JavaScript thread. A frame, a click handler
or a file handler runs to its end before another starts, and each calls into the
core, which is synchronous and has no callbacks. The interleavings that matter
are therefore between *handlers* (a frame, then a click, then a load), between
*instructions of firmware and everything that arrives between them* (pin edges,
debugger edits, ends of frames, resets), and between *main program and interrupt
service routine* inside the simulated processor. The file handlers `await` a
file's text, and the service worker is asynchronous throughout.

- The page keeps a wall-clock budget of cycles; each frame turns whole cycles of
  it into up to 65 calls of `np_run_cycles`, reading `np_break_hit` after each.
- The core keeps an *absolute* target; a call raises it and steps the CPU until
  the clock has reached it. Overshoot of the last instruction is carried.
- Each CPU step executes, ticks the timer, serves EEPROM registers, enters an
  interrupt if one is pending, and credits the step's cycles to the pin levels.
- Breakpoints are kept twice, in the page (`breakSet`) and in the core (`breaks`).
- The instructor's page keeps its list twice, in memory and in localStorage, and
  sends it to the development server, which overwrites `labs.js`; a deployment
  brings that file to the students, whose service worker keeps a copy of it.
- The test reads the assembler's file and MPLAB's with a reader of its own and
  compares them; the core reads the same file with `parse`.

### What is hard here

Carrying (cycles past the target, fractions of a cycle, prescaler counts);
interrupts between any two instructions and back to back; resets and reloads in
the middle of anything; state kept twice; protocols spread over several
instructions (the EEPROM unlock, read-modify-write); two tables that must agree
(encoder and decoder); breakpoints, which stop *before* an instruction and must
be stepped over to resume; text that is expanded until nothing is left to expand;
a worker whose caches outlive releases, outages and its own death; a file that is
truncated before it is written. `PROJECT.json` lists each hazard with its line and
the properties that watch it. There is no thread. What persists is the EEPROM array
(in memory, across resets), localStorage, the worker's caches and `labs.js`.

## 2. Modules

Pure functions of the code are operators in *Ops modules; the state machine of a
component EXTENDS its operators; *MC modules* give constants and nothing else (or
put independent components side by side); *Proofs* modules hold the theorems.

```
CycleContract <-refines- Scheduler <-extends- FrameLoop
IdealTimer    <-refines- Timer0    <- TimerOps
ReturnStack   <-refines- CallStack <- StackOps
                         Eeprom    <- EepromOps
                         Toolchain <- InstructionSet <- Bits
                         Accumulator <- Alu <- Bits
MCParts    = Timer0 | CallStack | Eeprom | Toolchain | Accumulator | Expressions
MCAssembly = Assembler <- InstructionSet, HexRecords
             +  HexOracle <- HexTransfer <- HexLoader <- HexRecords
MCPage     = Board | LabList | LabsServer | OfflineCache
Guests, CpuParts <-extends- Cpu <- CpuOps
                            CpuOps <- DataMem, Alu, InstructionSet, TimerOps, StackOps, EepromOps
CpuParts   <-step by step- Cpu, in terms of Timer0 and Eeprom
MCCpu      = Guests, CpuParts
```

`A | B` stand side by side in one run: they share no state, and a variable `focus`
says which of them a behaviour is about.

| Proofs module | About |
|---|---|
| `FrameLoopProofs` | Scheduler and CycleContract, FrameLoop |
| `PeripheralProofs` | Timer0 and IdealTimer, CallStack and ReturnStack, Eeprom |
| `ProcessorProofs` | Accumulator, Alu, Cpu with CpuOps and DataMem, CpuParts |
| `ToolchainProofs` | InstructionSet, Toolchain |
| `AssemblerProofs` | Assembler, HexLoader, HexTransfer with HexRecords, HexOracle |
| `ExpressionsProofs` | Expressions |
| `PageProofs` | Board, OfflineCache |
| `AuthoringProofs` | LabList, LabsServer |

**CycleContract** is what the clock promises a client that sees only the time
between calls: a request for *n* cycles is one step. **Scheduler** has the loop of
`run_cycles` in it, one pass per action (`RunBreak`, `RunStep`, `RunFail`,
`RunDone`), and every other operation of `Core` that moves the clock or the
breakpoints. The CPU is abstracted to "a step costs one to four cycles and leads
anywhere". History variables `granted`, `stray` and `executed` keep the account
that "no drift" is about.

**FrameLoop** EXTENDS Scheduler: `phase` says which handler is in progress and
where in it; each call into the core is a Scheduler action taken while the handler
waits. `FrameBegin ... FrameEnd` are `frame()`; `Play`, `Pause`, `Stop`, `LoadHex`
with `AfterHexClear`, `StepBegin ... StepEnd`, `ToggleBreak`, `ReloadCore` are the
controls.

**TimerOps / Timer0 / IdealTimer**: `Tick` and `OnTmr0Write` as in `timer.rs`; one
action for each kind of instruction the timer can tell apart, of one cycle or two (a
write takes two when it is an INCFSZ that skips); and a specification in which TMR0 and prescaler are a single cycle count. The count is related to the
code by `count <- tmr0 * divisor + prescaler`.

**StackOps / CallStack / ReturnStack**: the ring, and the bounded stack of
innermost return addresses it implements.

**EepromOps / Eeprom**: the handlers of EECON1 and EECON2, under every order of
register writes, resets and loads. `keys` remembers the last bytes written to
EECON2.

**InstructionSet / Toolchain**: the decoder's table in its order and the
assembler's table; a statement goes from source to flash to decoded instruction,
or a word from elsewhere is listed and typed in again.

**Alu / Accumulator**: results and flags of the instructions; beside the code's
arithmetic runs a second register made of full adders and a nine-bit shift
register.

**DataMem, CpuOps, Cpu**: one whole `step()` as a function on the processor's
state (fetch, execute, flags, jump, timer, EEPROM, interrupt entry); `Cpu` adds
clock, sampler, flash, pins and the debugger. **Guests** runs small programs on it
in the idioms of the lab firmware, next to a shadow processor that executes the
main program alone and never takes an interrupt. **CpuParts** joins the processor to the
specifications of its parts. `TheTimer(event, spent)` and `TheEeprom(keys)` are `Timer0`
and `Eeprom` with the processor's cells for their registers (their histories, which the
processor has not, are parameters); `Written` is the cell an instruction writes, behind
banks and INDF. `PartsSeeStep` names the action of either that an instruction has to
be, `PartsSeeEvent` those that may happen between two instructions.

**HexRecords / Assembler / HexLoader / HexTransfer**: `Assembler` is `assemble()` of `asm.js`, a
line of source per step: the preprocessor's three modes (plain, inside a MACRO,
inside a CBLOCK) and its `#` lines, with `todo` as the stack of `expandLine`, each
entry with the texts that stand for names in it (the `#define`s of the moment, and
inside a macro its parameter over those of the caller); then the two passes over
the same lines. `Applied` is `applyDefines`, round by round. A line is its label, its operation and an operand `base +
plus`; an operation is one line of either pass (`Define`, `Locate`, `Relocate`;
`Pass`, `RelocateAgain`, `Configure`, `SelectBank`, `Emit`), and fails where the
code throws. `placed` is history: where pass 2 was at each line. `HexRecords` has
the writer of the .hex file, `HexLoader` is `parse()` of `hex.rs` a line of the
file per step, with 32-bit addresses as pairs of halves. `HexTransfer` joins the two:
a program is written (`Save`), a byte of its file goes wrong (`Damage`, the one step
that is the environment's), or a file of some other assembler is opened. In
`MCAssembly` the program that is saved is the one the assembler has just made. **HexOracle** is `decodeHex` of `test-asm.js`, with signed 32-bit bases
as JavaScript's shift makes them; it reads every file the loader has accepted.

**Expressions**: `evalExpr`, a token per step, with its stacks of values and
operators; a value may be NaN, which is what an empty stack makes of arithmetic.
Beside it stands the grammar: which token is a binary operator, which is applied
last, and `GrammarValue`, by recursion over intervals of positions.

**Board**: the page's handlers around buttons and loads. `pressed` and `level` are
the two views of a button (drawn, driven) that have to agree; `pressedComp` may be
a button of a board that is gone; a file that has been chosen is read (`FileRead`)
after any number of other handlers. The core may be replaced at any time (`CoreReady`)
and a lab's .hex may be rejected (`SelectLab`); in both cases nobody drives the pins of
the board's buttons, so `wired` remembers which buttons have driven theirs since.

**LabList**: the handlers of `authoring.html`. An entry of `library` says whether
its components are its own copy (`own`), so that editing in place shows where they
are not, and (history) whether it is the one the bench was taken from (`opened`).
`SaveLib` may fail, as the code's empty `catch` allows; `Reload` is a crash or a
closed page. **LabsServer**: `fs.writeFile` as truncation, write and answer, for
several requests at once, with failures and a server that is stopped anywhere.

**OfflineCache**: the three handlers of `sw.js` in their surroundings (releases,
outages, error pages, a browser that stops the worker). A response is the release
it comes from and whether it is good. `Fetch` answers the page and leaves its copy
in `late`; `Put` or `Lose` is what becomes of it, in any order, since the handler
does not wait. A new worker comes with any change of `sw.js`
(`ScriptOf`), under the same cache name or another (`CacheOf`); under the same name it
writes over the files in use. `caches` is in the order of opening, which is the order in which
`caches.match` asks them.

Operators named in a `Mutant:` comment are plausible mistakes; none is used by a
specification. Each property of a passing run is paired in `PROJECT.json` with one
that makes it fail.

## 3. Runs

| Run | Configuration | What it shows |
|---|---|---|
| `scheduler` | `MCScheduler.cfg` | `NoDrift`, `ReturnsCyclesRunUnlessFailed`, `HaltsWhereItSays`, refinement of `CycleContract`, under any order of calls |
| `frames` | `MCFrameLoop.cfg` | a frame executes what it asked for (`FrameRunsWhatItWants`), fractions are carried, breakpoints are visible and pause, play makes progress, handlers end |
| `parts` | `MCParts.cfg` | TMR0 refines `IdealTimer`, the ring refines `ReturnStack`, the EEPROM is protected and its lock follows the keys; `ExecutesWhatIsWritten`, `OneRowAtMost`, `ListingIsStable` on all words; `AgreesWithGates` on every byte with operands around the carries; `EvaluatesByPrecedence` on all short operands |
| `processor` | `MCCpu.cfg` | whole programs: `InterruptsAreInvisible`, `ReturnsWhereItCame`, `InterruptsAreEntered`, `FrameIsAccounted`, `DigitsShareTheFrame`, `StorageCounts`; each step is an operation of clock, timer and EEPROM (`StepFitsItsParts`) |
| `assembly` | `MCAssembly.cfg` | labels are where their code is (`LabelsNameTheirCode`), the assembler ends on every source, what it assembled is what the core has in flash (`FlashIsWhatWasAssembled`), any file is read by the last-writer rule (`LoadsWhatTheRecordsSay`), a file damaged in one byte is rejected, the test's reader finds in every accepted file the words the core has, but for those given by their high byte only (`OracleReadsTheFlash`) |
| `page` | `MCPage.cfg` | `ReleasedButtonsAreIdle`, `NoButtonStaysDown`, `EditorShowsWhatRuns` over every order of presses, board changes, loads, resets and file reads; `UpdateHitsItsBoard` and `StoredIsShown` of the instructor's list; `SavedIsOnDisk` of the server; `ShellIsAnswered` and `EventuallyCurrent` of the service worker |
| `scheduler_return` | `MCSchedulerReturn.cfg` | violation: a failing run returns 0 although instructions ran |
| `frame_drift` | `MCFrameDrift.cfg` | violation: the clock gains on the frames without bound |
| `timer_indirect` | `MCTimer0Indirect.cfg` | violation: TMR0 written through INDF does not reload |
| `cpu_stopwatch` | `MCCpuStopwatch.cfg` | violation: TMR0 misses the cycles of an interrupt entry |
| `unary_minus` | `MCUnaryMinus.cfg` | violation: -a - b is evaluated as -(a - b) |
| `offline_error` | `MCUsableOffline.cfg` | violation: an error page takes the place of the good copy |

### Bounds

- `scheduler`: two flash addresses and one beyond the flash (the smallest set with
  a marked and a plain address and a failure), steps of 1, 2 and 4 cycles, requests
  of 0, 1 and 3, target at most 5. A run can overshoot, undershoot, stop, fail and
  follow on a single step in every combination; the theorems remove the bound.
- `frames`: `SUBSTEPS = 2` and `WantCap = 3` instead of 64 and 2000000, wall-clock
  time in half cycles, frames of 1, 6 or 8 ticks. Frames worth less than a cycle,
  equal to the cap and over it, with and without a top-up, all occur. `CycleBound`
  8 leaves room for several frames between two resets. Steps of 1 and 2 cycles
  suffice for an overshoot. `frame_drift` uses the code's own values of `SUBSTEPS`
  and `WantCap`, one-address firmware and whole frames of three cycles.
- `parts`: `TmrSize = 5` and rates 1:1 to 1:8, so that rollovers, reloads and
  rate changes meet within a few steps; a ring of four levels; an array of two
  bytes with one address that wraps. Of the instruction tables
  nothing is cut on the side of the core (16384 words). The arithmetic has every byte
  in the register and 36 operands, whose nibbles are the ones next to where either
  half carries, with both carries; the theorem has all pairs. Operands of statements
  are taken at and just outside the limits the encoder tests; all literals from -130
  to 257. Expressions: every sequence of up to four of eight tokens, and longer ones
  with two binary operators of `| & + - *`, signs and parentheses in every place; two
  values suffice to tell the operators and their order apart.
- `processor`: real memory, stack, EEPROM and timer sizes. `CycleBound` is, per
  program, long enough for it to do its work more than once: several passes of the
  16-bit counter with interrupts after any instruction (55), five refreshes of the
  display cut into frames of at least 10 cycles (110), two read-modify-writes with
  resets anywhere (60), edits before every one of the first instructions (9).
- `assembly`: every program of up to four of eleven lines (labels, forward and
  backward jumps, one-word and two-word operations, ORG by number, name and `$`,
  a constant that can be set twice, a label with one of the chip's names), every
  sequence of up to four preprocessor lines, a macro with a parameter followed by
  up to three lines with `#define`s (chained, circular, taken back, empty, one that
  stands for a label), and ten longer programs for the edge of the program memory,
  the 13-bit wrap of ORG, circular macros, and CBLOCK.
  `RecordSize = 4` (16 in the code) so that records are cut inside such programs;
  `MaxDepth = 2` (60) and `MaxRounds = 3` (60), one more than the longest chain of
  texts that ends. Damage, for programs of up to three lines and the longer ones, adds
  1 to any one byte of the file; the theorem has every byte, value and program.
  Foreign files: every sequence of up to three of 22 lines around the 64K, 2^32,
  program and EEPROM limits.
- `page`: four boards, between which a pin changes its polarity, loses its button
  or keeps it, one with two buttons on a pin and a .hex that is rejected; two files;
  three pointers, the least with which a button can be
  pressed beside a pinch; nothing is bounded there. The instructor's list has up to
  `MaxBoards = 2` boards, enough for one before the open board or one after it to be
  removed; both may have one name. Three save requests, of two
  short lists and a longer one that begins like one of them. Four releases:
  one that leaves `sw.js` as it is, one that changes it but not the name of the cache,
  one that changes both; `MaxLate = 2` responses on their way at a time, so
  that they can be stored in the wrong order; `MaxFaults = 2` outages, errors, failed
  installations or lost copies. A shell of two files, the fallback and the one at
  which the app is opened, so that an installation can be cut in two. No file outside
  the shell, of which no property speaks; `offline_error` has one.

### Fairness

`FrameLoop`, `MCAssembly` and `MCPage` assume some. In `FrameLoop` it is `WF(FrameStep)`, a handler or a call that has begun
keeps executing. It is straight-line JavaScript and a Rust loop on one thread, so
nothing can take the processor from it. Nothing obliges the user to click or the
browser to draw: no fairness is put on `User` or `FrameBegin`. `HandlersReturn`
includes that every `run_cycles` returns. In `MCAssembly` it is `WF(Assembling)`:
`assemble` is one synchronous call, so its next line is always processed.
`AssemblyEnds` is then about the depth limit of macros and the round limit of
texts. In `MCPage` it is `OfflineFairness`: the link comes back, the browser goes on
with an installation and looks for a new worker (it does so on every navigation),
stores the copies it was given unless the worker is stopped, and the app is opened
again and again at `./`, where `manifest.json` and the published address start it, so
that the files it asks for (`AppFiles`: `./` itself and its scripts) are fetched.
`./index.html` is not among them: nothing asks for it, and nothing is assumed or said
of how new its copy is. The last is strong fairness, because the bound
`MaxLate` takes `Fetch` away while copies wait. It binds the browser of
`OfflineCache` only: behaviours with another `focus` are not fair to it and take
part in the invariants alone. `EventuallyCurrent` says nothing of a user who never
comes back.

Deadlock is checked except in `parts`, `timer_indirect` and `unary_minus`, where a
statement is done when it is decoded and an operand when it has its value, and in
`assembly`, where a file is done when it is loaded or rejected.

## 4. Proofs

Every theorem is about the specification its run checks, so a run shows it on a small
instance and the theorem for every value of the constants.

| Module | Theorem | States | For every |
|---|---|---|---|
| `FrameLoopProofs` | `TypeCorrect` | `TypeOK` | flash, step costs up to `MaxStepCost`, set of requests, bound |
| | `NeverDrifts` | `NoDrift` | |
| | `ReturnIsExact` | `ReturnsCyclesRunUnlessFailed` | |
| | `BreakHitIsExact` | `HaltsWhereItSays` | |
| | `SchedulerImplementsContract` | `ImplementsContract` (refinement) | |
| | `FractionsAreCarried` | `FractionsCarried` | core, number of sub-steps, cap on a frame, clock rate, frame times, step bursts |
| | `FramesRunWhatTheyWant` | `FrameRunsWhatItWants` | |
| | `BreakpointsAreShown` | `NoHiddenBreakpoint` | |
| | `BreakpointsPause` | `PausesAtBreakpoint` | |
| | `PlayMakesProgress` | `ResumeMakesProgress` | |
| `PeripheralProofs` | `Timer0ImplementsIdeal` | `ImplementsIdealTimer` (refinement) | width of TMR0, bytes loaded, mix of instructions and rates |
| | `StackTypeCorrect`, `RingHoldsTheInnermost` | `StackTypeOK`, `HoldsTheInnermost` | ring size, set of addresses |
| | `RingIsAReturnStack` | `ImplementsReturnStack` (refinement) | |
| | `EepromTypeCorrect` | `EepromTypeOK` | array size, data, addresses, bytes written to EECON2 |
| | `LockObeysKeys` | `LockFollowsKeys` | |
| | `ArrayIsProtected` | `OnlyUnlockedWrites` | |
| `ProcessorProofs` | `ArithmeticIsGates` | `AgreesWithGates` | pair of operands and flags |
| | `RegistersStayInRange` | `RegistersInRange` | program, edits, jumps of the PC, set of watched pins |
| | `SamplerAccounts` | `FrameIsAccounted` | |
| | `InterruptsAreTaken` | `InterruptsAreEntered` | |
| | `StepsFitTheParts` | `StepFitsItsParts` (Scheduler, Timer0, Eeprom) | |
| | `ReturnsGoToTheTop` | `ReturnsToTop` | |
| `ToolchainProofs` | `OneRow` | `OneRowAtMost` | set of registers, literals and targets of the statements |
| | `WrittenIsExecuted` | `ExecutesWhatIsWritten` | |
| | `ListingsAreStable` | `ListingIsStable` | |
| `AssemblerProofs` | `LabelsAreAddresses` | `LabelsNameTheirCode` | source, text of macros and `#define`s, depth and round limits |
| | `ImageIsWhatTheRecordsSay` | `LoadsWhatTheRecordsSay` | text, of any length |
| | `ProgramsArriveWhole` | `FlashIsWhatWasAssembled` | program, configuration word, record length |
| | `DamageIsNeverLoaded` | `CorruptRecordIsRejected` | and damaged byte |
| | `TestReadsWhatRuns` | `OracleReadsTheFlash` | text, of any length |
| | `AssemblerIsTyped` | `AsmTypes` | source, tables of the chip |
| | `AssembledIsAProgram` | what is written is one of `Programs` | |
| `ExpressionsProofs` | `OperandsAreEvaluated` | `EvaluatesByPrecedence` | set of texts, of any length, and values of the names |
| `PageProofs` | `NoGhostPresses` | `ReleasedButtonsAreIdle` | set of labs, their buttons and files, set of pointers |
| | `ButtonsComeUp` | `NoButtonStaysDown` | |
| | `EditorIsHonest` | `EditorShowsWhatRuns` | |
| | `AppAnswersOffline` | `ShellIsAnswered` | shell, sequence of releases and cache names, bounds on faults and late copies |
| `AuthoringProofs` | `UpdateIsAimed` | `UpdateHitsItsBoard` | boards, contents of labs.js, length of the list |
| | `StorageIsCurrent` | `StoredIsShown` | |
| | `ConfirmedIsKept` | `SavedIsOnDisk` | set of lists and of requests |

Four of them state what no run checks. `RegistersInRange` and `AsmTypes` are the type
invariants of the processor and the assembler, whose sets of states TLC could not
enumerate any better than the types of the run's values show; `ReturnsToTop` is what
`ReturnsWhereItCame` rests on for a program of any kind; and `AssembledIsAProgram` joins
the assembler to the transfer of its file, so that `ProgramsArriveWhole`,
`DamageIsNeverLoaded` and `TestReadsWhatRuns` hold of everything it produces.

### Assumptions

The theorems rest only on the named assumptions on constants, which TLC evaluates in
the runs that extend the modules:

- `SchedulerAssumption`, `FrameAssumption`: flash and reset address exist, step costs
  are at least one cycle, numbers are natural. `SUBSTEPS` and `Den` are positive.
- `TmrSizeAssumption`, `Timer0Assumption`, `StackSizeAssumption`, `AddrAssumption`,
  `EeSizeAssumption`, `EepromAssumption`: sizes are positive, values are bytes of the
  size in question; an instruction takes one or two cycles.
- `CpuAssumption`: the sizes are the chip's (`cpu.rs` has them as array lengths), flash
  holds 14-bit words, edits are bytes to cells of the memory, jumps of the PC 13 bits.
- `OperandsAssumption`: bytes. `ToolchainAssumption`: registers, literals and targets
  are integers, of any size.
- `AssemblerAssumption`: sources are sequences of lines with integers for numbers, the
  chip's values are integers, the limits natural and `MaxRounds` positive (60 in the
  code).
- `ExpressionsAssumption`: a text is a sequence of tokens (`asm.js` 152), and nothing
  that has a value is written like an operator or a parenthesis.
- `RecordSizeAssumption`: a record has 1 to 255 data bytes, its count being one byte of
  the record; `toIntelHex` writes 16.
- `BoardAssumption`: a lab with source has a .hex file, and one that is sound: only the
  built-in examples have a source. Buttons may share pins, of either polarity.
- `OfflineAssumption`: the fallback is in the shell (`sw.js` 5), and the name of the
  cache is part of the script. Names may come back, or never change.
- `LabAssumption`, `ServerAssumption`: labs.js holds lists no longer than `MaxBoards`.

### The arguments

*Scheduler.* `NoDrift` says nothing of the middle of a run and is not inductive.
`CoreInv` adds: the account equals the target (`AccountIsTarget`); in a run, the cycles
executed are those since `start`, the clock passed the target by at most one
instruction's tail, and `break_hit` is down (`MidRun`); between runs that did not fail,
the clock has reached the target and the return value is exact (`Settled`). There is one
lemma per operation; they hold for any amount asked for, so that the frame loop can use
them. For the refinement, loop passes map to stuttering and `RunBreak`, `RunFail`,
`RunDone` to `Halt`, `Fail`, `Serve`.

*FrameLoop.* `FrameRunsWhatItWants` speaks of the end of a frame. `FrameAccount` says for
each place in `frame()` what has run so far and how far the target is from it, and
`NothingHappened` that a frame not excused met no breakpoint and no failure; with
`CoreInv` the overshoot of the last call is what the last share lacks. That a stop is
still in front of its mark when the frame acts on it (`StopIsRemembered`) gives the two
action properties about breakpoints. A budget is whole cycles and a rest (`Carry`),
whatever `Den` is.

*Timer0.* What `tick` computes from value and prescaler with a division each is one
division of the whole count (`Remainder` and the lemmas after it). Every action is then
a step of `IdealTimer` under `count <- tmr0 * divisor + prescaler`, the change of rate
included.

*CallStack.* `HoldsTheInnermost` relates the i-th open address to the slot i below
`sp` around the ring; with the types it is inductive. The work is in the index
arithmetic: a push writes the slot no remembered address uses unless the ring is
full, and then it overwrites the outermost one.

*Eeprom.* "Armed only by the keys" needs to know what each state of the lock says
of the last bytes; `LockInv` adds the half-way state. `ArrayIsProtected` follows
from it step by step, with the case that a read served by the same write of
EECON1 makes the commit write back what is there.

*Processor.* The bits of a byte determine it, and the carry out of place i is what the
lower bits exceed their weight by: so the adders' chain and `%` agree, in two halves
because of the digit carry. For `Cpu` the invariant is that all registers are in range
(`ProcessorStates`) and the sampler's account. Each instruction, each special register
an instruction may write, the timer, the EEPROM and the interrupt entry lead from state
to state; costs come from a case split over the mnemonics. `InterruptsAreEntered` says where a
program would go on without interrupts, in terms of the instruction that ran
(`LeadsTo`, `DepthAfter`, `EnabledAfter`), and follows it through `step()` to the entry:
GIE is as the instruction wrote it, the flags are those of the end of the step, and what
the entry pushes is where the jump, the skip or the return led.

*The processor and its parts.* `Timer0`, `Eeprom` and `Scheduler` assume things of the
processor: that a reload is seen when TMR0 is written by its address, that nothing but
a write moves their registers, that a step takes one to four cycles. `StepsFitTheParts`
shows that the processor is like that, whatever it executes. Their registers are seven
cells (`PartCells`), one of them a bit of INTCON; a step is followed through `step()`:
the fetch writes PCL only, the flags STATUS only, jumps nothing; `RegistersAreWritten`
says what `Execute` leaves in the seven cells; `PartsRun` adds what timer and EEPROM
make of it, and that the entry of an interrupt touches GIE and not T0IF (`BitIsPut`: a
bit that is put changes no other). `AddressesAreCells` is where the code's test of bank
and address in the instruction is compared with the cell behind it. So what is proved
of `Timer0` and `Eeprom` under every order of their operations is said of every
firmware. `CallStack` is not among the parts: a step may be two of its operations, a
return and the call of the interrupt entry.

*Toolchain.* A row is a mask and a pattern. `OneRowForAWord` compares them for each pair
of rows, by the bits they fix; `EncodedIsItsRow` and `FieldsAreOperands` say that the
encoder's sum has the bits of its row and its operands in the fields the decoder cuts
out. The invariant follows a statement from source to flash to the decoded instruction,
and a listing back.

*Assembler.* The second pass knows more symbols than the first. `Traced` says that a
sequence of addresses is what sizes and ORGs make of the lines, under the table of
symbols as it was then; where no name has two definitions a name that had a value keeps
it, so the final table traces the same addresses, and the second pass follows them
line by line (`SecondPass`).

*HexLoader.* `LoadsWhatTheRecordsSay` speaks of a text as a whole, and the code keeps a
map of bytes that each record writes over. `Tells` says of the map, when line k is next,
that its addresses are those the data bytes before k are given for, and that each byte
is the one of the last line among them; a record never gives an address twice, because
its bytes are less than 2^32 apart (`OnceARecord`). One lemma per kind of line; after
the end-of-file record no line counts, so what the map tells of the lines before it, it
tells of all (`ImageIsTold`).

*HexTransfer.* Three things make a written file safe. The sum of a record is a
recursive function; a claim about all its values is refuted at the least place where
it fails (`LeastOf`, from the well-foundedness of finite sets), so that no induction
over data is needed: `ChecksumCloses` says that what `rec` appends makes the sum zero,
`SumsDiffer` that one other byte makes it another sum. The records of `toIntelHex`
cover the byte map: `RowsEnd` and `RowsCover` find for each address the record start
before it in its run of addresses, and `RanksAreAll` that each start is written once
(`FileIs`). And `ImageIs` computes what such a file says, by `LoadsWhatTheRecordsSay`; no line of it
is rejected (`WrittenLines`), and only a file without words is refused as empty.
A damaged file then has a line ahead that the reader does not pass and before which
nothing ends the file (`Spoilt`, `DamageIsAhead`); that is the inductive part. The
theorem takes any program of words within the 2K (`Programs`). That the assembler makes
nothing else is `AssembledIsAProgram`: the tables are typed, pass 1 stops at an ORG
outside the memory and pass 2 meets the same ones (`OriginsKnown`), and whatever the
operands, what `encode` gives is a word (`EncodedIsWord`).

*HexOracle.* The test script folds over the lines of the file and the core takes them one
at a time; `ReadUpTo` is the fold as a recursive function, and claims about its values
are refuted at the least line where they fail. While the core reads, the script's base
is the same but for the sign of its high half, and both have the same bytes in the first
64K (`ReadsAlike`): a record the core accepts is read by both, and the address past
2^32, where the core wraps, is the address past -1, which the script gets by adding
(`LowAlike`). The script passes over what the core rejects, so the claim is about files
that are loaded.

*Expressions.* What an operand means is a function of spans of the text: the last
operator applied cuts a span in two, a sign or a parenthesis is taken off. There is one
such function (`OneMeaning`, at the narrowest span where two would differ). `Reading`
relates the two stacks to it: each stacked operator has a position in the text and a
number of values below it; what stands between it and the operator below already is a
value, equal to what the grammar makes of that span, and the operators of the span bind
at least as tightly as the stacked one; stacked binary operators of one parenthesis bind
more and more tightly, and the depth of the parentheses says which of them are open. One
lemma for each token and for `apply`: popping an operator is what makes it the last
one applied of the span that its two values cover (`LastOfTwo`). Where `SignsLast` is
dropped this fails at the sign, as `unary_minus` shows. That nothing unbalanced is
accepted needs of the stack only how many parentheses are open below each operator
(`Nested`), for every text.

*Board.* The three properties are nearly inductive; what is missing is that only buttons
of this board are among those that have driven their pin, and that no board or file is
chosen before the core is up.

*OfflineCache.* A response is `Fresh` in a cache if some release up to its own has that
cache's name, and a cache is `Whole` if it has a fresh response for each file of the
shell; whatever is put later keeps it so (`PutKeepsWhole`). The cache of the worker in
control is the oldest and whole (`ControlIsOldest`), what a worker installs comes from
its release or later (`InstallsBeside`), and what is still to be put is fresh where it
goes (`LateIsOfAWorker`).

*LabList.* No entry of the list shares its components with the bench (`AreEntries`), so
that editing in place changes no entry; and the marked entry is the one at the edit
index. *LabsServer.* A save that runs alone has truncated and written the file itself
(`AloneHasTheFile`), and when it is confirmed no request is open.

### Model-checked only

- Liveness: `HandlersReturn`, `AssemblyEnds`, `EventuallyCurrent`. Fairness and ENABLED
  are out of the prover's reach.
- What depends on the firmware that runs: `InterruptsAreInvisible`, `DigitsShareTheFrame`,
  `StorageCounts`, and `ReturnsWhereItCame`, whose history of interrupted places a
  program may abuse. `ReturnsGoToTheTop` has the part of it that holds for any program.

Recursive functions (`SumOf`, `SpanValue`, `ReadUpTo`) are reasoned about through their
equations, at the least argument at which a claim would fail. No module uses RECURSIVE.

## 5. What the checks found

Six statements in comments of the repository are contradicted by its code. Each
is a run that is expected to end in a violation, listed in `PROJECT.json` under
`findings`:

- `np_run_cycles` "returns the cycles actually run" - 0 when the PC leaves the flash.
- "simulated time never drifts" - it does across frames: the top-up call of
  `frame()` asks again for cycles that the absolute target already holds as
  overshoot.
- "a write to TMR0 clears the prescaler and inhibits counting" - not when it goes
  through INDF, since only the address in the instruction is compared.
- TMR0 "counts instruction cycles" - not the two cycles of an interrupt entry.
- operands support "unary - ~" (asm.js 143) - but what follows a sign up to the next
  parenthesis belongs to it: -a - b is -(a - b), ~a & b is ~(a & b). `PREC` has no
  entry for the signs. `EvaluatesByPrecedence` shows that nothing else goes wrong in
  a well-formed operand.
- the app is "fully usable offline after the first visit" (sw.js 2-3) - until the
  server has answered with an error once: the error is stored like any answer.
  `ShellIsAnswered` shows that it is no older file, and `EventuallyCurrent` that the
  next good answer mends it.

Met on the way and not made into runs:

- A label is its "current address" (`asm.js` 371), except that pass 2 evaluates ORG
  with the symbols pass 1 ended with: after `N SET 3 / ORG N / L NOP / N SET 9`, or
  when a name of the chip that an ORG uses becomes a label later, code and labels
  part. `LabelsNameTheirCode` shows that nothing else parts them.
- An operand such as `5 *` or `+5` is accepted and is 0: `apply` takes what an empty
  stack gives (`asm.js` 166). A name such as `constructor` is taken for an operator,
  because `t in PREC` sees what objects inherit (`asm.js` 183).
- A macro called with an argument that has its parameter's name is reported as
  circular (`asm.js` 248): the text that stands for the name is the name.
- Importing labs.js keeps the components of a board only; a .hex, a source or a clock
  that a lab carries is lost on the way back (`authoring.html` 234).
- A file that is imported onto the bench leaves the edit index where it was, so that
  "Update in list" puts it in place of the board that was open
  (`authoring.html` 172).
- Overlapping saves of labs.js can leave one list with the tail of the other, both
  answered "ok" (`serve.js` 36); a file that is read between truncation and write is
  empty.
- `activate` deletes every other cache of the origin, whoever it belongs to
  (`sw.js` 16).
- After `step_one`, `run_cycles(n)` executes fewer than *n* cycles, since the
  target did not move with the clock (`lib.rs` 189).
- A prescaler count kept across a change to a smaller divisor makes one
  instruction advance TMR0 by several units (`timer.rs` 68). `Rescale`
  of `IdealTimer` says that no cycle is lost thereby.
- With T0CS set, `tick` returns before the inhibit counts down, so the two
  inhibited cycles of a reload are taken whenever T0CS is cleared (`timer.rs` 45).
- A stray 0x55 before the pair (55 55 AA) leaves the lock shut: `eecon2_write`
  starts over without taking the second 55 as a first key. `KeysArm` says exactly
  when the pair works.
- A name defined on two lines is not reported; the last definition in pass 1 wins.
  A label in a macro that is called twice is such a name (`asm.js` 371).
- A macro called in column 1 before it is defined, or misspelt there, is taken for
  a label and vanishes (`asm.js` 222).
- The header of `asm.js` (12-14) says that CBLOCK and MACRO are rejected; STATUS.md
  101 describes their support, which the code has.
- The HEX format gives no way to notice a line that is missing; `parse` does not ask
  for an end-of-file record.
- A data record past 0xFFFFFFFF wraps to address 0 in the release build and panics
  in a debug build (`hex.rs` 92).
- After a board change without a program, a pin that only the old board had a button
  on keeps its idle level (`index.html` 1098); and a file that is loaded while a
  button is held leaves it drawn as pressed until the pointer is lifted.
- A lab with a .hex the core rejects changes the board and leaves its buttons
  undriven (`index.html` 1046), and so does a .wasm file that is loaded while a board is
  there (`index.html` 1054): the new core has every pin low. Until the next load, reset
  or release the program reads active-low buttons as pressed.
  `ReleasedButtonsAreIdle` is about buttons that have driven their pin (`wired`).
- Two buttons of a board may have one pin (`authoring.html` does not prevent it). Then
  the last one that was driven decides the level, so that pressing one, or one of the
  other polarity being there, makes the other read as pressed.
- The copy of `./index.html` is what the app falls back to offline when it is opened at
  an address that is not in the cache (`sw.js` 30). It is stored when a worker is
  installed and not when the app is opened at `./`; a release that leaves `sw.js` as it
  is leaves that copy stale. `EventuallyCurrent` is about what is opened at `./`.
- `decodeHex` of `test-asm.js` does not see a word of which only the high byte is given;
  the core has it in flash (`test-asm.js` 44, `hex.rs` 123).
- A `#define` whose text has its own name twice (`#define A A A`) doubles the line with
  each round and memory ends before the rounds do; operands in the model are one text, which cannot
  double, and `AssemblyEnds` says nothing of it (`asm.js` 236).
- `decode.rs` says that the order of the table matters; `OneRowAtMost`, which is proved,
  says that no two rows match the same word.

## 6. Plan

Done: the core (clock, render loop, processor with its parts, instruction tables),
the way of a program from the editor into flash with the preprocessor and the
evaluation of operands, the board's buttons and loads, the instructor's list, the
server, the service worker, the abstract specifications of clock, timer and stack, the
processor in terms of its parts, and proofs of every invariant but those about a particular firmware.

Next, in this order:

1. Proofs: that the idioms of `Guests` keep their promise; the return stack as a part of
   the processor, once `CallStack` has a step that returns and calls.
2. Board composed with FrameLoop's controls and with the pins of the processor:
   which interrupt flags a load leaves raised before the first instruction.
3. Assembler: several macro parameters and operations with two operands in whole
   programs.

## 7. Not modelled, and why

- Drawing, readouts, pane layout, status lines: output without consequence for
  any state here.
- `embed-core.js` copies a file into a script; `verify-core.js` and
  `core/examples/run.rs` run the core on fixed inputs and print: one path each, no
  state that is kept.
- Of `serve.js`, the headers that a save has to carry and the answers to `GET`.
- `u64` saturation of the target and cycle counter: unreachable in practice
  (2^64 cycles) and out of reach of a finite run.
- Of the assembler: number formats and how a line is cut into words (`Texts` and
  `Sources` are tokens and lines), the operators `^ / % << >>`, which differ from the
  modelled ones in value and place in `PREC` only, and macros with several
  parameters. Statements with two operands are in `Toolchain`, not in the programs of
  `Assembler`.
- Of the service worker's surroundings: the browser's own HTTP cache, and pages that
  were opened before the first worker took control.
- Of the instructor's page: drawing, the export of one board and the clipboard; a
  localStorage whose content is not JSON.
- Brightness of LEDs and digits (`sample`, `integrate`): a function of the sampler's
  duties, which are modelled, that nothing reads back.
- A firmware's `SLEEP` halts nothing in the core (it sets TO and PD and executes
  on), and the model follows the code.
