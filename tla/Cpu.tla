-------------------------------- MODULE Cpu --------------------------------
(***************************************************************************)
(* A processor running firmware, instruction by instruction, with the       *)
(* outside driving its pins, the runtime opening frames and the debugger    *)
(* editing its state between instructions (core/src/cpu.rs, sampler.rs,     *)
(* lib.rs).                                                                 *)
(***************************************************************************)
EXTENDS CpuOps

CONSTANTS
  Firmware,     \* names of the programs that may be loaded
  Code,         \* Code[fw]: its words, from address 0
  Watched,      \* pins whose on-time is followed
  (* what happens around a program, for each of them: *)
  Pins,         \* Pins[fw]: pins the outside drives
  Edits,        \* Edits[fw]: <<address, value>> pairs the debugger may write
  Detours,      \* Detours[fw]: values it may put in the PC
  FrameMin,     \* bound of the model: no frame is shorter (in cycles)
  CycleBound    \* bound of the model: no step starts later

ASSUME CpuAssumption ==
  /\ TmrSize = 256 /\ StackSize = 8 /\ EeSize = 128
  /\ Watched \subseteq 0..15
  /\ \A fw \in Firmware :
       /\ Code[fw] \in Seq(Words)
       /\ Pins[fw] \subseteq 0..15
       /\ Edits[fw] \subseteq Cells \X Byte
       /\ Detours[fw] \subseteq PcRange
       /\ FrameMin[fw] \in Nat /\ CycleBound[fw] \in Nat

VARIABLES
  firmware,    \* what is in the flash
  cpu,         \* the state CpuOps works on
  cycles,      \* Cpu.cycles
  high, frame, \* PinSampler.high_cycles of the watched pins, frame_cycles
  (* history *)
  ran,         \* the instruction executed by the last step, NoInstr otherwise
  isr,         \* contexts of the interrupts being served, outermost first
  opened,      \* cycles, and levels of the watched pins, when the frame began
  edited       \* the debugger has touched the state since reset

vars == <<firmware, cpu, cycles, high, frame, ran, isr, opened, edited>>

NoInstr == Instruction("none", 0, FALSE, 0, 0)

(* decode_at_pc; each program is decoded once. *)
Decoded == [fw \in Firmware |-> [n \in 1..Len(Code[fw]) |-> Decode(Code[fw][n])]]
Blank   == Decode(BLANK_WORD)

InstructionAt(a) ==
  IF a < Len(Decoded[firmware]) THEN Decoded[firmware][a + 1] ELSE Blank

ErasedArray == [a \in 0..127 |-> 255]

Level(c, pin) == IF pin < 8 THEN Bit(PortA(c.mem), pin) ELSE Bit(PortB(c.mem), pin - 8)

NoTime == [p \in Watched |-> 0]

Opening(c, now) == [at |-> now, level |-> [p \in Watched |-> Level(c, p)]]

Init ==
  /\ firmware \in Firmware
  /\ cpu = PowerOn(ErasedArray)
  /\ cycles = 0 /\ high = NoTime /\ frame = 0
  /\ ran = NoInstr /\ isr = <<>>
  /\ opened = Opening(PowerOn(ErasedArray), 0) /\ edited = FALSE

----------------------------------------------------------------------------
(* The interrupted context as the ISR must give it back. *)
Context(e) == [pc |-> e.pc, sp |-> e.stack.sp]

(* Contexts after instruction i, which left the state e. *)
Contexts(i, e) ==
  LET left == IF i.m = "RETFIE" /\ isr # <<>> THEN SubSeq(isr, 1, Len(isr) - 1)
                                              ELSE isr
  IN IF Pending(Intcon(e)) THEN Append(left, Context(e)) ELSE left

(* Mutant: high time counts instructions. *)
AccumulateInstructions(c, cyc) ==
  /\ high' = [p \in Watched |-> high[p] + Level(c, p)]
  /\ frame' = frame + cyc

(* accumulate: the levels that held during the instruction, for all of its  *)
(* cycles and those of the interrupt entry.                                 *)
Accumulate(c, cyc) ==
  /\ high' = [p \in Watched |-> high[p] + cyc * Level(c, p)]
  /\ frame' = frame + cyc

(* Instruction i is executed and leaves the state and cycles e. *)
Finish(i, e) ==
  LET total == e.spent + EntryCost(e.state)
  IN /\ cpu' = ServiceInterrupts(e.state)
     /\ cycles' = cycles + total
     /\ Accumulate(Fetched(cpu), total)
     /\ ran' = i
     /\ isr' = IF edited THEN isr ELSE Contexts(i, e.state)
     /\ UNCHANGED <<firmware, opened, edited>>

Perform(i) == Finish(i, Executed(cpu, i))

(* step() *)
Step ==
  /\ cpu.pc < PROG_WORDS
  /\ cycles < CycleBound[firmware]
  /\ Perform(InstructionAt(cpu.pc))

(* set_pin of a level the pin does not have yet. *)
SetPin(pin) ==
  /\ cpu' = PinSet(cpu, pin, 1 - ExtLevel(cpu.mem, pin \div 8, pin % 8))
  /\ ran' = NoInstr
  /\ UNCHANGED <<firmware, cycles, high, frame, isr, opened, edited>>

(* Mutant: only the frame length is reset. *)
ResetFrameKeepsHigh ==
  /\ frame >= FrameMin[firmware]
  /\ frame' = 0
  /\ opened' = Opening(cpu, cycles)
  /\ ran' = NoInstr
  /\ UNCHANGED <<firmware, cpu, cycles, high, isr, edited>>

(* reset_frame_accumulators *)
ResetFrame ==
  /\ frame >= FrameMin[firmware]
  /\ high' = NoTime /\ frame' = 0
  /\ opened' = Opening(cpu, cycles)
  /\ ran' = NoInstr
  /\ UNCHANGED <<firmware, cpu, cycles, isr, edited>>

PowerUp(c) ==
  /\ cpu' = c
  /\ cycles' = 0 /\ high' = NoTime /\ frame' = 0
  /\ ran' = NoInstr /\ isr' = <<>>
  /\ opened' = Opening(c, 0) /\ edited' = FALSE

(* Mutant: the EEPROM array does not survive a reset. *)
ResetErases == PowerUp(PowerOn(ErasedArray)) /\ UNCHANGED firmware

Reset == PowerUp(PowerOn(cpu.ee.cells)) /\ UNCHANGED firmware

(* load_hex: another program, and the EEPROM as its file has it (erased).   *)
LoadHex(fw) == PowerUp(PowerOn(ErasedArray)) /\ firmware' = fw

(* write_data, set_w, set_pc *)
Edit(c) ==
  /\ cpu' = c
  /\ edited' = TRUE /\ isr' = <<>>
  /\ ran' = NoInstr
  /\ UNCHANGED <<firmware, cycles, high, frame, opened>>

WriteData(a, v) == Edit([cpu EXCEPT !.mem = Poke(@, a, v)])
SetW(v)         == Edit([cpu EXCEPT !.w = v])
SetPc(a)        == Edit([cpu EXCEPT !.pc = a])

Next ==
  \/ Step
  \/ \E pin \in Pins[firmware] : SetPin(pin)
  \/ ResetFrame \/ Reset
  \/ \E fw \in Firmware : LoadHex(fw)
  \/ \E e \in Edits[firmware] : WriteData(e[1], e[2]) \/ SetW(e[2])
  \/ \E a \in Detours[firmware] : SetPc(a)

Spec == Init /\ [][Next]_vars

----------------------------------------------------------------------------
(* Properties                                                               *)

(* Where a program without interrupts is after instruction i of state c,    *)
(* which leaves the memory m: the address, the depth of the stack, and      *)
(* whether it has interrupts enabled.                                       *)
LeadsTo(c, i, m, a) ==
  LET on == IF JumpsByPcl(i) THEN ComputedTarget(m) ELSE (c.pc + 1) % 8192
  IN CASE i.m \in Returns          -> a = Top(c.stack)
       [] i.m \in {"GOTO", "CALL"} -> a = BranchTarget(m, i.k)
       [] i.m \in SkipOps          -> a \in {on, (on + 1) % 8192}
       [] OTHER                    -> a = on

DepthAfter(c, i) ==
  CASE i.m = "CALL"     -> Up(c.stack.sp)
    [] i.m \in Returns  -> Down(c.stack.sp)
    [] OTHER            -> c.stack.sp

EnabledAfter(c, i) ==
  LET f == Fetched(c)
  IN \/ i.m = "RETFIE"
     \/ Bit(IF INTCON \in Written(f.mem, i) THEN ResultOf(f, i) ELSE Intcon(c), GIE) = 1

(* A source is enabled and has raised its flag, whatever GIE says. *)
IntSources == {<<T0IE, T0IF>>, <<INTE, INTF>>, <<RBIE, RBIF>>}
Requested(intcon) == \E s \in IntSources : Bit(intcon, s[1]) = 1 /\ Bit(intcon, s[2]) = 1

(* If interrupts are enabled when an instruction ends, by GIE as it was, as  *)
(* the instruction wrote it or by RETFIE, and a source requests one, then it *)
(* is entered at once, whatever raised the flag (a pin between two           *)
(* instructions, the timer in this one, the firmware, the debugger): the     *)
(* address at which the program would go on is on the stack, one level above *)
(* what the instruction itself left there, the vector is next, interrupts    *)
(* are off and two more cycles are gone.  In every other case the program    *)
(* goes on, GIE stays what it made of it, and no cycle is added.            *)
InterruptsAreEntered ==
  [][ cycles' > cycles =>
        LET i      == ran'
            intcon == cpu'.mem.cells[INTCON]
        IN IF EnabledAfter(cpu, i) /\ Requested(intcon)
           THEN /\ cpu'.pc = INT_VECTOR /\ Bit(intcon, GIE) = 0
                /\ LeadsTo(cpu, i, cpu'.mem, Top(cpu'.stack))
                /\ cpu'.stack.sp = Up(DepthAfter(cpu, i))
                /\ cycles' - cycles \in 3..4
           ELSE /\ LeadsTo(cpu, i, cpu'.mem, cpu'.pc)
                /\ cpu'.stack.sp = DepthAfter(cpu, i)
                /\ Bit(intcon, GIE) = 1 <=> EnabledAfter(cpu, i)
                /\ cycles' - cycles \in 1..2 ]_vars

(* RETFIE goes back to the interrupted instruction with the stack as it was,*)
(* even when another interrupt is waiting and is entered at once: then the  *)
(* interrupted address is on top of the stack again.                        *)
ReturnsWhereItCame ==
  [][ ran'.m = "RETFIE" /\ isr # <<>> =>
        LET back == isr[Len(isr)]
        IN \/ cpu'.pc = back.pc /\ cpu'.stack.sp = back.sp
           \/ /\ cpu'.pc = INT_VECTOR
              /\ Top(cpu'.stack) = back.pc
              /\ cpu'.stack.sp = Up(back.sp) ]_vars

(* The sampler accounts for every cycle of a frame, interrupt entries       *)
(* included, whatever the frame was cut into, and for no pin more than that.*)
FrameIsAccounted ==
  /\ frame = cycles - opened.at
  /\ \A p \in Watched : high[p] <= frame

=============================================================================
