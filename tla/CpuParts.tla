------------------------------ MODULE CpuParts ------------------------------
(***************************************************************************)
(* The processor is made of its parts: what any step of Cpu does to the      *)
(* clock, the timer and the data EEPROM is an operation of Scheduler, Timer0 *)
(* and Eeprom.                                                              *)
(***************************************************************************)
EXTENDS Cpu

OptionSettings == [t0cs : {0, 1}, psa : {0, 1}, ps : 0..7]
NoKeys         == <<-1, -1, -1>>

(* The processor's timer and EEPROM, each with the history that its          *)
(* specification keeps as a parameter.                                      *)
TheTimer(event, spent) == INSTANCE Timer0 WITH
  InstrCosts <- 1..2, Loads <- Byte, Options <- OptionSettings,
  timer <- TimerOf(cpu), option <- OptionOf(cpu)

TheEeprom(keys) == INSTANCE Eeprom WITH
  Data <- Byte, Addresses <- Byte, Keys <- Byte,
  regs <- EeRegs(cpu.mem), ee <- cpu.ee

(* Instruction i of c cycles writes r to the cells of the set w. *)
TimerSees(i, c, w, r) ==
  IF w = {TMR0}
  THEN IF i.f = INDF THEN TheTimer("poke", c)!WriteTmr0Indirect(r, c)
                     ELSE TheTimer("load", c)!WriteTmr0(r, c)
  ELSE IF w = {OPTION_REG} THEN TheTimer("rate", c)!WriteOption(OptionBits(r), c)
  ELSE IF w = {INTCON} THEN TheTimer("ack", c)!WriteT0if(Bit(r, T0IF), c)
  ELSE TheTimer("pass", c)!Instr(c)

EepromSees(i, w, r) ==
  IF w = {EECON1}
  THEN IF i.f = INDF THEN TheEeprom(NoKeys)!PokeEecon1(Bit(r, 0), Bit(r, 1), Bit(r, 2))
                     ELSE TheEeprom(NoKeys)!WriteEecon1(Bit(r, 0), Bit(r, 1), Bit(r, 2))
  ELSE IF w = {EECON2} /\ i.f # INDF THEN TheEeprom(<<r, r, r>>)!WriteEecon2(r)
  ELSE IF w = {EEDATA} THEN TheEeprom(NoKeys)!WriteEedata(r)
  ELSE IF w = {EEADR} THEN TheEeprom(NoKeys)!WriteEeadr(r)
  ELSE UNCHANGED <<EeRegs(cpu.mem), cpu.ee>>

(* The instruction that is fetched, with its cost, target and result. *)
PartsSeeStep ==
  LET f == Fetched(cpu)
  IN \E i \in {InstructionAt(cpu.pc)} :
     \E c \in {Cost(f, i)}, w \in {Written(f.mem, i)}, r \in {ResultOf(f, i)} :
       c \in 1..2 /\ TimerSees(i, c, w, r) /\ EepromSees(i, w, r)

(* Pins and frames are nothing to them, the debugger's edits and resets are  *)
(* operations of their own.                                                 *)
PartsSeeEvent ==
  /\ \/ UNCHANGED <<TimerOf(cpu), OptionOf(cpu)>>
     \/ TheTimer("reset", 0)!TimerPowerUp
     \/ \E v \in Byte : TheTimer("poke", 0)!DebugTmr0(v)
     \/ \E o \in OptionSettings : TheTimer("rate", 0)!DebugOption(o)
     \/ \E b \in {0, 1} : TheTimer("ack", 0)!DebugT0if(b)
  /\ \/ UNCHANGED <<EeRegs(cpu.mem), cpu.ee>>
     \/ TheEeprom(NoKeys)!EepromReset
     \/ TheEeprom(NoKeys)!LoadImage(0, 255)
     \/ \E rd, wr, wren \in {0, 1} : TheEeprom(NoKeys)!PokeEecon1(rd, wr, wren)
     \/ \E v \in Byte : TheEeprom(NoKeys)!WriteEedata(v) \/ TheEeprom(NoKeys)!WriteEeadr(v)

(* A step of any firmware is what the parts take it for: one to four cycles  *)
(* to the scheduler; to the timer and the EEPROM the operation on them that  *)
(* the instruction says, whatever its address mode, its bank and its cost,   *)
(* and to the timer else the cycles of the instruction.  Nothing that comes  *)
(* between two instructions does anything else to them.                     *)
StepFitsItsParts ==
  [][ IF ran' = NoInstr THEN PartsSeeEvent
      ELSE cycles' - cycles \in 1..4 /\ PartsSeeStep ]_vars

=============================================================================
