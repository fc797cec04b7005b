------------------------------- MODULE CpuOps -------------------------------
(***************************************************************************)
(* The processor as functions on its state (core/src/cpu.rs,                *)
(* core/src/interrupts.rs): one whole step(), set_pin and reset.            *)
(*                                                                         *)
(*   c = [w, pc, mem, stack, prescaler, inhibit, ee]                         *)
(*                                                                         *)
(* The cycle count, the sampler and the program are kept beside it.         *)
(***************************************************************************)
EXTENDS DataMem, Alu, InstructionSet, TimerOps, StackOps, EepromOps

PROG_WORDS == 2048
BLANK_WORD == 16383
PcRange    == 0..8191         \* 13 bits

INT_VECTOR == 4

INTERRUPT_ENTRY_CYCLES == 2

GIE  == 7
T0IE == 5
INTE == 4
RBIE == 3
T0IF == 2
INTF == 1
RBIF == 0

(* interrupts.rs: pending *)
Pending(intcon) ==
  /\ Bit(intcon, GIE) = 1
  /\ \/ Bit(intcon, T0IE) = 1 /\ Bit(intcon, T0IF) = 1
     \/ Bit(intcon, INTE) = 1 /\ Bit(intcon, INTF) = 1
     \/ Bit(intcon, RBIE) = 1 /\ Bit(intcon, RBIF) = 1

Intcon(c) == c.mem.cells[INTCON]

(* Power-on reset; the EEPROM array survives. *)
PowerOn(cells) ==
  [w |-> 0, pc |-> 0,
   mem |-> Poke(Poke(Poke(ClearMem, STATUS, 24), TRISA, 255), TRISB, 255),
   stack |-> EmptyStack, prescaler |-> 0, inhibit |-> 0,
   ee |-> [cells |-> cells, unlock |-> 0]]

----------------------------------------------------------------------------
(* Kinds of instruction                                                     *)

FileOps  == {"ADDWF", "SUBWF", "ANDWF", "IORWF", "XORWF", "COMF", "MOVF", "INCF",
             "DECF", "SWAPF", "RLF", "RRF", "INCFSZ", "DECFSZ"}
Literals8 == {"MOVLW", "RETLW", "ADDLW", "SUBLW", "ANDLW", "IORLW", "XORLW"}
Returns  == {"RETURN", "RETLW", "RETFIE"}

(* writes_file *)
WritesFile(i) ==
  i.m \in {"MOVWF", "CLRF", "BCF", "BSF"} \/ (i.m \in FileOps /\ i.destF)

WritesW(i) == i.m \in Literals8 \cup {"CLRW"} \/ (i.m \in FileOps /\ ~i.destF)

JumpsByPcl(i) == WritesFile(i) /\ i.f = PCL

(* The cell that instruction i writes, if any, the memory being m before. *)
Written(m, i) ==
  IF ~WritesFile(i) \/ (i.f = INDF /\ PointsNowhere(m)) THEN {}
  ELSE {IF i.f = INDF THEN IndirectPhys(m) ELSE Phys(i.f, Bank(m))}

----------------------------------------------------------------------------
(* Execute.  v is the operand, r the result, c0 the state before.           *)

Operand(c, i) == IF i.m \in Literals8 THEN i.k ELSE Read(c.mem, i.f)

ResultOf(c, i) ==
  Result(i.m, Operand(c, i), c.w, Flag(c.mem, STATUS_C), i.bit)

(* PC<12:8> = PCLATH<4:0>, PC<7:0> = PCL *)
ComputedTarget(m) == (m.cells[PCLATH] % 32) * 256 + m.cells[PCL]

(* PC<12:11> = PCLATH<4:3>, PC<10:0> = k *)
BranchTarget(m, k) == ((m.cells[PCLATH] \div 8) % 4) * 2048 + k

Store(c, i, r) ==
  IF WritesFile(i)
  THEN LET m == Write(c.mem, i.f, r)
       IN [c EXCEPT !.mem = m, !.pc = IF i.f = PCL THEN ComputedTarget(m) ELSE @]
  ELSE IF WritesW(i) THEN [c EXCEPT !.w = r] ELSE c

SetIf(cond, m, b, x) == IF cond THEN SetFlag(m, b, x) ELSE m

(* Flags are set after the result is stored: they win over a result that    *)
(* went to STATUS.                                                          *)
SetFlags(c0, c, i, v, r) ==
  LET z == SetIf(i.m \in SetsZ, c.mem, STATUS_Z, AsBit(r = 0))
      y == SetIf(i.m \in Adds \cup Subtracts \cup {"RLF", "RRF"}, z, STATUS_C,
                 CarryOut(i.m, v, c0.w, 0))
      x == SetIf(i.m \in Adds \cup Subtracts, y, STATUS_DC,
                 DigitCarryOut(i.m, v, c0.w, 0))
      t == SetIf(i.m \in {"CLRWDT", "SLEEP"}, x, STATUS_TO, 1)
  IN [c EXCEPT !.mem = SetIf(i.m \in {"CLRWDT", "SLEEP"}, t, STATUS_PD,
                             AsBit(i.m = "CLRWDT"))]

SkipOps == {"INCFSZ", "DECFSZ", "BTFSC", "BTFSS"}

Skips(i, v, r) ==
  \/ i.m \in {"INCFSZ", "DECFSZ"} /\ r = 0
  \/ i.m = "BTFSC" /\ Bit(v, i.bit) = 0
  \/ i.m = "BTFSS" /\ Bit(v, i.bit) = 1

Jump(c, i, v, r) ==
  CASE Skips(i, v, r)    -> [c EXCEPT !.pc = (@ + 1) % 8192]
    [] i.m = "GOTO"      -> [c EXCEPT !.pc = BranchTarget(c.mem, i.k)]
    [] i.m = "CALL"      -> [c EXCEPT !.stack = Push(@, c.pc),
                                      !.pc = BranchTarget(c.mem, i.k)]
    [] i.m \in Returns   -> [c EXCEPT !.pc = Top(c.stack), !.stack = Popped(@)]
    [] OTHER             -> c

EnableAfterReturn(c, i) ==
  IF i.m = "RETFIE" THEN [c EXCEPT !.mem.cells[INTCON] = WithBit(@, GIE, 1)] ELSE c

Execute(c, i) ==
  LET v == Operand(c, i)
      r == ResultOf(c, i)
  IN EnableAfterReturn(Jump(SetFlags(c, Store(c, i, r), i, v, r), i, v, r), i)

(* Cycles of the instruction itself. *)
Cost(c, i) ==
  IF \/ i.m \in {"GOTO", "CALL"} \cup Returns
     \/ JumpsByPcl(i)
     \/ Skips(i, Operand(c, i), ResultOf(c, i))
  THEN 2 ELSE 1

----------------------------------------------------------------------------
(* What follows every instruction                                           *)

TimerOf(c) == [tmr0 |-> c.mem.cells[TMR0], t0if |-> Bit(Intcon(c), T0IF),
               prescaler |-> c.prescaler, inhibit |-> c.inhibit]
OptionBits(o) == [t0cs |-> Bit(o, 5), psa |-> Bit(o, 3), ps |-> o % 8]
OptionOf(c) == OptionBits(c.mem.cells[OPTION_REG])

WithTimer(c, t) ==
  [c EXCEPT !.prescaler = t.prescaler, !.inhibit = t.inhibit,
            !.mem = Poke(Poke(@, TMR0, t.tmr0),
                         INTCON, WithBit(Intcon(c), T0IF, t.t0if))]

(* Mutant: the bank is forgotten, a write to OPTION_REG passes for TMR0's. *)
RunTimerAnyBank(c, i, bank, cyc) ==
  WithTimer(c, IF WritesFile(i) /\ i.f = TMR0
               THEN OnTmr0Write(TimerOf(c))
               ELSE Tick(TimerOf(c), OptionOf(c), cyc))

(* `bank' is the bank selected before the instruction. *)
RunTimer(c, i, bank, cyc) ==
  WithTimer(c, IF WritesFile(i) /\ bank = 0 /\ i.f = TMR0
               THEN OnTmr0Write(TimerOf(c))
               ELSE Tick(TimerOf(c), OptionOf(c), cyc))

EeRegs(m) == [rd |-> Bit(m.cells[EECON1], 0), wr |-> Bit(m.cells[EECON1], 1),
              wren |-> Bit(m.cells[EECON1], 2),
              data |-> m.cells[EEDATA], adr |-> m.cells[EEADR]]

WithEeRegs(m, r) ==
  Poke(Poke(m, EEDATA, r.data),
       EECON1, WithBit(WithBit(m.cells[EECON1], 0, r.rd), 1, r.wr))

RunEeprom(c, i, bank) ==
  CASE WritesFile(i) /\ bank = 1 /\ i.f = EECON1 % 128 ->
         [c EXCEPT !.mem = WithEeRegs(@, Eecon1Regs(EeRegs(c.mem), c.ee)),
                   !.ee = Eecon1Array(EeRegs(c.mem), @)]
    [] WritesFile(i) /\ bank = 1 /\ i.f = EECON2 % 128 ->
         [c EXCEPT !.ee.unlock = Unlocked(@, c.mem.cells[EECON2])]
    [] OTHER -> c

(* Mutants: interrupts are turned off and nothing else; the vector is taken  *)
(* before the PC is pushed.                                                 *)
ServiceInterruptsDropped(c) ==
  IF Pending(Intcon(c)) THEN [c EXCEPT !.mem.cells[INTCON] = WithBit(@, GIE, 0)] ELSE c

ServiceInterruptsLate(c) ==
  IF Pending(Intcon(c))
  THEN [c EXCEPT !.stack = Push(@, INT_VECTOR), !.pc = INT_VECTOR,
                 !.mem.cells[INTCON] = WithBit(@, GIE, 0)]
  ELSE c

(* service_interrupts *)
ServiceInterrupts(c) ==
  IF Pending(Intcon(c))
  THEN [c EXCEPT !.stack = Push(@, c.pc), !.pc = INT_VECTOR,
                 !.mem.cells[INTCON] = WithBit(@, GIE, 0)]
  ELSE c

EntryCost(c) == IF Pending(Intcon(c)) THEN INTERRUPT_ENTRY_CYCLES ELSE 0

----------------------------------------------------------------------------
(* step(), for a PC inside the flash                                        *)

(* The PC moves past the fetched word, and PCL shows it. *)
Fetched(c) ==
  LET next == (c.pc + 1) % 8192
  IN [c EXCEPT !.pc = next, !.mem = Poke(@, PCL, next % 256)]

(* The state when interrupts are looked at, and the cycles spent until then. *)
Executed(c, i) ==
  LET f    == Fetched(c)
      bank == Bank(f.mem)
      cyc  == Cost(f, i)
  IN [state |-> RunEeprom(RunTimer(Execute(f, i), i, bank, cyc), i, bank),
      spent |-> cyc]

----------------------------------------------------------------------------
(* set_pin: pin RA0..RA7 = 0..7, RB0..RB7 = 8..15                           *)

RaisesFlag(c, pin, x) ==
  /\ pin >= 8
  /\ ExtLevel(c.mem, 1, pin - 8) # x
  /\ Bit(c.mem.cells[TRISB], pin - 8) = 1

(* The level reaches the pin; an edge on an input of PORTB raises INTF      *)
(* (RB0, the edge INTEDG selects) or RBIF (RB4..RB7).                       *)
PinSet(c, pin, x) ==
  LET m     == SetExt(c.mem, pin \div 8, pin % 8, x)
      Raise(b) == [c EXCEPT !.mem = Poke(m, INTCON, WithBit(Intcon(c), b, 1))]
  IN CASE RaisesFlag(c, pin, x) /\ pin = 8 /\ x = Bit(c.mem.cells[OPTION_REG], 6) ->
            Raise(INTF)
       [] RaisesFlag(c, pin, x) /\ pin \in 12..15 -> Raise(RBIF)
       [] OTHER -> [c EXCEPT !.mem = m]

=============================================================================
