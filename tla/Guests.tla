------------------------------- MODULE Guests -------------------------------
(***************************************************************************)
(* Small programs for module Cpu, in the idioms of the lab firmware    *)
(* (interrupt routine that saves its context, multiplexed display, EEPROM   *)
(* write sequence, table read by a computed jump), and what each of them    *)
(* may expect of the processor.  `shadow' is a second processor that runs   *)
(* the main program alone and never takes an interrupt.                     *)
(***************************************************************************)
EXTENDS Cpu

VARIABLES
  shadow,
  loaded   \* history: the last operation was the loading of a file

St(m, f, d, bit, k) == [m |-> m, f |-> f, d |-> d, bit |-> bit, k |-> k]
Inh(m)     == St(m, 0, FALSE, 0, 0)
ToW(m, f)  == St(m, f, FALSE, 0, 0)
ToF(m, f)  == St(m, f, TRUE, 0, 0)
OnBit(m, f, b) == St(m, f, FALSE, b, 0)
Lit(m, k)  == St(m, 0, FALSE, 0, k)

Low == 32          \* 0x20, 0x21: a 16-bit counter of the main program
HighByte == 33
Served == 34       \* 0x22: a counter of the interrupt routine
SavedW == 112      \* 0x70, 0x71: the saved context, in common RAM
SavedStatus == 113

(* The main program adds 1 to a 16-bit counter, through W and the carry; the *)
(* interrupt routine (RB0/INT and RB4..7) saves W and STATUS the usual way, *)
(* calls a subroutine and clobbers both.                                    *)
CounterProgram == <<
  (*  0 *) Lit("GOTO", 18),
           Inh("NOP"), Inh("NOP"), Inh("NOP"),
  (*  4 *) ToF("MOVWF", SavedW), ToW("SWAPF", STATUS), ToF("MOVWF", SavedStatus),
  (*  7 *) OnBit("BCF", INTCON, INTF), OnBit("BCF", INTCON, RBIF),
  (*  9 *) Lit("CALL", 16), ToF("ADDWF", Served),
  (* 11 *) ToW("SWAPF", SavedStatus), ToF("MOVWF", STATUS),
  (* 13 *) ToF("SWAPF", SavedW), ToW("SWAPF", SavedW), Inh("RETFIE"),
  (* 16 *) Lit("RETLW", 255), Inh("NOP"),
  (* 18 *) Lit("MOVLW", 254), ToF("MOVWF", Low),
           Lit("MOVLW", 152), ToF("MOVWF", INTCON),
  (* 22 *) Lit("MOVLW", 1), ToF("ADDWF", Low), OnBit("BTFSC", STATUS, STATUS_C),
           ToF("INCF", HighByte), Lit("GOTO", 22) >>

(* Two digits on RB1 and RB2 refreshed by a TMR0 interrupt that saves its    *)
(* context.                                                                 *)
MultiplexProgram == <<
  (*  0 *) Lit("GOTO", 17),
           Inh("NOP"), Inh("NOP"), Inh("NOP"),
  (*  4 *) ToF("MOVWF", SavedW), ToW("SWAPF", STATUS), ToF("MOVWF", SavedStatus),
  (*  7 *) OnBit("BCF", INTCON, T0IF), Lit("MOVLW", 6), ToF("XORWF", PORTB),
           Lit("MOVLW", 240), ToF("MOVWF", TMR0),
  (* 12 *) ToW("SWAPF", SavedStatus), ToF("MOVWF", STATUS),
           ToF("SWAPF", SavedW), ToW("SWAPF", SavedW), Inh("RETFIE"),
  (* 17 *) OnBit("BSF", STATUS, STATUS_RP0), ToF("CLRF", 6),
           Lit("MOVLW", 8), ToF("MOVWF", 1), OnBit("BCF", STATUS, STATUS_RP0),
  (* 22 *) Lit("MOVLW", 2), ToF("MOVWF", PORTB), Lit("MOVLW", 240), ToF("MOVWF", TMR0),
           Lit("MOVLW", 160), ToF("MOVWF", INTCON),
  (* 28 *) Lit("GOTO", 28) >>

(* TMR0 counts cycles 1:1 and is never loaded; RB0/INT interrupts. *)
StopwatchProgram == <<
  (*  0 *) Lit("GOTO", 6),
           Inh("NOP"), Inh("NOP"), Inh("NOP"),
  (*  4 *) OnBit("BCF", INTCON, INTF), Inh("RETFIE"),
  (*  6 *) OnBit("BSF", STATUS, STATUS_RP0), Lit("MOVLW", 8), ToF("MOVWF", 1),
           OnBit("BCF", STATUS, STATUS_RP0), Lit("MOVLW", 144), ToF("MOVWF", INTCON),
  (* 12 *) Lit("GOTO", 12) >>

(* A byte read from the EEPROM, incremented and written back, with a nested  *)
(* pair of calls, a table read by a computed jump, and indirection.         *)
StorageProgram == <<
  (*  0 *) Lit("MOVLW", 85), OnBit("BSF", STATUS, STATUS_RP0),
           OnBit("BSF", EECON1, 2), OnBit("BSF", EECON1, 0),
  (*  4 *) ToF("INCF", EEDATA), ToF("MOVWF", EECON2),
           Lit("MOVLW", 170), ToF("MOVWF", EECON2), OnBit("BSF", EECON1, 1),
  (*  9 *) ToW("MOVF", EEDATA), OnBit("BCF", STATUS, STATUS_RP0),
  (* 11 *) Lit("ANDLW", 1), Lit("CALL", 16),
           ToF("MOVWF", FSR), ToF("DECFSZ", INDF), Lit("GOTO", 0),
  (* 16 *) ToF("ADDWF", PCL), Lit("RETLW", 32), Lit("RETLW", 161) >>

(* "debugged" is the display again, under the debugger. *)
Sources == [counter |-> CounterProgram, multiplex |-> MultiplexProgram,
            stopwatch |-> StopwatchProgram, storage |-> StorageProgram,
            debugged |-> MultiplexProgram]

(* The words asm.js makes of them. *)
Programs ==
  [fw \in DOMAIN Sources |-> [n \in DOMAIN Sources[fw] |-> Encode(Sources[fw][n])]]

----------------------------------------------------------------------------
GuestInit == Init /\ shadow = cpu /\ loaded = TRUE

(* The shadow executes what the processor executes outside interrupts.  Once *)
(* the debugger has edited the state there is no main program to compare with. *)
Follow ==
  shadow' = CASE edited            -> cpu'
              [] ~edited /\ isr # <<>> -> shadow
              [] ~edited /\ isr = <<>> -> Executed(shadow, InstructionAt(shadow.pc)).state

GuestNext ==
  \/ Step /\ Follow /\ loaded' = FALSE
  \/ (\E pin \in Pins[firmware] : SetPin(pin))
       /\ shadow' = (IF edited THEN cpu' ELSE shadow) /\ loaded' = FALSE
  \/ ResetFrame /\ UNCHANGED shadow /\ loaded' = FALSE
  \/ (\E e \in Edits[firmware] : WriteData(e[1], e[2]) \/ SetW(e[2]))
       /\ shadow' = cpu' /\ loaded' = FALSE
  \/ (\E a \in Detours[firmware] : SetPc(a)) /\ shadow' = cpu' /\ loaded' = FALSE
  \/ Reset /\ shadow' = cpu' /\ loaded' = FALSE
  \/ (\E fw \in Firmware : LoadHex(fw)) /\ shadow' = cpu' /\ loaded' = TRUE

GuestSpec == GuestInit /\ [][GuestNext]_<<vars, shadow, loaded>>

----------------------------------------------------------------------------
(* Where the main program stands, interrupted or not. *)
MainPc == IF isr = <<>> THEN cpu.pc ELSE isr[1].pc

Main(c) == <<c.w, c.stack.sp, c.mem.cells[STATUS], c.mem.cells[Low],
             c.mem.cells[HighByte]>>

(* Interrupts are invisible to the main program: whatever instructions they *)
(* come after, it runs through the same addresses and, whenever it has the  *)
(* processor, finds W, STATUS, the stack and its own registers as if there  *)
(* were none - the half-finished carry from one byte to the next included.  *)
InterruptsAreInvisible ==
  /\ MainPc = shadow.pc
  /\ isr = <<>> => Main(cpu) = Main(shadow)

(* The two digits of the multiplexed display divide each frame between them *)
(* without gap or overlap: the renderer sees them as bright as the firmware *)
(* lit them, for every position of the frame in the refresh cycle.          *)
DigitsShareTheFrame ==
  opened.level[9] + opened.level[10] = 1 => high[9] + high[10] = frame

(* A byte the program keeps in the EEPROM counts up by one each time it is  *)
(* committed, with resets falling anywhere in the read-modify-write and the *)
(* unlock sequence; only loading a file sets it back.                       *)
StorageCounts ==
  [][ cpu'.ee.cells # cpu.ee.cells /\ ~loaded' =>
        cpu'.ee.cells = [cpu.ee.cells EXCEPT ![0] = (@ + 1) % 256]
    ]_<<vars, shadow, loaded>>

(* timer.rs:3: in internal mode TMR0 "counts instruction cycles": with the  *)
(* prescaler off, no hold and no write to the timer's registers, it moves   *)
(* by the cycles that pass.                                                 *)
CountsEveryCycle ==
  [][ ( /\ cycles' > cycles
        /\ OptionOf(cpu).psa = 1 /\ OptionOf(cpu).t0cs = 0 /\ cpu.inhibit = 0
        /\ ~(WritesFile(ran') /\ ran'.f = TMR0) ) =>
        (cpu'.mem.cells[TMR0] - cpu.mem.cells[TMR0]) % 256 = cycles' - cycles
    ]_<<vars, shadow, loaded>>

=============================================================================
