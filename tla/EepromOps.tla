----------------------------- MODULE EepromOps -----------------------------
(***************************************************************************)
(* The data EEPROM behind its registers (core/src/cpu.rs, eecon1_write and  *)
(* eecon2_write).                                                           *)
(*   r  = [rd, wr, wren, data, adr]: the bits of EECON1 that matter, EEDATA *)
(*        and EEADR;                                                        *)
(*   ee = [cells, unlock]: the array and the progress of the unlock         *)
(*        sequence: 0 idle, 1 saw 0x55, 2 armed.                            *)
(***************************************************************************)
EXTENDS Integers

CONSTANT EeSize      \* 128 in the code

ASSUME EeSizeAssumption == EeSize \in Nat \ {0}

KEY1 == 85     \* 0x55
KEY2 == 170    \* 0xAA

(* RD: one byte into EEDATA, at once. *)
ServeRead(r, ee) ==
  IF r.rd = 1 THEN [r EXCEPT !.data = ee.cells[r.adr % EeSize], !.rd = 0] ELSE r

(* WR: needs WREN and the unlock sequence; either way WR clears and the     *)
(* lock falls shut.                                                         *)
(* Mutant: WREN is enough. *)
CommitsUnlocked(r, ee) == r.wr = 1 /\ r.wren = 1

Commits(r, ee) == r.wr = 1 /\ r.wren = 1 /\ ee.unlock = 2

Burn(r, ee) ==
  [cells  |-> IF Commits(r, ee) THEN [ee.cells EXCEPT ![r.adr % EeSize] = r.data]
                                ELSE ee.cells,
   unlock |-> IF r.wr = 1 THEN 0 ELSE ee.unlock]

(* eecon1_write, after the new value is in the register: a read is served   *)
(* before a write.                                                          *)
Eecon1Regs(r, ee)   == [ServeRead(r, ee) EXCEPT !.wr = 0]
Eecon1Array(r, ee)  == Burn(ServeRead(r, ee), ee)

(* Mutant: a stray byte does not disturb the sequence. *)
UnlockedDespiteOthers(u, v) ==
  CASE u = 0 /\ v = KEY1 -> 1
    [] u = 1 /\ v = KEY2 -> 2
    [] OTHER             -> u

(* eecon2_write of v *)
Unlocked(u, v) ==
  CASE u = 0 /\ v = KEY1 -> 1
    [] u = 1 /\ v = KEY2 -> 2
    [] OTHER             -> 0

=============================================================================
