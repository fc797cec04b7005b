------------------------------ MODULE DataMem ------------------------------
(***************************************************************************)
(* Data memory of the PIC16F628A (core/src/memory.rs): four banks of 128    *)
(* cells, registers and common RAM that every bank shares, indirection      *)
(* through FSR and INDF, and ports whose input bits read the outside level. *)
(*                                                                         *)
(* A memory is a record [cells, extA, extB].                                *)
(***************************************************************************)
EXTENDS Bits

INDF       == 0
TMR0       == 1
PCL        == 2
STATUS     == 3
FSR        == 4
PORTA      == 5
PORTB      == 6
PCLATH     == 10
INTCON     == 11

OPTION_REG == 129
TRISA      == 133
TRISB      == 134
EEDATA     == 154
EEADR      == 155
EECON1     == 156
EECON2     == 157

STATUS_C   == 0
STATUS_DC  == 1
STATUS_Z   == 2
STATUS_PD  == 3
STATUS_TO  == 4
STATUS_RP0 == 5
STATUS_RP1 == 6
STATUS_IRP == 7

SHARED == {PCL, STATUS, FSR, PCLATH, INTCON}

Cells == 0..511

(* DataMem::new, followed by what Cpu::reset stores. *)
ClearMem == [cells |-> [p \in Cells |-> 0], extA |-> 0, extB |-> 0]

Bank(m) == Bit(m.cells[STATUS], STATUS_RP0) + 2 * Bit(m.cells[STATUS], STATUS_RP1)

(* phys(off, bank): the cell behind a 7-bit offset. *)
Phys(off, bank) ==
  IF off \in SHARED \/ off >= 112 THEN off ELSE bank * 128 + off

PortA(m) == Mux(m.cells[TRISA], m.extA, m.cells[PORTA])
PortB(m) == Mux(m.cells[TRISB], m.extB, m.cells[PORTB])

ReadPhys(m, p) ==
  CASE p = PORTA -> PortA(m)
    [] p = PORTB -> PortB(m)
    [] OTHER     -> m.cells[p]

Poke(m, p, v) == [m EXCEPT !.cells[p] = v]

(* indirect_phys: FSR offset 0 is INDF itself and points nowhere. *)
PointsNowhere(m) == m.cells[FSR] % 128 = 0
IndirectPhys(m) ==
  Phys(m.cells[FSR] % 128, 2 * Bit(m.cells[STATUS], STATUS_IRP) + m.cells[FSR] \div 128)

Read(m, off) ==
  CASE off # INDF                       -> ReadPhys(m, Phys(off, Bank(m)))
    [] off = INDF /\ PointsNowhere(m)   -> 0
    [] off = INDF /\ ~PointsNowhere(m)  -> ReadPhys(m, IndirectPhys(m))

Write(m, off, v) ==
  CASE off # INDF                       -> Poke(m, Phys(off, Bank(m)), v)
    [] off = INDF /\ PointsNowhere(m)   -> m
    [] off = INDF /\ ~PointsNowhere(m)  -> Poke(m, IndirectPhys(m), v)

Flag(m, b)       == Bit(m.cells[STATUS], b)
SetFlag(m, b, x) == Poke(m, STATUS, WithBit(m.cells[STATUS], b, x))

(* Outside level of pin RAb (port 0) or RBb (port 1). *)
ExtLevel(m, port, b) == Bit(IF port = 0 THEN m.extA ELSE m.extB, b)
SetExt(m, port, b, x) ==
  IF port = 0 THEN [m EXCEPT !.extA = WithBit(@, b, x)]
              ELSE [m EXCEPT !.extB = WithBit(@, b, x)]

=============================================================================
