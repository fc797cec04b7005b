-------------------------------- MODULE Alu --------------------------------
(***************************************************************************)
(* The arithmetic of the execute stage (core/src/cpu.rs): what each         *)
(* byte-oriented, bit-oriented and literal instruction computes, and which  *)
(* flags it sets.                                                           *)
(***************************************************************************)
EXTENDS Bits

(* add8, sub8: result, carry and digit carry; on the PIC the carries of a   *)
(* subtraction are NOT borrow.                                              *)
Add8(a, b) == [r  |-> (a + b) % 256,
               c  |-> AsBit(a + b > 255),
               dc |-> AsBit((a % 16) + (b % 16) > 15)]

(* Mutant: the carries are borrows. *)
Sub8Borrow(a, b) == [r  |-> (a - b) % 256,
                     c  |-> AsBit(a < b),
                     dc |-> AsBit(a % 16 < b % 16)]

Sub8(a, b) == [r  |-> (a - b) % 256,
               c  |-> AsBit(a >= b),
               dc |-> AsBit(a % 16 >= b % 16)]

(* v << 1 and v >> 1 through the carry *)
RotL(v, carry) == ((2 * v) % 256) + carry
RotR(v, carry) == (v \div 2) + 128 * carry

Adds      == {"ADDWF", "ADDLW"}
Subtracts == {"SUBWF", "SUBLW"}

(* The value instruction m computes from its operand v (a register or a     *)
(* literal), W and the carry; `bit' is the operand of BCF and BSF.          *)
Result(m, v, w, carry, bit) ==
  CASE m \in Adds                -> Add8(v, w).r
    [] m \in Subtracts           -> Sub8(v, w).r
    [] m \in {"ANDWF", "ANDLW"}  -> And(v, w)
    [] m \in {"IORWF", "IORLW"}  -> Or(v, w)
    [] m \in {"XORWF", "XORLW"}  -> Xor(v, w)
    [] m = "COMF"                -> 255 - v
    [] m \in {"MOVF", "MOVLW", "RETLW"} -> v
    [] m \in {"INCF", "INCFSZ"}  -> (v + 1) % 256
    [] m \in {"DECF", "DECFSZ"}  -> (v - 1) % 256
    [] m = "SWAPF"               -> ((v * 16) % 256) + (v \div 16)
    [] m = "RLF"                 -> RotL(v, carry)
    [] m = "RRF"                 -> RotR(v, carry)
    [] m = "MOVWF"               -> w
    [] m \in {"CLRF", "CLRW"}    -> 0
    [] m = "BCF"                 -> WithBit(v, bit, 0)
    [] m = "BSF"                 -> WithBit(v, bit, 1)
    [] OTHER                     -> v

(* Mutant: SWAPF sets Z like the other byte-oriented instructions. *)
SetsZBySwap ==
  {"ADDWF", "SUBWF", "ANDWF", "IORWF", "XORWF", "COMF", "MOVF", "INCF", "DECF", "SWAPF",
   "CLRF", "CLRW", "ADDLW", "SUBLW", "ANDLW", "IORLW", "XORLW"}

SetsZ == {"ADDWF", "SUBWF", "ANDWF", "IORWF", "XORWF", "COMF", "MOVF", "INCF", "DECF",
          "CLRF", "CLRW", "ADDLW", "SUBLW", "ANDLW", "IORLW", "XORLW"}

(* The carry an instruction leaves, given the one it found. *)
CarryOut(m, v, w, carry) ==
  CASE m \in Adds      -> Add8(v, w).c
    [] m \in Subtracts -> Sub8(v, w).c
    [] m = "RLF"       -> Bit(v, 7)
    [] m = "RRF"       -> Bit(v, 0)
    [] OTHER           -> carry

DigitCarryOut(m, v, w, dc) ==
  CASE m \in Adds      -> Add8(v, w).dc
    [] m \in Subtracts -> Sub8(v, w).dc
    [] OTHER           -> dc

=============================================================================
