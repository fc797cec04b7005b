--------------------------- MODULE InstructionSet ---------------------------
(***************************************************************************)
(* The 14-bit instruction words: the core's decoder (core/src/decode.rs)    *)
(* and the encoder of the in-browser assembler (runtime/asm.js), two tables *)
(* that were written independently of each other.                           *)
(***************************************************************************)
EXTENDS Bits, Sequences

Entry(mask, val, m, fmt) == [mask |-> mask, val |-> val, m |-> m, fmt |-> fmt]

(* TABLE of decode.rs, in its order. *)
TABLE == <<
  Entry(\h3FFF, \h0008, "RETURN", "NoArg"),  Entry(\h3FFF, \h0009, "RETFIE", "NoArg"),
  Entry(\h3FFF, \h0063, "SLEEP", "NoArg"),   Entry(\h3FFF, \h0064, "CLRWDT", "NoArg"),
  Entry(\h3F9F, \h0000, "NOP", "NoArg"),
  Entry(\h3F80, \h0100, "CLRW", "NoArg"),    Entry(\h3F80, \h0080, "MOVWF", "FileF"),
  Entry(\h3F80, \h0180, "CLRF", "FileF"),
  Entry(\h3F00, \h0700, "ADDWF", "ByteFd"),  Entry(\h3F00, \h0500, "ANDWF", "ByteFd"),
  Entry(\h3F00, \h0900, "COMF", "ByteFd"),   Entry(\h3F00, \h0300, "DECF", "ByteFd"),
  Entry(\h3F00, \h0B00, "DECFSZ", "ByteFd"), Entry(\h3F00, \h0A00, "INCF", "ByteFd"),
  Entry(\h3F00, \h0F00, "INCFSZ", "ByteFd"), Entry(\h3F00, \h0400, "IORWF", "ByteFd"),
  Entry(\h3F00, \h0800, "MOVF", "ByteFd"),   Entry(\h3F00, \h0D00, "RLF", "ByteFd"),
  Entry(\h3F00, \h0C00, "RRF", "ByteFd"),    Entry(\h3F00, \h0200, "SUBWF", "ByteFd"),
  Entry(\h3F00, \h0E00, "SWAPF", "ByteFd"),  Entry(\h3F00, \h0600, "XORWF", "ByteFd"),
  Entry(\h3C00, \h1000, "BCF", "Bit"),       Entry(\h3C00, \h1400, "BSF", "Bit"),
  Entry(\h3C00, \h1800, "BTFSC", "Bit"),     Entry(\h3C00, \h1C00, "BTFSS", "Bit"),
  Entry(\h3800, \h2000, "CALL", "Addr11"),   Entry(\h3800, \h2800, "GOTO", "Addr11"),
  Entry(\h3C00, \h3000, "MOVLW", "Lit8"),    Entry(\h3C00, \h3400, "RETLW", "Lit8"),
  Entry(\h3F00, \h3800, "IORLW", "Lit8"),    Entry(\h3F00, \h3900, "ANDLW", "Lit8"),
  Entry(\h3F00, \h3A00, "XORLW", "Lit8"),    Entry(\h3E00, \h3C00, "SUBLW", "Lit8"),
  Entry(\h3E00, \h3E00, "ADDLW", "Lit8")
>>

(* Mutant: the low seven bits are taken for operands in every row. *)
MatchesHigh(w, e) == \A i \in 7..13 : Bit(w, i) * Bit(e.mask, i) = Bit(e.val, i)

(* w & e.mask = e.val *)
Matches(w, e) == \A i \in 0..13 : Bit(w, i) * Bit(e.mask, i) = Bit(e.val, i)

Rows(w) == {n \in DOMAIN TABLE : Matches(w, TABLE[n])}

Instruction(m, f, d, bit, k) == [m |-> m, f |-> f, destF |-> d, bit |-> bit, k |-> k]

(* The operand fields of a word in a given format. *)
Fields(w, m, fmt) ==
  CASE fmt = "ByteFd" -> Instruction(m, w % 128, Bit(w, 7) = 1, 0, 0)
    [] fmt = "FileF"  -> Instruction(m, w % 128, TRUE, 0, 0)
    [] fmt = "NoArg"  -> Instruction(m, 0, FALSE, 0, 0)
    [] fmt = "Bit"    -> Instruction(m, w % 128, FALSE, (w \div 128) % 8, 0)
    [] fmt = "Lit8"   -> Instruction(m, 0, FALSE, 0, w % 256)
    [] fmt = "Addr11" -> Instruction(m, 0, FALSE, 0, w % 2048)

(* decode(word): the first row that matches. *)
Decode(w) ==
  IF Rows(w) = {}
  THEN Instruction("Unknown", 0, FALSE, 0, 0)
  ELSE LET e == TABLE[CHOOSE n \in Rows(w) : \A o \in Rows(w) : n <= o]
       IN Fields(w, e.m, e.fmt)

----------------------------------------------------------------------------
(* The assembler's side                                                     *)

Op(b, t) == [b |-> b, t |-> t]

(* OPS of asm.js. *)
OPS == [
  ADDWF |-> Op(\h0700, "fd"), ANDWF |-> Op(\h0500, "fd"), COMF |-> Op(\h0900, "fd"),
  DECF |-> Op(\h0300, "fd"), DECFSZ |-> Op(\h0B00, "fd"), INCF |-> Op(\h0A00, "fd"),
  INCFSZ |-> Op(\h0F00, "fd"), IORWF |-> Op(\h0400, "fd"), MOVF |-> Op(\h0800, "fd"),
  RLF |-> Op(\h0D00, "fd"), RRF |-> Op(\h0C00, "fd"), SUBWF |-> Op(\h0200, "fd"),
  SWAPF |-> Op(\h0E00, "fd"), XORWF |-> Op(\h0600, "fd"),
  CLRF |-> Op(\h0180, "f"), MOVWF |-> Op(\h0080, "f"),
  CLRW |-> Op(\h0100, ""), NOP |-> Op(\h0000, ""), CLRWDT |-> Op(\h0064, ""),
  RETFIE |-> Op(\h0009, ""), RETURN |-> Op(\h0008, ""), SLEEP |-> Op(\h0063, ""),
  BCF |-> Op(\h1000, "fb"), BSF |-> Op(\h1400, "fb"), BTFSC |-> Op(\h1800, "fb"),
  BTFSS |-> Op(\h1C00, "fb"),
  ADDLW |-> Op(\h3E00, "k"), ANDLW |-> Op(\h3900, "k"), IORLW |-> Op(\h3800, "k"),
  MOVLW |-> Op(\h3000, "k"), SUBLW |-> Op(\h3C00, "k"), XORLW |-> Op(\h3A00, "k"),
  RETLW |-> Op(\h3400, "k"),
  CALL |-> Op(\h2000, "a"), GOTO |-> Op(\h2800, "a") ]

(* f & 0x7F: the register within its bank. Mutant: a mask of eight bits. *)
LowEight(f) == f % 256
LowSeven(f) == f % 128

(* Mutant: the destination bit is set for f as for f,d. *)
EncodeDestination(s) ==
  LET op == OPS[s.m]
  IN IF op.t \in {"fd", "f"}
     THEN op.b + 128 * AsBit(s.d) + LowSeven(s.f)
     ELSE op.b + 128 * s.bit + LowSeven(s.f) + (IF op.t = "k" THEN s.k % 256 ELSE s.k)

(* encode(op, ops): s is a statement whose operands are evaluated:          *)
(* [m, f, d, bit, k].  The fields of b and of the operands do not overlap,  *)
(* so that `|' adds.                                                        *)
Encode(s) ==
  LET op == OPS[s.m]
  IN CASE op.t = ""   -> op.b
       [] op.t = "fd" -> op.b + 128 * AsBit(s.d) + LowSeven(s.f)
       [] op.t = "f"  -> op.b + LowSeven(s.f)
       [] op.t = "fb" -> op.b + 128 * s.bit + LowSeven(s.f)
       [] op.t = "k"  -> op.b + (s.k % 256)
       [] op.t = "a"  -> op.b + s.k

(* The operands encode accepts: a register of the 512-byte space, a bit     *)
(* 0..7, a literal that fits a byte signed or unsigned, an 11-bit address.  *)
Accepted(s) ==
  LET t == OPS[s.m].t
  IN /\ t \in {"fd", "f", "fb"} => s.f \in 0..511
     /\ t = "fb" => s.bit \in 0..7
     /\ t = "k" => s.k \in -128..255
     /\ t = "a" => s.k \in 0..2047

=============================================================================
