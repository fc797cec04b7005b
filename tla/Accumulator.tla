---------------------------- MODULE Accumulator ----------------------------
(***************************************************************************)
(* A register with C and DC under any sequence of arithmetic instructions   *)
(* (cpu.rs), and beside it the same register worked by full adders: the     *)
(* meaning the processor gives to carry, digit carry and borrow.            *)
(***************************************************************************)
EXTENDS Alu

CONSTANT Operands     \* the other operand: W or the literal

ASSUME OperandsAssumption == Operands \subseteq Byte

VARIABLES
  alu,       \* [r, c, dc] as cpu.rs leaves them
  gates      \* [r, c, dc] as the adders leave them

aluVars == <<alu, gates>>

(* Carries(a, b, cin)[i]: the carry into bit i of a + b + cin. *)
Carries(a, b, cin) ==
  LET k[i \in 0..8] ==
        IF i = 0 THEN cin
        ELSE IF Bit(a, i - 1) + Bit(b, i - 1) + k[i - 1] >= 2 THEN 1 ELSE 0
  IN k

Adder(a, b, cin) ==
  LET k == Carries(a, b, cin)
  IN [r  |-> FromBits([i \in BitNo |-> (Bit(a, i) + Bit(b, i) + k[i]) % 2]),
      c  |-> k[8],
      dc |-> k[4]]

(* a - b: add the complement, with the borrow input off. *)
Subtractor(a, b) == Adder(a, 255 - b, 1)

AluInit == alu = [r |-> 0, c |-> 0, dc |-> 0] /\ gates = alu

(* Instruction m on operand v with w in W, result into the register. *)
Operate(m, v, w) ==
  alu' = [r  |-> Result(m, v, w, alu.c, 0),
          c  |-> CarryOut(m, v, w, alu.c),
          dc |-> DigitCarryOut(m, v, w, alu.dc)]

(* ADDWF and SUBWF with x in W; SUBLW x with the register in W. *)
AddW(x)      == Operate("ADDWF", alu.r, x) /\ gates' = Adder(gates.r, x, 0)
SubtractW(x) == Operate("SUBWF", alu.r, x) /\ gates' = Subtractor(gates.r, x)
SubFrom(x)   == Operate("SUBLW", x, alu.r) /\ gates' = Subtractor(x, gates.r)

(* INCF and DECF leave the carries alone. *)
Increment == Operate("INCF", alu.r, 0)
               /\ gates' = [gates EXCEPT !.r = Adder(@, 1, 0).r]
Decrement == Operate("DECF", alu.r, 0)
               /\ gates' = [gates EXCEPT !.r = Subtractor(@, 1).r]

(* Rotations move nine bits, the carry on top of the register. *)
Nine(g) == g.r + 256 * g.c
Shifted(n) == [gates EXCEPT !.r = n % 256, !.c = n \div 256]

RotateLeft  == Operate("RLF", alu.r, 0)
                 /\ gates' = Shifted(((2 * Nine(gates)) % 512) + Nine(gates) \div 256)
RotateRight == Operate("RRF", alu.r, 0)
                 /\ gates' = Shifted((Nine(gates) \div 2) + 256 * (Nine(gates) % 2))

(* SWAPF exchanges the nibbles, COMF complements. *)
Swap       == Operate("SWAPF", alu.r, 0)
                /\ gates' = [gates EXCEPT !.r = 16 * (@ % 16) + @ \div 16]
Complement == Operate("COMF", alu.r, 0)
                /\ gates' = [gates EXCEPT !.r = Subtractor(255, @).r]

AluNext ==
  \/ \E x \in Operands : AddW(x) \/ SubtractW(x) \/ SubFrom(x)
  \/ Increment \/ Decrement \/ RotateLeft \/ RotateRight \/ Swap \/ Complement

AluSpec == AluInit /\ [][AluNext]_aluVars

(* add8, sub8 and the rotations compute what full adders and a nine-bit     *)
(* shift register compute, carry, digit carry and NOT-borrow included, in   *)
(* any sequence of instructions.                                            *)
AgreesWithGates == alu = gates

=============================================================================
