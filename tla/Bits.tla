------------------------------- MODULE Bits -------------------------------
(***************************************************************************)
(* Bytes and program words as naturals, and the operations on their bits    *)
(* that the core's Rust uses: >>, &, |, ^, ! and wrapping arithmetic.        *)
(***************************************************************************)
EXTENDS Integers

Byte  == 0..255
Words == 0..16383     \* program words and the configuration word
BitNo == 0..7

Weight == [i \in 0..15 |-> <<1, 2, 4, 8, 16, 32, 64, 128, 256, 512, 1024,
                             2048, 4096, 8192, 16384, 32768>>[i + 1]]

(* (v >> i) & 1 *)
Bit(v, i) == (v \div Weight[i]) % 2

(* v with bit i made b: v | (1 << i), v & !(1 << i) *)
WithBit(v, i, b) == v + (b - Bit(v, i)) * Weight[i]

(* The byte whose bit i is f[i]. *)
FromBits(f) == f[0] + 2*f[1] + 4*f[2] + 8*f[3] + 16*f[4] + 32*f[5] + 64*f[6] + 128*f[7]

And(a, b) == FromBits([i \in BitNo |-> Bit(a, i) * Bit(b, i)])
Xor(a, b) == FromBits([i \in BitNo |-> (Bit(a, i) + Bit(b, i)) % 2])
Or(a, b)  == a + b - And(a, b)

(* (a & !mask) | (b & mask) *)
Mux(mask, b, a) ==
  FromBits([i \in BitNo |-> IF Bit(mask, i) = 1 THEN Bit(b, i) ELSE Bit(a, i)])

AsBit(p) == IF p THEN 1 ELSE 0

=============================================================================
