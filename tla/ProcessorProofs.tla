--------------------------- MODULE ProcessorProofs ---------------------------
(***************************************************************************)
(* Proofs about the processor: its arithmetic, for every operand, and its    *)
(* registers, clock, sampler and interrupts, for every program and whatever *)
(* the pins, the runtime and the debugger do between two instructions.      *)
(***************************************************************************)
EXTENDS CpuParts, Accumulator, WellFoundedInduction, TLAPS

(***************************************************************************)
(* Bits and bytes.                                                          *)
(***************************************************************************)
LEMMA Weights ==
  /\ Weight[0] = 1 /\ Weight[1] = 2 /\ Weight[2] = 4 /\ Weight[3] = 8
  /\ Weight[4] = 16 /\ Weight[5] = 32 /\ Weight[6] = 64 /\ Weight[7] = 128
BY DEF Weight

LEMMA BitNumbers ==
  BitNo = {0, 1, 2, 3, 4, 5, 6, 7}
BY DEF BitNo

LEMMA BitIsBit ==
  ASSUME NEW v \in Int, NEW i \in BitNo
  PROVE  Bit(v, i) \in {0, 1}
BY Weights, BitNumbers DEF Bit

LEMMA BitsOf ==
  ASSUME NEW v \in Int
  PROVE  /\ Bit(v, 0) = v % 2           /\ Bit(v, 1) = (v \div 2) % 2
         /\ Bit(v, 2) = (v \div 4) % 2  /\ Bit(v, 3) = (v \div 8) % 2
         /\ Bit(v, 4) = (v \div 16) % 2 /\ Bit(v, 5) = (v \div 32) % 2
         /\ Bit(v, 6) = (v \div 64) % 2 /\ Bit(v, 7) = (v \div 128) % 2
BY Weights DEF Bit

LEMMA Halves ==
  ASSUME NEW v \in Int
  PROVE  /\ v = (v % 2) + 2 * (v \div 2)
         /\ v \div 2 = ((v \div 2) % 2) + 2 * (v \div 4)
         /\ v \div 4 = ((v \div 4) % 2) + 2 * (v \div 8)
         /\ v \div 8 = ((v \div 8) % 2) + 2 * (v \div 16)
         /\ v \div 16 = ((v \div 16) % 2) + 2 * (v \div 32)
         /\ v \div 32 = ((v \div 32) % 2) + 2 * (v \div 64)
         /\ v \div 64 = ((v \div 64) % 2) + 2 * (v \div 128)
<1>1. v = (v % 2) + 2 * (v \div 2)
  OBVIOUS
<1>2. v \div 2 = ((v \div 2) % 2) + 2 * (v \div 4)
  OBVIOUS
<1>3. v \div 4 = ((v \div 4) % 2) + 2 * (v \div 8)
  OBVIOUS
<1>4. v \div 8 = ((v \div 8) % 2) + 2 * (v \div 16)
  OBVIOUS
<1>5. v \div 16 = ((v \div 16) % 2) + 2 * (v \div 32)
  OBVIOUS
<1>6. v \div 32 = ((v \div 32) % 2) + 2 * (v \div 64)
  OBVIOUS
<1>7. v \div 64 = ((v \div 64) % 2) + 2 * (v \div 128)
  OBVIOUS
<1>8. QED
  BY <1>1, <1>2, <1>3, <1>4, <1>5, <1>6, <1>7

(* A byte is the sum of its bits, its low half that of the low four. *)
LEMMA ByteIsItsBits ==
  ASSUME NEW v \in Byte
  PROVE  /\ v = Bit(v, 0) + 2 * Bit(v, 1) + 4 * Bit(v, 2) + 8 * Bit(v, 3)
                  + 16 * Bit(v, 4) + 32 * Bit(v, 5) + 64 * Bit(v, 6) + 128 * Bit(v, 7)
         /\ v % 16 = Bit(v, 0) + 2 * Bit(v, 1) + 4 * Bit(v, 2) + 8 * Bit(v, 3)
<1>1. v \in Int /\ v \in 0..255
  BY DEF Byte
<1>2. v \div 128 = (v \div 128) % 2
  BY <1>1
<1>3. v = (v % 16) + 16 * (v \div 16)
  BY <1>1
<1>4. /\ v = Bit(v, 0) + 2 * (v \div 2)
      /\ v \div 2 = Bit(v, 1) + 2 * (v \div 4) /\ v \div 4 = Bit(v, 2) + 2 * (v \div 8)
      /\ v \div 8 = Bit(v, 3) + 2 * (v \div 16) /\ v \div 16 = Bit(v, 4) + 2 * (v \div 32)
      /\ v \div 32 = Bit(v, 5) + 2 * (v \div 64) /\ v \div 64 = Bit(v, 6) + 2 * (v \div 128)
      /\ v \div 128 = Bit(v, 7)
  <2>1. /\ v = (v % 2) + 2 * (v \div 2)
        /\ v \div 2 = ((v \div 2) % 2) + 2 * (v \div 4)
        /\ v \div 4 = ((v \div 4) % 2) + 2 * (v \div 8)
        /\ v \div 8 = ((v \div 8) % 2) + 2 * (v \div 16)
        /\ v \div 16 = ((v \div 16) % 2) + 2 * (v \div 32)
        /\ v \div 32 = ((v \div 32) % 2) + 2 * (v \div 64)
        /\ v \div 64 = ((v \div 64) % 2) + 2 * (v \div 128)
    BY <1>1, Halves
  <2>2. /\ Bit(v, 0) = v % 2           /\ Bit(v, 1) = (v \div 2) % 2
        /\ Bit(v, 2) = (v \div 4) % 2  /\ Bit(v, 3) = (v \div 8) % 2
        /\ Bit(v, 4) = (v \div 16) % 2 /\ Bit(v, 5) = (v \div 32) % 2
        /\ Bit(v, 6) = (v \div 64) % 2 /\ Bit(v, 7) = (v \div 128) % 2
    BY <1>1, BitsOf
  <2>3. QED
    BY <1>2, <2>1, <2>2, Zenon
<1>5. \A i \in BitNo : Bit(v, i) \in {0, 1}
  BY <1>1, BitIsBit
<1>6. /\ Bit(v, 0) \in Int /\ Bit(v, 1) \in Int /\ Bit(v, 2) \in Int /\ Bit(v, 3) \in Int
      /\ Bit(v, 4) \in Int /\ Bit(v, 5) \in Int /\ Bit(v, 6) \in Int /\ Bit(v, 7) \in Int
      /\ v \div 2 \in Int /\ v \div 4 \in Int /\ v \div 8 \in Int /\ v \div 16 \in Int
      /\ v \div 32 \in Int /\ v \div 64 \in Int /\ v \div 128 \in Int /\ v % 16 \in Int
  BY <1>1, <1>5, BitNumbers
<1> DEFINE b0 == Bit(v, 0)  b1 == Bit(v, 1)  b2 == Bit(v, 2)  b3 == Bit(v, 3)
           b4 == Bit(v, 4)  b5 == Bit(v, 5)  b6 == Bit(v, 6)  b7 == Bit(v, 7)
           q1 == v \div 2   q2 == v \div 4   q3 == v \div 8   q4 == v \div 16
           q5 == v \div 32  q6 == v \div 64  q7 == v \div 128 low == v % 16
<1>7. /\ v = b0 + 2 * q1 /\ q1 = b1 + 2 * q2 /\ q2 = b2 + 2 * q3 /\ q3 = b3 + 2 * q4
      /\ q4 = b4 + 2 * q5 /\ q5 = b5 + 2 * q6 /\ q6 = b6 + 2 * q7 /\ q7 = b7
      /\ v = low + 16 * q4
      /\ b0 \in Int /\ b1 \in Int /\ b2 \in Int /\ b3 \in Int
      /\ b4 \in Int /\ b5 \in Int /\ b6 \in Int /\ b7 \in Int
      /\ q1 \in Int /\ q2 \in Int /\ q3 \in Int /\ q4 \in Int
      /\ q5 \in Int /\ q6 \in Int /\ q7 \in Int /\ low \in Int
  BY <1>3, <1>4, <1>6, Zenon
<1> HIDE DEF b0, b1, b2, b3, b4, b5, b6, b7, q1, q2, q3, q4, q5, q6, q7, low
<1>8. /\ v = b0 + 2 * b1 + 4 * b2 + 8 * b3 + 16 * b4 + 32 * b5 + 64 * b6 + 128 * b7
      /\ low = b0 + 2 * b1 + 4 * b2 + 8 * b3
  BY <1>1, <1>7
<1>9. QED
  BY <1>8, Zenon DEF b0, b1, b2, b3, b4, b5, b6, b7, low

LEMMA FromBitsIsByte ==
  ASSUME NEW f, \A i \in BitNo : f[i] \in {0, 1}
  PROVE  FromBits(f) \in Byte
<1>1. /\ f[0] \in {0, 1} /\ f[1] \in {0, 1} /\ f[2] \in {0, 1} /\ f[3] \in {0, 1}
      /\ f[4] \in {0, 1} /\ f[5] \in {0, 1} /\ f[6] \in {0, 1} /\ f[7] \in {0, 1}
  BY BitNumbers
<1>2. QED
  BY <1>1 DEF FromBits, Byte

LEMMA WithBitIsByte ==
  ASSUME NEW v \in Byte, NEW i \in BitNo, NEW b \in {0, 1}
  PROVE  WithBit(v, i, b) \in Byte
<1> DEFINE b0 == Bit(v, 0)  b1 == Bit(v, 1)  b2 == Bit(v, 2)  b3 == Bit(v, 3)
           b4 == Bit(v, 4)  b5 == Bit(v, 5)  b6 == Bit(v, 6)  b7 == Bit(v, 7)
<1>1. v \in Int /\ 0 \in BitNo /\ 1 \in BitNo /\ 2 \in BitNo /\ 3 \in BitNo
      /\ 4 \in BitNo /\ 5 \in BitNo /\ 6 \in BitNo /\ 7 \in BitNo
  BY DEF Byte, BitNo
<1>2. /\ b0 \in {0, 1} /\ b1 \in {0, 1} /\ b2 \in {0, 1} /\ b3 \in {0, 1}
      /\ b4 \in {0, 1} /\ b5 \in {0, 1} /\ b6 \in {0, 1} /\ b7 \in {0, 1}
  BY <1>1, BitIsBit
<1>3. v = b0 + 2 * b1 + 4 * b2 + 8 * b3 + 16 * b4 + 32 * b5 + 64 * b6 + 128 * b7
  BY ByteIsItsBits
<1>4. WithBit(v, i, b) \in {v + (b - b0), v + (b - b1) * 2, v + (b - b2) * 4,
        v + (b - b3) * 8, v + (b - b4) * 16, v + (b - b5) * 32, v + (b - b6) * 64,
        v + (b - b7) * 128}
  <2>0. CASE i = 0
    BY <1>1, <1>2, <2>0, Weights DEF WithBit
  <2>1. CASE i = 1
    BY <1>1, <1>2, <2>1, Weights DEF WithBit
  <2>2. CASE i = 2
    BY <1>1, <1>2, <2>2, Weights DEF WithBit
  <2>3. CASE i = 3
    BY <1>1, <1>2, <2>3, Weights DEF WithBit
  <2>4. CASE i = 4
    BY <1>1, <1>2, <2>4, Weights DEF WithBit
  <2>5. CASE i = 5
    BY <1>1, <1>2, <2>5, Weights DEF WithBit
  <2>6. CASE i = 6
    BY <1>1, <1>2, <2>6, Weights DEF WithBit
  <2>7. CASE i = 7
    BY <1>1, <1>2, <2>7, Weights DEF WithBit
  <2>8. QED
    BY <2>0, <2>1, <2>2, <2>3, <2>4, <2>5, <2>6, <2>7, BitNumbers
<1> HIDE DEF b0, b1, b2, b3, b4, b5, b6, b7
<1>5. QED
  BY <1>1, <1>2, <1>3, <1>4 DEF Byte

(* What is put in bit 7 is read from it. *)
LEMMA TopBitIsPut ==
  ASSUME NEW v \in Byte, NEW b \in {0, 1}
  PROVE  Bit(WithBit(v, 7, b), 7) = b
<1>1. v \in Int /\ Bit(v, 7) = (v \div 128) % 2 /\ Weight[7] = 128
  BY BitsOf, Weights DEF Byte
<1>2. WithBit(v, 7, b) = v + (b - ((v \div 128) % 2)) * 128 /\ WithBit(v, 7, b) \in Int
  BY <1>1 DEF WithBit
<1>3. Bit(WithBit(v, 7, b), 7) = (WithBit(v, 7, b) \div 128) % 2
  BY <1>2, BitsOf
<1>4. QED
  BY <1>1, <1>2, <1>3 DEF Byte

(* A byte put together from bits gives them back. *)
LEMMA BitsOfSum ==
  ASSUME NEW b0 \in 0..1, NEW b1 \in 0..1, NEW b2 \in 0..1, NEW b3 \in 0..1,
         NEW b4 \in 0..1, NEW b5 \in 0..1, NEW b6 \in 0..1, NEW b7 \in 0..1,
         NEW v, v = b0 + 2*b1 + 4*b2 + 8*b3 + 16*b4 + 32*b5 + 64*b6 + 128*b7
  PROVE  /\ Bit(v, 0) = b0 /\ Bit(v, 1) = b1 /\ Bit(v, 2) = b2 /\ Bit(v, 3) = b3
         /\ Bit(v, 4) = b4 /\ Bit(v, 5) = b5 /\ Bit(v, 6) = b6 /\ Bit(v, 7) = b7
<1>1. v \in Int
  OBVIOUS
<1>2. v % 2 = b0
  OBVIOUS
<1>3. (v \div 2) % 2 = b1
  OBVIOUS
<1>4. (v \div 4) % 2 = b2
  OBVIOUS
<1>5. (v \div 8) % 2 = b3
  OBVIOUS
<1>6. (v \div 16) % 2 = b4
  OBVIOUS
<1>7. (v \div 32) % 2 = b5
  OBVIOUS
<1>8. (v \div 64) % 2 = b6
  OBVIOUS
<1>9. (v \div 128) % 2 = b7
  OBVIOUS
<1>10. QED
  BY <1>1, <1>2, <1>3, <1>4, <1>5, <1>6, <1>7, <1>8, <1>9, BitsOf

(* Putting a bit changes that bit and no other. *)
LEMMA BitIsPut ==
  ASSUME NEW v \in Byte, NEW i \in BitNo, NEW b \in {0, 1}, NEW j \in BitNo
  PROVE  Bit(WithBit(v, i, b), j) = IF j = i THEN b ELSE Bit(v, j)
<1> DEFINE b0 == Bit(v, 0)  b1 == Bit(v, 1)  b2 == Bit(v, 2)  b3 == Bit(v, 3)
           b4 == Bit(v, 4)  b5 == Bit(v, 5)  b6 == Bit(v, 6)  b7 == Bit(v, 7)
           u == WithBit(v, i, b)
<1>1. /\ b0 \in 0..1 /\ b1 \in 0..1 /\ b2 \in 0..1 /\ b3 \in 0..1
      /\ b4 \in 0..1 /\ b5 \in 0..1 /\ b6 \in 0..1 /\ b7 \in 0..1
      /\ v \in Int /\ b \in 0..1
  <2>1. /\ v \in Int /\ 0 \in BitNo /\ 1 \in BitNo /\ 2 \in BitNo /\ 3 \in BitNo
        /\ 4 \in BitNo /\ 5 \in BitNo /\ 6 \in BitNo /\ 7 \in BitNo
    BY DEF Byte, BitNo
  <2>2. /\ b0 \in {0, 1} /\ b1 \in {0, 1} /\ b2 \in {0, 1} /\ b3 \in {0, 1}
        /\ b4 \in {0, 1} /\ b5 \in {0, 1} /\ b6 \in {0, 1} /\ b7 \in {0, 1}
    BY <2>1, BitIsBit
  <2>3. QED
    BY <2>1, <2>2
<1>2. v = b0 + 2*b1 + 4*b2 + 8*b3 + 16*b4 + 32*b5 + 64*b6 + 128*b7
  BY ByteIsItsBits
<1>3. /\ i = 0 => u = v + (b - b0)
      /\ i = 1 => u = v + (b - b1) * 2
      /\ i = 2 => u = v + (b - b2) * 4
      /\ i = 3 => u = v + (b - b3) * 8
      /\ i = 4 => u = v + (b - b4) * 16
      /\ i = 5 => u = v + (b - b5) * 32
      /\ i = 6 => u = v + (b - b6) * 64
      /\ i = 7 => u = v + (b - b7) * 128
  BY <1>1, Weights DEF WithBit
<1> DEFINE Put(n) == IF i = n THEN b ELSE Bit(v, n)
<1>4. /\ Put(0) \in 0..1 /\ Put(1) \in 0..1 /\ Put(2) \in 0..1 /\ Put(3) \in 0..1
      /\ Put(4) \in 0..1 /\ Put(5) \in 0..1 /\ Put(6) \in 0..1 /\ Put(7) \in 0..1
  BY <1>1
<1>5. u = Put(0) + 2*Put(1) + 4*Put(2) + 8*Put(3) + 16*Put(4) + 32*Put(5) + 64*Put(6)
            + 128*Put(7)
  <2>1. /\ Put(0) = IF i = 0 THEN b ELSE b0
        /\ Put(1) = IF i = 1 THEN b ELSE b1
        /\ Put(2) = IF i = 2 THEN b ELSE b2
        /\ Put(3) = IF i = 3 THEN b ELSE b3
        /\ Put(4) = IF i = 4 THEN b ELSE b4
        /\ Put(5) = IF i = 5 THEN b ELSE b5
        /\ Put(6) = IF i = 6 THEN b ELSE b6
        /\ Put(7) = IF i = 7 THEN b ELSE b7
    OBVIOUS
  <2> HIDE DEF b0, b1, b2, b3, b4, b5, b6, b7, u, Put
  <2>2. CASE i = 0
    BY <1>1, <1>2, <1>3, <2>1, <2>2
  <2>3. CASE i = 1
    BY <1>1, <1>2, <1>3, <2>1, <2>3
  <2>4. CASE i = 2
    BY <1>1, <1>2, <1>3, <2>1, <2>4
  <2>5. CASE i = 3
    BY <1>1, <1>2, <1>3, <2>1, <2>5
  <2>6. CASE i = 4
    BY <1>1, <1>2, <1>3, <2>1, <2>6
  <2>7. CASE i = 5
    BY <1>1, <1>2, <1>3, <2>1, <2>7
  <2>8. CASE i = 6
    BY <1>1, <1>2, <1>3, <2>1, <2>8
  <2>9. CASE i = 7
    BY <1>1, <1>2, <1>3, <2>1, <2>9
  <2>10. QED
    BY BitNumbers, <2>2, <2>3, <2>4, <2>5, <2>6, <2>7, <2>8, <2>9
<1> HIDE DEF Put, u
<1>6. /\ Bit(u, 0) = Put(0) /\ Bit(u, 1) = Put(1) /\ Bit(u, 2) = Put(2) /\ Bit(u, 3) = Put(3)
      /\ Bit(u, 4) = Put(4) /\ Bit(u, 5) = Put(5) /\ Bit(u, 6) = Put(6) /\ Bit(u, 7) = Put(7)
  BY <1>4, <1>5, BitsOfSum
<1>7. Bit(u, j) = Put(j)
  BY <1>6, BitNumbers
<1>8. QED
  BY <1>7, Zenon DEF Put, u

(***************************************************************************)
(* Full adders.  One equation for each of the eight stages, a + b + carry =  *)
(* sum + 2 * carry out, adds up to the equation of the whole.               *)
(***************************************************************************)
Majority(a, b, c) == IF a + b + c >= 2 THEN 1 ELSE 0

LEMMA Stage ==
  ASSUME NEW a \in {0, 1}, NEW b \in {0, 1}, NEW c \in {0, 1}
  PROVE  /\ Majority(a, b, c) \in {0, 1} /\ (a + b + c) % 2 \in {0, 1}
         /\ a + b + c = ((a + b + c) % 2) + 2 * Majority(a, b, c)
BY DEF Majority

(* The carries are defined by what each stage makes of the one below. *)
LEMMA CarriesRipple ==
  ASSUME NEW a, NEW b, NEW cin
  PROVE  LET k == Carries(a, b, cin)
         IN  /\ k[0] = cin
             /\ k[1] = Majority(Bit(a, 0), Bit(b, 0), k[0])
             /\ k[2] = Majority(Bit(a, 1), Bit(b, 1), k[1])
             /\ k[3] = Majority(Bit(a, 2), Bit(b, 2), k[2])
             /\ k[4] = Majority(Bit(a, 3), Bit(b, 3), k[3])
             /\ k[5] = Majority(Bit(a, 4), Bit(b, 4), k[4])
             /\ k[6] = Majority(Bit(a, 5), Bit(b, 5), k[5])
             /\ k[7] = Majority(Bit(a, 6), Bit(b, 6), k[6])
             /\ k[8] = Majority(Bit(a, 7), Bit(b, 7), k[7])
<1> DEFINE Rippled(k) == [i \in 0..8 |-> IF i = 0 THEN cin
                                         ELSE Majority(Bit(a, i - 1), Bit(b, i - 1), k[i - 1])]
           k1 == Majority(Bit(a, 0), Bit(b, 0), cin)
           k2 == Majority(Bit(a, 1), Bit(b, 1), k1)
           k3 == Majority(Bit(a, 2), Bit(b, 2), k2)
           k4 == Majority(Bit(a, 3), Bit(b, 3), k3)
           k5 == Majority(Bit(a, 4), Bit(b, 4), k4)
           k6 == Majority(Bit(a, 5), Bit(b, 5), k5)
           k7 == Majority(Bit(a, 6), Bit(b, 6), k6)
           k8 == Majority(Bit(a, 7), Bit(b, 7), k7)
           w == [i \in 0..8 |-> <<cin, k1, k2, k3, k4, k5, k6, k7, k8>>[i + 1]]
           k == Carries(a, b, cin)
<1>1. w = Rippled(w)
  <2>1. /\ k1 = Majority(Bit(a, 0), Bit(b, 0), cin)
        /\ k2 = Majority(Bit(a, 1), Bit(b, 1), k1)
        /\ k3 = Majority(Bit(a, 2), Bit(b, 2), k2)
        /\ k4 = Majority(Bit(a, 3), Bit(b, 3), k3)
        /\ k5 = Majority(Bit(a, 4), Bit(b, 4), k4)
        /\ k6 = Majority(Bit(a, 5), Bit(b, 5), k5)
        /\ k7 = Majority(Bit(a, 6), Bit(b, 6), k6)
        /\ k8 = Majority(Bit(a, 7), Bit(b, 7), k7)
    OBVIOUS
  <2> HIDE DEF k1, k2, k3, k4, k5, k6, k7, k8
  <2>2. /\ w = [i \in 0..8 |-> w[i]]
        /\ w[0] = cin
        /\ w[1] = k1
        /\ w[2] = k2
        /\ w[3] = k3
        /\ w[4] = k4
        /\ w[5] = k5
        /\ w[6] = k6
        /\ w[7] = k7
        /\ w[8] = k8
    <3>1. w = [i \in 0..8 |-> w[i]]
      OBVIOUS
    <3>2. w[0] = cin
      OBVIOUS
    <3>3. w[1] = k1
      OBVIOUS
    <3>4. w[2] = k2
      OBVIOUS
    <3>5. w[3] = k3
      OBVIOUS
    <3>6. w[4] = k4
      OBVIOUS
    <3>7. w[5] = k5
      OBVIOUS
    <3>8. w[6] = k6
      OBVIOUS
    <3>9. w[7] = k7
      OBVIOUS
    <3>10. w[8] = k8
      OBVIOUS
    <3>11. QED
      BY <3>1, <3>2, <3>3, <3>4, <3>5, <3>6, <3>7, <3>8, <3>9, <3>10
  <2> HIDE DEF w
  <2>3. ASSUME NEW i \in 0..8 PROVE w[i] = Rippled(w)[i]
    <3>0. CASE i = 0
      BY <2>1, <2>2, <3>0
    <3>1. CASE i = 1
      BY <2>1, <2>2, <3>1
    <3>2. CASE i = 2
      BY <2>1, <2>2, <3>2
    <3>3. CASE i = 3
      BY <2>1, <2>2, <3>3
    <3>4. CASE i = 4
      BY <2>1, <2>2, <3>4
    <3>5. CASE i = 5
      BY <2>1, <2>2, <3>5
    <3>6. CASE i = 6
      BY <2>1, <2>2, <3>6
    <3>7. CASE i = 7
      BY <2>1, <2>2, <3>7
    <3>8. CASE i = 8
      BY <2>1, <2>2, <3>8
    <3>9. QED
      BY <3>0, <3>1, <3>2, <3>3, <3>4, <3>5, <3>6, <3>7, <3>8
  <2>4. Rippled(w) = [i \in 0..8 |-> Rippled(w)[i]]
    OBVIOUS
  <2> HIDE DEF Rippled
  <2>5. QED
    BY <2>2, <2>3, <2>4
<1>2. k = CHOOSE c : c = Rippled(c)
  BY DEF Carries, Majority
<1>3. k = Rippled(k)
  <2> HIDE DEF k, w, Rippled
  <2>1. QED
    BY <1>1, <1>2
<1> HIDE DEF k
<1>4. /\ k[0] = cin
      /\ \A i \in 1..8 : k[i] = Majority(Bit(a, i - 1), Bit(b, i - 1), k[i - 1])
  BY <1>3
<1>5. /\ 1 - 1 = 0 /\ 2 - 1 = 1 /\ 3 - 1 = 2 /\ 4 - 1 = 3
      /\ 5 - 1 = 4 /\ 6 - 1 = 5 /\ 7 - 1 = 6 /\ 8 - 1 = 7
  OBVIOUS
<1>6. k[1] = Majority(Bit(a, 0), Bit(b, 0), k[0])
  BY <1>4, <1>5
<1>7. k[2] = Majority(Bit(a, 1), Bit(b, 1), k[1])
  BY <1>4, <1>5
<1>8. k[3] = Majority(Bit(a, 2), Bit(b, 2), k[2])
  BY <1>4, <1>5
<1>9. k[4] = Majority(Bit(a, 3), Bit(b, 3), k[3])
  BY <1>4, <1>5
<1>10. k[5] = Majority(Bit(a, 4), Bit(b, 4), k[4])
  BY <1>4, <1>5
<1>11. k[6] = Majority(Bit(a, 5), Bit(b, 5), k[5])
  BY <1>4, <1>5
<1>12. k[7] = Majority(Bit(a, 6), Bit(b, 6), k[6])
  BY <1>4, <1>5
<1>13. k[8] = Majority(Bit(a, 7), Bit(b, 7), k[7])
  BY <1>4, <1>5
<1>14. QED
  BY <1>4, <1>6, <1>7, <1>8, <1>9, <1>10, <1>11, <1>12, <1>13 DEF k

(* What the adders leave is the sum: the byte, the carry out of it and the   *)
(* carry between its halves.                                                *)
LEMMA AdderAdds ==
  ASSUME NEW a \in Byte, NEW b \in Byte, NEW cin \in {0, 1}
  PROVE  LET n == a + b + cin
         IN  Adder(a, b, cin) = [r  |-> n % 256,
                                 c  |-> AsBit(n >= 256),
                                 dc |-> AsBit((a % 16) + (b % 16) + cin >= 16)]
<1> DEFINE k == Carries(a, b, cin)
           s == [i \in BitNo |-> (Bit(a, i) + Bit(b, i) + k[i]) % 2]
           a0 == Bit(a, 0)  a1 == Bit(a, 1)  a2 == Bit(a, 2)  a3 == Bit(a, 3)
           a4 == Bit(a, 4)  a5 == Bit(a, 5)  a6 == Bit(a, 6)  a7 == Bit(a, 7)
           b0 == Bit(b, 0)  b1 == Bit(b, 1)  b2 == Bit(b, 2)  b3 == Bit(b, 3)
           b4 == Bit(b, 4)  b5 == Bit(b, 5)  b6 == Bit(b, 6)  b7 == Bit(b, 7)
           k0 == k[0]  k1 == k[1]  k2 == k[2]  k3 == k[3]  k4 == k[4]  k5 == k[5]  k6 == k[6]  k7 == k[7]  k8 == k[8]
           s0 == s[0]  s1 == s[1]  s2 == s[2]  s3 == s[3]  s4 == s[4]  s5 == s[5]  s6 == s[6]  s7 == s[7]
           low == a % 16
           blow == b % 16
<1>1. /\ a0 \in {0, 1} /\ a1 \in {0, 1} /\ a2 \in {0, 1} /\ a3 \in {0, 1}
      /\ a4 \in {0, 1} /\ a5 \in {0, 1} /\ a6 \in {0, 1} /\ a7 \in {0, 1}
      /\ b0 \in {0, 1} /\ b1 \in {0, 1} /\ b2 \in {0, 1} /\ b3 \in {0, 1}
      /\ b4 \in {0, 1} /\ b5 \in {0, 1} /\ b6 \in {0, 1} /\ b7 \in {0, 1}
      /\ a \in 0..255 /\ b \in 0..255 /\ low \in 0..15 /\ blow \in 0..15
  <2>1. a \in Int /\ b \in Int
    BY DEF Byte
  <2>2. \A i \in BitNo : Bit(a, i) \in {0, 1} /\ Bit(b, i) \in {0, 1}
    BY <2>1, BitIsBit
  <2>3. QED
    BY <2>1, <2>2, BitNumbers DEF Byte
<1>2. /\ a = a0 + 2 * a1 + 4 * a2 + 8 * a3 + 16 * a4 + 32 * a5 + 64 * a6 + 128 * a7
      /\ b = b0 + 2 * b1 + 4 * b2 + 8 * b3 + 16 * b4 + 32 * b5 + 64 * b6 + 128 * b7
      /\ low = a0 + 2 * a1 + 4 * a2 + 8 * a3
      /\ blow = b0 + 2 * b1 + 4 * b2 + 8 * b3
  BY ByteIsItsBits
<1>3. /\ k0 = cin
      /\ k1 = Majority(a0, b0, k0)
      /\ k2 = Majority(a1, b1, k1)
      /\ k3 = Majority(a2, b2, k2)
      /\ k4 = Majority(a3, b3, k3)
      /\ k5 = Majority(a4, b4, k4)
      /\ k6 = Majority(a5, b5, k5)
      /\ k7 = Majority(a6, b6, k6)
      /\ k8 = Majority(a7, b7, k7)
  BY CarriesRipple
<1>4. s \in [BitNo -> {s[i] : i \in BitNo}]
      /\ s0 = (a0 + b0 + k0) % 2
      /\ s1 = (a1 + b1 + k1) % 2
      /\ s2 = (a2 + b2 + k2) % 2
      /\ s3 = (a3 + b3 + k3) % 2
      /\ s4 = (a4 + b4 + k4) % 2
      /\ s5 = (a5 + b5 + k5) % 2
      /\ s6 = (a6 + b6 + k6) % 2
      /\ s7 = (a7 + b7 + k7) % 2
  BY BitNumbers
<1>5. Adder(a, b, cin) = [r |-> FromBits(s), c |-> k8, dc |-> k4]
  BY DEF Adder
<1>6. FromBits(s) = s0 + 2 * s1 + 4 * s2 + 8 * s3 + 16 * s4 + 32 * s5 + 64 * s6 + 128 * s7
  BY DEF FromBits
<1> HIDE DEF a0, a1, a2, a3, a4, a5, a6, a7, b0, b1, b2, b3, b4, b5, b6, b7,
             k0, k1, k2, k3, k4, k5, k6, k7, k8, s0, s1, s2, s3, s4, s5, s6, s7,
             k, s, low, blow
<1>7. k1 \in {0, 1} /\ s0 \in {0, 1} /\ a0 + b0 + k0 = s0 + 2 * k1
  BY <1>1, <1>3, <1>4, Stage
<1>8. k2 \in {0, 1} /\ s1 \in {0, 1} /\ a1 + b1 + k1 = s1 + 2 * k2
  BY <1>1, <1>3, <1>4, <1>7, Stage
<1>9. k3 \in {0, 1} /\ s2 \in {0, 1} /\ a2 + b2 + k2 = s2 + 2 * k3
  BY <1>1, <1>3, <1>4, <1>8, Stage
<1>10. k4 \in {0, 1} /\ s3 \in {0, 1} /\ a3 + b3 + k3 = s3 + 2 * k4
  BY <1>1, <1>3, <1>4, <1>9, Stage
<1>11. k5 \in {0, 1} /\ s4 \in {0, 1} /\ a4 + b4 + k4 = s4 + 2 * k5
  BY <1>1, <1>3, <1>4, <1>10, Stage
<1>12. k6 \in {0, 1} /\ s5 \in {0, 1} /\ a5 + b5 + k5 = s5 + 2 * k6
  BY <1>1, <1>3, <1>4, <1>11, Stage
<1>13. k7 \in {0, 1} /\ s6 \in {0, 1} /\ a6 + b6 + k6 = s6 + 2 * k7
  BY <1>1, <1>3, <1>4, <1>12, Stage
<1>14. k8 \in {0, 1} /\ s7 \in {0, 1} /\ a7 + b7 + k7 = s7 + 2 * k8
  BY <1>1, <1>3, <1>4, <1>13, Stage
<1> DEFINE r == FromBits(s)
<1>15. r \in 0..255 /\ a + b + cin = r + 256 * k8
  <2>1. /\ s0 \in 0..1 /\ s1 \in 0..1 /\ s2 \in 0..1 /\ s3 \in 0..1
        /\ s4 \in 0..1 /\ s5 \in 0..1 /\ s6 \in 0..1 /\ s7 \in 0..1
    BY <1>7, <1>8, <1>9, <1>10, <1>11, <1>12, <1>13, <1>14
  <2>2. r \in 0..255
    BY <1>6, <2>1
  <2>3. /\ a0 \in Int /\ a1 \in Int /\ a2 \in Int /\ a3 \in Int
        /\ a4 \in Int /\ a5 \in Int /\ a6 \in Int /\ a7 \in Int
        /\ b0 \in Int /\ b1 \in Int /\ b2 \in Int /\ b3 \in Int
        /\ b4 \in Int /\ b5 \in Int /\ b6 \in Int /\ b7 \in Int
        /\ k0 \in Int /\ k1 \in Int /\ k2 \in Int /\ k3 \in Int
        /\ k4 \in Int /\ k5 \in Int /\ k6 \in Int /\ k7 \in Int /\ k8 \in Int
        /\ s0 \in Int /\ s1 \in Int /\ s2 \in Int /\ s3 \in Int
        /\ s4 \in Int /\ s5 \in Int /\ s6 \in Int /\ s7 \in Int
    <3>1. {0, 1} \subseteq Int
      OBVIOUS
    <3>2. QED
      BY <1>1, <1>3, <1>7, <1>8, <1>9, <1>10, <1>11, <1>12, <1>13, <1>14, <3>1, Zenon
  <2>4. /\ a0 + b0 + k0 = s0 + 2 * k1 /\ a1 + b1 + k1 = s1 + 2 * k2 /\ a2 + b2 + k2 = s2 + 2 * k3
        /\ a3 + b3 + k3 = s3 + 2 * k4 /\ a4 + b4 + k4 = s4 + 2 * k5 /\ a5 + b5 + k5 = s5 + 2 * k6
        /\ a6 + b6 + k6 = s6 + 2 * k7 /\ a7 + b7 + k7 = s7 + 2 * k8
    BY <1>7, <1>8, <1>9, <1>10, <1>11, <1>12, <1>13, <1>14
  <2>5. QED
    BY <1>2, <1>3, <1>6, <2>2, <2>3, <2>4
<1>16. low + blow + cin = s0 + 2 * s1 + 4 * s2 + 8 * s3 + 16 * k4
  BY <1>1, <1>2, <1>3, <1>7, <1>8, <1>9, <1>10
<1> HIDE DEF r
<1>17. r = (a + b + cin) % 256 /\ k8 = AsBit(a + b + cin >= 256)
  BY <1>1, <1>14, <1>15 DEF AsBit
<1>18. k4 = AsBit(low + blow + cin >= 16)
  BY <1>1, <1>7, <1>8, <1>9, <1>10, <1>16 DEF AsBit
<1>19. QED
  BY <1>5, <1>17, <1>18 DEF r, low, blow

(* add8 and sub8 are the adders, the second with the complement and a carry  *)
(* in: C and DC of a subtraction are NOT borrow.                            *)
LEMMA Add8IsAdder ==
  ASSUME NEW a \in Byte, NEW b \in Byte
  PROVE  Adder(a, b, 0) = Add8(a, b)
<1>1. a \in Int /\ b \in Int /\ a % 16 \in Int /\ b % 16 \in Int
  BY DEF Byte
<1>2. Adder(a, b, 0) = [r  |-> (a + b + 0) % 256, c  |-> AsBit(a + b + 0 >= 256),
                        dc |-> AsBit((a % 16) + (b % 16) + 0 >= 16)]
  BY AdderAdds
<1>3. a + b + 0 = a + b /\ (a % 16) + (b % 16) + 0 = (a % 16) + (b % 16)
  BY <1>1
<1>4. AsBit(a + b >= 256) = AsBit(a + b > 255)
  BY <1>1 DEF AsBit
<1>5. AsBit((a % 16) + (b % 16) >= 16) = AsBit((a % 16) + (b % 16) > 15)
  BY <1>1 DEF AsBit
<1>6. QED
  BY <1>2, <1>3, <1>4, <1>5 DEF Add8

LEMMA Sub8IsSubtractor ==
  ASSUME NEW a \in Byte, NEW b \in Byte
  PROVE  Subtractor(a, b) = Sub8(a, b)
<1> DEFINE n == a + (255 - b) + 1
           l == (a % 16) + ((255 - b) % 16) + 1
<1>1. a \in 0..255 /\ b \in 0..255 /\ 255 - b \in Byte
  BY DEF Byte
<1>2. Subtractor(a, b) = [r |-> n % 256, c |-> AsBit(n >= 256), dc |-> AsBit(l >= 16)]
  <2> DEFINE m == 255 - b
  <2>1. m \in Byte /\ Subtractor(a, b) = Adder(a, m, 1)
    BY <1>1 DEF Subtractor
  <2> HIDE DEF m
  <2>2. Adder(a, m, 1) = [r |-> (a + m + 1) % 256, c |-> AsBit(a + m + 1 >= 256),
                          dc |-> AsBit((a % 16) + (m % 16) + 1 >= 16)]
    BY <2>1, AdderAdds
  <2>3. QED
    BY <2>1, <2>2 DEF m
<1>3. n % 256 = (a - b) % 256
  BY <1>1
<1>4. AsBit(n >= 256) = AsBit(a >= b)
  BY <1>1 DEF AsBit
<1>5. AsBit(l >= 16) = AsBit(a % 16 >= b % 16)
  <2>1. (255 - b) % 16 = 15 - (b % 16)
    BY <1>1
  <2>2. a % 16 \in Int /\ b % 16 \in Int
    BY <1>1
  <2>3. QED
    BY <2>1, <2>2 DEF AsBit
<1>6. QED
  BY <1>2, <1>3, <1>4, <1>5 DEF Sub8

LEMMA Add8Types ==
  ASSUME NEW a \in Byte, NEW b \in Byte
  PROVE  Add8(a, b).r \in Byte /\ Add8(a, b).c \in {0, 1} /\ Add8(a, b).dc \in {0, 1}
BY DEF Add8, Byte, AsBit

LEMMA Sub8Types ==
  ASSUME NEW a \in Byte, NEW b \in Byte
  PROVE  Sub8(a, b).r \in Byte /\ Sub8(a, b).c \in {0, 1} /\ Sub8(a, b).dc \in {0, 1}
BY DEF Sub8, Byte, AsBit

(***************************************************************************)
(* The register under any sequence of instructions.                         *)
(***************************************************************************)
AluTypes ==
  /\ alu = [r |-> alu.r, c |-> alu.c, dc |-> alu.dc]
  /\ alu.r \in Byte /\ alu.c \in {0, 1} /\ alu.dc \in {0, 1}

AluInv == AluTypes /\ AgreesWithGates

LEMMA AddsAreAdd8 ==
  ASSUME NEW m \in Adds, NEW v, NEW w, NEW c, NEW d, NEW bit
  PROVE  /\ Result(m, v, w, c, bit) = Add8(v, w).r
         /\ CarryOut(m, v, w, c) = Add8(v, w).c
         /\ DigitCarryOut(m, v, w, d) = Add8(v, w).dc
<1>1. Result(m, v, w, c, bit) = Add8(v, w).r
  BY DEF Result, Adds, Subtracts
<1>2. CarryOut(m, v, w, c) = Add8(v, w).c
  BY DEF CarryOut, Adds, Subtracts
<1>3. DigitCarryOut(m, v, w, d) = Add8(v, w).dc
  BY DEF DigitCarryOut, Adds, Subtracts
<1>4. QED
  BY <1>1, <1>2, <1>3

LEMMA AddWAgrees ==
  ASSUME AluInv, NEW x \in Byte, AddW(x)
  PROVE  AluInv'
<1>1. alu.r \in Byte /\ gates = alu
  BY DEF AluInv, AluTypes, AgreesWithGates
<1>2. alu' = [r |-> Add8(alu.r, x).r, c |-> Add8(alu.r, x).c, dc |-> Add8(alu.r, x).dc]
  BY AddsAreAdd8 DEF AddW, Operate, Adds
<1>3. gates' = Add8(alu.r, x)
  BY <1>1, Add8IsAdder DEF AddW
<1>4. Add8(alu.r, x) = [r |-> Add8(alu.r, x).r, c |-> Add8(alu.r, x).c,
                        dc |-> Add8(alu.r, x).dc]
  BY DEF Add8
<1>5. QED
  BY <1>1, <1>2, <1>3, <1>4, Add8Types DEF AluInv, AluTypes, AgreesWithGates

LEMMA Subtracts8 ==
  ASSUME NEW v \in Byte, NEW w \in Byte, NEW m \in Subtracts, Operate(m, v, w),
         gates' = Subtractor(v, w)
  PROVE  AluInv'
<1>1. alu' = [r |-> Sub8(v, w).r, c |-> Sub8(v, w).c, dc |-> Sub8(v, w).dc]
  BY DEF Operate, Result, CarryOut, DigitCarryOut, Adds, Subtracts
<1>2. gates' = Sub8(v, w)
  BY Sub8IsSubtractor
<1>3. Sub8(v, w) = [r |-> Sub8(v, w).r, c |-> Sub8(v, w).c, dc |-> Sub8(v, w).dc]
  BY DEF Sub8
<1>4. QED
  BY <1>1, <1>2, <1>3, Sub8Types DEF AluInv, AluTypes, AgreesWithGates

(* An instruction that leaves the carries alone. *)
LEMMA KeepsCarries ==
  ASSUME AluInv, NEW n \in Byte,
         alu' = [r |-> n, c |-> alu.c, dc |-> alu.dc],
         gates' = [gates EXCEPT !.r = n]
  PROVE  AluInv'
<1> DEFINE c == alu.c  d == alu.dc  q == alu.r
<1>1. alu = [r |-> q, c |-> c, dc |-> d] /\ gates = alu /\ c \in {0, 1} /\ d \in {0, 1}
  BY DEF AluInv, AluTypes, AgreesWithGates
<1> HIDE DEF c, d, q
<1>2. gates' = [r |-> n, c |-> c, dc |-> d]
  BY <1>1
<1>3. alu' = [r |-> n, c |-> c, dc |-> d]
  BY DEF c, d
<1>4. QED
  BY <1>1, <1>2, <1>3 DEF AluInv, AluTypes, AgreesWithGates

(* An instruction that leaves the digit carry alone. *)
LEMMA KeepsDigitCarry ==
  ASSUME AluInv, NEW n \in 0..511,
         alu' = [r |-> n % 256, c |-> n \div 256, dc |-> alu.dc],
         gates' = Shifted(n)
  PROVE  AluInv'
<1> DEFINE c == alu.c  d == alu.dc  q == alu.r  x == n % 256  y == n \div 256
<1>1. alu = [r |-> q, c |-> c, dc |-> d] /\ gates = alu /\ d \in {0, 1}
  BY DEF AluInv, AluTypes, AgreesWithGates
<1>2. x \in Byte /\ y \in {0, 1}
  BY DEF Byte
<1>3. gates' = [gates EXCEPT !.r = x, !.c = y]
  BY DEF Shifted
<1>4. alu' = [r |-> x, c |-> y, dc |-> d]
  OBVIOUS
<1> HIDE DEF c, d, q, x, y
<1>5. gates' = [r |-> x, c |-> y, dc |-> d]
  BY <1>1, <1>3
<1>6. QED
  BY <1>1, <1>2, <1>4, <1>5 DEF AluInv, AluTypes, AgreesWithGates

LEMMA AluStep == AluInv /\ AluNext => AluInv'
<1> SUFFICES ASSUME AluInv, AluNext PROVE AluInv'
  OBVIOUS
<1> DEFINE q == alu.r
           c == alu.c
<1>0. q \in Byte /\ q \in 0..255 /\ c \in {0, 1} /\ gates = alu
      /\ gates.r = q /\ gates.c = c
  BY DEF AluInv, AluTypes, AgreesWithGates, Byte
<1>1. CASE \E x \in Operands : AddW(x)
  <2>1. PICK x \in Operands : AddW(x)
    BY <1>1
  <2>2. x \in Byte
    BY OperandsAssumption DEF OperandsAssumption
  <2>3. QED
    BY <2>1, <2>2, AddWAgrees
<1>2. CASE \E x \in Operands : SubtractW(x)
  <2>1. PICK x \in Operands : SubtractW(x)
    BY <1>2
  <2>2. x \in Byte /\ "SUBWF" \in Subtracts
    BY OperandsAssumption DEF OperandsAssumption, Subtracts
  <2>3. QED
    BY <1>0, <2>1, <2>2, Subtracts8 DEF SubtractW
<1>3. CASE \E x \in Operands : SubFrom(x)
  <2>1. PICK x \in Operands : SubFrom(x)
    BY <1>3
  <2>2. x \in Byte /\ "SUBLW" \in Subtracts
    BY OperandsAssumption DEF OperandsAssumption, Subtracts
  <2>3. QED
    BY <1>0, <2>1, <2>2, Subtracts8 DEF SubFrom
<1>4. CASE Increment
  <2> DEFINE n == (q + 1) % 256
  <2>1. n \in Byte /\ 1 \in Byte
    BY <1>0 DEF Byte
  <2>2. alu' = [r |-> n, c |-> alu.c, dc |-> alu.dc]
    BY <1>4 DEF Increment, Operate, Result, CarryOut, DigitCarryOut, Adds, Subtracts
  <2>3. Adder(q, 1, 0).r = n
    BY <1>0, <2>1, Add8IsAdder DEF Add8
  <2>4. gates' = [gates EXCEPT !.r = n]
    BY <1>0, <1>4, <2>3 DEF Increment
  <2> HIDE DEF n
  <2>5. QED
    BY <2>1, <2>2, <2>4, KeepsCarries
<1>5. CASE Decrement
  <2> DEFINE n == (q - 1) % 256
  <2>1. n \in Byte /\ 1 \in Byte
    BY <1>0 DEF Byte
  <2>2. alu' = [r |-> n, c |-> alu.c, dc |-> alu.dc]
    BY <1>5 DEF Decrement, Operate, Result, CarryOut, DigitCarryOut, Adds, Subtracts
  <2>3. Subtractor(q, 1).r = n
    BY <1>0, <2>1, Sub8IsSubtractor DEF Sub8
  <2>4. gates' = [gates EXCEPT !.r = n]
    BY <1>0, <1>5, <2>3 DEF Decrement
  <2> HIDE DEF n
  <2>5. QED
    BY <2>1, <2>2, <2>4, KeepsCarries
<1>6. CASE RotateLeft
  <2> DEFINE nine == q + 256 * c
             n == ((2 * nine) % 512) + nine \div 256
  <2>1. n \in 0..511 /\ n % 256 = ((2 * q) % 256) + c /\ n \div 256 = (q \div 128) % 2
    <3>1. nine \div 256 = c
      BY <1>0
    <3>2. (2 * nine) % 512 = 2 * q
      BY <1>0
    <3>3. n = 2 * q + c
      BY <3>1, <3>2
    <3> HIDE DEF n, nine
    <3>4. n \div 256 = (q \div 128) % 2
      BY <1>0, <3>3
    <3>5. n % 256 = ((2 * q) % 256) + c
      BY <1>0, <3>3
    <3>6. QED
      BY <1>0, <3>3, <3>4, <3>5
  <2>2. alu' = [r |-> RotL(q, c), c |-> Bit(q, 7), dc |-> alu.dc]
    BY <1>6 DEF RotateLeft, Operate, Result, CarryOut, DigitCarryOut, Adds, Subtracts
  <2>3. Bit(q, 7) = (q \div 128) % 2
    BY <1>0, BitsOf
  <2>4. gates' = Shifted(n)
    BY <1>0, <1>6 DEF RotateLeft, Nine
  <2> HIDE DEF n
  <2>5. alu' = [r |-> n % 256, c |-> n \div 256, dc |-> alu.dc]
    BY <2>1, <2>2, <2>3 DEF RotL
  <2>6. QED
    BY <2>1, <2>4, <2>5, KeepsDigitCarry
<1>7. CASE RotateRight
  <2> DEFINE nine == q + 256 * c
             n == (nine \div 2) + 256 * (nine % 2)
  <2>1. n \in 0..511 /\ n % 256 = (q \div 2) + 128 * c /\ n \div 256 = q % 2
    <3>1. nine \div 2 = (q \div 2) + 128 * c
      BY <1>0
    <3>2. nine % 2 = q % 2
      BY <1>0
    <3>3. n = (q \div 2) + 128 * c + 256 * (q % 2)
      BY <3>1, <3>2
    <3> HIDE DEF n, nine
    <3>4. (q \div 2) + 128 * c \in 0..255 /\ q % 2 \in {0, 1}
      BY <1>0
    <3>5. QED
      BY <3>3, <3>4
  <2>2. alu' = [r |-> RotR(q, c), c |-> Bit(q, 0), dc |-> alu.dc]
    BY <1>7 DEF RotateRight, Operate, Result, CarryOut, DigitCarryOut, Adds, Subtracts
  <2>3. Bit(q, 0) = q % 2
    BY <1>0, BitsOf
  <2>4. gates' = Shifted(n)
    BY <1>0, <1>7 DEF RotateRight, Nine
  <2> HIDE DEF n
  <2>5. alu' = [r |-> n % 256, c |-> n \div 256, dc |-> alu.dc]
    BY <2>1, <2>2, <2>3 DEF RotR
  <2>6. QED
    BY <2>1, <2>4, <2>5, KeepsDigitCarry
<1>8. CASE Swap
  <2> DEFINE n == 16 * (q % 16) + q \div 16
  <2>1. n \in Byte /\ ((q * 16) % 256) + (q \div 16) = n
    BY <1>0 DEF Byte
  <2>2. alu' = [r |-> ((q * 16) % 256) + (q \div 16), c |-> alu.c, dc |-> alu.dc]
    BY <1>8 DEF Swap, Operate, Result, CarryOut, DigitCarryOut, Adds, Subtracts
  <2>3. gates' = [gates EXCEPT !.r = n]
    BY <1>0, <1>8 DEF Swap
  <2> HIDE DEF n
  <2>4. QED
    BY <2>1, <2>2, <2>3, KeepsCarries
<1>9. CASE Complement
  <2> DEFINE n == 255 - q
  <2>1. n \in Byte /\ 255 \in Byte /\ (255 - q) % 256 = n
    BY <1>0 DEF Byte
  <2>2. alu' = [r |-> n, c |-> alu.c, dc |-> alu.dc]
    BY <1>9 DEF Complement, Operate, Result, CarryOut, DigitCarryOut, Adds, Subtracts
  <2>3. Subtractor(255, q).r = n
    BY <1>0, <2>1, Sub8IsSubtractor DEF Sub8
  <2>4. gates' = [gates EXCEPT !.r = n]
    BY <1>0, <1>9, <2>3 DEF Complement
  <2> HIDE DEF n
  <2>5. QED
    BY <2>1, <2>2, <2>4, KeepsCarries
<1>10. QED
  BY <1>1, <1>2, <1>3, <1>4, <1>5, <1>6, <1>7, <1>8, <1>9 DEF AluNext

(* add8, sub8 and the rotations compute what full adders and a nine-bit      *)
(* shift register do, for every operand and any sequence of instructions.   *)
THEOREM ArithmeticIsGates == AluSpec => []AgreesWithGates
<1>1. AluInit => AluInv
  BY DEF AluInit, AluInv, AluTypes, AgreesWithGates, Byte
<1>2. AluInv /\ UNCHANGED aluVars => AluInv'
  BY DEF AluInv, AluTypes, AgreesWithGates, aluVars
<1>3. AluInv => AgreesWithGates
  BY DEF AluInv
<1>4. QED
  BY <1>1, <1>2, <1>3, AluStep, PTL DEF AluSpec

(***************************************************************************)
(* Decoding.                                                                *)
(***************************************************************************)
Formats == {"NoArg", "FileF", "ByteFd", "Bit", "Addr11", "Lit8"}

LEMMA RowsOfTable ==
  /\ DOMAIN TABLE = 1..35
  /\ \A n \in 1..35 : /\ TABLE[n].fmt \in Formats
                      /\ TABLE[n].m \in Literals8 => TABLE[n].fmt = "Lit8"
                      /\ TABLE[n].m # "none"
BY SMTT(60) DEF TABLE, Entry, Formats, Literals8

LEMMA LeastNatural ==
  ASSUME NEW T \in SUBSET Nat, T # {}
  PROVE  \E x \in T : \A y \in T : x <= y
<1>1. PICK x \in T : \A y \in T : <<y, x>> \notin OpToRel(<, Nat)
  BY NatLessThanWellFounded, WFMin, Zenon
<1>2. ASSUME NEW y \in T PROVE x <= y
  <2>1. ~(y < x)
    BY <1>1 DEF OpToRel
  <2>2. QED
    BY <2>1
<1>3. QED
  BY <1>2

(* What an instruction is: a mnemonic, a register of 7 bits, a bit number, an *)
(* operand of 11 bits, of 8 for a literal.                                  *)
Operands11 == 0..2047

IsInstruction(i) ==
  /\ i.m # "none"
  /\ i.f \in 0..127 /\ i.bit \in BitNo /\ i.k \in Operands11
  /\ i.m \in Literals8 => i.k \in Byte

LEMMA FieldsAreInRange ==
  ASSUME NEW w \in Words, NEW m, NEW fmt \in Formats, m # "none",
         m \in Literals8 => fmt = "Lit8"
  PROVE  IsInstruction(Fields(w, m, fmt))
<1>1. w \in Nat /\ w % 128 \in 0..127 /\ (w \div 128) % 8 \in 0..7 /\ w % 256 \in 0..255
      /\ w % 2048 \in Operands11 /\ w % 256 \in Operands11 /\ 0 \in Operands11
  BY DEF Words, Operands11
<1>2. CASE fmt \in {"NoArg", "FileF", "ByteFd", "Bit", "Addr11"}
  BY <1>1, <1>2 DEF Fields, IsInstruction, Instruction, BitNo
<1>3. CASE fmt = "Lit8"
  BY <1>1, <1>3 DEF Fields, IsInstruction, Instruction, BitNo, Byte
<1>4. QED
  BY <1>2, <1>3 DEF Formats

LEMMA DecodeIsInstruction ==
  ASSUME NEW w \in Words
  PROVE  IsInstruction(Decode(w))
<1>1. CASE Rows(w) = {}
  <2>1. "Unknown" \notin Literals8 /\ "Unknown" # "none"
    BY DEF Literals8
  <2>2. QED
    BY <1>1, <2>1 DEF Decode, Instruction, IsInstruction, BitNo, Operands11
<1>2. CASE Rows(w) # {}
  <2>1. Rows(w) \in SUBSET Nat /\ Rows(w) \subseteq 1..35
    BY RowsOfTable DEF Rows
  <2>2. \E n \in Rows(w) : \A o \in Rows(w) : n <= o
    BY <1>2, <2>1, LeastNatural
  <2>3. (CHOOSE n \in Rows(w) : \A o \in Rows(w) : n <= o) \in 1..35
    BY <2>1, <2>2
  <2>4. PICK n \in 1..35 : Decode(w) = Fields(w, TABLE[n].m, TABLE[n].fmt)
    BY <1>2, <2>3 DEF Decode
  <2>5. QED
    BY <2>4, RowsOfTable, FieldsAreInRange
<1>3. QED
  BY <1>1, <1>2

LEMMA InstructionAtIsInstruction ==
  ASSUME firmware \in Firmware, NEW a \in Nat
  PROVE  IsInstruction(InstructionAt(a))
<1>1. Code[firmware] \in Seq(Words)
  BY CpuAssumption DEF CpuAssumption
<1> DEFINE code == Code[firmware]
           D == [n \in 1..Len(code) |-> Decode(code[n])]
<1>2. Decoded[firmware] = D
  BY DEF Decoded
<1>3. Len(code) \in Nat /\ Len(D) = Len(code)
  BY <1>1
<1>4. CASE a < Len(code)
  <2>1. a + 1 \in 1..Len(code) /\ InstructionAt(a) = D[a + 1]
    BY <1>2, <1>3, <1>4 DEF InstructionAt
  <2>2. D[a + 1] = Decode(code[a + 1]) /\ code[a + 1] \in Words
    BY <1>1, <2>1
  <2>3. QED
    BY <2>1, <2>2, DecodeIsInstruction
<1>5. CASE ~(a < Len(code))
  <2>1. InstructionAt(a) = Decode(BLANK_WORD)
    BY <1>2, <1>3, <1>5 DEF InstructionAt, Blank
  <2>2. BLANK_WORD \in Words
    BY DEF BLANK_WORD, Words
  <2>3. QED
    BY <2>1, <2>2, DecodeIsInstruction
<1>6. QED
  BY <1>4, <1>5

(***************************************************************************)
(* What an instruction computes is a byte.                                  *)
(***************************************************************************)
LEMMA AndIsByte ==
  ASSUME NEW a \in Byte, NEW b \in Byte
  PROVE  And(a, b) \in Byte
<1>1. a \in Int /\ b \in Int
  BY DEF Byte
<1> DEFINE f == [i \in BitNo |-> Bit(a, i) * Bit(b, i)]
<1>2. \A i \in BitNo : f[i] \in {0, 1}
  BY <1>1, BitIsBit
<1> HIDE DEF f
<1>3. FromBits(f) \in Byte
  BY <1>2, FromBitsIsByte
<1>4. QED
  BY <1>3 DEF And, f

LEMMA XorIsByte ==
  ASSUME NEW a \in Byte, NEW b \in Byte
  PROVE  Xor(a, b) \in Byte
<1>1. a \in Int /\ b \in Int
  BY DEF Byte
<1> DEFINE f == [i \in BitNo |-> (Bit(a, i) + Bit(b, i)) % 2]
<1>2. \A i \in BitNo : f[i] \in {0, 1}
  BY <1>1, BitIsBit
<1> HIDE DEF f
<1>3. FromBits(f) \in Byte
  BY <1>2, FromBitsIsByte
<1>4. QED
  BY <1>3 DEF Xor, f

(* a + b - (a & b) has the bits that a or b has. *)
LEMMA OrIsByte ==
  ASSUME NEW a \in Byte, NEW b \in Byte
  PROVE  Or(a, b) \in Byte
<1>1. a \in Int /\ b \in Int
  BY DEF Byte
<1> DEFINE A(i) == Bit(a, i)
           B(i) == Bit(b, i)
           f == [i \in BitNo |-> A(i) * B(i)]
           g == [i \in BitNo |-> A(i) + B(i) - (A(i) * B(i))]
<1>2. \A i \in BitNo : /\ A(i) \in {0, 1} /\ B(i) \in {0, 1}
                       /\ g[i] \in {0, 1} /\ f[i] \in {0, 1} /\ g[i] = A(i) + B(i) - f[i]
  <2>1. \A i \in BitNo : A(i) \in {0, 1} /\ B(i) \in {0, 1}
    BY <1>1, BitIsBit
  <2> HIDE DEF A, B
  <2>2. \A i \in BitNo : g[i] \in {0, 1} /\ f[i] \in {0, 1} /\ g[i] = A(i) + B(i) - f[i]
    BY <2>1
  <2>3. QED
    BY <2>1, <2>2
<1>3. And(a, b) = FromBits(f)
  BY DEF And
<1> HIDE DEF f, g
<1>4. FromBits(g) \in Byte
  BY <1>2, FromBitsIsByte
<1>5. a = A(0) + 2 * A(1) + 4 * A(2) + 8 * A(3) + 16 * A(4) + 32 * A(5) + 64 * A(6) + 128 * A(7)
  BY ByteIsItsBits
<1>6. b = B(0) + 2 * B(1) + 4 * B(2) + 8 * B(3) + 16 * B(4) + 32 * B(5) + 64 * B(6) + 128 * B(7)
  BY ByteIsItsBits
<1> HIDE DEF A, B
<1>7. a + b - FromBits(f) = FromBits(g)
  <2>1. /\ g[0] = A(0) + B(0) - f[0] /\ g[1] = A(1) + B(1) - f[1]
        /\ g[2] = A(2) + B(2) - f[2] /\ g[3] = A(3) + B(3) - f[3]
        /\ g[4] = A(4) + B(4) - f[4] /\ g[5] = A(5) + B(5) - f[5]
        /\ g[6] = A(6) + B(6) - f[6] /\ g[7] = A(7) + B(7) - f[7]
    BY <1>2, BitNumbers
  <2>2. {0, 1} \subseteq Int
    OBVIOUS
  <2>3. /\ A(0) \in Int /\ A(1) \in Int /\ A(2) \in Int /\ A(3) \in Int
        /\ A(4) \in Int /\ A(5) \in Int /\ A(6) \in Int /\ A(7) \in Int
        /\ B(0) \in Int /\ B(1) \in Int /\ B(2) \in Int /\ B(3) \in Int
        /\ B(4) \in Int /\ B(5) \in Int /\ B(6) \in Int /\ B(7) \in Int
        /\ f[0] \in Int /\ f[1] \in Int /\ f[2] \in Int /\ f[3] \in Int
        /\ f[4] \in Int /\ f[5] \in Int /\ f[6] \in Int /\ f[7] \in Int
    BY <1>2, <2>2, BitNumbers
  <2> DEFINE a0 == A(0)  a1 == A(1)  a2 == A(2)  a3 == A(3)  a4 == A(4)  a5 == A(5)  a6 == A(6)  a7 == A(7)
             b0 == B(0)  b1 == B(1)  b2 == B(2)  b3 == B(3)  b4 == B(4)  b5 == B(5)  b6 == B(6)  b7 == B(7)
             f0 == f[0]  f1 == f[1]  f2 == f[2]  f3 == f[3]  f4 == f[4]  f5 == f[5]  f6 == f[6]  f7 == f[7]
             g0 == g[0]  g1 == g[1]  g2 == g[2]  g3 == g[3]  g4 == g[4]  g5 == g[5]  g6 == g[6]  g7 == g[7]
             m == FromBits(f)
             n == FromBits(g)
  <2>4. /\ m = f0 + 2 * f1 + 4 * f2 + 8 * f3 + 16 * f4 + 32 * f5 + 64 * f6 + 128 * f7
        /\ n = g0 + 2 * g1 + 4 * g2 + 8 * g3 + 16 * g4 + 32 * g5 + 64 * g6 + 128 * g7
        /\ a = a0 + 2 * a1 + 4 * a2 + 8 * a3 + 16 * a4 + 32 * a5 + 64 * a6 + 128 * a7
        /\ b = b0 + 2 * b1 + 4 * b2 + 8 * b3 + 16 * b4 + 32 * b5 + 64 * b6 + 128 * b7
    BY <1>5, <1>6 DEF FromBits
  <2>5. /\ g0 = a0 + b0 - f0 /\ g1 = a1 + b1 - f1 /\ g2 = a2 + b2 - f2 /\ g3 = a3 + b3 - f3
        /\ g4 = a4 + b4 - f4 /\ g5 = a5 + b5 - f5 /\ g6 = a6 + b6 - f6 /\ g7 = a7 + b7 - f7
        /\ a0 \in Int /\ a1 \in Int /\ a2 \in Int /\ a3 \in Int /\ a4 \in Int /\ a5 \in Int /\ a6 \in Int /\ a7 \in Int
        /\ b0 \in Int /\ b1 \in Int /\ b2 \in Int /\ b3 \in Int /\ b4 \in Int /\ b5 \in Int /\ b6 \in Int /\ b7 \in Int
        /\ f0 \in Int /\ f1 \in Int /\ f2 \in Int /\ f3 \in Int /\ f4 \in Int /\ f5 \in Int /\ f6 \in Int /\ f7 \in Int
    BY <2>1, <2>3, Zenon
  <2> HIDE DEF a0, a1, a2, a3, a4, a5, a6, a7, b0, b1, b2, b3, b4, b5, b6, b7,
               f0, f1, f2, f3, f4, f5, f6, f7, g0, g1, g2, g3, g4, g5, g6, g7, m, n
  <2>6. a + b - m = n
    BY <2>4, <2>5
  <2>7. QED
    BY <2>6 DEF m, n
<1>8. QED
  BY <1>3, <1>4, <1>7 DEF Or

LEMMA MuxIsByte ==
  ASSUME NEW mask \in Byte, NEW a \in Byte, NEW b \in Byte
  PROVE  Mux(mask, b, a) \in Byte
<1>1. a \in Int /\ b \in Int
  BY DEF Byte
<1> DEFINE f == [i \in BitNo |-> IF Bit(mask, i) = 1 THEN Bit(b, i) ELSE Bit(a, i)]
<1>2. \A i \in BitNo : f[i] \in {0, 1}
  BY <1>1, BitIsBit
<1> HIDE DEF f
<1>3. FromBits(f) \in Byte
  BY <1>2, FromBitsIsByte
<1>4. QED
  BY <1>3 DEF Mux, f

LEMMA ResultIsByte ==
  ASSUME NEW m, NEW v \in Byte, NEW w \in Byte, NEW carry \in {0, 1}, NEW bit \in BitNo
  PROVE  Result(m, v, w, carry, bit) \in Byte
<1>1. v \in 0..255 /\ w \in 0..255
  BY DEF Byte
<1>2. /\ Add8(v, w).r \in Byte /\ Sub8(v, w).r \in Byte
      /\ And(v, w) \in Byte /\ Or(v, w) \in Byte /\ Xor(v, w) \in Byte
  BY Add8Types, Sub8Types, AndIsByte, OrIsByte, XorIsByte
<1>3. 255 - v \in Byte /\ (v + 1) % 256 \in Byte /\ (v - 1) % 256 \in Byte
  BY <1>1 DEF Byte
<1>4. ((v * 16) % 256) + (v \div 16) \in Byte
  BY <1>1 DEF Byte
<1>5. RotL(v, carry) \in Byte /\ RotR(v, carry) \in Byte
  BY <1>1 DEF Byte, RotL, RotR
<1>6. WithBit(v, bit, 0) \in Byte /\ WithBit(v, bit, 1) \in Byte /\ 0 \in Byte
  <2>1. 0 \in {0, 1} /\ 1 \in {0, 1} /\ 0 \in 0..255
    OBVIOUS
  <2>2. QED
    BY <2>1, WithBitIsByte DEF Byte
<1>7. QED
  BY <1>2, <1>3, <1>4, <1>5, <1>6 DEF Result

LEMMA CarriesAreBits ==
  ASSUME NEW m, NEW v \in Byte, NEW w \in Byte, NEW c \in {0, 1}
  PROVE  CarryOut(m, v, w, c) \in {0, 1} /\ DigitCarryOut(m, v, w, c) \in {0, 1}
<1>1. /\ Add8(v, w).c \in {0, 1} /\ Sub8(v, w).c \in {0, 1}
      /\ Add8(v, w).dc \in {0, 1} /\ Sub8(v, w).dc \in {0, 1}
  BY Add8Types, Sub8Types
<1>2. Bit(v, 7) \in {0, 1} /\ Bit(v, 0) \in {0, 1}
  <2>1. v \in Int /\ 7 \in BitNo /\ 0 \in BitNo
    BY DEF Byte, BitNo
  <2>2. QED
    BY <2>1, BitIsBit
<1>3. QED
  BY <1>1, <1>2 DEF CarryOut, DigitCarryOut

(***************************************************************************)
(* The state of the processor: bytes in the registers, 13 bits in the PC     *)
(* and on the stack, 3 in its pointer, 8 in the prescaler, and the phases of *)
(* the inhibition of TMR0 and of the lock of the EEPROM.                    *)
(***************************************************************************)
Memories == [cells : [Cells -> Byte], extA : Byte, extB : Byte]
Stacks   == [ring : [0..7 -> PcRange], sp : 0..7]
Arrays   == [cells : [0..127 -> Byte], unlock : 0..2]

ProcessorStates ==
  [w : Byte, pc : PcRange, mem : Memories, stack : Stacks,
   prescaler : Byte, inhibit : 0..2, ee : Arrays]

LEMMA Sizes ==
  TmrSize = 256 /\ StackSize = 8 /\ EeSize = 128 /\ Levels = 0..7
BY CpuAssumption DEF CpuAssumption, Levels

LEMMA StateUpdates ==
  ASSUME NEW c \in ProcessorStates, NEW m \in Memories, NEW pc \in PcRange,
         NEW w \in Byte, NEW stack \in Stacks, NEW ee \in Arrays
  PROVE  /\ [c EXCEPT !.mem = m] \in ProcessorStates
         /\ [c EXCEPT !.w = w] \in ProcessorStates
         /\ [c EXCEPT !.pc = pc] \in ProcessorStates
         /\ [c EXCEPT !.mem = m, !.pc = pc] \in ProcessorStates
         /\ [c EXCEPT !.pc = pc, !.mem = m] \in ProcessorStates
         /\ [c EXCEPT !.stack = stack, !.pc = pc] \in ProcessorStates
         /\ [c EXCEPT !.pc = pc, !.stack = stack] \in ProcessorStates
         /\ [c EXCEPT !.stack = stack, !.pc = pc, !.mem = m] \in ProcessorStates
         /\ [c EXCEPT !.mem = m, !.ee = ee] \in ProcessorStates
         /\ [c EXCEPT !.ee = ee] \in ProcessorStates
BY DEF ProcessorStates

LEMMA PokeIsMemory ==
  ASSUME NEW m \in Memories, NEW p \in Cells, NEW v \in Byte
  PROVE  /\ Poke(m, p, v) \in Memories
         /\ Poke(m, p, v).cells[p] = v
         /\ \A q \in Cells : q # p => Poke(m, p, v).cells[q] = m.cells[q]
BY DEF Memories, Poke

LEMMA NamedCells ==
  /\ INDF \in Cells /\ TMR0 \in Cells /\ PCL \in Cells /\ STATUS \in Cells /\ FSR \in Cells
  /\ PORTA \in Cells /\ PORTB \in Cells /\ PCLATH \in Cells /\ INTCON \in Cells
  /\ OPTION_REG \in Cells /\ TRISA \in Cells /\ TRISB \in Cells /\ EEDATA \in Cells
  /\ EEADR \in Cells /\ EECON1 \in Cells /\ EECON2 \in Cells
  /\ INTCON # PCL
BY DEF Cells, INDF, TMR0, PCL, STATUS, FSR, PORTA, PORTB, PCLATH, INTCON, OPTION_REG,
       TRISA, TRISB, EEDATA, EEADR, EECON1, EECON2

LEMMA NamedBits ==
  /\ GIE \in BitNo /\ T0IE \in BitNo /\ INTE \in BitNo /\ RBIE \in BitNo
  /\ T0IF \in BitNo /\ INTF \in BitNo /\ RBIF \in BitNo
  /\ STATUS_C \in BitNo /\ STATUS_DC \in BitNo /\ STATUS_Z \in BitNo /\ STATUS_PD \in BitNo
  /\ STATUS_TO \in BitNo /\ STATUS_RP0 \in BitNo /\ STATUS_RP1 \in BitNo
  /\ STATUS_IRP \in BitNo
BY DEF BitNo, GIE, T0IE, INTE, RBIE, T0IF, INTF, RBIF, STATUS_C, STATUS_DC, STATUS_Z,
       STATUS_PD, STATUS_TO, STATUS_RP0, STATUS_RP1, STATUS_IRP

LEMMA BitOfByte ==
  ASSUME NEW v \in Byte, NEW i \in BitNo
  PROVE  Bit(v, i) \in {0, 1}
<1>1. v \in Int
  BY DEF Byte
<1>2. QED
  BY <1>1, BitIsBit

LEMMA BankIsBank ==
  ASSUME NEW m \in Memories
  PROVE  Bank(m) \in 0..3
<1>1. m.cells[STATUS] \in Byte
  BY NamedCells DEF Memories
<1>2. /\ Bit(m.cells[STATUS], STATUS_RP0) \in {0, 1}
      /\ Bit(m.cells[STATUS], STATUS_RP1) \in {0, 1}
  BY <1>1, BitOfByte, NamedBits
<1>3. QED
  BY <1>2 DEF Bank

LEMMA PhysIsCell ==
  ASSUME NEW off \in 0..127, NEW bank \in 0..3
  PROVE  Phys(off, bank) \in Cells
BY DEF Phys, Cells

LEMMA IndirectIsCell ==
  ASSUME NEW m \in Memories
  PROVE  IndirectPhys(m) \in Cells
<1>1. m.cells[STATUS] \in Byte /\ m.cells[FSR] \in 0..255
  BY NamedCells DEF Memories, Byte
<1>2. Bit(m.cells[STATUS], STATUS_IRP) \in {0, 1}
  BY <1>1, BitOfByte, NamedBits
<1>3. /\ m.cells[FSR] % 128 \in 0..127
      /\ 2 * Bit(m.cells[STATUS], STATUS_IRP) + m.cells[FSR] \div 128 \in 0..3
  BY <1>1, <1>2
<1>4. QED
  BY <1>3, PhysIsCell DEF IndirectPhys

(* What is read is a byte, a port's mixture of latch and pins included. *)
LEMMA ReadIsByte ==
  ASSUME NEW m \in Memories, NEW off \in 0..127
  PROVE  Read(m, off) \in Byte
<1>1. /\ m.cells \in [Cells -> Byte] /\ m.extA \in Byte /\ m.extB \in Byte
  BY DEF Memories
<1>2. PortA(m) \in Byte /\ PortB(m) \in Byte
  BY <1>1, NamedCells, MuxIsByte DEF PortA, PortB
<1>3. \A p \in Cells : ReadPhys(m, p) \in Byte
  BY <1>1, <1>2 DEF ReadPhys
<1>4. Phys(off, Bank(m)) \in Cells /\ IndirectPhys(m) \in Cells
  BY BankIsBank, PhysIsCell, IndirectIsCell
<1>5. 0 \in Byte
  BY DEF Byte
<1>6. QED
  BY <1>3, <1>4, <1>5 DEF Read

LEMMA WriteIsMemory ==
  ASSUME NEW m \in Memories, NEW off \in 0..127, NEW v \in Byte
  PROVE  Write(m, off, v) \in Memories
<1>1. Phys(off, Bank(m)) \in Cells /\ IndirectPhys(m) \in Cells
  BY BankIsBank, PhysIsCell, IndirectIsCell
<1>2. QED
  BY <1>1, PokeIsMemory DEF Write

LEMMA SetFlagIsMemory ==
  ASSUME NEW m \in Memories, NEW b \in BitNo, NEW x \in {0, 1}
  PROVE  SetFlag(m, b, x) \in Memories
<1>1. m.cells[STATUS] \in Byte
  BY NamedCells DEF Memories
<1>2. WithBit(m.cells[STATUS], b, x) \in Byte
  BY <1>1, WithBitIsByte
<1>3. QED
  BY <1>2, NamedCells, PokeIsMemory DEF SetFlag

(***************************************************************************)
(* The stack.                                                               *)
(***************************************************************************)
LEMMA StackMoves ==
  ASSUME NEW s \in Stacks, NEW a \in PcRange
  PROVE  Push(s, a) \in Stacks /\ Popped(s) \in Stacks /\ Top(s) \in PcRange
<1>1. s.sp \in 0..7 /\ s.ring \in [0..7 -> PcRange] /\ s = [ring |-> s.ring, sp |-> s.sp]
  BY DEF Stacks
<1>2. Up(s.sp) \in 0..7 /\ Down(s.sp) \in 0..7
  BY <1>1, Sizes DEF Up, Down
<1>3. QED
  BY <1>1, <1>2 DEF Push, Popped, Top, Stacks

(***************************************************************************)
(* Executing an instruction leaves a state of the processor.                *)
(***************************************************************************)
LEMMA StateFields ==
  ASSUME NEW c \in ProcessorStates
  PROVE  /\ c.w \in Byte /\ c.pc \in PcRange /\ c.mem \in Memories /\ c.stack \in Stacks
         /\ c.prescaler \in Byte /\ c.inhibit \in 0..2 /\ c.ee \in Arrays
         /\ \A p \in Cells : c.mem.cells[p] \in Byte
BY DEF ProcessorStates, Memories

LEMMA OperandIsByte ==
  ASSUME NEW c \in ProcessorStates, NEW i, IsInstruction(i)
  PROVE  Operand(c, i) \in Byte /\ ResultOf(c, i) \in Byte
<1>1. c.mem \in Memories /\ c.w \in Byte /\ c.mem.cells[STATUS] \in Byte
  BY StateFields, NamedCells
<1>2. i.f \in 0..127 /\ i.bit \in BitNo /\ (i.m \in Literals8 => i.k \in Byte)
  BY DEF IsInstruction
<1>3. Operand(c, i) \in Byte
  BY <1>1, <1>2, ReadIsByte DEF Operand
<1>4. Flag(c.mem, STATUS_C) \in {0, 1}
  BY <1>1, BitOfByte, NamedBits DEF Flag
<1>5. QED
  BY <1>1, <1>2, <1>3, <1>4, ResultIsByte DEF ResultOf

LEMMA NextIsAddress ==
  ASSUME NEW a \in PcRange
  PROVE  (a + 1) % 8192 \in PcRange /\ ((a + 1) % 8192) % 256 \in Byte
BY DEF PcRange, Byte

LEMMA TargetsAreAddresses ==
  ASSUME NEW m \in Memories, NEW k \in Operands11
  PROVE  ComputedTarget(m) \in PcRange /\ BranchTarget(m, k) \in PcRange
<1> DEFINE latch == m.cells[PCLATH]
           low == m.cells[PCL]
<1>1. latch \in 0..255 /\ low \in 0..255
  BY NamedCells DEF Memories, Byte
<1> HIDE DEF latch, low
<1>2. (latch % 32) * 256 + low \in PcRange /\ ((latch \div 8) % 4) * 2048 + k \in PcRange
  BY <1>1 DEF PcRange, Operands11
<1>3. QED
  BY <1>2, Zenon DEF ComputedTarget, BranchTarget, latch, low

LEMMA StoreIsState ==
  ASSUME NEW c \in ProcessorStates, NEW i, IsInstruction(i), NEW r \in Byte
  PROVE  Store(c, i, r) \in ProcessorStates
<1> DEFINE m == Write(c.mem, i.f, r)
           pc == IF i.f = PCL THEN ComputedTarget(m) ELSE c.pc
<1>1. i.f \in 0..127
  BY DEF IsInstruction
<1>2. m \in Memories
  BY <1>1, StateFields, WriteIsMemory
<1>3. pc \in PcRange
  <2>1. 0 \in Operands11
    BY DEF Operands11
  <2>2. ComputedTarget(m) \in PcRange
    BY <1>2, <2>1, TargetsAreAddresses
  <2>3. QED
    BY <2>2, StateFields
<1>4. Store(c, i, r) \in {[c EXCEPT !.mem = m, !.pc = pc], [c EXCEPT !.w = r], c}
  BY DEF Store
<1> HIDE DEF m, pc
<1>6. [c EXCEPT !.mem = m, !.pc = pc] \in ProcessorStates
  BY <1>2, <1>3 DEF ProcessorStates
<1>7. [c EXCEPT !.w = r] \in ProcessorStates
  BY DEF ProcessorStates
<1>8. QED
  BY <1>4, <1>6, <1>7

LEMMA SetFlagsIsState ==
  ASSUME NEW c0 \in ProcessorStates, NEW c \in ProcessorStates, NEW i,
         NEW v \in Byte, NEW r \in Byte
  PROVE  SetFlags(c0, c, i, v, r) \in ProcessorStates
<1> DEFINE z == SetIf(i.m \in SetsZ, c.mem, STATUS_Z, AsBit(r = 0))
           y == SetIf(i.m \in Adds \cup Subtracts \cup {"RLF", "RRF"}, z, STATUS_C,
                      CarryOut(i.m, v, c0.w, 0))
           x == SetIf(i.m \in Adds \cup Subtracts, y, STATUS_DC,
                      DigitCarryOut(i.m, v, c0.w, 0))
           t == SetIf(i.m \in {"CLRWDT", "SLEEP"}, x, STATUS_TO, 1)
           m == SetIf(i.m \in {"CLRWDT", "SLEEP"}, t, STATUS_PD, AsBit(i.m = "CLRWDT"))
<1>1. /\ c.mem \in Memories /\ c0.w \in Byte /\ 0 \in {0, 1} /\ 1 \in {0, 1}
      /\ AsBit(r = 0) \in {0, 1} /\ AsBit(i.m = "CLRWDT") \in {0, 1}
  BY StateFields DEF AsBit
<1>2. CarryOut(i.m, v, c0.w, 0) \in {0, 1} /\ DigitCarryOut(i.m, v, c0.w, 0) \in {0, 1}
  BY <1>1, CarriesAreBits
<1>3. z \in Memories
  <2>1. SetFlag(c.mem, STATUS_Z, AsBit(r = 0)) \in Memories
    BY <1>1, SetFlagIsMemory, NamedBits
  <2>2. z \in {SetFlag(c.mem, STATUS_Z, AsBit(r = 0)), c.mem}
    BY DEF SetIf
  <2>3. QED
    BY <1>1, <2>1, <2>2, Zenon
<1> HIDE DEF z
<1>4. y \in Memories
  <2>1. SetFlag(z, STATUS_C, CarryOut(i.m, v, c0.w, 0)) \in Memories
    BY <1>2, <1>3, SetFlagIsMemory, NamedBits
  <2>2. y \in {SetFlag(z, STATUS_C, CarryOut(i.m, v, c0.w, 0)), z}
    BY DEF SetIf
  <2>3. QED
    BY <1>3, <2>1, <2>2, Zenon
<1> HIDE DEF y
<1>5. x \in Memories
  <2>1. SetFlag(y, STATUS_DC, DigitCarryOut(i.m, v, c0.w, 0)) \in Memories
    BY <1>2, <1>4, SetFlagIsMemory, NamedBits
  <2>2. x \in {SetFlag(y, STATUS_DC, DigitCarryOut(i.m, v, c0.w, 0)), y}
    BY DEF SetIf
  <2>3. QED
    BY <1>4, <2>1, <2>2, Zenon
<1> HIDE DEF x
<1>6. t \in Memories
  <2>1. SetFlag(x, STATUS_TO, 1) \in Memories
    BY <1>1, <1>5, SetFlagIsMemory, NamedBits
  <2>2. t \in {SetFlag(x, STATUS_TO, 1), x}
    BY DEF SetIf
  <2>3. QED
    BY <1>5, <2>1, <2>2, Zenon
<1> HIDE DEF t
<1>7. m \in Memories
  <2>1. SetFlag(t, STATUS_PD, AsBit(i.m = "CLRWDT")) \in Memories
    BY <1>1, <1>6, SetFlagIsMemory, NamedBits
  <2>2. m \in {SetFlag(t, STATUS_PD, AsBit(i.m = "CLRWDT")), t}
    BY DEF SetIf
  <2>3. QED
    BY <1>6, <2>1, <2>2, Zenon
<1>8. SetFlags(c0, c, i, v, r) = [c EXCEPT !.mem = m]
  BY Zenon DEF SetFlags, z, y, x, t
<1> HIDE DEF m
<1>9. QED
  BY <1>7, <1>8 DEF ProcessorStates

LEMMA JumpIsState ==
  ASSUME NEW c \in ProcessorStates, NEW i, IsInstruction(i), NEW v \in Byte, NEW r \in Byte
  PROVE  Jump(c, i, v, r) \in ProcessorStates
<1>1. i.k \in Operands11
  BY DEF IsInstruction
<1>2. (c.pc + 1) % 8192 \in PcRange
  BY StateFields, NextIsAddress
<1>3. BranchTarget(c.mem, i.k) \in PcRange
  <2>1. c.mem \in Memories
    BY StateFields
  <2>2. QED
    BY <1>1, <2>1, TargetsAreAddresses, Zenon
<1>4. Push(c.stack, c.pc) \in Stacks /\ Popped(c.stack) \in Stacks /\ Top(c.stack) \in PcRange
  BY StateFields, StackMoves
<1>5. Jump(c, i, v, r) \in
        {[c EXCEPT !.pc = (c.pc + 1) % 8192],
         [c EXCEPT !.pc = BranchTarget(c.mem, i.k)],
         [c EXCEPT !.stack = Push(c.stack, c.pc), !.pc = BranchTarget(c.mem, i.k)],
         [c EXCEPT !.pc = Top(c.stack), !.stack = Popped(c.stack)],
         c}
  BY DEF Jump
<1>6. c.mem \in Memories /\ c.w \in Byte /\ c.stack \in Stacks /\ c.ee \in Arrays
  BY StateFields
<1>7. \A a \in PcRange : [c EXCEPT !.pc = a] \in ProcessorStates
  BY DEF ProcessorStates
<1>8. [c EXCEPT !.stack = Push(c.stack, c.pc), !.pc = BranchTarget(c.mem, i.k)]
         \in ProcessorStates
  BY <1>3, <1>4, <1>6, StateUpdates
<1>9. [c EXCEPT !.pc = Top(c.stack), !.stack = Popped(c.stack)] \in ProcessorStates
  BY <1>4, <1>6, StateUpdates
<1>10. QED
  BY <1>2, <1>3, <1>5, <1>7, <1>8, <1>9

(* GIE set or cleared in the INTCON of a state. *)
LEMMA IntconUpdates ==
  ASSUME NEW c \in ProcessorStates, NEW b \in {0, 1}
  PROVE  [c EXCEPT !.mem.cells[INTCON] = WithBit(@, GIE, b)] \in ProcessorStates
<1>1. c.mem.cells[INTCON] \in Byte /\ INTCON \in Cells
  BY StateFields, NamedCells
<1>2. WithBit(c.mem.cells[INTCON], GIE, b) \in Byte
  BY <1>1, WithBitIsByte, NamedBits
<1>3. QED
  BY <1>1, <1>2 DEF ProcessorStates, Memories

LEMMA ExecuteIsState ==
  ASSUME NEW c \in ProcessorStates, NEW i, IsInstruction(i)
  PROVE  Execute(c, i) \in ProcessorStates
<1> DEFINE v == Operand(c, i)
           r == ResultOf(c, i)
           s == Store(c, i, r)
           f == SetFlags(c, s, i, v, r)
           j == Jump(f, i, v, r)
<1>1. v \in Byte /\ r \in Byte
  BY OperandIsByte
<1> HIDE DEF v, r
<1>2. s \in ProcessorStates
  BY <1>1, StoreIsState
<1> HIDE DEF s
<1>3. f \in ProcessorStates
  BY <1>1, <1>2, SetFlagsIsState
<1> HIDE DEF f
<1>4. j \in ProcessorStates
  BY <1>1, <1>3, JumpIsState
<1> HIDE DEF j
<1>5. EnableAfterReturn(j, i) \in ProcessorStates
  BY <1>4, IntconUpdates DEF EnableAfterReturn
<1>6. QED
  BY <1>5 DEF Execute, v, r, s, f, j

(***************************************************************************)
(* What follows every instruction.                                          *)
(***************************************************************************)
Timers == [tmr0 : Byte, t0if : {0, 1}, prescaler : Byte, inhibit : 0..2]

LEMMA TimerOfIsTimer ==
  ASSUME NEW c \in ProcessorStates
  PROVE  /\ TimerOf(c) \in Timers
         /\ OptionOf(c).t0cs \in {0, 1} /\ OptionOf(c).ps \in 0..7
<1>1. /\ c.mem.cells[TMR0] \in Byte /\ c.mem.cells[INTCON] \in Byte
      /\ c.mem.cells[OPTION_REG] \in Byte /\ c.prescaler \in Byte /\ c.inhibit \in 0..2
  BY StateFields, NamedCells
<1>2. Bit(Intcon(c), T0IF) \in {0, 1}
  BY <1>1, BitOfByte, NamedBits DEF Intcon
<1>3. \A o \in Byte : o % 8 \in 0..7
  BY DEF Byte
<1>4. TimerOf(c) \in Timers
  BY <1>1, <1>2 DEF TimerOf, Timers
<1>5. Bit(c.mem.cells[OPTION_REG], 5) \in {0, 1}
  <2>1. 5 \in BitNo
    BY DEF BitNo
  <2>2. QED
    BY <1>1, <2>1, BitOfByte
<1>6. QED
  BY <1>1, <1>3, <1>4, <1>5 DEF OptionOf, OptionBits

LEMMA DivisorDivides ==
  ASSUME NEW o, o.ps \in 0..7
  PROVE  Divisor(o) \in 1..256
BY DEF Divisor

LEMMA TickIsTimer ==
  ASSUME NEW t \in Timers, NEW o, o.t0cs \in {0, 1}, o.ps \in 0..7, NEW cyc \in {1, 2}
  PROVE  Tick(t, o, cyc) \in Timers
<1> DEFINE used == Inhibited(t, cyc)
           d == Divisor(o)
           acc == t.prescaler + (cyc - used)
           total == t.tmr0 + acc \div d
           left == t.inhibit - used
           flag == IF total >= TmrSize THEN 1 ELSE t.t0if
           scaled == acc % d
           count == total % TmrSize
<1>1. t.tmr0 \in Byte /\ t.t0if \in {0, 1} /\ t.prescaler \in Byte /\ t.inhibit \in 0..2
  BY DEF Timers
<1>2. d \in 1..256
  BY DivisorDivides
<1>3. used \in Nat /\ used <= cyc /\ left \in 0..2
  BY <1>1 DEF Inhibited
<1>4. acc \in Nat
  BY <1>1, <1>3 DEF Byte
<1>5. scaled \in Byte /\ acc \div d \in Nat
  <2> HIDE DEF acc, d
  <2>1. acc % d \in 0..(d - 1) /\ acc \div d \in Nat
    BY <1>2, <1>4
  <2>2. QED
    BY <1>2, <2>1 DEF Byte
<1>6. count \in Byte /\ flag \in {0, 1}
  <2>1. total \in Nat
    BY <1>1, <1>5 DEF Byte
  <2> HIDE DEF total
  <2>2. total % 256 \in Byte
    BY <2>1 DEF Byte
  <2>3. QED
    BY <1>1, <2>1, <2>2, Sizes
<1>7. CASE o.t0cs = 1
  <2>1. Tick(t, o, cyc) = t
    BY <1>7 DEF Tick
  <2>2. QED
    BY <2>1
<1>8. CASE o.t0cs = 0 /\ cyc - used = 0
  <2>1. Tick(t, o, cyc) = [t EXCEPT !.inhibit = left]
    BY <1>8 DEF Tick
  <2> HIDE DEF left
  <2>2. QED
    BY <1>3, <2>1 DEF Timers
<1>9. CASE o.t0cs = 0 /\ cyc - used > 0
  <2>1. /\ o.t0cs # 1 /\ ~(cyc - used = 0)
    BY <1>3, <1>9
  <2>2. Tick(t, o, cyc) = [[t EXCEPT !.inhibit = left]
                            EXCEPT !.prescaler = scaled, !.tmr0 = count, !.t0if = flag]
    BY <1>9, <2>1 DEF Tick
  <2> HIDE DEF left, scaled, count, flag
  <2>3. QED
    BY <1>3, <1>5, <1>6, <2>2 DEF Timers
<1>10. QED
  <2>1. cyc - used = 0 \/ cyc - used > 0
    BY <1>3
  <2>2. QED
    BY <1>7, <1>8, <1>9, <2>1

LEMMA WithTimerIsState ==
  ASSUME NEW c \in ProcessorStates, NEW t \in Timers
  PROVE  WithTimer(c, t) \in ProcessorStates
<1>1. t.tmr0 \in Byte /\ t.t0if \in {0, 1} /\ t.prescaler \in Byte /\ t.inhibit \in 0..2
  BY DEF Timers
<1>2. c.mem \in Memories /\ c.mem.cells[INTCON] \in Byte
  BY StateFields, NamedCells
<1>3. WithBit(Intcon(c), T0IF, t.t0if) \in Byte
  BY <1>1, <1>2, WithBitIsByte, NamedBits DEF Intcon
<1> DEFINE m == Poke(c.mem, TMR0, t.tmr0)
           n == Poke(m, INTCON, WithBit(Intcon(c), T0IF, t.t0if))
<1>4. m \in Memories
  BY <1>1, <1>2, NamedCells, PokeIsMemory
<1> HIDE DEF m
<1>5. n \in Memories
  BY <1>3, <1>4, NamedCells, PokeIsMemory
<1>6. WithTimer(c, t) = [c EXCEPT !.prescaler = t.prescaler, !.inhibit = t.inhibit, !.mem = n]
  BY DEF WithTimer, m
<1> HIDE DEF n
<1>7. QED
  BY <1>1, <1>5, <1>6 DEF ProcessorStates

LEMMA Tmr0WriteIsTimer ==
  ASSUME NEW t \in Timers
  PROVE  OnTmr0Write(t) \in Timers
<1>1. 0 \in Byte /\ 2 \in 0..2
  BY DEF Byte
<1>2. OnTmr0Write(t) = [t EXCEPT !.prescaler = 0, !.inhibit = 2]
  BY DEF OnTmr0Write
<1>3. QED
  BY <1>1, <1>2 DEF Timers

LEMMA RunTimerIsState ==
  ASSUME NEW c \in ProcessorStates, NEW i, NEW bank, NEW cyc \in {1, 2}
  PROVE  RunTimer(c, i, bank, cyc) \in ProcessorStates
<1> DEFINE t == TimerOf(c)
           ticked == Tick(t, OptionOf(c), cyc)
           written == OnTmr0Write(t)
<1>1. t \in Timers /\ OptionOf(c).t0cs \in {0, 1} /\ OptionOf(c).ps \in 0..7
  BY TimerOfIsTimer
<1>2. ticked \in Timers
  BY <1>1, TickIsTimer
<1>3. written \in Timers
  BY <1>1, Tmr0WriteIsTimer
<1>4. WithTimer(c, ticked) \in ProcessorStates /\ WithTimer(c, written) \in ProcessorStates
  BY <1>2, <1>3, WithTimerIsState
<1>5. QED
  BY <1>4 DEF RunTimer

EeRegisters == [rd : {0, 1}, wr : {0, 1}, wren : {0, 1}, data : Byte, adr : Byte]

LEMMA EeRegsAreRegisters ==
  ASSUME NEW m \in Memories
  PROVE  EeRegs(m) \in EeRegisters
<1>1. m.cells[EECON1] \in Byte /\ m.cells[EEDATA] \in Byte /\ m.cells[EEADR] \in Byte
  BY NamedCells DEF Memories
<1>2. 0 \in BitNo /\ 1 \in BitNo /\ 2 \in BitNo
  BY DEF BitNo
<1>3. /\ Bit(m.cells[EECON1], 0) \in {0, 1} /\ Bit(m.cells[EECON1], 1) \in {0, 1}
      /\ Bit(m.cells[EECON1], 2) \in {0, 1}
  BY <1>1, <1>2, BitOfByte
<1>4. QED
  BY <1>1, <1>3 DEF EeRegs, EeRegisters

LEMMA ServeReadIsRegisters ==
  ASSUME NEW r \in EeRegisters, NEW ee \in Arrays
  PROVE  ServeRead(r, ee) \in EeRegisters
<1>1. r.adr % EeSize \in 0..127
  BY Sizes DEF EeRegisters, Byte
<1>2. ee.cells[r.adr % EeSize] \in Byte
  BY <1>1 DEF Arrays
<1>3. QED
  BY <1>2 DEF ServeRead, EeRegisters

LEMMA EecontrolIsTyped ==
  ASSUME NEW r \in EeRegisters, NEW ee \in Arrays
  PROVE  Eecon1Regs(r, ee) \in EeRegisters /\ Eecon1Array(r, ee) \in Arrays
<1> DEFINE s == ServeRead(r, ee)
           a == s.adr % EeSize
<1>1. s \in EeRegisters
  BY ServeReadIsRegisters
<1> HIDE DEF s
<1>2. [s EXCEPT !.wr = 0] \in EeRegisters
  BY <1>1 DEF EeRegisters
<1>3. a \in 0..127 /\ s.data \in Byte
  BY <1>1, Sizes DEF EeRegisters, Byte
<1> HIDE DEF a
<1>4. [ee.cells EXCEPT ![a] = s.data] \in [0..127 -> Byte]
  BY <1>3 DEF Arrays
<1>5. Burn(s, ee) \in Arrays
  <2>1. ee.cells \in [0..127 -> Byte] /\ ee.unlock \in 0..2
    BY DEF Arrays
  <2>2. Burn(s, ee).cells \in [0..127 -> Byte] /\ Burn(s, ee).unlock \in 0..2
    BY <1>4, <2>1 DEF Burn, a
  <2>3. Burn(s, ee) = [cells |-> Burn(s, ee).cells, unlock |-> Burn(s, ee).unlock]
    BY DEF Burn
  <2>4. QED
    BY <2>2, <2>3 DEF Arrays
<1>6. QED
  BY <1>2, <1>5 DEF Eecon1Regs, Eecon1Array, s

LEMMA RunEepromIsState ==
  ASSUME NEW c \in ProcessorStates, NEW i, NEW bank
  PROVE  RunEeprom(c, i, bank) \in ProcessorStates
<1> DEFINE r == EeRegs(c.mem)
           s == Eecon1Regs(r, c.ee)
           ee == Eecon1Array(r, c.ee)
           m == Poke(c.mem, EEDATA, s.data)
           n == WithEeRegs(c.mem, s)
           u == Unlocked(c.ee.unlock, c.mem.cells[EECON2])
<1>1. c.mem \in Memories /\ c.ee \in Arrays /\ r \in EeRegisters
  BY StateFields, EeRegsAreRegisters
<1> HIDE DEF r
<1>2. s \in EeRegisters /\ ee \in Arrays
  BY <1>1, EecontrolIsTyped
<1> HIDE DEF s, ee
<1>3. n \in Memories
  <2>1. s.rd \in {0, 1} /\ s.wr \in {0, 1} /\ s.data \in Byte
    BY <1>2 DEF EeRegisters
  <2>2. c.mem.cells[EECON1] \in Byte /\ 0 \in BitNo /\ 1 \in BitNo
    BY StateFields, NamedCells DEF BitNo
  <2>3. WithBit(c.mem.cells[EECON1], 0, s.rd) \in Byte
    BY <2>1, <2>2, WithBitIsByte
  <2>4. WithBit(WithBit(c.mem.cells[EECON1], 0, s.rd), 1, s.wr) \in Byte
    BY <2>1, <2>2, <2>3, WithBitIsByte
  <2>5. m \in Memories
    BY <1>1, <2>1, NamedCells, PokeIsMemory
  <2> HIDE DEF m
  <2>6. Poke(m, EECON1, WithBit(WithBit(c.mem.cells[EECON1], 0, s.rd), 1, s.wr)) \in Memories
    BY <2>4, <2>5, NamedCells, PokeIsMemory
  <2>7. QED
    BY <2>6, Zenon DEF WithEeRegs, m
<1>4. u \in 0..2
  BY DEF Unlocked
<1> HIDE DEF n, u
<1>5. [c EXCEPT !.mem = n, !.ee = ee] \in ProcessorStates
  BY <1>2, <1>3 DEF ProcessorStates
<1>6. [c EXCEPT !.ee.unlock = u] \in ProcessorStates
  BY <1>4 DEF ProcessorStates, Arrays
<1>7. RunEeprom(c, i, bank) \in
        {[c EXCEPT !.mem = n, !.ee = ee], [c EXCEPT !.ee.unlock = u], c}
  BY DEF RunEeprom, n, ee, u, s, r
<1>8. QED
  BY <1>5, <1>6, <1>7

(***************************************************************************)
(* step(), set_pin and reset                                                *)
(***************************************************************************)
LEMMA FetchedIsState ==
  ASSUME NEW c \in ProcessorStates
  PROVE  Fetched(c) \in ProcessorStates
<1> DEFINE next == (c.pc + 1) % 8192
           m == Poke(c.mem, PCL, next % 256)
<1>1. next \in PcRange /\ next % 256 \in Byte
  BY StateFields, NextIsAddress
<1> HIDE DEF next
<1>2. m \in Memories
  BY <1>1, StateFields, NamedCells, PokeIsMemory
<1>3. Fetched(c) = [c EXCEPT !.pc = next, !.mem = m]
  BY DEF Fetched, next
<1> HIDE DEF m
<1>4. QED
  BY <1>1, <1>2, <1>3 DEF ProcessorStates

LEMMA ExecutedIsState ==
  ASSUME NEW c \in ProcessorStates, NEW i, IsInstruction(i)
  PROVE  /\ Executed(c, i).state \in ProcessorStates
         /\ Executed(c, i).spent \in {1, 2}
<1> DEFINE f == Fetched(c)
           bank == Bank(f.mem)
           cyc == Cost(f, i)
           x == Execute(f, i)
           t == RunTimer(x, i, bank, cyc)
           e == RunEeprom(t, i, bank)
<1>1. f \in ProcessorStates
  BY FetchedIsState
<1>2. cyc \in {1, 2}
  BY DEF Cost
<1>3. Executed(c, i).state = e /\ Executed(c, i).spent = cyc
  BY DEF Executed
<1> HIDE DEF f, bank, cyc
<1>4. x \in ProcessorStates
  BY <1>1, ExecuteIsState
<1> HIDE DEF x
<1>5. t \in ProcessorStates
  BY <1>2, <1>4, RunTimerIsState
<1> HIDE DEF t
<1>6. e \in ProcessorStates
  BY <1>5, RunEepromIsState
<1>7. QED
  BY <1>2, <1>3, <1>6, Zenon

(* An interrupt that is entered leaves interrupts disabled. *)
LEMMA EntryDisables ==
  ASSUME NEW c \in ProcessorStates
  PROVE  /\ ServiceInterrupts(c) \in ProcessorStates
         /\ ~Pending(Intcon(ServiceInterrupts(c)))
         /\ EntryCost(c) \in {0, 2}
<1> DEFINE old == c.mem.cells[INTCON]
           new == WithBit(old, GIE, 0)
           s == ServiceInterrupts(c)
<1>1. /\ old \in Byte /\ INTCON \in Cells /\ c.mem \in Memories
      /\ c.stack \in Stacks /\ c.pc \in PcRange
  BY StateFields, NamedCells
<1>2. new \in Byte
  <2>1. 0 \in {0, 1}
    OBVIOUS
  <2>2. QED
    BY <1>1, <2>1, WithBitIsByte, NamedBits
<1>3. Bit(new, GIE) = 0
  <2>1. 0 \in {0, 1}
    OBVIOUS
  <2>2. QED
    BY <1>1, <2>1, TopBitIsPut DEF GIE
<1>4. CASE Pending(Intcon(c))
  <2>1. s = [c EXCEPT !.stack = Push(c.stack, c.pc), !.pc = INT_VECTOR,
                      !.mem.cells[INTCON] = new]
    BY <1>4 DEF ServiceInterrupts
  <2>2. Push(c.stack, c.pc) \in Stacks /\ INT_VECTOR \in PcRange
    <3>1. INT_VECTOR \in PcRange
      BY DEF INT_VECTOR, PcRange
    <3>2. QED
      BY <1>1, <3>1, StackMoves, Zenon
  <2> HIDE DEF new, s
  <2>3. s \in ProcessorStates /\ s.mem.cells[INTCON] = new
    BY <1>1, <1>2, <2>1, <2>2 DEF ProcessorStates, Memories
  <2>4. ~Pending(Intcon(s))
    BY <1>3, <2>3 DEF Pending, Intcon
  <2>5. QED
    BY <2>3, <2>4 DEF s, EntryCost, INTERRUPT_ENTRY_CYCLES
<1>5. CASE ~Pending(Intcon(c))
  BY <1>5 DEF ServiceInterrupts, EntryCost
<1>6. QED
  BY <1>4, <1>5

LEMMA ByteBits ==
  \A p \in 0..15 : p % 8 \in BitNo /\ p \div 8 \in {0, 1}
BY DEF BitNo

LEMMA PinSetIsState ==
  ASSUME NEW c \in ProcessorStates, NEW pin \in 0..15, NEW x \in {0, 1}
  PROVE  PinSet(c, pin, x) \in ProcessorStates
<1> DEFINE m == SetExt(c.mem, pin \div 8, pin % 8, x)
           Raised(b) == Poke(m, INTCON, WithBit(Intcon(c), b, 1))
<1>1. /\ c.mem \in Memories /\ c.mem.extA \in Byte /\ c.mem.extB \in Byte
      /\ c.mem.cells[INTCON] \in Byte /\ 1 \in {0, 1}
  BY StateFields, NamedCells DEF Memories
<1>2. WithBit(c.mem.extA, pin % 8, x) \in Byte /\ WithBit(c.mem.extB, pin % 8, x) \in Byte
  BY <1>1, ByteBits, WithBitIsByte
<1>3. m \in Memories
  BY <1>1, <1>2 DEF SetExt, Memories
<1> HIDE DEF m
<1>4. WithBit(Intcon(c), INTF, 1) \in Byte /\ WithBit(Intcon(c), RBIF, 1) \in Byte
  BY <1>1, WithBitIsByte, NamedBits DEF Intcon
<1>5. Raised(INTF) \in Memories /\ Raised(RBIF) \in Memories
  BY <1>3, <1>4, NamedCells, PokeIsMemory
<1>6. PinSet(c, pin, x) \in {[c EXCEPT !.mem = Raised(INTF)],
                             [c EXCEPT !.mem = Raised(RBIF)], [c EXCEPT !.mem = m]}
  BY DEF PinSet, m
<1> HIDE DEF Raised
<1>7. \A n \in Memories : [c EXCEPT !.mem = n] \in ProcessorStates
  BY DEF ProcessorStates
<1>8. QED
  BY <1>3, <1>5, <1>6, <1>7

LEMMA PowerOnIsState ==
  ASSUME NEW cells \in [0..127 -> Byte]
  PROVE  PowerOn(cells) \in ProcessorStates
<1> DEFINE a == Poke(ClearMem, STATUS, 24)
           b == Poke(a, TRISA, 255)
           m == Poke(b, TRISB, 255)
           e == [cells |-> cells, unlock |-> 0]
<1>1. 0 \in Byte /\ 24 \in Byte /\ 255 \in Byte /\ 0 \in PcRange /\ 0 \in 0..2 /\ 0 \in 0..7
  BY DEF Byte, PcRange
<1>2. ClearMem \in Memories
  BY <1>1 DEF ClearMem, Memories
<1>3. a \in Memories
  BY <1>1, <1>2, NamedCells, PokeIsMemory
<1> HIDE DEF a
<1>4. b \in Memories
  BY <1>1, <1>3, NamedCells, PokeIsMemory
<1> HIDE DEF b
<1>5. m \in Memories
  BY <1>1, <1>4, NamedCells, PokeIsMemory
<1>6. EmptyStack \in Stacks
  BY <1>1, Sizes DEF EmptyStack, Stacks
<1>7. e \in Arrays
  BY <1>1 DEF Arrays
<1>8. PowerOn(cells) = [w |-> 0, pc |-> 0, mem |-> m, stack |-> EmptyStack, prescaler |-> 0,
                        inhibit |-> 0, ee |-> e]
  BY Zenon DEF PowerOn, a, b
<1> HIDE DEF m, e
<1>9. QED
  BY <1>1, <1>5, <1>6, <1>7, <1>8 DEF ProcessorStates

LEMMA ErasedIsArray ==
  ErasedArray \in [0..127 -> Byte]
BY DEF ErasedArray, Byte

LEMMA LevelIsBit ==
  ASSUME NEW c \in ProcessorStates, NEW pin \in 0..15
  PROVE  Level(c, pin) \in {0, 1}
<1>1. /\ c.mem.extA \in Byte /\ c.mem.extB \in Byte /\ c.mem.cells[PORTA] \in Byte
      /\ c.mem.cells[PORTB] \in Byte /\ c.mem.cells[TRISA] \in Byte
      /\ c.mem.cells[TRISB] \in Byte
  BY StateFields, NamedCells DEF Memories
<1>2. PortA(c.mem) \in Byte /\ PortB(c.mem) \in Byte
  BY <1>1, MuxIsByte DEF PortA, PortB
<1>3. (pin < 8 => pin \in BitNo) /\ (~(pin < 8) => pin - 8 \in BitNo)
  BY DEF BitNo
<1>4. pin < 8 => Bit(PortA(c.mem), pin) \in {0, 1}
  BY <1>2, <1>3, BitOfByte
<1>5. ~(pin < 8) => Bit(PortB(c.mem), pin - 8) \in {0, 1}
  BY <1>2, <1>3, BitOfByte
<1>6. QED
  BY <1>4, <1>5 DEF Level

(***************************************************************************)
(* The processor and its sampler.  The bound of the on-time needs levels to  *)
(* be bits and a step to take time, and both need the state of the processor *)
(* to be one: that is what makes the invariant inductive.                   *)
(***************************************************************************)
ClockTypes ==
  /\ firmware \in Firmware
  /\ cycles \in Nat /\ frame \in Nat /\ opened.at \in Nat
  /\ high \in [Watched -> Nat]

RegistersInRange == cpu \in ProcessorStates

ProcessorInv ==
  /\ ClockTypes
  /\ RegistersInRange
  /\ FrameIsAccounted

(* What a step is: an instruction, and perhaps the entry of an interrupt. *)
LEMMA StepTakesTime ==
  ASSUME ProcessorInv, Step
  PROVE  \E i, e :
           /\ e = Executed(cpu, i) /\ IsInstruction(i)
           /\ e.state \in ProcessorStates
           /\ e.spent + EntryCost(e.state) \in 1..4
           /\ Finish(i, e)
<1> DEFINE i == InstructionAt(cpu.pc)
           e == Executed(cpu, i)
<1>1. cpu.pc \in Nat
  <2>1. cpu.pc \in PcRange
    BY StateFields DEF ProcessorInv, RegistersInRange
  <2>2. PcRange \subseteq Nat
    BY DEF PcRange
  <2>3. QED
    BY <2>1, <2>2, Zenon
<1>2. IsInstruction(i)
  BY <1>1, InstructionAtIsInstruction DEF ProcessorInv, ClockTypes
<1>3. Finish(i, e)
  BY DEF Step, Perform
<1> HIDE DEF i
<1>4. e.state \in ProcessorStates /\ e.spent \in {1, 2}
  BY <1>2, ExecutedIsState DEF ProcessorInv, RegistersInRange
<1>5. EntryCost(e.state) \in {0, 2}
  BY <1>4, EntryDisables
<1> HIDE DEF e
<1>6. e.spent + EntryCost(e.state) \in 1..4
  BY <1>4, <1>5
<1>7. QED
  BY <1>2, <1>3, <1>4, <1>6, Zenon DEF e

LEMMA OnTimeIsBounded ==
  ASSUME NEW h \in [Watched -> Nat], NEW f \in Nat, \A p \in Watched : h[p] <= f,
         NEW c \in ProcessorStates, NEW cyc \in Nat
  PROVE  /\ [p \in Watched |-> h[p] + cyc * Level(c, p)] \in [Watched -> Nat]
         /\ \A p \in Watched : [q \in Watched |-> h[q] + cyc * Level(c, q)][p] <= f + cyc
<1>1. \A p \in Watched : cyc * Level(c, p) \in {0, cyc}
  <2>1. \A p \in Watched : Level(c, p) \in {0, 1}
    BY LevelIsBit, CpuAssumption DEF CpuAssumption
  <2>2. QED
    BY <2>1
<1>2. ASSUME NEW p \in Watched
      PROVE  /\ h[p] + cyc * Level(c, p) \in Nat
             /\ h[p] + cyc * Level(c, p) <= f + cyc
  <2> DEFINE add == cyc * Level(c, p)
  <2>1. add \in {0, cyc} /\ h[p] \in Nat /\ h[p] <= f
    BY <1>1
  <2> HIDE DEF add
  <2>2. h[p] + add \in Nat /\ h[p] + add <= f + cyc
    BY <2>1
  <2>3. QED
    BY <2>2 DEF add
<1>3. QED
  BY <1>2

LEMMA StepKeeps ==
  ASSUME ProcessorInv, Step
  PROVE  ProcessorInv'
<1> DEFINE lit(c, cyc) == [p \in Watched |-> high[p] + cyc * Level(c, p)]
<1>1. PICK i, e : /\ e.state \in ProcessorStates
                  /\ e.spent + EntryCost(e.state) \in 1..4
                  /\ Finish(i, e)
  BY StepTakesTime
<1> DEFINE total == e.spent + EntryCost(e.state)
           c == Fetched(cpu)
<1>2. /\ cpu' = ServiceInterrupts(e.state)
      /\ cycles' = cycles + total
      /\ high' = lit(c, total) /\ frame' = frame + total
      /\ firmware' = firmware /\ opened' = opened
  BY <1>1 DEF Finish, Accumulate
<1>3. cpu' \in ProcessorStates
  BY <1>1, <1>2, EntryDisables
<1>4. c \in ProcessorStates
  BY FetchedIsState DEF ProcessorInv, RegistersInRange
<1>5. /\ high \in [Watched -> Nat] /\ frame \in Nat /\ \A p \in Watched : high[p] <= frame
      /\ frame = cycles - opened.at /\ cycles \in Nat /\ opened.at \in Nat
      /\ firmware \in Firmware
  BY DEF ProcessorInv, ClockTypes, FrameIsAccounted
<1>6. total \in Nat
  BY <1>1
<1> HIDE DEF total, c
<1>7. /\ lit(c, total) \in [Watched -> Nat]
      /\ \A p \in Watched : lit(c, total)[p] <= frame + total
  BY <1>4, <1>5, <1>6, OnTimeIsBounded
<1> HIDE DEF lit
<1>8. /\ cycles + total \in Nat /\ frame + total \in Nat
      /\ frame + total = (cycles + total) - opened.at
  BY <1>5, <1>6
<1>9. ClockTypes'
  BY <1>2, <1>5, <1>7, <1>8 DEF ClockTypes
<1>10. FrameIsAccounted'
  BY <1>2, <1>7, <1>8 DEF FrameIsAccounted
<1>11. QED
  BY <1>3, <1>9, <1>10 DEF ProcessorInv, RegistersInRange

LEMMA FrameStarts ==
  ASSUME NEW n \in Nat, NEW c
  PROVE  /\ NoTime \in [Watched -> Nat]
         /\ \A p \in Watched : NoTime[p] <= 0
         /\ Opening(c, n).at = n /\ 0 = n - Opening(c, n).at
BY DEF NoTime, Opening

LEMMA PowerUpKeeps ==
  ASSUME NEW fw \in Firmware, firmware' = fw,
         NEW cells \in [0..127 -> Byte], PowerUp(PowerOn(cells))
  PROVE  ProcessorInv'
<1>1. /\ cpu' = PowerOn(cells) /\ cycles' = 0 /\ high' = NoTime /\ frame' = 0
      /\ opened' = Opening(PowerOn(cells), 0)
  BY DEF PowerUp
<1>2. /\ NoTime \in [Watched -> Nat]
      /\ \A p \in Watched : NoTime[p] <= 0
      /\ opened'.at = 0 /\ 0 = 0 - opened'.at /\ 0 \in Nat
  <2>1. 0 \in Nat
    OBVIOUS
  <2>2. QED
    BY <1>1, <2>1, FrameStarts
<1>3. ClockTypes'
  BY <1>1, <1>2, Zenon DEF ClockTypes
<1>4. FrameIsAccounted'
  BY <1>1, <1>2, Zenon DEF FrameIsAccounted
<1>5. cpu' \in ProcessorStates
  BY <1>1, PowerOnIsState
<1>6. QED
  BY <1>3, <1>4, <1>5 DEF ProcessorInv, RegistersInRange

(* Between two instructions only the registers change, or the frame ends. *)
LEMMA EditKeeps ==
  ASSUME ProcessorInv, NEW c \in ProcessorStates, Edit(c)
  PROVE  ProcessorInv'
BY DEF ProcessorInv, ClockTypes, RegistersInRange, FrameIsAccounted, Edit

LEMMA SetPinKeeps ==
  ASSUME ProcessorInv, NEW pin \in 0..15, SetPin(pin)
  PROVE  ProcessorInv'
<1> DEFINE x == 1 - ExtLevel(cpu.mem, pin \div 8, pin % 8)
<1>1. cpu \in ProcessorStates /\ cpu.mem.extA \in Byte /\ cpu.mem.extB \in Byte
  BY StateFields DEF ProcessorInv, RegistersInRange, Memories
<1>2. ExtLevel(cpu.mem, pin \div 8, pin % 8) \in {0, 1}
  BY <1>1, ByteBits, BitOfByte DEF ExtLevel
<1>3. x \in {0, 1}
  BY <1>2
<1>4. cpu' = PinSet(cpu, pin, x)
      /\ UNCHANGED <<firmware, cycles, high, frame, opened>>
  BY DEF SetPin
<1> HIDE DEF x
<1>5. cpu' \in ProcessorStates
  BY <1>1, <1>3, <1>4, PinSetIsState
<1>6. QED
  BY <1>4, <1>5 DEF ProcessorInv, ClockTypes, RegistersInRange, FrameIsAccounted

LEMMA ResetFrameKeeps ==
  ASSUME ProcessorInv, ResetFrame
  PROVE  ProcessorInv'
<1>1. cycles \in Nat /\ firmware \in Firmware /\ cpu \in ProcessorStates /\ 0 \in Nat
  BY DEF ProcessorInv, ClockTypes, RegistersInRange
<1>2. /\ high' = NoTime /\ frame' = 0 /\ opened' = Opening(cpu, cycles)
      /\ cycles' = cycles /\ cpu' = cpu /\ firmware' = firmware
  BY DEF ResetFrame
<1>3. /\ NoTime \in [Watched -> Nat]
      /\ \A p \in Watched : NoTime[p] <= 0
      /\ opened'.at = cycles /\ 0 = cycles - opened'.at
  BY <1>1, <1>2, FrameStarts
<1>4. ClockTypes'
  BY <1>1, <1>2, <1>3, Zenon DEF ClockTypes
<1>5. FrameIsAccounted'
  BY <1>2, <1>3, Zenon DEF FrameIsAccounted
<1>6. QED
  BY <1>1, <1>2, <1>4, <1>5 DEF ProcessorInv, RegistersInRange

LEMMA DebuggerKeeps ==
  ASSUME ProcessorInv
  PROVE  /\ \A e \in Edits[firmware] : WriteData(e[1], e[2]) \/ SetW(e[2]) => ProcessorInv'
         /\ \A a \in Detours[firmware] : SetPc(a) => ProcessorInv'
<1>1. firmware \in Firmware /\ cpu \in ProcessorStates /\ cpu.mem \in Memories
  BY StateFields DEF ProcessorInv, ClockTypes, RegistersInRange
<1>2. Edits[firmware] \subseteq Cells \X Byte /\ Detours[firmware] \subseteq PcRange
  BY <1>1, CpuAssumption DEF CpuAssumption
<1>3. ASSUME NEW e \in Edits[firmware], WriteData(e[1], e[2])
      PROVE  ProcessorInv'
  <2>1. e[1] \in Cells /\ e[2] \in Byte
    BY <1>2
  <2> DEFINE m == Poke(cpu.mem, e[1], e[2])
  <2>2. m \in Memories
    BY <1>1, <2>1, PokeIsMemory
  <2>3. Edit([cpu EXCEPT !.mem = m])
    BY <1>3 DEF WriteData
  <2> HIDE DEF m
  <2>4. [cpu EXCEPT !.mem = m] \in ProcessorStates
    BY <1>1, <2>2 DEF ProcessorStates
  <2>5. QED
    BY <2>3, <2>4, EditKeeps
<1>4. ASSUME NEW e \in Edits[firmware], SetW(e[2])
      PROVE  ProcessorInv'
  <2>1. e[2] \in Byte
    BY <1>2
  <2>2. [cpu EXCEPT !.w = e[2]] \in ProcessorStates
    BY <1>1, <2>1 DEF ProcessorStates
  <2>3. QED
    BY <1>4, <2>2, EditKeeps DEF SetW
<1>5. ASSUME NEW a \in Detours[firmware], SetPc(a)
      PROVE  ProcessorInv'
  <2>1. [cpu EXCEPT !.pc = a] \in ProcessorStates
    BY <1>1, <1>2 DEF ProcessorStates
  <2>2. QED
    BY <1>5, <2>1, EditKeeps DEF SetPc
<1>6. QED
  BY <1>3, <1>4, <1>5

LEMMA ProcessorInvIsInductive ==
  /\ Init => ProcessorInv
  /\ ProcessorInv /\ [Next]_vars => ProcessorInv'
<1>1. ASSUME Init PROVE ProcessorInv
  <2>1. /\ firmware \in Firmware /\ cpu = PowerOn(ErasedArray) /\ cycles = 0
        /\ high = NoTime /\ frame = 0 /\ opened = Opening(PowerOn(ErasedArray), 0)
    BY <1>1 DEF Init
  <2>2. 0 \in Nat
    OBVIOUS
  <2>3. /\ NoTime \in [Watched -> Nat] /\ \A p \in Watched : NoTime[p] <= 0
        /\ opened.at = 0 /\ 0 = 0 - opened.at
    BY <2>1, <2>2, FrameStarts
  <2>4. ClockTypes
    BY <2>1, <2>2, <2>3, Zenon DEF ClockTypes
  <2>5. FrameIsAccounted
    BY <2>1, <2>3, Zenon DEF FrameIsAccounted
  <2>6. cpu \in ProcessorStates
    BY <2>1, ErasedIsArray, PowerOnIsState
  <2>7. QED
    BY <2>4, <2>5, <2>6 DEF ProcessorInv, RegistersInRange
<1>2. ASSUME ProcessorInv, [Next]_vars PROVE ProcessorInv'
  <2>1. CASE Step
    BY <1>2, <2>1, StepKeeps
  <2>2. CASE \E pin \in Pins[firmware] : SetPin(pin)
    <3>1. Pins[firmware] \subseteq 0..15
      BY <1>2, CpuAssumption DEF CpuAssumption, ProcessorInv, ClockTypes
    <3>2. QED
      BY <1>2, <2>2, <3>1, SetPinKeeps
  <2>3. CASE ResetFrame
    BY <1>2, <2>3, ResetFrameKeeps
  <2>4. CASE Reset
    <3>1. cpu.ee \in Arrays /\ firmware \in Firmware
      BY <1>2, StateFields DEF ProcessorInv, ClockTypes, RegistersInRange
    <3>2. cpu.ee.cells \in [0..127 -> Byte]
      BY <3>1 DEF Arrays
    <3>3. PowerUp(PowerOn(cpu.ee.cells)) /\ firmware' = firmware
      BY <2>4 DEF Reset
    <3>4. QED
      BY <3>1, <3>2, <3>3, PowerUpKeeps
  <2>5. CASE \E fw \in Firmware : LoadHex(fw)
    BY <2>5, ErasedIsArray, PowerUpKeeps DEF LoadHex
  <2>6. CASE \E e \in Edits[firmware] : WriteData(e[1], e[2]) \/ SetW(e[2])
    BY <1>2, <2>6, DebuggerKeeps
  <2>7. CASE \E a \in Detours[firmware] : SetPc(a)
    BY <1>2, <2>7, DebuggerKeeps
  <2>8. CASE UNCHANGED vars
    BY <1>2, <2>8 DEF vars, ProcessorInv, ClockTypes, RegistersInRange, FrameIsAccounted
  <2>9. QED
    BY <1>2, <2>1, <2>2, <2>3, <2>4, <2>5, <2>6, <2>7, <2>8 DEF Next
<1>3. QED
  BY <1>1, <1>2

LEMMA ProcessorKeepsInv ==
  Spec => []ProcessorInv
<1>1. Init => ProcessorInv
  BY ProcessorInvIsInductive
<1>2. ProcessorInv /\ [Next]_vars => ProcessorInv'
  BY ProcessorInvIsInductive
<1>3. QED
  BY <1>1, <1>2, PTL DEF Spec

(* Whatever words the flash holds, in whatever order pins, frames, resets,   *)
(* loads and the debugger come in between: the registers stay bytes, the PC  *)
(* and the return addresses 13 bits, the stack pointer inside the ring.     *)
THEOREM RegistersStayInRange == Spec => []RegistersInRange
<1>1. ProcessorInv => RegistersInRange
  BY DEF ProcessorInv
<1>2. QED
  BY <1>1, ProcessorKeepsInv, PTL

(* The sampler's frame holds every cycle since it was opened, and no pin was *)
(* on for longer than that.                                                 *)
THEOREM SamplerAccounts == Spec => []FrameIsAccounted
<1>1. ProcessorInv => FrameIsAccounted
  BY DEF ProcessorInv
<1>2. QED
  BY <1>1, ProcessorKeepsInv, PTL

LEMMA OnlyStepsTakeTime ==
  ASSUME ProcessorInv, [Next]_vars, ~Step
  PROVE  ~(cycles' > cycles) /\ (ran' = NoInstr \/ UNCHANGED vars)
<1>1. cycles \in Nat
  BY DEF ProcessorInv, ClockTypes
<1>2. ASSUME NEW c, PowerUp(c) PROVE cycles' = 0 /\ ran' = NoInstr
  BY <1>2 DEF PowerUp
<1>3. ASSUME NEW c, Edit(c) PROVE cycles' = cycles /\ ran' = NoInstr
  BY <1>3 DEF Edit
<1>4. ASSUME NEW pin, SetPin(pin) PROVE cycles' = cycles /\ ran' = NoInstr
  BY <1>4 DEF SetPin
<1>5. ASSUME ResetFrame PROVE cycles' = cycles /\ ran' = NoInstr
  BY <1>5 DEF ResetFrame
<1>6. ASSUME Reset PROVE cycles' = 0 /\ ran' = NoInstr
  BY <1>2, <1>6, Zenon DEF Reset
<1>7. ASSUME NEW fw, LoadHex(fw) PROVE cycles' = 0 /\ ran' = NoInstr
  BY <1>2, <1>7, Zenon DEF LoadHex
<1>8. ASSUME NEW e, WriteData(e[1], e[2]) \/ SetW(e[2]) PROVE cycles' = cycles /\ ran' = NoInstr
  BY <1>3, <1>8, Zenon DEF WriteData, SetW
<1>9. ASSUME NEW a, SetPc(a) PROVE cycles' = cycles /\ ran' = NoInstr
  BY <1>3, <1>9, Zenon DEF SetPc
<1>10. ASSUME UNCHANGED vars PROVE cycles' = cycles /\ ran' = ran
  BY <1>10 DEF vars
<1>11. (cycles' = cycles \/ cycles' = 0) /\ (ran' = NoInstr \/ UNCHANGED vars)
  BY <1>4, <1>5, <1>6, <1>7, <1>8, <1>9, <1>10, Zenon DEF Next
<1>12. QED
  BY <1>1, <1>11

(***************************************************************************)
(* Returning from an interrupt.                                             *)
(***************************************************************************)
LEMMA TimerKeepsControl ==
  ASSUME NEW c \in ProcessorStates, NEW i, NEW bank, NEW cyc
  PROVE  /\ RunTimer(c, i, bank, cyc).pc = c.pc
         /\ RunTimer(c, i, bank, cyc).stack = c.stack
<1>1. ASSUME NEW t
      PROVE  WithTimer(c, t).pc = c.pc /\ WithTimer(c, t).stack = c.stack
  BY DEF WithTimer, ProcessorStates
<1>2. QED
  BY <1>1 DEF RunTimer

LEMMA EepromKeepsControl ==
  ASSUME NEW c \in ProcessorStates, NEW i, NEW bank
  PROVE  /\ RunEeprom(c, i, bank).pc = c.pc
         /\ RunEeprom(c, i, bank).stack = c.stack
<1> DEFINE n == WithEeRegs(c.mem, Eecon1Regs(EeRegs(c.mem), c.ee))
           a == Eecon1Array(EeRegs(c.mem), c.ee)
           l == Unlocked(c.ee.unlock, c.mem.cells[EECON2])
<1>1. RunEeprom(c, i, bank) \in
        {[c EXCEPT !.mem = n, !.ee = a], [c EXCEPT !.ee.unlock = l], c}
  BY DEF RunEeprom
<1> HIDE DEF n, a, l
<1> DEFINE e == RunEeprom(c, i, bank)
<1> HIDE DEF e
<1>2. ASSUME e = [c EXCEPT !.mem = n, !.ee = a] PROVE e.pc = c.pc /\ e.stack = c.stack
  BY <1>2 DEF ProcessorStates
<1>3. ASSUME e = [c EXCEPT !.ee.unlock = l] PROVE e.pc = c.pc /\ e.stack = c.stack
  BY <1>3 DEF ProcessorStates
<1>4. QED
  BY <1>1, <1>2, <1>3 DEF e

LEMMA EnablingKeepsControl ==
  ASSUME NEW c \in ProcessorStates, NEW i
  PROVE  /\ EnableAfterReturn(c, i).pc = c.pc
         /\ EnableAfterReturn(c, i).stack = c.stack
BY DEF EnableAfterReturn, ProcessorStates

(* RETFIE takes the PC from the top of the stack, and neither the timer nor  *)
(* the EEPROM that run after it touch the PC or the stack.                  *)
LEMMA ReturnPops ==
  ASSUME NEW c \in ProcessorStates, NEW i, IsInstruction(i), i.m = "RETFIE"
  PROVE  /\ Executed(c, i).state.pc = Top(c.stack)
         /\ Executed(c, i).state.stack = Popped(c.stack)
<1> DEFINE f == Fetched(c)
           bank == Bank(f.mem)
           cyc == Cost(f, i)
           v == Operand(f, i)
           r == ResultOf(f, i)
           s == Store(f, i, r)
           g == SetFlags(f, s, i, v, r)
           j == Jump(g, i, v, r)
           x == EnableAfterReturn(j, i)
           t == RunTimer(x, i, bank, cyc)
           e == RunEeprom(t, i, bank)
<1>1. f \in ProcessorStates
  BY FetchedIsState
<1>2. f.stack = c.stack
  BY DEF Fetched, ProcessorStates
<1>3. Executed(c, i).state = e
  BY DEF Executed, Execute
<1>4. cyc \in {1, 2}
  BY DEF Cost
<1> HIDE DEF f, bank, cyc
<1>5. v \in Byte /\ r \in Byte
  BY <1>1, OperandIsByte
<1> HIDE DEF v, r
<1>6. s = f
  BY DEF Store, WritesFile, WritesW, FileOps, Literals8
<1> HIDE DEF s
<1>7. g \in ProcessorStates
  BY <1>1, <1>5, <1>6, SetFlagsIsState
<1>8. g.stack = f.stack
  <2>1. \A m : [s EXCEPT !.mem = m].stack = s.stack
    BY <1>1, <1>6 DEF ProcessorStates
  <2>2. g.stack = s.stack
    BY <2>1, Zenon DEF SetFlags
  <2>3. QED
    BY <1>6, <2>2
<1> HIDE DEF g
<1>9. j \in ProcessorStates
  BY <1>5, <1>7, JumpIsState
<1>10. j.pc = Top(g.stack) /\ j.stack = Popped(g.stack)
  <2>1. j = [g EXCEPT !.pc = Top(g.stack), !.stack = Popped(g.stack)]
    BY DEF Jump, Skips, Returns
  <2> HIDE DEF j
  <2>2. QED
    BY <1>7, <2>1 DEF ProcessorStates
<1> HIDE DEF j
<1>11. x \in ProcessorStates
  BY <1>9, IntconUpdates DEF EnableAfterReturn
<1>12. x.pc = j.pc /\ x.stack = j.stack
  BY <1>9, EnablingKeepsControl
<1> HIDE DEF x
<1>13. t \in ProcessorStates /\ t.pc = x.pc /\ t.stack = x.stack
  BY <1>4, <1>11, RunTimerIsState, TimerKeepsControl
<1> HIDE DEF t
<1>14. e.pc = t.pc /\ e.stack = t.stack
  BY <1>13, EepromKeepsControl
<1>15. QED
  BY <1>2, <1>3, <1>8, <1>10, <1>12, <1>13, <1>14, Zenon

(* Entering an interrupt puts back what the return took. *)
LEMMA EntryPushesBack ==
  ASSUME NEW s \in Stacks
  PROVE  Push(Popped(s), Top(s)) = s
<1> DEFINE d == Down(s.sp)
<1>1. s.sp \in 0..7 /\ s.ring \in [0..7 -> PcRange] /\ s = [ring |-> s.ring, sp |-> s.sp]
  BY DEF Stacks
<1>2. d \in 0..7 /\ Up(d) = s.sp
  BY <1>1, Sizes DEF Up, Down
<1> HIDE DEF d
<1>3. [s.ring EXCEPT ![d] = s.ring[d]] = s.ring
  BY <1>1, <1>2
<1>4. Popped(s) = [ring |-> s.ring, sp |-> d] /\ Top(s) = s.ring[d]
  BY <1>1 DEF Popped, Top, d
<1>5. QED
  BY <1>1, <1>2, <1>3, <1>4 DEF Push

(* RETFIE goes to the address on top of the stack and drops it; when another *)
(* interrupt is waiting it is entered at once, and that leaves the return    *)
(* stack exactly as it was: interrupts that follow one another at once never *)
(* deepen it.                                                               *)
ReturnsToTop ==
  [][ cycles' > cycles /\ ran'.m = "RETFIE" =>
        \/ cpu'.pc = Top(cpu.stack) /\ cpu'.stack = Popped(cpu.stack)
        \/ cpu'.pc = INT_VECTOR /\ cpu'.stack = cpu.stack ]_vars

(* ReturnsToTop, for every program. *)
THEOREM ReturnsGoToTheTop == Spec => ReturnsToTop
<1> DEFINE Returned == \/ cpu'.pc = Top(cpu.stack) /\ cpu'.stack = Popped(cpu.stack)
                       \/ cpu'.pc = INT_VECTOR /\ cpu'.stack = cpu.stack
<1>1. ASSUME ProcessorInv, [Next]_vars, cycles' > cycles, ran'.m = "RETFIE"
      PROVE  Returned
  <2>1. Step
    BY <1>1, OnlyStepsTakeTime
  <2>2. PICK i, e : /\ e = Executed(cpu, i) /\ IsInstruction(i)
                    /\ e.state \in ProcessorStates /\ Finish(i, e)
    BY <1>1, <2>1, StepTakesTime
  <2>3. cpu \in ProcessorStates /\ cpu.stack \in Stacks
    BY <1>1, StateFields DEF ProcessorInv, RegistersInRange
  <2>4. i.m = "RETFIE" /\ cpu' = ServiceInterrupts(e.state)
    BY <1>1, <2>2 DEF Finish
  <2> DEFINE s == e.state
  <2>5. s.pc = Top(cpu.stack) /\ s.stack = Popped(cpu.stack) /\ s \in ProcessorStates
    BY <2>2, <2>3, <2>4, ReturnPops
  <2>6. Push(s.stack, s.pc) = cpu.stack
    BY <2>3, <2>5, EntryPushesBack
  <2> HIDE DEF s
  <2>7. \A k, a, m :
          /\ [s EXCEPT !.stack = k, !.pc = a, !.mem.cells[INTCON] = m].pc = a
          /\ [s EXCEPT !.stack = k, !.pc = a, !.mem.cells[INTCON] = m].stack = k
    BY <2>5 DEF ProcessorStates
  <2>8. CASE Pending(Intcon(s))
    <3>1. ServiceInterrupts(s).pc = INT_VECTOR /\ ServiceInterrupts(s).stack = cpu.stack
      BY <2>6, <2>7, <2>8 DEF ServiceInterrupts
    <3>2. QED
      BY <2>4, <3>1 DEF s
  <2>9. CASE ~Pending(Intcon(s))
    <3>1. ServiceInterrupts(s) = s
      BY <2>9 DEF ServiceInterrupts
    <3>2. QED
      BY <2>4, <2>5, <3>1 DEF s
  <2>10. QED
    BY <2>8, <2>9
<1>2. QED
  BY <1>1, ProcessorKeepsInv, PTL DEF Spec, ReturnsToTop

(***************************************************************************)
(* The processor and its parts.  The registers of the timer and the EEPROM   *)
(* are seven cells, and a step is followed through the whole of step(): what *)
(* the instruction stores in them, what the timer and the EEPROM make of it, *)
(* and that the fetch, the flags, the jump and the entry of an interrupt     *)
(* leave them alone.                                                        *)
(***************************************************************************)
PartCells == {TMR0, INTCON, OPTION_REG, EEDATA, EEADR, EECON1, EECON2}

LEMMA PartCellsAreCells ==
  /\ PartCells \subseteq Cells /\ PCL \notin PartCells /\ STATUS \notin PartCells
  /\ TMR0 # INTCON /\ TMR0 # OPTION_REG /\ TMR0 # EEDATA /\ TMR0 # EEADR
  /\ TMR0 # EECON1 /\ TMR0 # EECON2
  /\ INTCON # OPTION_REG /\ INTCON # EEDATA /\ INTCON # EEADR
  /\ INTCON # EECON1 /\ INTCON # EECON2
  /\ OPTION_REG # EEDATA /\ OPTION_REG # EEADR /\ OPTION_REG # EECON1
  /\ OPTION_REG # EECON2
  /\ EEDATA # EEADR /\ EEDATA # EECON1 /\ EEDATA # EECON2
  /\ EEADR # EECON1 /\ EEADR # EECON2 /\ EECON1 # EECON2
BY DEF PartCells, Cells, TMR0, INTCON, OPTION_REG, EEDATA, EEADR, EECON1, EECON2,
       PCL, STATUS

(* Neither the timer's nor the EEPROM's own state is another in d than in c. *)
SameInside(c, d) ==
  d.prescaler = c.prescaler /\ d.inhibit = c.inhibit /\ d.ee = c.ee

LEMMA FetchKeepsParts ==
  ASSUME NEW c \in ProcessorStates
  PROVE  /\ SameInside(c, Fetched(c))
         /\ \A p \in PartCells : Fetched(c).mem.cells[p] = c.mem.cells[p]
<1> DEFINE next == (c.pc + 1) % 8192
           low == next % 256
           m == Poke(c.mem, PCL, low)
<1>1. low \in Byte /\ c.mem \in Memories
  BY StateFields, NextIsAddress
<1>2. Fetched(c) = [c EXCEPT !.pc = next, !.mem = m]
  BY DEF Fetched
<1> HIDE DEF next, low
<1>3. \A p \in Cells : p # PCL => m.cells[p] = c.mem.cells[p]
  <2> DEFINE before == c.mem
  <2>1. before \in Memories
    BY <1>1
  <2> HIDE DEF before
  <2>2. \A p \in Cells : p # PCL => Poke(before, PCL, low).cells[p] = before.cells[p]
    BY <1>1, <2>1, NamedCells, PokeIsMemory
  <2>3. QED
    BY <2>2 DEF before
<1> HIDE DEF m
<1>4. /\ Fetched(c).mem = m /\ Fetched(c).prescaler = c.prescaler
      /\ Fetched(c).inhibit = c.inhibit /\ Fetched(c).ee = c.ee
  BY <1>2 DEF ProcessorStates
<1>5. QED
  BY <1>3, <1>4, PartCellsAreCells DEF SameInside

(* Storing the result changes the cell that is written, and no other. *)
LEMMA WriteIsWritten ==
  ASSUME NEW m \in Memories, NEW i, IsInstruction(i), WritesFile(i), NEW r \in Byte
  PROVE  /\ Written(m, i) \in SUBSET Cells
         /\ \A p \in Cells : Write(m, i.f, r).cells[p]
                               = IF p \in Written(m, i) THEN r ELSE m.cells[p]
<1>1. i.f \in 0..127
  BY DEF IsInstruction
<1>2. Phys(i.f, Bank(m)) \in Cells /\ IndirectPhys(m) \in Cells
  BY <1>1, BankIsBank, PhysIsCell, IndirectIsCell
<1>3. CASE i.f = INDF /\ PointsNowhere(m)
  BY <1>3 DEF Written, Write
<1>4. CASE i.f = INDF /\ ~PointsNowhere(m)
  <2>1. Written(m, i) = {IndirectPhys(m)} /\ Write(m, i.f, r) = Poke(m, IndirectPhys(m), r)
    BY <1>4 DEF Written, Write
  <2>2. QED
    BY <1>2, <2>1, PokeIsMemory
<1>5. CASE i.f # INDF
  <2>1. /\ Written(m, i) = {Phys(i.f, Bank(m))}
        /\ Write(m, i.f, r) = Poke(m, Phys(i.f, Bank(m)), r)
    BY <1>5 DEF Written, Write
  <2>2. QED
    BY <1>2, <2>1, PokeIsMemory
<1>6. QED
  BY <1>3, <1>4, <1>5

LEMMA StoreKeepsParts ==
  ASSUME NEW c \in ProcessorStates, NEW i, IsInstruction(i), NEW r \in Byte
  PROVE  /\ SameInside(c, Store(c, i, r))
         /\ \A p \in Cells : Store(c, i, r).mem.cells[p]
                               = IF p \in Written(c.mem, i) THEN r ELSE c.mem.cells[p]
<1> DEFINE m == Write(c.mem, i.f, r)
           pc == IF i.f = PCL THEN ComputedTarget(m) ELSE c.pc
           s == Store(c, i, r)
<1>1. CASE WritesFile(i)
  <2>1. s = [c EXCEPT !.mem = m, !.pc = pc]
    BY <1>1 DEF Store
  <2>2. \A p \in Cells : m.cells[p] = IF p \in Written(c.mem, i) THEN r ELSE c.mem.cells[p]
    BY <1>1, StateFields, WriteIsWritten
  <2> HIDE DEF m, pc, s
  <2>3. s.mem = m /\ s.prescaler = c.prescaler /\ s.inhibit = c.inhibit /\ s.ee = c.ee
    BY <2>1 DEF ProcessorStates
  <2>4. QED
    BY <2>2, <2>3 DEF SameInside, s
<1>2. CASE ~WritesFile(i)
  <2>1. Written(c.mem, i) = {}
    BY <1>2 DEF Written
  <2>2. s = [c EXCEPT !.w = r] \/ s = c
    BY <1>2 DEF Store
  <2> HIDE DEF s
  <2>3. s.mem = c.mem /\ s.prescaler = c.prescaler /\ s.inhibit = c.inhibit /\ s.ee = c.ee
    BY <2>2 DEF ProcessorStates
  <2>4. QED
    BY <2>1, <2>3 DEF SameInside, s
<1>3. QED
  BY <1>1, <1>2

(* The flags are in STATUS. *)
LEMMA FlagKeepsCells ==
  ASSUME NEW m \in Memories, NEW b \in BitNo, NEW x \in {0, 1},
         NEW n, n = SetFlag(m, b, x) \/ n = m
  PROVE  n \in Memories /\ \A p \in Cells \ {STATUS} : n.cells[p] = m.cells[p]
<1>1. m.cells[STATUS] \in Byte
  BY NamedCells DEF Memories
<1>2. WithBit(m.cells[STATUS], b, x) \in Byte
  BY <1>1, WithBitIsByte
<1>3. /\ SetFlag(m, b, x) \in Memories
      /\ \A p \in Cells \ {STATUS} : SetFlag(m, b, x).cells[p] = m.cells[p]
  BY <1>2, NamedCells, PokeIsMemory DEF SetFlag
<1>4. QED
  BY <1>3

LEMMA FlagsKeepCells ==
  ASSUME NEW c0 \in ProcessorStates, NEW c \in ProcessorStates, NEW i,
         NEW v \in Byte, NEW r \in Byte
  PROVE  LET g == SetFlags(c0, c, i, v, r)
         IN  /\ SameInside(c, g) /\ g.pc = c.pc /\ g.stack = c.stack
             /\ \A p \in Cells \ {STATUS} : g.mem.cells[p] = c.mem.cells[p]
<1> DEFINE z == SetIf(i.m \in SetsZ, c.mem, STATUS_Z, AsBit(r = 0))
           y == SetIf(i.m \in Adds \cup Subtracts \cup {"RLF", "RRF"}, z, STATUS_C,
                      CarryOut(i.m, v, c0.w, 0))
           x == SetIf(i.m \in Adds \cup Subtracts, y, STATUS_DC,
                      DigitCarryOut(i.m, v, c0.w, 0))
           t == SetIf(i.m \in {"CLRWDT", "SLEEP"}, x, STATUS_TO, 1)
           m == SetIf(i.m \in {"CLRWDT", "SLEEP"}, t, STATUS_PD, AsBit(i.m = "CLRWDT"))
           Others == Cells \ {STATUS}
           g == SetFlags(c0, c, i, v, r)
<1>1. /\ c.mem \in Memories /\ c0.w \in Byte /\ 0 \in {0, 1} /\ 1 \in {0, 1}
      /\ AsBit(r = 0) \in {0, 1} /\ AsBit(i.m = "CLRWDT") \in {0, 1}
  BY StateFields DEF AsBit
<1>2. CarryOut(i.m, v, c0.w, 0) \in {0, 1} /\ DigitCarryOut(i.m, v, c0.w, 0) \in {0, 1}
  BY <1>1, CarriesAreBits
<1>3. z \in Memories /\ \A p \in Others : z.cells[p] = c.mem.cells[p]
  <2>1. z = SetFlag(c.mem, STATUS_Z, AsBit(r = 0)) \/ z = c.mem
    BY DEF SetIf
  <2> HIDE DEF z
  <2>2. QED
    BY <1>1, <2>1, FlagKeepsCells, NamedBits
<1> HIDE DEF z
<1>4. y \in Memories /\ \A p \in Others : y.cells[p] = z.cells[p]
  <2>1. y = SetFlag(z, STATUS_C, CarryOut(i.m, v, c0.w, 0)) \/ y = z
    BY DEF SetIf
  <2> HIDE DEF y
  <2>2. QED
    BY <1>2, <1>3, <2>1, FlagKeepsCells, NamedBits
<1> HIDE DEF y
<1>5. x \in Memories /\ \A p \in Others : x.cells[p] = y.cells[p]
  <2>1. x = SetFlag(y, STATUS_DC, DigitCarryOut(i.m, v, c0.w, 0)) \/ x = y
    BY DEF SetIf
  <2> HIDE DEF x
  <2>2. QED
    BY <1>2, <1>4, <2>1, FlagKeepsCells, NamedBits
<1> HIDE DEF x
<1>6. t \in Memories /\ \A p \in Others : t.cells[p] = x.cells[p]
  <2>1. t = SetFlag(x, STATUS_TO, 1) \/ t = x
    BY DEF SetIf
  <2> HIDE DEF t
  <2>2. QED
    BY <1>1, <1>5, <2>1, FlagKeepsCells, NamedBits
<1> HIDE DEF t
<1>7. m \in Memories /\ \A p \in Others : m.cells[p] = t.cells[p]
  <2>1. m = SetFlag(t, STATUS_PD, AsBit(i.m = "CLRWDT")) \/ m = t
    BY DEF SetIf
  <2> HIDE DEF m
  <2>2. QED
    BY <1>1, <1>6, <2>1, FlagKeepsCells, NamedBits
<1>8. g = [c EXCEPT !.mem = m]
  BY Zenon DEF SetFlags, z, y, x, t
<1> HIDE DEF m, g, Others
<1>9. /\ g.mem = m /\ g.prescaler = c.prescaler /\ g.inhibit = c.inhibit /\ g.ee = c.ee
      /\ g.pc = c.pc /\ g.stack = c.stack
  BY <1>8 DEF ProcessorStates
<1>10. \A p \in Others : g.mem.cells[p] = c.mem.cells[p]
  BY <1>3, <1>4, <1>5, <1>6, <1>7, <1>9
<1>11. QED
  BY <1>9, <1>10 DEF SameInside, g, Others

LEMMA JumpKeepsParts ==
  ASSUME NEW c \in ProcessorStates, NEW i, NEW v, NEW r
  PROVE  SameInside(c, Jump(c, i, v, r)) /\ Jump(c, i, v, r).mem = c.mem
<1> DEFINE j == Jump(c, i, v, r)
<1>1. j \in {[c EXCEPT !.pc = (c.pc + 1) % 8192],
             [c EXCEPT !.pc = BranchTarget(c.mem, i.k)],
             [c EXCEPT !.stack = Push(c.stack, c.pc), !.pc = BranchTarget(c.mem, i.k)],
             [c EXCEPT !.pc = Top(c.stack), !.stack = Popped(c.stack)],
             c}
  BY DEF Jump
<1> HIDE DEF j
<1>2. ASSUME j = [c EXCEPT !.pc = (c.pc + 1) % 8192]
      PROVE  SameInside(c, j) /\ j.mem = c.mem
  BY <1>2 DEF SameInside, ProcessorStates
<1>3. ASSUME j = [c EXCEPT !.pc = BranchTarget(c.mem, i.k)]
      PROVE  SameInside(c, j) /\ j.mem = c.mem
  BY <1>3 DEF SameInside, ProcessorStates
<1>4. ASSUME j = [c EXCEPT !.stack = Push(c.stack, c.pc), !.pc = BranchTarget(c.mem, i.k)]
      PROVE  SameInside(c, j) /\ j.mem = c.mem
  BY <1>4 DEF SameInside, ProcessorStates
<1>5. ASSUME j = [c EXCEPT !.pc = Top(c.stack), !.stack = Popped(c.stack)]
      PROVE  SameInside(c, j) /\ j.mem = c.mem
  BY <1>5 DEF SameInside, ProcessorStates
<1>6. ASSUME j = c
      PROVE  SameInside(c, j) /\ j.mem = c.mem
  BY <1>6 DEF SameInside
<1>7. SameInside(c, j) /\ j.mem = c.mem
  BY <1>1, <1>2, <1>3, <1>4, <1>5, <1>6
<1>8. QED
  BY <1>7 DEF j

(* Nothing that the timer or the EEPROM sees is another in d than in c. *)
PartsAlike(c, d) ==
  /\ SameInside(c, d)
  /\ \A p \in PartCells \ {INTCON} : d.mem.cells[p] = c.mem.cells[p]
  /\ Bit(Intcon(d), T0IF) = Bit(Intcon(c), T0IF)

LEMMA AlikeToTheParts ==
  ASSUME NEW c, NEW d, PartsAlike(c, d)
  PROVE  /\ TimerOf(d) = TimerOf(c) /\ OptionOf(d) = OptionOf(c)
         /\ EeRegs(d.mem) = EeRegs(c.mem) /\ d.ee = c.ee
<1>1. /\ d.mem.cells[TMR0] = c.mem.cells[TMR0]
      /\ d.mem.cells[OPTION_REG] = c.mem.cells[OPTION_REG]
      /\ d.mem.cells[EEDATA] = c.mem.cells[EEDATA]
      /\ d.mem.cells[EEADR] = c.mem.cells[EEADR]
      /\ d.mem.cells[EECON1] = c.mem.cells[EECON1]
  BY PartCellsAreCells DEF PartsAlike, PartCells
<1>2. QED
  BY <1>1 DEF PartsAlike, SameInside, TimerOf, OptionOf, EeRegs

(* The other bits of INTCON are nothing to T0IF. *)
LEMMA FlagKeepsParts ==
  ASSUME NEW c \in ProcessorStates, NEW bit \in BitNo, bit # T0IF, NEW b \in {0, 1},
         NEW d, SameInside(c, d),
         d.mem.cells = [c.mem.cells EXCEPT ![INTCON] = WithBit(@, bit, b)]
  PROVE  PartsAlike(c, d)
<1>1. c.mem.cells \in [Cells -> Byte] /\ INTCON \in Cells /\ c.mem.cells[INTCON] \in Byte
  BY NamedCells DEF ProcessorStates, Memories
<1> DEFINE new == WithBit(c.mem.cells[INTCON], bit, b)
<1>2. Bit(new, T0IF) = Bit(c.mem.cells[INTCON], T0IF)
  BY <1>1, BitIsPut, NamedBits
<1> HIDE DEF new
<1>3. d.mem.cells[INTCON] = new /\ \A p \in Cells \ {INTCON} : d.mem.cells[p] = c.mem.cells[p]
  BY <1>1 DEF new
<1>4. QED
  BY <1>2, <1>3, PartCellsAreCells DEF PartsAlike, Intcon

LEMMA EnablingKeepsParts ==
  ASSUME NEW c \in ProcessorStates, NEW b \in {0, 1}, NEW d, SameInside(c, d),
         d.mem.cells = [c.mem.cells EXCEPT ![INTCON] = WithBit(@, GIE, b)]
  PROVE  PartsAlike(c, d)
<1>1. GIE # T0IF
  BY DEF T0IF, GIE
<1>2. QED
  BY <1>1, FlagKeepsParts, NamedBits

LEMMA EntryKeepsParts ==
  ASSUME NEW c \in ProcessorStates
  PROVE  PartsAlike(c, ServiceInterrupts(c))
<1> DEFINE s == ServiceInterrupts(c)
           stack == Push(c.stack, c.pc)
           new == WithBit(c.mem.cells[INTCON], GIE, 0)
<1>1. CASE Pending(Intcon(c))
  <2>1. s = [c EXCEPT !.stack = stack, !.pc = INT_VECTOR, !.mem.cells[INTCON] = new]
    BY <1>1 DEF ServiceInterrupts
  <2> HIDE DEF s, stack, new
  <2>2. /\ SameInside(c, s)
        /\ s.mem.cells = [c.mem.cells EXCEPT ![INTCON] = new]
    BY <2>1 DEF SameInside, ProcessorStates, Memories
  <2>3. 0 \in {0, 1}
    OBVIOUS
  <2>4. PartsAlike(c, s)
    BY <2>2, <2>3, EnablingKeepsParts DEF new
  <2>5. QED
    BY <2>4 DEF s
<1>2. CASE ~Pending(Intcon(c))
  BY <1>2 DEF ServiceInterrupts, PartsAlike, SameInside
<1>3. QED
  BY <1>1, <1>2

(* What the instruction makes of the parts' registers, before they run. *)
LEMMA ExecuteKeepsParts ==
  ASSUME NEW c \in ProcessorStates, NEW i, IsInstruction(i)
  PROVE  LET x == Execute(c, i)
             now(p) == IF p \in Written(c.mem, i) THEN ResultOf(c, i) ELSE c.mem.cells[p]
         IN  /\ SameInside(c, x)
             /\ \A p \in PartCells \ {INTCON} : x.mem.cells[p] = now(p)
             /\ Bit(Intcon(x), T0IF) = Bit(now(INTCON), T0IF)
<1> DEFINE v == Operand(c, i)
           r == ResultOf(c, i)
           s == Store(c, i, r)
           g == SetFlags(c, s, i, v, r)
           j == Jump(g, i, v, r)
           x == EnableAfterReturn(j, i)
           now(p) == IF p \in Written(c.mem, i) THEN r ELSE c.mem.cells[p]
<1>1. x = Execute(c, i)
  BY DEF Execute
<1>2. v \in Byte /\ r \in Byte
  BY OperandIsByte
<1> HIDE DEF v, r
<1>3. s \in ProcessorStates /\ SameInside(c, s) /\ \A p \in Cells : s.mem.cells[p] = now(p)
  BY <1>2, StoreIsState, StoreKeepsParts
<1> HIDE DEF s
<1>4. /\ g \in ProcessorStates /\ SameInside(s, g)
      /\ \A p \in PartCells : g.mem.cells[p] = s.mem.cells[p]
  BY <1>2, <1>3, SetFlagsIsState, FlagsKeepCells, PartCellsAreCells
<1> HIDE DEF g
<1>5. j \in ProcessorStates /\ SameInside(g, j) /\ j.mem = g.mem
  BY <1>2, <1>4, JumpIsState, JumpKeepsParts
<1> HIDE DEF j
<1>6. PartsAlike(j, x)
  <2>1. CASE i.m = "RETFIE"
    <3> DEFINE new == WithBit(j.mem.cells[INTCON], GIE, 1)
    <3>1. x = [j EXCEPT !.mem.cells[INTCON] = new]
      BY <2>1 DEF EnableAfterReturn
    <3> HIDE DEF new, x
    <3>2. SameInside(j, x) /\ x.mem.cells = [j.mem.cells EXCEPT ![INTCON] = new]
      BY <1>5, <3>1 DEF SameInside, ProcessorStates, Memories
    <3>3. 1 \in {0, 1}
      OBVIOUS
    <3>4. QED
      BY <1>5, <3>2, <3>3, EnablingKeepsParts DEF new
  <2>2. CASE i.m # "RETFIE"
    BY <2>2 DEF EnableAfterReturn, PartsAlike, SameInside
  <2>3. QED
    BY <2>1, <2>2
<1> HIDE DEF x
<1>7. SameInside(c, x)
  BY <1>3, <1>4, <1>5, <1>6 DEF PartsAlike, SameInside
<1>8. \A p \in PartCells : j.mem.cells[p] = now(p)
  BY <1>3, <1>4, <1>5, PartCellsAreCells
<1> HIDE DEF now
<1>9. /\ \A p \in PartCells \ {INTCON} : x.mem.cells[p] = now(p)
      /\ Bit(Intcon(x), T0IF) = Bit(now(INTCON), T0IF)
  BY <1>6, <1>8 DEF PartsAlike, PartCells, Intcon
<1>10. QED
  BY <1>1, <1>7, <1>9 DEF now, r

(* The timer is what its operation says, and nothing else changes. *)
LEMMA TimerIsPut ==
  ASSUME NEW c \in ProcessorStates, NEW t \in Timers
  PROVE  LET d == WithTimer(c, t)
         IN  /\ TimerOf(d) = t /\ d.ee = c.ee
             /\ \A p \in PartCells \ {TMR0, INTCON} : d.mem.cells[p] = c.mem.cells[p]
<1> DEFINE flags == WithBit(Intcon(c), T0IF, t.t0if)
           m == Poke(c.mem, TMR0, t.tmr0)
           n == Poke(m, INTCON, flags)
           d == WithTimer(c, t)
<1>1. t.tmr0 \in Byte /\ t.t0if \in {0, 1} /\ t.prescaler \in Byte /\ t.inhibit \in 0..2
      /\ t = [tmr0 |-> t.tmr0, t0if |-> t.t0if, prescaler |-> t.prescaler,
              inhibit |-> t.inhibit]
  BY DEF Timers
<1>2. c.mem \in Memories /\ Intcon(c) \in Byte
  BY StateFields, NamedCells DEF Intcon
<1>3. flags \in Byte /\ Bit(flags, T0IF) = t.t0if
  <2> DEFINE old == Intcon(c)  b == t.t0if
  <2>1. old \in Byte /\ b \in {0, 1}
    BY <1>1, <1>2
  <2> HIDE DEF old, b
  <2>2. T0IF \in BitNo
    BY NamedBits
  <2>3. WithBit(old, T0IF, b) \in Byte
    BY <2>1, <2>2, WithBitIsByte
  <2>4. Bit(WithBit(old, T0IF, b), T0IF) = b
    BY <2>1, <2>2, BitIsPut
  <2>5. QED
    BY <2>3, <2>4 DEF old, b
<1>4. d = [c EXCEPT !.prescaler = t.prescaler, !.inhibit = t.inhibit, !.mem = n]
  BY DEF WithTimer
<1> HIDE DEF flags
<1>5. /\ m \in Memories /\ m.cells[TMR0] = t.tmr0
      /\ \A p \in Cells : p # TMR0 => m.cells[p] = c.mem.cells[p]
  <2> DEFINE before == c.mem  v == t.tmr0
  <2>1. before \in Memories /\ v \in Byte
    BY <1>1, <1>2
  <2> HIDE DEF before, v
  <2>2. /\ Poke(before, TMR0, v) \in Memories /\ Poke(before, TMR0, v).cells[TMR0] = v
        /\ \A p \in Cells : p # TMR0 => Poke(before, TMR0, v).cells[p] = before.cells[p]
    BY <2>1, NamedCells, PokeIsMemory
  <2>3. QED
    BY <2>2 DEF before, v
<1> HIDE DEF m
<1>6. /\ n.cells[INTCON] = flags
      /\ \A p \in Cells : p # INTCON => n.cells[p] = m.cells[p]
  BY <1>3, <1>5, NamedCells, PokeIsMemory
<1> HIDE DEF n, d
<1>7. d.mem = n /\ d.prescaler = t.prescaler /\ d.inhibit = t.inhibit /\ d.ee = c.ee
  BY <1>4 DEF ProcessorStates
<1>8. \A p \in PartCells \ {TMR0, INTCON} : d.mem.cells[p] = c.mem.cells[p]
  BY <1>5, <1>6, <1>7, PartCellsAreCells
<1>9. d.mem.cells[TMR0] = t.tmr0 /\ Bit(Intcon(d), T0IF) = t.t0if
  BY <1>3, <1>5, <1>6, <1>7, PartCellsAreCells, NamedCells DEF Intcon
<1>10. TimerOf(d) = t
  BY <1>1, <1>7, <1>9 DEF TimerOf
<1>11. QED
  BY <1>7, <1>8, <1>10 DEF d

(* What the timer makes of the instruction that ran. *)
Driven(c, i, bank, cyc) ==
  IF WritesFile(i) /\ bank = 0 /\ i.f = TMR0 THEN OnTmr0Write(TimerOf(c))
  ELSE Tick(TimerOf(c), OptionOf(c), cyc)

LEMMA TimerIsDriven ==
  ASSUME NEW c \in ProcessorStates, NEW i, NEW bank, NEW cyc \in {1, 2}
  PROVE  LET d == RunTimer(c, i, bank, cyc)
         IN  /\ TimerOf(d) = Driven(c, i, bank, cyc) /\ OptionOf(d) = OptionOf(c)
             /\ d.ee = c.ee /\ EeRegs(d.mem) = EeRegs(c.mem)
             /\ d.mem.cells[EECON2] = c.mem.cells[EECON2]
<1> DEFINE t == Driven(c, i, bank, cyc)
           d == RunTimer(c, i, bank, cyc)
<1>1. t \in Timers
  <2>1. /\ TimerOf(c) \in Timers /\ OptionOf(c).t0cs \in {0, 1} /\ OptionOf(c).ps \in 0..7
    BY TimerOfIsTimer
  <2>2. Tick(TimerOf(c), OptionOf(c), cyc) \in Timers /\ OnTmr0Write(TimerOf(c)) \in Timers
    BY <2>1, TickIsTimer, Tmr0WriteIsTimer
  <2>3. QED
    BY <2>2 DEF Driven
<1>2. d = WithTimer(c, t)
  BY DEF RunTimer, Driven
<1> HIDE DEF t, d
<1>3. /\ TimerOf(d) = t /\ d.ee = c.ee
      /\ \A p \in PartCells \ {TMR0, INTCON} : d.mem.cells[p] = c.mem.cells[p]
  BY <1>1, <1>2, TimerIsPut
<1>4. /\ d.mem.cells[OPTION_REG] = c.mem.cells[OPTION_REG]
      /\ d.mem.cells[EEDATA] = c.mem.cells[EEDATA]
      /\ d.mem.cells[EEADR] = c.mem.cells[EEADR]
      /\ d.mem.cells[EECON1] = c.mem.cells[EECON1]
      /\ d.mem.cells[EECON2] = c.mem.cells[EECON2]
  BY <1>3, PartCellsAreCells DEF PartCells
<1>5. OptionOf(d) = OptionOf(c) /\ EeRegs(d.mem) = EeRegs(c.mem)
  BY <1>4 DEF OptionOf, EeRegs
<1>6. QED
  BY <1>3, <1>4, <1>5 DEF t, d

(* The EEPROM's control leaves in its registers what its operation says. *)
LEMMA EeRegsArePut ==
  ASSUME NEW m \in Memories, NEW r \in EeRegisters,
         r.wren = EeRegs(m).wren, r.adr = EeRegs(m).adr
  PROVE  /\ EeRegs(WithEeRegs(m, r)) = r
         /\ \A p \in Cells \ {EEDATA, EECON1} : WithEeRegs(m, r).cells[p] = m.cells[p]
<1> DEFINE e0 == m.cells[EECON1]
           e1 == WithBit(e0, 0, r.rd)
           e2 == WithBit(e1, 1, r.wr)
           a == Poke(m, EEDATA, r.data)
           b == Poke(a, EECON1, e2)
<1>1. /\ r.rd \in {0, 1} /\ r.wr \in {0, 1} /\ r.wren \in {0, 1} /\ r.data \in Byte
      /\ r = [rd |-> r.rd, wr |-> r.wr, wren |-> r.wren, data |-> r.data, adr |-> r.adr]
  BY DEF EeRegisters
<1>2. e0 \in Byte /\ 0 \in BitNo /\ 1 \in BitNo /\ 2 \in BitNo
  BY NamedCells DEF Memories, BitNo
<1>3. r.wren = Bit(e0, 2) /\ r.adr = m.cells[EEADR]
  BY DEF EeRegs
<1>4. WithEeRegs(m, r) = b
  BY DEF WithEeRegs
<1> HIDE DEF e0
<1>5. e1 \in Byte /\ Bit(e1, 0) = r.rd /\ Bit(e1, 2) = Bit(e0, 2)
  BY <1>1, <1>2, WithBitIsByte, BitIsPut
<1> HIDE DEF e1
<1>6. e2 \in Byte /\ Bit(e2, 0) = r.rd /\ Bit(e2, 1) = r.wr /\ Bit(e2, 2) = r.wren
  <2> DEFINE wr == r.wr
  <2>1. wr \in {0, 1}
    BY <1>1
  <2> HIDE DEF wr
  <2>2. WithBit(e1, 1, wr) \in Byte
    BY <1>2, <1>5, <2>1, WithBitIsByte
  <2>3. \A j \in BitNo : Bit(WithBit(e1, 1, wr), j) = IF j = 1 THEN wr ELSE Bit(e1, j)
    BY <1>2, <1>5, <2>1, BitIsPut
  <2>4. /\ Bit(WithBit(e1, 1, wr), 0) = Bit(e1, 0) /\ Bit(WithBit(e1, 1, wr), 1) = wr
        /\ Bit(WithBit(e1, 1, wr), 2) = Bit(e1, 2)
    BY <1>2, <2>3
  <2>5. QED
    BY <1>3, <1>5, <2>2, <2>4 DEF wr
<1> HIDE DEF e2
<1>7. /\ a \in Memories /\ a.cells[EEDATA] = r.data
      /\ \A p \in Cells : p # EEDATA => a.cells[p] = m.cells[p]
  BY <1>1, NamedCells, PokeIsMemory
<1> HIDE DEF a
<1>8. /\ b.cells[EECON1] = e2
      /\ \A p \in Cells : p # EECON1 => b.cells[p] = a.cells[p]
  BY <1>6, <1>7, NamedCells, PokeIsMemory
<1> HIDE DEF b
<1>9. /\ b.cells[EEDATA] = r.data /\ b.cells[EEADR] = r.adr
      /\ \A p \in Cells \ {EEDATA, EECON1} : b.cells[p] = m.cells[p]
  BY <1>3, <1>7, <1>8, NamedCells, PartCellsAreCells
<1>10. EeRegs(b) = r
  BY <1>1, <1>6, <1>8, <1>9 DEF EeRegs
<1>11. QED
  BY <1>4, <1>9, <1>10

(* What the EEPROM makes of the instruction that ran. *)
LEMMA EepromIsDriven ==
  ASSUME NEW c \in ProcessorStates, NEW i, NEW bank
  PROVE  LET d == RunEeprom(c, i, bank)
         IN  /\ TimerOf(d) = TimerOf(c) /\ OptionOf(d) = OptionOf(c)
             /\ EeRegs(d.mem) = IF WritesFile(i) /\ bank = 1 /\ i.f = EECON1 % 128
                                THEN Eecon1Regs(EeRegs(c.mem), c.ee) ELSE EeRegs(c.mem)
             /\ d.ee = IF WritesFile(i) /\ bank = 1 /\ i.f = EECON1 % 128
                       THEN Eecon1Array(EeRegs(c.mem), c.ee)
                       ELSE IF WritesFile(i) /\ bank = 1 /\ i.f = EECON2 % 128
                       THEN [c.ee EXCEPT !.unlock = Unlocked(@, c.mem.cells[EECON2])]
                       ELSE c.ee
<1> DEFINE d == RunEeprom(c, i, bank)
           r == EeRegs(c.mem)
           s == Eecon1Regs(r, c.ee)
           n == WithEeRegs(c.mem, s)
           ee == Eecon1Array(r, c.ee)
           u == Unlocked(c.ee.unlock, c.mem.cells[EECON2])
           Control == WritesFile(i) /\ bank = 1 /\ i.f = EECON1 % 128
           Key == WritesFile(i) /\ bank = 1 /\ i.f = EECON2 % 128
<1>1. c.mem \in Memories /\ c.ee \in Arrays
  BY StateFields
<1>2. EECON1 % 128 # EECON2 % 128
  BY DEF EECON1, EECON2
<1>3. CASE Control
  <2>1. r \in EeRegisters
    BY <1>1, EeRegsAreRegisters
  <2>2. s \in EeRegisters /\ s.wren = r.wren /\ s.adr = r.adr
    <3>1. s \in EeRegisters
      BY <1>1, <2>1, EecontrolIsTyped
    <3>2. s.wren = r.wren /\ s.adr = r.adr
      <4> HIDE DEF r
      <4>1. QED
        BY <2>1 DEF Eecon1Regs, ServeRead, EeRegisters
    <3>3. QED
      BY <3>1, <3>2
  <2>3. d = [c EXCEPT !.mem = n, !.ee = ee]
    BY <1>2, <1>3 DEF RunEeprom
  <2> HIDE DEF s
  <2>4. /\ EeRegs(n) = s
        /\ \A p \in Cells \ {EEDATA, EECON1} : n.cells[p] = c.mem.cells[p]
    BY <1>1, <2>2, EeRegsArePut
  <2> HIDE DEF d, n, ee
  <2>5. /\ d.mem = n /\ d.ee = ee /\ d.prescaler = c.prescaler /\ d.inhibit = c.inhibit
    BY <2>3 DEF ProcessorStates
  <2>6. /\ n.cells[TMR0] = c.mem.cells[TMR0] /\ n.cells[INTCON] = c.mem.cells[INTCON]
        /\ n.cells[OPTION_REG] = c.mem.cells[OPTION_REG]
    BY <2>4, NamedCells, PartCellsAreCells
  <2>7. TimerOf(d) = TimerOf(c) /\ OptionOf(d) = OptionOf(c)
    BY <2>5, <2>6 DEF TimerOf, OptionOf, Intcon
  <2>8. QED
    BY <1>3, <2>4, <2>5, <2>7 DEF d, s, ee
<1>4. CASE ~Control /\ Key
  <2>1. d = [c EXCEPT !.ee.unlock = u]
    BY <1>2, <1>4 DEF RunEeprom
  <2> HIDE DEF d, u
  <2>2. /\ d.mem = c.mem /\ d.prescaler = c.prescaler /\ d.inhibit = c.inhibit
        /\ d.ee = [c.ee EXCEPT !.unlock = u]
    BY <2>1 DEF ProcessorStates
  <2>3. TimerOf(d) = TimerOf(c) /\ OptionOf(d) = OptionOf(c) /\ EeRegs(d.mem) = EeRegs(c.mem)
    BY <2>2 DEF TimerOf, OptionOf, Intcon
  <2>4. QED
    BY <1>4, <2>2, <2>3 DEF d, u
<1>5. CASE ~Control /\ ~Key
  <2>1. d = c
    BY <1>5 DEF RunEeprom
  <2>2. QED
    BY <1>5, <2>1
<1>6. QED
  BY <1>3, <1>4, <1>5

(* What the processor takes for a write to TMR0, EECON1 or EECON2 is a write *)
(* of that cell that is not through INDF.                                   *)
LEMMA AddressesAreCells ==
  ASSUME NEW m \in Memories, NEW i, IsInstruction(i)
  PROVE  /\ (WritesFile(i) /\ Bank(m) = 0 /\ i.f = TMR0)
              <=> (Written(m, i) = {TMR0} /\ i.f # INDF)
         /\ (WritesFile(i) /\ Bank(m) = 1 /\ i.f = EECON1 % 128)
              <=> (Written(m, i) = {EECON1} /\ i.f # INDF)
         /\ (WritesFile(i) /\ Bank(m) = 1 /\ i.f = EECON2 % 128)
              <=> (Written(m, i) = {EECON2} /\ i.f # INDF)
         /\ Written(m, i) = {} \/ \E q \in Cells : Written(m, i) = {q}
<1> DEFINE bank == Bank(m)
           off == i.f
           Direct(q) == Written(m, i) = {q} /\ off # INDF
<1>1. bank \in 0..3 /\ off \in 0..127 /\ IndirectPhys(m) \in Cells /\ Phys(off, bank) \in Cells
  BY BankIsBank, IndirectIsCell, PhysIsCell DEF IsInstruction
<1>2. ASSUME NEW q
      PROVE  Direct(q) <=> WritesFile(i) /\ off # INDF /\ Phys(off, bank) = q
  BY DEF Written
<1>3. Written(m, i) = {} \/ Written(m, i) = {IndirectPhys(m)} \/ Written(m, i) = {Phys(off, bank)}
  BY DEF Written
<1> HIDE DEF bank, off, Direct
<1>4. /\ (off # INDF /\ Phys(off, bank) = TMR0) <=> (bank = 0 /\ off = TMR0)
      /\ (off # INDF /\ Phys(off, bank) = EECON1) <=> (bank = 1 /\ off = EECON1 % 128)
      /\ (off # INDF /\ Phys(off, bank) = EECON2) <=> (bank = 1 /\ off = EECON2 % 128)
  BY <1>1 DEF Phys, SHARED, PCL, STATUS, FSR, PCLATH, INTCON, INDF, TMR0, EECON1, EECON2
<1>5. /\ Direct(TMR0) <=> WritesFile(i) /\ bank = 0 /\ off = TMR0
      /\ Direct(EECON1) <=> WritesFile(i) /\ bank = 1 /\ off = EECON1 % 128
      /\ Direct(EECON2) <=> WritesFile(i) /\ bank = 1 /\ off = EECON2 % 128
  BY <1>2, <1>4
<1>6. Written(m, i) = {} \/ \E q \in Cells : Written(m, i) = {q}
  BY <1>1, <1>3
<1>7. QED
  BY <1>5, <1>6 DEF Direct, bank, off

(* The registers of the parts after the instruction of f that left x. *)
LEMMA RegistersAreWritten ==
  ASSUME NEW f \in ProcessorStates, NEW i, IsInstruction(i)
  PROVE  LET x == Execute(f, i)
             w == Written(f.mem, i)
             r == ResultOf(f, i)
         IN  /\ SameInside(f, x)
             /\ \A p \in PartCells \ {INTCON} :
                  x.mem.cells[p] = IF w = {p} THEN r ELSE f.mem.cells[p]
             /\ Bit(Intcon(x), T0IF) = Bit(IF w = {INTCON} THEN r ELSE Intcon(f), T0IF)
<1> DEFINE x == Execute(f, i)
           w == Written(f.mem, i)
           r == ResultOf(f, i)
           now(p) == IF p \in w THEN r ELSE f.mem.cells[p]
<1>1. /\ SameInside(f, x)
      /\ \A p \in PartCells \ {INTCON} : x.mem.cells[p] = now(p)
      /\ Bit(Intcon(x), T0IF) = Bit(now(INTCON), T0IF)
  BY ExecuteKeepsParts
<1>2. w = {} \/ \E q \in Cells : w = {q}
  BY StateFields, AddressesAreCells
<1> HIDE DEF x, w, r
<1>3. \A p \in Cells : now(p) = IF w = {p} THEN r ELSE f.mem.cells[p]
  BY <1>2
<1>4. now(INTCON) = IF w = {INTCON} THEN r ELSE Intcon(f)
  BY <1>3, NamedCells DEF Intcon
<1> HIDE DEF now
<1>5. /\ \A p \in PartCells \ {INTCON} :
           x.mem.cells[p] = IF w = {p} THEN r ELSE f.mem.cells[p]
      /\ Bit(Intcon(x), T0IF) = Bit(IF w = {INTCON} THEN r ELSE Intcon(f), T0IF)
  BY <1>1, <1>3, <1>4, PartCellsAreCells
<1>6. QED
  BY <1>1, <1>5 DEF x, w, r

LEMMA TimerIsWritten ==
  ASSUME NEW f \in ProcessorStates, NEW i, IsInstruction(i)
  PROVE  LET x == Execute(f, i)
             w == Written(f.mem, i)
             r == ResultOf(f, i)
         IN  /\ TimerOf(x) = IF w = {TMR0} THEN [TimerOf(f) EXCEPT !.tmr0 = r]
                             ELSE IF w = {INTCON}
                             THEN [TimerOf(f) EXCEPT !.t0if = Bit(r, T0IF)]
                             ELSE TimerOf(f)
             /\ OptionOf(x) = IF w = {OPTION_REG} THEN OptionBits(r) ELSE OptionOf(f)
<1> DEFINE x == Execute(f, i)
           w == Written(f.mem, i)
           r == ResultOf(f, i)
<1>1. /\ SameInside(f, x)
      /\ \A p \in PartCells \ {INTCON} : x.mem.cells[p] = IF w = {p} THEN r ELSE f.mem.cells[p]
      /\ Bit(Intcon(x), T0IF) = Bit(IF w = {INTCON} THEN r ELSE Intcon(f), T0IF)
  BY RegistersAreWritten
<1> HIDE DEF x, w, r
<1>2. /\ x.mem.cells[TMR0] = (IF w = {TMR0} THEN r ELSE f.mem.cells[TMR0])
      /\ x.mem.cells[OPTION_REG] = (IF w = {OPTION_REG} THEN r ELSE f.mem.cells[OPTION_REG])
  BY <1>1, PartCellsAreCells DEF PartCells
<1>3. OptionOf(x) = IF w = {OPTION_REG} THEN OptionBits(r) ELSE OptionOf(f)
  BY <1>2 DEF OptionOf
<1>4. x.prescaler = f.prescaler /\ x.inhibit = f.inhibit
  BY <1>1 DEF SameInside
<1>5. ASSUME w = {TMR0} PROVE TimerOf(x) = [TimerOf(f) EXCEPT !.tmr0 = r]
  <2>1. w # {INTCON}
    BY <1>5, PartCellsAreCells
  <2>2. x.mem.cells[TMR0] = r /\ Bit(Intcon(x), T0IF) = Bit(Intcon(f), T0IF)
    BY <1>1, <1>2, <1>5, <2>1
  <2>3. QED
    BY <1>4, <2>2 DEF TimerOf
<1>6. ASSUME w = {INTCON} PROVE TimerOf(x) = [TimerOf(f) EXCEPT !.t0if = Bit(r, T0IF)]
  <2>1. w # {TMR0}
    BY <1>6, PartCellsAreCells
  <2>2. x.mem.cells[TMR0] = f.mem.cells[TMR0] /\ Bit(Intcon(x), T0IF) = Bit(r, T0IF)
    BY <1>1, <1>2, <1>6, <2>1
  <2>3. QED
    BY <1>4, <2>2 DEF TimerOf
<1>7. ASSUME w # {TMR0}, w # {INTCON} PROVE TimerOf(x) = TimerOf(f)
  BY <1>1, <1>2, <1>4, <1>7 DEF TimerOf
<1>8. w = {TMR0} => w # {INTCON}
  BY PartCellsAreCells
<1>9. QED
  BY <1>3, <1>5, <1>6, <1>7, <1>8, Zenon DEF x, w, r

LEMMA PokeSetsOne ==
  ASSUME NEW m \in Memories, NEW p \in Cells, NEW v \in Byte
  PROVE  /\ Poke(m, p, v).cells[p] = v
         /\ \A q \in Cells : q # p => Poke(m, p, v).cells[q] = m.cells[q]
BY DEF Memories, Poke

(* EECON1 with the given bits. *)
WithControl(regs, rd, wr, wren) == [regs EXCEPT !.rd = rd, !.wr = wr, !.wren = wren]

LEMMA ControlIsSet ==
  ASSUME NEW m, NEW rd, NEW wr, NEW wren
  PROVE  WithControl(EeRegs(m), rd, wr, wren)
           = [rd |-> rd, wr |-> wr, wren |-> wren,
              data |-> m.cells[EEDATA], adr |-> m.cells[EEADR]]
<1> DEFINE regs == EeRegs(m)
           Now(a, b, c) == [rd |-> a, wr |-> b, wren |-> c,
                            data |-> m.cells[EEDATA], adr |-> m.cells[EEADR]]
<1>1. regs = Now(regs.rd, regs.wr, regs.wren)
  BY DEF EeRegs
<1> HIDE DEF regs
<1>2. [regs EXCEPT !.rd = rd] = Now(rd, regs.wr, regs.wren)
  BY <1>1
<1>3. \A s : s = Now(rd, regs.wr, regs.wren) => [s EXCEPT !.wr = wr] = Now(rd, wr, regs.wren)
  OBVIOUS
<1>4. \A s : s = Now(rd, wr, regs.wren) => [s EXCEPT !.wren = wren] = Now(rd, wr, wren)
  OBVIOUS
<1> HIDE DEF Now
<1>5. WithControl(regs, rd, wr, wren) = Now(rd, wr, wren)
  BY <1>2, <1>3, <1>4, Zenon DEF WithControl
<1>6. QED
  BY <1>5 DEF regs, Now

LEMMA EepromIsWritten ==
  ASSUME NEW f \in ProcessorStates, NEW i, IsInstruction(i)
  PROVE  LET x == Execute(f, i)
             w == Written(f.mem, i)
             r == ResultOf(f, i)
         IN  /\ EeRegs(x.mem) = IF w = {EECON1}
                                THEN WithControl(EeRegs(f.mem), Bit(r, 0), Bit(r, 1),
                                                 Bit(r, 2))
                                ELSE IF w = {EEDATA}
                                THEN [EeRegs(f.mem) EXCEPT !.data = r]
                                ELSE IF w = {EEADR}
                                THEN [EeRegs(f.mem) EXCEPT !.adr = r]
                                ELSE EeRegs(f.mem)
             /\ w = {EECON2} => x.mem.cells[EECON2] = r
             /\ x.ee = f.ee
<1> DEFINE x == Execute(f, i)
           w == Written(f.mem, i)
           r == ResultOf(f, i)
<1>1. /\ SameInside(f, x)
      /\ \A p \in PartCells \ {INTCON} : x.mem.cells[p] = IF w = {p} THEN r ELSE f.mem.cells[p]
  BY RegistersAreWritten
<1> HIDE DEF x, w, r
<1>2. /\ x.mem.cells[EECON1] = (IF w = {EECON1} THEN r ELSE f.mem.cells[EECON1])
      /\ x.mem.cells[EECON2] = (IF w = {EECON2} THEN r ELSE f.mem.cells[EECON2])
      /\ x.mem.cells[EEDATA] = (IF w = {EEDATA} THEN r ELSE f.mem.cells[EEDATA])
      /\ x.mem.cells[EEADR] = (IF w = {EEADR} THEN r ELSE f.mem.cells[EEADR])
  BY <1>1, PartCellsAreCells DEF PartCells
<1>3. ASSUME w = {EECON1}
      PROVE  EeRegs(x.mem) = WithControl(EeRegs(f.mem), Bit(r, 0), Bit(r, 1), Bit(r, 2))
  <2>1. w # {EEDATA} /\ w # {EEADR}
    BY <1>3, PartCellsAreCells
  <2>2. /\ x.mem.cells[EECON1] = r /\ x.mem.cells[EEDATA] = f.mem.cells[EEDATA]
        /\ x.mem.cells[EEADR] = f.mem.cells[EEADR]
    BY <1>2, <1>3, <2>1
  <2> DEFINE n == [rd |-> Bit(r, 0), wr |-> Bit(r, 1), wren |-> Bit(r, 2),
                   data |-> f.mem.cells[EEDATA], adr |-> f.mem.cells[EEADR]]
  <2>3. EeRegs(x.mem) = n
    BY <2>2 DEF EeRegs
  <2>4. n = WithControl(EeRegs(f.mem), Bit(r, 0), Bit(r, 1), Bit(r, 2))
    BY ControlIsSet
  <2>5. QED
    BY <2>3, <2>4, Zenon
<1>4. ASSUME w = {EEDATA} PROVE EeRegs(x.mem) = [EeRegs(f.mem) EXCEPT !.data = r]
  <2>1. w # {EECON1} /\ w # {EEADR}
    BY <1>4, PartCellsAreCells
  <2>2. /\ x.mem.cells[EECON1] = f.mem.cells[EECON1] /\ x.mem.cells[EEDATA] = r
        /\ x.mem.cells[EEADR] = f.mem.cells[EEADR]
    BY <1>2, <1>4, <2>1
  <2>3. QED
    BY <2>2 DEF EeRegs
<1>5. ASSUME w = {EEADR} PROVE EeRegs(x.mem) = [EeRegs(f.mem) EXCEPT !.adr = r]
  <2>1. w # {EECON1} /\ w # {EEDATA}
    BY <1>5, PartCellsAreCells
  <2>2. /\ x.mem.cells[EECON1] = f.mem.cells[EECON1]
        /\ x.mem.cells[EEDATA] = f.mem.cells[EEDATA] /\ x.mem.cells[EEADR] = r
    BY <1>2, <1>5, <2>1
  <2>3. QED
    BY <2>2 DEF EeRegs
<1>6. ASSUME w # {EECON1}, w # {EEDATA}, w # {EEADR} PROVE EeRegs(x.mem) = EeRegs(f.mem)
  BY <1>2, <1>6 DEF EeRegs
<1>7. x.ee = f.ee /\ (w = {EECON2} => x.mem.cells[EECON2] = r)
  BY <1>1, <1>2 DEF SameInside
<1>8. QED
  BY <1>3, <1>4, <1>5, <1>6, <1>7, Zenon DEF x, w, r

(* The whole of step(), as far as the timer and the EEPROM go. *)
LEMMA PartsRun ==
  ASSUME NEW c \in ProcessorStates, NEW i, IsInstruction(i)
  PROVE  LET f == Fetched(c)
             x == Execute(f, i)
             w == Written(f.mem, i)
             d == ServiceInterrupts(Executed(c, i).state)
         IN  /\ TimerOf(f) = TimerOf(c) /\ OptionOf(f) = OptionOf(c)
             /\ EeRegs(f.mem) = EeRegs(c.mem) /\ f.ee = c.ee
             /\ OptionOf(d) = OptionOf(x)
             /\ TimerOf(d) = IF w = {TMR0} /\ i.f # INDF THEN OnTmr0Write(TimerOf(x))
                             ELSE Tick(TimerOf(x), OptionOf(x), Cost(f, i))
             /\ EeRegs(d.mem) = IF w = {EECON1} /\ i.f # INDF
                                THEN Eecon1Regs(EeRegs(x.mem), x.ee) ELSE EeRegs(x.mem)
             /\ d.ee = IF w = {EECON1} /\ i.f # INDF THEN Eecon1Array(EeRegs(x.mem), x.ee)
                       ELSE IF w = {EECON2} /\ i.f # INDF
                       THEN [x.ee EXCEPT !.unlock = Unlocked(@, x.mem.cells[EECON2])]
                       ELSE x.ee
<1> DEFINE f == Fetched(c)
           x == Execute(f, i)
           w == Written(f.mem, i)
           bank == Bank(f.mem)
           cyc == Cost(f, i)
           t == RunTimer(x, i, bank, cyc)
           e == RunEeprom(t, i, bank)
           d == ServiceInterrupts(Executed(c, i).state)
           Tmr0Written == WritesFile(i) /\ bank = 0 /\ i.f = TMR0
           Control == WritesFile(i) /\ bank = 1 /\ i.f = EECON1 % 128
           Key == WritesFile(i) /\ bank = 1 /\ i.f = EECON2 % 128
<1>1. d = ServiceInterrupts(e) /\ cyc \in {1, 2}
  BY DEF Executed, Cost
<1>2. f \in ProcessorStates /\ f.mem \in Memories
  BY FetchedIsState, StateFields
<1>3. PartsAlike(c, f)
  <2>1. SameInside(c, f) /\ \A p \in PartCells : f.mem.cells[p] = c.mem.cells[p]
    BY FetchKeepsParts
  <2>2. INTCON \in PartCells
    BY DEF PartCells
  <2> HIDE DEF f
  <2>3. QED
    BY <2>1, <2>2 DEF PartsAlike, Intcon
<1> HIDE DEF f, d
<1>4. /\ TimerOf(f) = TimerOf(c) /\ OptionOf(f) = OptionOf(c)
      /\ EeRegs(f.mem) = EeRegs(c.mem) /\ f.ee = c.ee
  BY <1>3, AlikeToTheParts
<1>5. /\ Tmr0Written <=> (w = {TMR0} /\ i.f # INDF)
      /\ Control <=> (w = {EECON1} /\ i.f # INDF)
      /\ Key <=> (w = {EECON2} /\ i.f # INDF)
  BY <1>2, AddressesAreCells
<1>6. x \in ProcessorStates
  BY <1>2, ExecuteIsState
<1> HIDE DEF x, w, bank, cyc
<1>7. /\ t \in ProcessorStates
      /\ TimerOf(t) = Driven(x, i, bank, cyc) /\ OptionOf(t) = OptionOf(x)
      /\ t.ee = x.ee /\ EeRegs(t.mem) = EeRegs(x.mem)
      /\ t.mem.cells[EECON2] = x.mem.cells[EECON2]
  BY <1>1, <1>6, RunTimerIsState, TimerIsDriven
<1> HIDE DEF t
<1>8. e \in ProcessorStates
  BY <1>7, RunEepromIsState
<1>9. /\ TimerOf(e) = TimerOf(t) /\ OptionOf(e) = OptionOf(t)
      /\ EeRegs(e.mem) = IF Control THEN Eecon1Regs(EeRegs(t.mem), t.ee) ELSE EeRegs(t.mem)
      /\ e.ee = IF Control THEN Eecon1Array(EeRegs(t.mem), t.ee)
                ELSE IF Key THEN [t.ee EXCEPT !.unlock = Unlocked(@, t.mem.cells[EECON2])]
                ELSE t.ee
  BY <1>7, EepromIsDriven
<1> HIDE DEF e
<1>10. /\ TimerOf(d) = TimerOf(e) /\ OptionOf(d) = OptionOf(e)
       /\ EeRegs(d.mem) = EeRegs(e.mem) /\ d.ee = e.ee
  <2>1. PartsAlike(e, d)
    BY <1>1, <1>8, EntryKeepsParts
  <2>2. QED
    BY <2>1, AlikeToTheParts
<1>11. OptionOf(d) = OptionOf(x)
  BY <1>7, <1>9, <1>10
<1>12. TimerOf(d) = IF w = {TMR0} /\ i.f # INDF THEN OnTmr0Write(TimerOf(x))
                    ELSE Tick(TimerOf(x), OptionOf(x), cyc)
  BY <1>5, <1>7, <1>9, <1>10 DEF Driven
<1>13. /\ EeRegs(d.mem) = IF Control THEN Eecon1Regs(EeRegs(x.mem), x.ee) ELSE EeRegs(x.mem)
       /\ d.ee = IF Control THEN Eecon1Array(EeRegs(x.mem), x.ee)
                 ELSE IF Key THEN [x.ee EXCEPT !.unlock = Unlocked(@, x.mem.cells[EECON2])]
                 ELSE x.ee
  BY <1>7, <1>9, <1>10
<1> HIDE DEF Control, Key
<1>14. /\ EeRegs(d.mem) = IF w = {EECON1} /\ i.f # INDF
                          THEN Eecon1Regs(EeRegs(x.mem), x.ee) ELSE EeRegs(x.mem)
       /\ d.ee = IF w = {EECON1} /\ i.f # INDF THEN Eecon1Array(EeRegs(x.mem), x.ee)
                 ELSE IF w = {EECON2} /\ i.f # INDF
                 THEN [x.ee EXCEPT !.unlock = Unlocked(@, x.mem.cells[EECON2])]
                 ELSE x.ee
  BY <1>5, <1>13
<1>15. QED
  BY <1>4, <1>11, <1>12, <1>14 DEF f, x, w, d, cyc

(***************************************************************************)
(* Entering an interrupt.  A step is followed from the fetch to the entry:   *)
(* where it leaves the PC and the stack, what it makes of GIE, and that the  *)
(* timer and the EEPROM, which run in between, touch none of the three.     *)
(***************************************************************************)
SameTargets(m, n) ==
  m.cells[PCL] = n.cells[PCL] /\ m.cells[PCLATH] = n.cells[PCLATH]

LEMMA TargetsAreOfTheLatch ==
  ASSUME NEW m, NEW n, SameTargets(m, n), NEW c, NEW i, NEW a
  PROVE  LeadsTo(c, i, m, a) <=> LeadsTo(c, i, n, a)
<1>1. ComputedTarget(m) = ComputedTarget(n) /\ BranchTarget(m, i.k) = BranchTarget(n, i.k)
  BY DEF SameTargets, ComputedTarget, BranchTarget
<1>2. QED
  BY <1>1 DEF LeadsTo

LEMMA ControlCells ==
  /\ PCL \in Cells \ {STATUS, INTCON, TMR0, EEDATA, EECON1}
  /\ PCLATH \in Cells \ {STATUS, INTCON, TMR0, EEDATA, EECON1}
  /\ INTCON \in Cells \ {STATUS, TMR0, EEDATA, EECON1}
BY DEF Cells, PCL, PCLATH, STATUS, INTCON, TMR0, EEDATA, EECON1

LEMMA StoreJumps ==
  ASSUME NEW c \in ProcessorStates, NEW i, IsInstruction(i), NEW r \in Byte
  PROVE  LET s == Store(c, i, r)
         IN  /\ s.pc = IF JumpsByPcl(i) THEN ComputedTarget(s.mem) ELSE c.pc
             /\ s.stack = c.stack
<1> DEFINE m == Write(c.mem, i.f, r)
           pc == IF i.f = PCL THEN ComputedTarget(m) ELSE c.pc
           s == Store(c, i, r)
<1>1. CASE WritesFile(i)
  <2>1. s = [c EXCEPT !.mem = m, !.pc = pc]
    BY <1>1 DEF Store
  <2> HIDE DEF m, s
  <2>2. pc = IF JumpsByPcl(i) THEN ComputedTarget(m) ELSE c.pc
    BY <1>1 DEF JumpsByPcl
  <2> HIDE DEF pc
  <2>3. s.mem = m /\ s.pc = pc /\ s.stack = c.stack
    BY <2>1 DEF ProcessorStates
  <2>4. QED
    BY <2>2, <2>3 DEF s
<1>2. CASE ~WritesFile(i)
  <2>1. s = [c EXCEPT !.w = r] \/ s = c
    BY <1>2 DEF Store
  <2>2. ~JumpsByPcl(i)
    BY <1>2 DEF JumpsByPcl
  <2> HIDE DEF s
  <2>3. s.pc = c.pc /\ s.stack = c.stack
    BY <2>1 DEF ProcessorStates
  <2>4. QED
    BY <2>2, <2>3 DEF s
<1>3. QED
  BY <1>1, <1>2

(* The kinds of instruction that go on somewhere else exclude each other.   *)
LEMMA WaysOn ==
  ASSUME NEW c, NEW i, NEW m, NEW a
  PROVE  LET on == IF JumpsByPcl(i) THEN ComputedTarget(m) ELSE (c.pc + 1) % 8192
         IN  /\ i.m \in Returns =>
                  /\ LeadsTo(c, i, m, a) <=> a = Top(c.stack)
                  /\ DepthAfter(c, i) = Down(c.stack.sp)
             /\ i.m \in {"GOTO", "CALL"} => (LeadsTo(c, i, m, a) <=> a = BranchTarget(m, i.k))
             /\ i.m = "CALL" => DepthAfter(c, i) = Up(c.stack.sp)
             /\ i.m \notin Returns \cup {"GOTO", "CALL"} =>
                  (LeadsTo(c, i, m, a) <=>
                     IF i.m \in SkipOps THEN a \in {on, (on + 1) % 8192} ELSE a = on)
             /\ i.m \notin Returns \cup {"CALL"} => DepthAfter(c, i) = c.stack.sp
<1> DEFINE on == IF JumpsByPcl(i) THEN ComputedTarget(m) ELSE (c.pc + 1) % 8192
           top == Top(c.stack)
           branch == BranchTarget(m, i.k)
<1> HIDE DEF top, branch
<1>1. LeadsTo(c, i, m, a) <=>
        IF i.m \in Returns THEN a = top
        ELSE IF i.m \in {"GOTO", "CALL"} THEN a = branch
        ELSE IF i.m \in SkipOps THEN a \in {on, (on + 1) % 8192}
        ELSE a = on
  BY DEF LeadsTo, top, branch, Returns, SkipOps
<1>2. DepthAfter(c, i) = IF i.m = "CALL" THEN Up(c.stack.sp)
                         ELSE IF i.m \in Returns THEN Down(c.stack.sp) ELSE c.stack.sp
  BY DEF DepthAfter, Returns
<1>3. "GOTO" \notin Returns /\ "CALL" \notin Returns
  BY DEF Returns
<1>4. QED
  BY <1>1, <1>2, <1>3 DEF top, branch

(* From the address behind the instruction, or the one it wrote to PCL, the  *)
(* jump goes where the instruction leads, at the depth it leads to.         *)
LEMMA JumpLeads ==
  ASSUME NEW c \in ProcessorStates, NEW g \in ProcessorStates, NEW i, IsInstruction(i),
         NEW v, NEW r, g.stack = c.stack,
         g.pc = IF JumpsByPcl(i) THEN ComputedTarget(g.mem) ELSE (c.pc + 1) % 8192
  PROVE  LET j == Jump(g, i, v, r)
         IN  LeadsTo(c, i, j.mem, j.pc) /\ j.stack.sp = DepthAfter(c, i)
<1> DEFINE j == Jump(g, i, v, r)
           on == IF JumpsByPcl(i) THEN ComputedTarget(g.mem) ELSE (c.pc + 1) % 8192
           push == Push(g.stack, g.pc)
           pop == Popped(g.stack)
           top == Top(g.stack)
           branch == BranchTarget(g.mem, i.k)
           next == (g.pc + 1) % 8192
<1>1. g.pc = on /\ j.mem = g.mem
  BY JumpKeepsParts
<1>2. push.sp = Up(c.stack.sp) /\ pop.sp = Down(c.stack.sp)
  <2>1. g.stack \in Stacks
    BY StateFields
  <2> DEFINE t == g.stack
  <2> HIDE DEF t
  <2>2. t \in Stacks => Push(t, g.pc).sp = Up(t.sp) /\ Popped(t).sp = Down(t.sp)
    BY DEF Push, Popped, Stacks
  <2>3. QED
    BY <2>1, <2>2 DEF t
<1>3. /\ Skips(i, v, r) => i.m \in SkipOps
      /\ i.m \in Returns \cup {"GOTO", "CALL"} => i.m \notin SkipOps
  BY DEF Skips, SkipOps, Returns
<1>4. j = IF i.m \in Returns THEN [g EXCEPT !.pc = top, !.stack = pop]
          ELSE IF i.m = "GOTO" THEN [g EXCEPT !.pc = branch]
          ELSE IF i.m = "CALL" THEN [g EXCEPT !.stack = push, !.pc = branch]
          ELSE IF Skips(i, v, r) THEN [g EXCEPT !.pc = next] ELSE g
  <2> DEFINE skips == Skips(i, v, r)
  <2>1. j = CASE skips           -> [g EXCEPT !.pc = next]
              [] i.m = "GOTO"    -> [g EXCEPT !.pc = branch]
              [] i.m = "CALL"    -> [g EXCEPT !.stack = push, !.pc = branch]
              [] i.m \in Returns -> [g EXCEPT !.pc = top, !.stack = pop]
              [] OTHER           -> g
    BY DEF Jump
  <2>2. /\ skips => i.m \notin Returns /\ i.m # "GOTO" /\ i.m # "CALL"
        /\ "GOTO" \notin Returns /\ "CALL" \notin Returns
    BY <1>3 DEF Returns
  <2> HIDE DEF skips, j, next, branch, push, pop, top
  <2>3. QED
    BY <2>1, <2>2 DEF skips
<1>5. LeadsTo(c, i, g.mem, j.pc) /\ j.stack.sp = DepthAfter(c, i)
  <2> HIDE DEF j
  <2>1. CASE i.m \in Returns
    <3> HIDE DEF top, pop
    <3>1. j.pc = top /\ j.stack = pop
      BY <1>4, <2>1 DEF ProcessorStates
    <3>2. QED
      BY <1>2, <2>1, <3>1, WaysOn DEF top
  <2>2. CASE i.m = "GOTO"
    <3> HIDE DEF branch
    <3>1. i.m \notin Returns
      BY <2>2 DEF Returns
    <3>2. j.pc = branch /\ j.stack = g.stack
      BY <1>4, <2>2, <3>1 DEF ProcessorStates
    <3>3. QED
      BY <2>2, <3>1, <3>2, WaysOn DEF branch
  <2>3. CASE i.m = "CALL"
    <3> HIDE DEF branch, push
    <3>1. i.m \notin Returns
      BY <2>3 DEF Returns
    <3>2. j.pc = branch /\ j.stack = push
      BY <1>4, <2>3, <3>1 DEF ProcessorStates
    <3>3. QED
      BY <1>2, <2>3, <3>2, WaysOn DEF branch
  <2>4. CASE i.m \notin Returns \cup {"GOTO", "CALL"}
    <3> HIDE DEF next
    <3>1. j.stack = g.stack /\ j.pc = IF Skips(i, v, r) THEN next ELSE g.pc
      BY <1>4, <2>4 DEF ProcessorStates
    <3>2. /\ i.m \in SkipOps => j.pc \in {on, (on + 1) % 8192}
          /\ i.m \notin SkipOps => j.pc = on
      BY <1>1, <1>3, <3>1 DEF next
    <3>3. LeadsTo(c, i, g.mem, j.pc)
      BY <2>4, <3>2, WaysOn
    <3>4. DepthAfter(c, i) = c.stack.sp
      <4>1. i.m \notin Returns \cup {"CALL"}
        BY <2>4
      <4>2. QED
        BY <4>1, WaysOn
    <3>5. QED
      BY <3>1, <3>3, <3>4
  <2>5. QED
    BY <2>1, <2>2, <2>3, <2>4
<1>6. QED
  BY <1>1, <1>5

(* Executing leads where the instruction leads, and leaves GIE as it was, as *)
(* the instruction wrote it, or set by RETFIE.                              *)
LEMMA ExecuteLeads ==
  ASSUME NEW c \in ProcessorStates, NEW i, IsInstruction(i)
  PROVE  LET x == Execute(Fetched(c), i)
         IN  /\ LeadsTo(c, i, x.mem, x.pc) /\ x.stack.sp = DepthAfter(c, i)
             /\ Bit(Intcon(x), GIE) = 1 <=> EnabledAfter(c, i)
<1> DEFINE f == Fetched(c)
           v == Operand(f, i)
           r == ResultOf(f, i)
           s == Store(f, i, r)
           g == SetFlags(f, s, i, v, r)
           j == Jump(g, i, v, r)
           x == EnableAfterReturn(j, i)
           put == IF INTCON \in Written(f.mem, i) THEN r ELSE Intcon(c)
<1>1. x = Execute(f, i)
  BY DEF Execute
<1>2. /\ f \in ProcessorStates /\ v \in Byte /\ r \in Byte
  BY FetchedIsState, OperandIsByte
<1>3. f.pc = (c.pc + 1) % 8192 /\ f.stack = c.stack
  BY DEF Fetched, ProcessorStates
<1>4. f.mem.cells[INTCON] = Intcon(c)
  <2>1. INTCON \in PartCells
    BY DEF PartCells
  <2>2. QED
    BY <2>1, FetchKeepsParts DEF Intcon
<1>5. EnabledAfter(c, i) <=> i.m = "RETFIE" \/ Bit(put, GIE) = 1
  BY DEF EnabledAfter
<1> HIDE DEF f, v, r
<1>6. /\ s \in ProcessorStates /\ s.stack = c.stack
      /\ s.pc = IF JumpsByPcl(i) THEN ComputedTarget(s.mem) ELSE (c.pc + 1) % 8192
      /\ s.mem.cells[INTCON] = put
  BY <1>2, <1>3, <1>4, StoreIsState, StoreJumps, StoreKeepsParts, NamedCells
<1> HIDE DEF s, put
<1>7. /\ g \in ProcessorStates /\ g.pc = s.pc /\ g.stack = s.stack
      /\ SameTargets(s.mem, g.mem) /\ g.mem.cells[INTCON] = put
  BY <1>2, <1>6, SetFlagsIsState, FlagsKeepCells, ControlCells DEF SameTargets
<1> HIDE DEF g
<1>8. /\ g.stack = c.stack
      /\ g.pc = IF JumpsByPcl(i) THEN ComputedTarget(g.mem) ELSE (c.pc + 1) % 8192
  BY <1>6, <1>7 DEF SameTargets, ComputedTarget
<1>9. /\ j \in ProcessorStates /\ j.mem = g.mem
      /\ LeadsTo(c, i, j.mem, j.pc) /\ j.stack.sp = DepthAfter(c, i)
  BY <1>2, <1>7, <1>8, JumpIsState, JumpKeepsParts, JumpLeads
<1> HIDE DEF j
<1>10. x.pc = j.pc /\ x.stack = j.stack
  BY <1>9, EnablingKeepsControl
<1>11. /\ SameTargets(j.mem, x.mem)
       /\ Bit(Intcon(x), GIE) = 1 <=> i.m = "RETFIE" \/ Bit(put, GIE) = 1
  <2> DEFINE new == WithBit(j.mem.cells[INTCON], GIE, 1)
  <2>1. CASE i.m = "RETFIE"
    <3>1. x = [j EXCEPT !.mem.cells[INTCON] = new]
      BY <2>1 DEF EnableAfterReturn
    <3>2. Bit(new, GIE) = 1
      <4>1. j.mem.cells[INTCON] \in Byte /\ 1 \in {0, 1}
        BY <1>9, StateFields, NamedCells
      <4>2. QED
        BY <4>1, TopBitIsPut DEF GIE
    <3> HIDE DEF new, x
    <3>3. x.mem.cells[INTCON] = new /\ SameTargets(j.mem, x.mem)
      BY <1>9, <3>1, ControlCells DEF SameTargets, ProcessorStates, Memories
    <3>4. QED
      BY <2>1, <3>2, <3>3 DEF Intcon
  <2>2. CASE i.m # "RETFIE"
    <3>1. x = j
      BY <2>2 DEF EnableAfterReturn
    <3>2. QED
      BY <1>7, <1>9, <2>2, <3>1 DEF Intcon, SameTargets
  <2>3. QED
    BY <2>1, <2>2
<1> HIDE DEF x
<1>12. LeadsTo(c, i, x.mem, x.pc)
  BY <1>9, <1>10, <1>11, TargetsAreOfTheLatch
<1>13. QED
  BY <1>1, <1>5, <1>9, <1>10, <1>11, <1>12 DEF f

(* The timer and the EEPROM write registers of their own and T0IF.          *)
LEMMA TimerKeepsCells ==
  ASSUME NEW c \in ProcessorStates, NEW i, NEW bank, NEW cyc \in {1, 2}
  PROVE  LET d == RunTimer(c, i, bank, cyc)
         IN  SameTargets(c.mem, d.mem) /\ Bit(Intcon(d), GIE) = Bit(Intcon(c), GIE)
<1> DEFINE t == Driven(c, i, bank, cyc)
           flags == WithBit(Intcon(c), T0IF, t.t0if)
           m == Poke(c.mem, TMR0, t.tmr0)
           n == Poke(m, INTCON, flags)
           d == RunTimer(c, i, bank, cyc)
<1>1. t \in Timers
  <2>1. /\ TimerOf(c) \in Timers /\ OptionOf(c).t0cs \in {0, 1} /\ OptionOf(c).ps \in 0..7
    BY TimerOfIsTimer
  <2>2. Tick(TimerOf(c), OptionOf(c), cyc) \in Timers /\ OnTmr0Write(TimerOf(c)) \in Timers
    BY <2>1, TickIsTimer, Tmr0WriteIsTimer
  <2>3. QED
    BY <2>2 DEF Driven
<1>2. d = WithTimer(c, t)
  BY DEF RunTimer, Driven
<1> HIDE DEF t
<1>3. t.tmr0 \in Byte /\ t.t0if \in {0, 1} /\ c.mem \in Memories /\ Intcon(c) \in Byte
  BY <1>1, StateFields, NamedCells DEF Timers, Intcon
<1>4. flags \in Byte /\ Bit(flags, GIE) = Bit(Intcon(c), GIE)
  <2> DEFINE old == Intcon(c)  b == t.t0if
  <2>1. old \in Byte /\ b \in {0, 1} /\ T0IF \in BitNo /\ GIE \in BitNo /\ T0IF # GIE
    BY <1>3, NamedBits DEF T0IF, GIE
  <2> HIDE DEF old, b
  <2>2. WithBit(old, T0IF, b) \in Byte /\ Bit(WithBit(old, T0IF, b), GIE) = Bit(old, GIE)
    BY <2>1, WithBitIsByte, BitIsPut
  <2>3. QED
    BY <2>2 DEF old, b
<1>5. d = [c EXCEPT !.prescaler = t.prescaler, !.inhibit = t.inhibit, !.mem = n]
  BY <1>2 DEF WithTimer
<1> HIDE DEF d, flags
<1>6. m \in Memories /\ \A p \in Cells : p # TMR0 => m.cells[p] = c.mem.cells[p]
  <2> DEFINE before == c.mem  v == t.tmr0
  <2>1. before \in Memories /\ v \in Byte
    BY <1>3
  <2> HIDE DEF before, v
  <2>2. /\ Poke(before, TMR0, v) \in Memories
        /\ \A p \in Cells : p # TMR0 => Poke(before, TMR0, v).cells[p] = before.cells[p]
    BY <2>1, NamedCells, PokeIsMemory
  <2>3. QED
    BY <2>2 DEF before, v
<1> HIDE DEF m
<1>7. n.cells[INTCON] = flags /\ \A p \in Cells : p # INTCON => n.cells[p] = m.cells[p]
  BY <1>4, <1>6, NamedCells, PokeIsMemory
<1> HIDE DEF n
<1>8. d.mem = n
  BY <1>5 DEF ProcessorStates
<1>9. QED
  BY <1>4, <1>6, <1>7, <1>8, ControlCells DEF SameTargets, Intcon, d

LEMMA EepromKeepsCells ==
  ASSUME NEW c \in ProcessorStates, NEW i, NEW bank
  PROVE  LET d == RunEeprom(c, i, bank)
         IN  SameTargets(c.mem, d.mem) /\ Intcon(d) = Intcon(c)
<1> DEFINE r == EeRegs(c.mem)
           s == Eecon1Regs(r, c.ee)
           n == WithEeRegs(c.mem, s)
           ee == Eecon1Array(r, c.ee)
           u == Unlocked(c.ee.unlock, c.mem.cells[EECON2])
           d == RunEeprom(c, i, bank)
<1>1. c.mem \in Memories /\ c.ee \in Arrays
  BY StateFields
<1>2. r \in EeRegisters
  BY <1>1, EeRegsAreRegisters
<1>3. s \in EeRegisters /\ s.wren = r.wren /\ s.adr = r.adr
  <2>1. s \in EeRegisters
    BY <1>1, <1>2, EecontrolIsTyped
  <2>2. s.wren = r.wren /\ s.adr = r.adr
    <3> HIDE DEF r
    <3>1. QED
      BY <1>2 DEF Eecon1Regs, ServeRead, EeRegisters
  <2>3. QED
    BY <2>1, <2>2
<1>4. d \in {[c EXCEPT !.mem = n, !.ee = ee], [c EXCEPT !.ee.unlock = u], c}
  BY DEF RunEeprom
<1> HIDE DEF s
<1>5. \A p \in Cells \ {EEDATA, EECON1} : n.cells[p] = c.mem.cells[p]
  BY <1>1, <1>3, EeRegsArePut
<1> HIDE DEF d, n, ee, u
<1>6. d.mem = n \/ d.mem = c.mem
  BY <1>4 DEF ProcessorStates
<1>7. \A p \in Cells \ {EEDATA, EECON1} : d.mem.cells[p] = c.mem.cells[p]
  BY <1>5, <1>6
<1>8. QED
  BY <1>7, ControlCells DEF SameTargets, Intcon, d

(* When interrupts are looked at, the program is where the instruction leads *)
(* and GIE is what it made of it.                                           *)
LEMMA ExecutedLeads ==
  ASSUME NEW c \in ProcessorStates, NEW i, IsInstruction(i)
  PROVE  LET e == Executed(c, i).state
         IN  /\ e \in ProcessorStates
             /\ LeadsTo(c, i, e.mem, e.pc) /\ e.stack.sp = DepthAfter(c, i)
             /\ Bit(Intcon(e), GIE) = 1 <=> EnabledAfter(c, i)
<1> DEFINE f == Fetched(c)
           bank == Bank(f.mem)
           cyc == Cost(f, i)
           x == Execute(f, i)
           t == RunTimer(x, i, bank, cyc)
           e == RunEeprom(t, i, bank)
<1>1. Executed(c, i).state = e /\ cyc \in {1, 2} /\ f \in ProcessorStates
  BY FetchedIsState DEF Executed, Cost
<1>2. /\ LeadsTo(c, i, x.mem, x.pc) /\ x.stack.sp = DepthAfter(c, i)
      /\ Bit(Intcon(x), GIE) = 1 <=> EnabledAfter(c, i)
  BY ExecuteLeads
<1> HIDE DEF f, bank, cyc
<1>3. x \in ProcessorStates
  BY <1>1, ExecuteIsState
<1> HIDE DEF x
<1>4. /\ t \in ProcessorStates /\ t.pc = x.pc /\ t.stack = x.stack
      /\ SameTargets(x.mem, t.mem) /\ Bit(Intcon(t), GIE) = Bit(Intcon(x), GIE)
  BY <1>1, <1>3, RunTimerIsState, TimerKeepsControl, TimerKeepsCells
<1> HIDE DEF t
<1>5. /\ e \in ProcessorStates /\ e.pc = t.pc /\ e.stack = t.stack
      /\ SameTargets(t.mem, e.mem) /\ Intcon(e) = Intcon(t)
  BY <1>4, RunEepromIsState, EepromKeepsControl, EepromKeepsCells
<1> HIDE DEF e
<1>6. SameTargets(x.mem, e.mem)
  BY <1>4, <1>5 DEF SameTargets
<1>7. LeadsTo(c, i, e.mem, e.pc)
  BY <1>2, <1>4, <1>5, <1>6, TargetsAreOfTheLatch
<1>8. QED
  BY <1>1, <1>2, <1>4, <1>5, <1>7

(* The entry pushes the address at which the program would go on, and turns  *)
(* interrupts off; without a request it is nothing.                         *)
LEMMA EntryEnters ==
  ASSUME NEW c \in ProcessorStates
  PROVE  LET d == ServiceInterrupts(c)
             taken == Bit(Intcon(c), GIE) = 1 /\ Requested(Intcon(d))
         IN  /\ SameTargets(c.mem, d.mem)
             /\ IF taken
                THEN /\ d.pc = INT_VECTOR /\ Bit(Intcon(d), GIE) = 0
                     /\ Top(d.stack) = c.pc /\ d.stack.sp = Up(c.stack.sp)
                     /\ EntryCost(c) = 2
                ELSE d = c /\ EntryCost(c) = 0
<1> DEFINE d == ServiceInterrupts(c)
           old == c.mem.cells[INTCON]
           new == WithBit(old, GIE, 0)
           push == Push(c.stack, c.pc)
<1>1. Pending(old) <=> Bit(old, GIE) = 1 /\ Requested(old)
  BY DEF Pending, Requested, IntSources
<1>2. old \in Byte /\ 0 \in {0, 1}
  BY StateFields, NamedCells
<1>3. CASE Pending(old)
  <2>1. d = [c EXCEPT !.stack = push, !.pc = INT_VECTOR, !.mem.cells[INTCON] = new]
    BY <1>3 DEF ServiceInterrupts, Intcon
  <2>2. Bit(new, GIE) = 0 /\ \A b \in BitNo : b # GIE => Bit(new, b) = Bit(old, b)
    <3> HIDE DEF old
    <3>1. QED
      BY <1>2, BitIsPut, NamedBits
  <2>3. Top(push) = c.pc /\ push.sp = Up(c.stack.sp)
    <3>1. c.stack.sp \in 0..7 /\ c.stack.ring \in [0..7 -> PcRange] /\ c.pc \in PcRange
      BY StateFields DEF Stacks
    <3> DEFINE sp == c.stack.sp  ring == c.stack.ring
    <3>2. push = [ring |-> [ring EXCEPT ![sp] = c.pc], sp |-> Up(sp)]
      BY DEF Push
    <3> HIDE DEF sp, ring, push
    <3>3. Down(Up(sp)) = sp
      BY <3>1, Sizes DEF Up, Down, sp
    <3>4. QED
      BY <3>1, <3>2, <3>3 DEF Top, sp, ring
  <2> HIDE DEF d, new, push
  <2>4. /\ d.stack = push /\ d.pc = INT_VECTOR /\ d.mem.cells[INTCON] = new
        /\ SameTargets(c.mem, d.mem)
    BY <2>1, ControlCells DEF ProcessorStates, Memories, SameTargets
  <2>5. Requested(new) <=> Requested(old)
    <3>1. \A b \in {T0IE, T0IF, INTE, INTF, RBIE, RBIF} : Bit(new, b) = Bit(old, b)
      BY <2>2, NamedBits DEF T0IE, T0IF, INTE, INTF, RBIE, RBIF, GIE
    <3>2. QED
      BY <3>1 DEF Requested, IntSources
  <2>6. EntryCost(c) = 2
    BY <1>3 DEF EntryCost, Intcon, INTERRUPT_ENTRY_CYCLES
  <2>7. QED
    BY <1>1, <1>3, <2>2, <2>3, <2>4, <2>5, <2>6 DEF Intcon, d
<1>4. CASE ~Pending(old)
  <2>1. d = c /\ EntryCost(c) = 0
    BY <1>4 DEF ServiceInterrupts, EntryCost, Intcon
  <2>2. QED
    BY <1>1, <1>4, <2>1 DEF Intcon, SameTargets
<1>5. QED
  BY <1>3, <1>4

(* For every program, and whatever the pins and the debugger do: an interrupt *)
(* that is enabled and requested when an instruction ends is entered at once, *)
(* with the address at which the program goes on above what is on the stack, *)
(* and nothing else ever enters the vector or turns interrupts off.         *)
THEOREM InterruptsAreTaken == Spec => InterruptsAreEntered
<1> DEFINE Entered ==
             LET i      == ran'
                 intcon == cpu'.mem.cells[INTCON]
             IN IF EnabledAfter(cpu, i) /\ Requested(intcon)
                THEN /\ cpu'.pc = INT_VECTOR /\ Bit(intcon, GIE) = 0
                     /\ LeadsTo(cpu, i, cpu'.mem, Top(cpu'.stack))
                     /\ cpu'.stack.sp = Up(DepthAfter(cpu, i))
                     /\ cycles' - cycles \in 3..4
                ELSE /\ LeadsTo(cpu, i, cpu'.mem, cpu'.pc)
                     /\ cpu'.stack.sp = DepthAfter(cpu, i)
                     /\ Bit(intcon, GIE) = 1 <=> EnabledAfter(cpu, i)
                     /\ cycles' - cycles \in 1..2
<1>1. ASSUME ProcessorInv, [Next]_vars, cycles' > cycles
      PROVE  Entered
  <2>1. Step
    BY <1>1, OnlyStepsTakeTime
  <2>2. PICK i, e : /\ e = Executed(cpu, i) /\ IsInstruction(i)
                    /\ e.state \in ProcessorStates /\ Finish(i, e)
    BY <1>1, <2>1, StepTakesTime
  <2> DEFINE s == e.state
             d == ServiceInterrupts(s)
  <2>3. cpu \in ProcessorStates /\ cycles \in Nat
    BY <1>1 DEF ProcessorInv, RegistersInRange, ClockTypes
  <2>4. /\ LeadsTo(cpu, i, s.mem, s.pc) /\ s.stack.sp = DepthAfter(cpu, i)
        /\ Bit(Intcon(s), GIE) = 1 <=> EnabledAfter(cpu, i)
    BY <2>2, <2>3, ExecutedLeads
  <2>5. /\ ran' = i /\ cpu' = d /\ cycles' = cycles + (e.spent + EntryCost(s))
    BY <2>2 DEF Finish
  <2>6. e.spent \in {1, 2}
    BY <2>2, <2>3, ExecutedIsState
  <2> DEFINE cost == EntryCost(s)
             spent == e.spent
  <2>7. /\ SameTargets(s.mem, d.mem)
        /\ IF EnabledAfter(cpu, i) /\ Requested(Intcon(d))
           THEN /\ d.pc = INT_VECTOR /\ Bit(Intcon(d), GIE) = 0
                /\ Top(d.stack) = s.pc /\ d.stack.sp = Up(s.stack.sp)
                /\ cost = 2
           ELSE d = s /\ cost = 0
    BY <2>2, <2>4, EntryEnters
  <2> HIDE DEF s, d, cost, spent
  <2>8. cycles' - cycles = spent + cost
    BY <2>3, <2>5, <2>6, <2>7 DEF cost, spent
  <2>9. spent + cost \in IF EnabledAfter(cpu, i) /\ Requested(Intcon(d)) THEN 3..4 ELSE 1..2
    BY <2>6, <2>7 DEF spent
  <2>10. LeadsTo(cpu, i, d.mem, s.pc)
    BY <2>4, <2>7, TargetsAreOfTheLatch
  <2>11. Intcon(d) = cpu'.mem.cells[INTCON]
    BY <2>5 DEF Intcon
  <2>12. CASE EnabledAfter(cpu, i) /\ Requested(Intcon(d))
    BY <2>4, <2>5, <2>7, <2>8, <2>9, <2>10, <2>11, <2>12
  <2>13. CASE ~(EnabledAfter(cpu, i) /\ Requested(Intcon(d)))
    BY <2>4, <2>5, <2>7, <2>8, <2>9, <2>10, <2>11, <2>13
  <2>14. QED
    BY <2>12, <2>13
<1>2. QED
  BY <1>1, ProcessorKeepsInv, PTL DEF Spec, InterruptsAreEntered

(* The operators of the instances are the processor's own. *)
LEMMA TheTimersOperators ==
  ASSUME NEW event, NEW spent, NEW t, NEW o, NEW cyc
  PROVE  /\ TheTimer(event, spent)!Tick(t, o, cyc) = Tick(t, o, cyc)
         /\ TheTimer(event, spent)!OnTmr0Write(t) = OnTmr0Write(t)
BY DEF TheTimer!Tick, TheTimer!Inhibited, TheTimer!Divisor, TheTimer!OnTmr0Write,
       Tick, Inhibited, Divisor, OnTmr0Write

LEMMA TheEepromsOperators ==
  ASSUME NEW keys, NEW regs, NEW ee, NEW u, NEW v
  PROVE  /\ TheEeprom(keys)!Eecon1Regs(regs, ee) = Eecon1Regs(regs, ee)
         /\ TheEeprom(keys)!Eecon1Array(regs, ee) = Eecon1Array(regs, ee)
         /\ TheEeprom(keys)!Unlocked(u, v) = Unlocked(u, v)
BY DEF TheEeprom!Eecon1Regs, TheEeprom!Eecon1Array, TheEeprom!ServeRead, TheEeprom!Burn,
       TheEeprom!Commits, TheEeprom!Unlocked, TheEeprom!KEY1, TheEeprom!KEY2,
       Eecon1Regs, Eecon1Array, ServeRead, Burn, Commits, Unlocked, KEY1, KEY2

LEMMA TimerSeesInstruction ==
  ASSUME cpu \in ProcessorStates, NEW i, IsInstruction(i), NEW c, NEW r,
         c = Cost(Fetched(cpu), i), r = ResultOf(Fetched(cpu), i),
         NEW w, w = Written(Fetched(cpu).mem, i),
         cpu' = ServiceInterrupts(Executed(cpu, i).state)
  PROVE  TimerSees(i, c, w, r)
<1> DEFINE f == Fetched(cpu)
           x == Execute(f, i)
           timer == TimerOf(cpu)
           timer1 == TimerOf(cpu')
           option == OptionOf(cpu)
           option1 == OptionOf(cpu')
<1>1. f \in ProcessorStates
  BY FetchedIsState
<1>2. /\ TimerOf(f) = timer /\ OptionOf(f) = option
      /\ option1 = OptionOf(x)
      /\ timer1 = IF w = {TMR0} /\ i.f # INDF THEN OnTmr0Write(TimerOf(x))
                  ELSE Tick(TimerOf(x), OptionOf(x), c)
  <2> DEFINE d == ServiceInterrupts(Executed(cpu, i).state)
  <2>1. /\ TimerOf(f) = TimerOf(cpu) /\ OptionOf(f) = OptionOf(cpu)
        /\ OptionOf(d) = OptionOf(x)
        /\ TimerOf(d) = IF w = {TMR0} /\ i.f # INDF THEN OnTmr0Write(TimerOf(x))
                        ELSE Tick(TimerOf(x), OptionOf(x), Cost(f, i))
    BY PartsRun
  <2>2. cpu' = d
    OBVIOUS
  <2> HIDE DEF f, x, d
  <2>3. QED
    BY <2>1, <2>2 DEF f
<1>3. /\ TimerOf(x) = IF w = {TMR0} THEN [TimerOf(f) EXCEPT !.tmr0 = r]
                      ELSE IF w = {INTCON} THEN [TimerOf(f) EXCEPT !.t0if = Bit(r, T0IF)]
                      ELSE TimerOf(f)
      /\ OptionOf(x) = IF w = {OPTION_REG} THEN OptionBits(r) ELSE OptionOf(f)
  BY <1>1, TimerIsWritten
<1>4. ASSUME option1 = option, timer1 = Tick([timer EXCEPT !.tmr0 = r], option1, c)
      PROVE  TheTimer("poke", c)!WriteTmr0Indirect(r, c)
  BY <1>4, TheTimersOperators DEF TheTimer!WriteTmr0Indirect, TheTimer!TickAfter
<1>5. ASSUME option1 = option, timer1 = OnTmr0Write([timer EXCEPT !.tmr0 = r])
      PROVE  TheTimer("load", c)!WriteTmr0(r, c)
  BY <1>5, TheTimersOperators DEF TheTimer!WriteTmr0
<1>6. ASSUME option1 = OptionBits(r), timer1 = Tick(timer, option1, c)
      PROVE  TheTimer("rate", c)!WriteOption(OptionBits(r), c)
  BY <1>6, TheTimersOperators DEF TheTimer!WriteOption, TheTimer!TickAfter
<1>7. ASSUME option1 = option, timer1 = Tick([timer EXCEPT !.t0if = Bit(r, T0IF)], option1, c)
      PROVE  TheTimer("ack", c)!WriteT0if(Bit(r, T0IF), c)
  BY <1>7, TheTimersOperators DEF TheTimer!WriteT0if, TheTimer!TickAfter
<1>8. ASSUME option1 = option, timer1 = Tick(timer, option1, c)
      PROVE  TheTimer("pass", c)!Instr(c)
  BY <1>8, TheTimersOperators DEF TheTimer!Instr, TheTimer!TickAfter
<1> HIDE DEF f, x, timer, timer1, option, option1
<1>9. {TMR0} # {OPTION_REG} /\ {TMR0} # {INTCON} /\ {OPTION_REG} # {INTCON}
  BY PartCellsAreCells
<1>10. CASE w = {TMR0} /\ i.f = INDF
  <2>1. TheTimer("poke", c)!WriteTmr0Indirect(r, c)
    BY <1>2, <1>3, <1>4, <1>9, <1>10
  <2>2. QED
    BY <1>10, <2>1 DEF TimerSees
<1>11. CASE w = {TMR0} /\ i.f # INDF
  <2>1. TheTimer("load", c)!WriteTmr0(r, c)
    BY <1>2, <1>3, <1>5, <1>9, <1>11
  <2>2. QED
    BY <1>11, <2>1 DEF TimerSees
<1>12. CASE w = {OPTION_REG}
  <2>1. TheTimer("rate", c)!WriteOption(OptionBits(r), c)
    BY <1>2, <1>3, <1>6, <1>9, <1>12
  <2>2. QED
    BY <1>9, <1>12, <2>1 DEF TimerSees
<1>13. CASE w = {INTCON}
  <2>1. TheTimer("ack", c)!WriteT0if(Bit(r, T0IF), c)
    BY <1>2, <1>3, <1>7, <1>9, <1>13
  <2>2. QED
    BY <1>9, <1>13, <2>1 DEF TimerSees
<1>14. CASE w # {TMR0} /\ w # {OPTION_REG} /\ w # {INTCON}
  <2>1. TheTimer("pass", c)!Instr(c)
    BY <1>2, <1>3, <1>8, <1>14
  <2>2. QED
    BY <1>14, <2>1 DEF TimerSees
<1>15. QED
  BY <1>10, <1>11, <1>12, <1>13, <1>14

LEMMA EepromSeesInstruction ==
  ASSUME cpu \in ProcessorStates, NEW i, IsInstruction(i), NEW r,
         r = ResultOf(Fetched(cpu), i), NEW w, w = Written(Fetched(cpu).mem, i),
         cpu' = ServiceInterrupts(Executed(cpu, i).state)
  PROVE  EepromSees(i, w, r)
<1> DEFINE f == Fetched(cpu)
           x == Execute(f, i)
           regs == EeRegs(cpu.mem)
           regs1 == EeRegs((cpu').mem)
           ee == cpu.ee
           ee1 == (cpu').ee
           Control == WithControl(regs, Bit(r, 0), Bit(r, 1), Bit(r, 2))
<1>1. f \in ProcessorStates
  BY FetchedIsState
<1>2. /\ EeRegs(f.mem) = regs /\ f.ee = ee
      /\ regs1 = IF w = {EECON1} /\ i.f # INDF
                 THEN Eecon1Regs(EeRegs(x.mem), x.ee) ELSE EeRegs(x.mem)
      /\ ee1 = IF w = {EECON1} /\ i.f # INDF THEN Eecon1Array(EeRegs(x.mem), x.ee)
               ELSE IF w = {EECON2} /\ i.f # INDF
               THEN [x.ee EXCEPT !.unlock = Unlocked(@, x.mem.cells[EECON2])]
               ELSE x.ee
  <2> DEFINE d == ServiceInterrupts(Executed(cpu, i).state)
  <2>1. /\ EeRegs(f.mem) = EeRegs(cpu.mem) /\ f.ee = cpu.ee
        /\ EeRegs(d.mem) = IF w = {EECON1} /\ i.f # INDF
                           THEN Eecon1Regs(EeRegs(x.mem), x.ee) ELSE EeRegs(x.mem)
        /\ d.ee = IF w = {EECON1} /\ i.f # INDF THEN Eecon1Array(EeRegs(x.mem), x.ee)
                  ELSE IF w = {EECON2} /\ i.f # INDF
                  THEN [x.ee EXCEPT !.unlock = Unlocked(@, x.mem.cells[EECON2])]
                  ELSE x.ee
    BY PartsRun
  <2>2. cpu' = d
    OBVIOUS
  <2> HIDE DEF f, x, d
  <2>3. QED
    BY <2>1, <2>2
<1>3. /\ EeRegs(x.mem) = IF w = {EECON1}
                         THEN WithControl(EeRegs(f.mem), Bit(r, 0), Bit(r, 1), Bit(r, 2))
                         ELSE IF w = {EEDATA} THEN [EeRegs(f.mem) EXCEPT !.data = r]
                         ELSE IF w = {EEADR} THEN [EeRegs(f.mem) EXCEPT !.adr = r]
                         ELSE EeRegs(f.mem)
      /\ w = {EECON2} => x.mem.cells[EECON2] = r
      /\ x.ee = f.ee
  BY <1>1, EepromIsWritten
<1>4. ASSUME regs1 = Control, ee1 = ee
      PROVE  TheEeprom(NoKeys)!PokeEecon1(Bit(r, 0), Bit(r, 1), Bit(r, 2))
  BY <1>4, Zenon
     DEF TheEeprom!PokeEecon1, TheEeprom!Control, WithControl, NoKeys
<1>5. ASSUME regs1 = Eecon1Regs(Control, ee), ee1 = Eecon1Array(Control, ee)
      PROVE  TheEeprom(NoKeys)!WriteEecon1(Bit(r, 0), Bit(r, 1), Bit(r, 2))
  <2>1. TheEeprom(NoKeys)!Control(Bit(r, 0), Bit(r, 1), Bit(r, 2)) = Control
    BY Zenon DEF TheEeprom!Control, WithControl
  <2>2. NoKeys' = NoKeys /\ TheEeprom(NoKeys)!NoKeys = NoKeys
    BY DEF NoKeys, TheEeprom!NoKeys, TheEeprom!None
  <2> HIDE DEF Control
  <2>3. /\ regs1 = TheEeprom(NoKeys)!Eecon1Regs(Control, ee)
        /\ ee1 = TheEeprom(NoKeys)!Eecon1Array(Control, ee)
    BY <1>5, TheEepromsOperators
  <2>4. NoKeys' = IF Bit(r, 1) = 1 THEN TheEeprom(NoKeys)!NoKeys ELSE NoKeys
    BY <2>2
  <2>5. QED
    BY <2>1, <2>3, <2>4, Zenon DEF TheEeprom!WriteEecon1
<1>6. ASSUME regs1 = regs, ee1 = [ee EXCEPT !.unlock = Unlocked(@, r)]
      PROVE  TheEeprom(<<r, r, r>>)!WriteEecon2(r)
  BY <1>6, TheEepromsOperators DEF TheEeprom!WriteEecon2
<1>7. ASSUME regs1 = [regs EXCEPT !.data = r], ee1 = ee
      PROVE  TheEeprom(NoKeys)!WriteEedata(r)
  BY <1>7 DEF TheEeprom!WriteEedata, NoKeys
<1>8. ASSUME regs1 = [regs EXCEPT !.adr = r], ee1 = ee
      PROVE  TheEeprom(NoKeys)!WriteEeadr(r)
  BY <1>8 DEF TheEeprom!WriteEeadr, NoKeys
<1>9. ASSUME regs1 = regs, ee1 = ee
      PROVE  UNCHANGED <<EeRegs(cpu.mem), cpu.ee>>
  BY <1>9
<1>10. w = {EECON1} => EeRegs(x.mem) = Control
  BY <1>2, <1>3, Zenon
<1> HIDE DEF f, x, regs, regs1, ee, ee1, Control
<1>11. /\ {EECON1} # {EECON2} /\ {EECON1} # {EEDATA} /\ {EECON1} # {EEADR}
       /\ {EECON2} # {EEDATA} /\ {EECON2} # {EEADR} /\ {EEDATA} # {EEADR}
  BY PartCellsAreCells
<1>12. CASE w = {EECON1} /\ i.f = INDF
  <2>1. TheEeprom(NoKeys)!PokeEecon1(Bit(r, 0), Bit(r, 1), Bit(r, 2))
    BY <1>2, <1>3, <1>4, <1>10, <1>11, <1>12
  <2>2. QED
    BY <1>12, <2>1 DEF EepromSees
<1>13. CASE w = {EECON1} /\ i.f # INDF
  <2>1. TheEeprom(NoKeys)!WriteEecon1(Bit(r, 0), Bit(r, 1), Bit(r, 2))
    BY <1>2, <1>3, <1>5, <1>10, <1>11, <1>13
  <2>2. QED
    BY <1>13, <2>1 DEF EepromSees
<1>14. CASE w = {EECON2} /\ i.f # INDF
  <2>1. TheEeprom(<<r, r, r>>)!WriteEecon2(r)
    BY <1>2, <1>3, <1>6, <1>11, <1>14
  <2>2. QED
    BY <1>11, <1>14, <2>1 DEF EepromSees
<1>15. CASE w = {EEDATA}
  <2>1. TheEeprom(NoKeys)!WriteEedata(r)
    BY <1>2, <1>3, <1>7, <1>11, <1>15
  <2>2. QED
    BY <1>11, <1>15, <2>1 DEF EepromSees
<1>16. CASE w = {EEADR}
  <2>1. TheEeprom(NoKeys)!WriteEeadr(r)
    BY <1>2, <1>3, <1>8, <1>11, <1>16
  <2>2. QED
    BY <1>11, <1>16, <2>1 DEF EepromSees
<1>17. CASE /\ w # {EECON1} /\ w # {EEDATA} /\ w # {EEADR}
            /\ ~(w = {EECON2} /\ i.f # INDF)
  <2>1. UNCHANGED <<EeRegs(cpu.mem), cpu.ee>>
    BY <1>2, <1>3, <1>9, <1>17
  <2>2. QED
    BY <1>17, <2>1 DEF EepromSees
<1>18. QED
  BY <1>12, <1>13, <1>14, <1>15, <1>16, <1>17

(* The whole step. *)
LEMMA StepIsSeen ==
  ASSUME ProcessorInv, Step
  PROVE  PartsSeeStep
<1> DEFINE f == Fetched(cpu)
<1>1. cpu \in ProcessorStates /\ cpu.pc \in PcRange
  BY StateFields DEF ProcessorInv, RegistersInRange
<1>2. PcRange \subseteq Nat
  BY DEF PcRange
<1>3. cpu.pc \in Nat
  BY <1>1, <1>2, Zenon
<1>4. PICK i : i = InstructionAt(cpu.pc)
  OBVIOUS
<1>5. IsInstruction(i)
  BY <1>3, <1>4, InstructionAtIsInstruction DEF ProcessorInv, ClockTypes
<1>6. cpu' = ServiceInterrupts(Executed(cpu, i).state)
  BY <1>4 DEF Step, Perform, Finish
<1>7. PICK c, w, r : c = Cost(f, i) /\ w = Written(f.mem, i) /\ r = ResultOf(f, i)
  OBVIOUS
<1>8. c \in 1..2
  <2>1. 1 \in 1..2 /\ 2 \in 1..2
    OBVIOUS
  <2>2. QED
    BY <1>7, <2>1, Zenon DEF Cost
<1>9. TimerSees(i, c, w, r)
  BY <1>1, <1>5, <1>6, <1>7, TimerSeesInstruction, Zenon
<1>10. EepromSees(i, w, r)
  BY <1>1, <1>5, <1>6, <1>7, EepromSeesInstruction, Zenon
<1>11. i \in {InstructionAt(cpu.pc)} /\ c \in {Cost(f, i)} /\ w \in {Written(f.mem, i)}
       /\ r \in {ResultOf(f, i)}
  BY <1>4, <1>7
<1>12. QED
  BY <1>8, <1>9, <1>10, <1>11, Zenon DEF PartsSeeStep

(***************************************************************************)
(* What happens between two instructions.                                   *)
(***************************************************************************)
PartsUnchanged ==
  UNCHANGED <<TimerOf(cpu), OptionOf(cpu), EeRegs(cpu.mem), cpu.ee>>

LEMMA UnchangedIsSeen ==
  ASSUME PartsUnchanged
  PROVE  PartsSeeEvent
<1>1. UNCHANGED <<TimerOf(cpu), OptionOf(cpu)>> /\ UNCHANGED <<EeRegs(cpu.mem), cpu.ee>>
  BY DEF PartsUnchanged
<1>2. QED
  BY <1>1, Zenon DEF PartsSeeEvent

LEMMA PinKeepsParts ==
  ASSUME NEW c \in ProcessorStates, NEW pin \in 0..15, NEW x \in {0, 1}
  PROVE  PartsAlike(c, PinSet(c, pin, x))
<1> DEFINE m == SetExt(c.mem, pin \div 8, pin % 8, x)
           new(b) == WithBit(Intcon(c), b, 1)
           Raised(b) == [c EXCEPT !.mem = Poke(m, INTCON, new(b))]
<1>1. m.cells = c.mem.cells /\ m \in [cells : [Cells -> Byte], extA : {m.extA}, extB : {m.extB}]
  <2>1. c.mem \in Memories
    BY StateFields
  <2>2. QED
    BY <2>1 DEF SetExt, Memories
<1>2. INTF # T0IF /\ RBIF # T0IF /\ INTF \in BitNo /\ RBIF \in BitNo /\ 1 \in {0, 1}
  BY NamedBits DEF INTF, RBIF, T0IF
<1> HIDE DEF m, new
<1>3. ASSUME NEW b \in {INTF, RBIF}
      PROVE  PartsAlike(c, Raised(b))
  <2>1. SameInside(c, Raised(b))
    BY DEF SameInside, ProcessorStates
  <2>2. Raised(b).mem.cells = [c.mem.cells EXCEPT ![INTCON] = new(b)]
    BY <1>1 DEF Poke, ProcessorStates
  <2>3. Raised(b).mem.cells = [c.mem.cells EXCEPT ![INTCON] = WithBit(@, b, 1)]
    BY <2>2 DEF new, Intcon
  <2> HIDE DEF Raised
  <2>4. QED
    BY <1>2, <2>1, <2>3, FlagKeepsParts
<1>4. PartsAlike(c, [c EXCEPT !.mem = m])
  BY <1>1 DEF PartsAlike, SameInside, Intcon, ProcessorStates
<1>5. PinSet(c, pin, x) \in {Raised(INTF), Raised(RBIF), [c EXCEPT !.mem = m]}
  BY DEF PinSet, m, new
<1> HIDE DEF Raised
<1>6. QED
  BY <1>3, <1>4, <1>5

LEMMA PinIsSeen ==
  ASSUME ProcessorInv, NEW pin \in 0..15, SetPin(pin)
  PROVE  PartsSeeEvent
<1> DEFINE x == 1 - ExtLevel(cpu.mem, pin \div 8, pin % 8)
<1>1. cpu \in ProcessorStates /\ cpu.mem.extA \in Byte /\ cpu.mem.extB \in Byte
  BY StateFields DEF ProcessorInv, RegistersInRange, Memories
<1>2. ExtLevel(cpu.mem, pin \div 8, pin % 8) \in {0, 1}
  BY <1>1, ByteBits, BitOfByte DEF ExtLevel
<1>3. x \in {0, 1} /\ cpu' = PinSet(cpu, pin, x)
  BY <1>2 DEF SetPin
<1> HIDE DEF x
<1>4. PartsAlike(cpu, cpu')
  BY <1>1, <1>3, PinKeepsParts
<1>5. PartsUnchanged
  BY <1>4, AlikeToTheParts DEF PartsUnchanged
<1>6. QED
  BY <1>5, UnchangedIsSeen

(* Reset and load_hex: the parts are reset, and the array is the given one.  *)
LEMMA PoweredOnParts ==
  ASSUME NEW cells \in [0..127 -> Byte]
  PROVE  LET d == PowerOn(cells)
         IN  /\ TimerOf(d) = [tmr0 |-> 0, t0if |-> 0, prescaler |-> 0, inhibit |-> 0]
             /\ OptionOf(d) = [t0cs |-> 0, psa |-> 0, ps |-> 0]
             /\ EeRegs(d.mem) = [rd |-> 0, wr |-> 0, wren |-> 0, data |-> 0, adr |-> 0]
             /\ d.ee = [cells |-> cells, unlock |-> 0]
<1> DEFINE a == Poke(ClearMem, STATUS, 24)
           b == Poke(a, TRISA, 255)
           m == Poke(b, TRISB, 255)
           d == PowerOn(cells)
<1>1. /\ STATUS \notin PartCells /\ TRISA \notin PartCells /\ TRISB \notin PartCells
      /\ PartCells \subseteq Cells
  BY PartCellsAreCells DEF PartCells, TMR0, INTCON, OPTION_REG, EEDATA, EEADR, EECON1,
       EECON2, STATUS, TRISA, TRISB
<1>2. \A p \in PartCells : ClearMem.cells[p] = 0
  BY <1>1 DEF ClearMem
<1>3. 0 \in Byte /\ 24 \in Byte /\ 255 \in Byte /\ ClearMem \in Memories
  BY DEF ClearMem, Memories, Byte
<1>4. a \in Memories /\ \A p \in PartCells : a.cells[p] = ClearMem.cells[p]
  <2>1. a \in Memories
    BY <1>3, NamedCells, PokeIsMemory
  <2>2. ASSUME NEW p \in Cells, p # STATUS PROVE a.cells[p] = ClearMem.cells[p]
    BY <1>3, <2>2 DEF Poke, Memories
  <2>3. QED
    BY <1>1, <2>1, <2>2
<1> HIDE DEF a
<1>5. b \in Memories /\ \A p \in PartCells : b.cells[p] = a.cells[p]
  <2>1. b \in Memories
    BY <1>3, <1>4, NamedCells, PokeIsMemory
  <2>2. ASSUME NEW p \in Cells, p # TRISA PROVE b.cells[p] = a.cells[p]
    BY <1>3, <1>4, <2>2 DEF Poke, Memories
  <2>3. QED
    BY <1>1, <2>1, <2>2
<1> HIDE DEF b
<1>6. \A p \in PartCells : m.cells[p] = b.cells[p]
  <2>1. ASSUME NEW p \in Cells, p # TRISB PROVE m.cells[p] = b.cells[p]
    BY <1>3, <1>5, <2>1 DEF Poke, Memories
  <2>2. QED
    BY <1>1, <2>1
<1>7. /\ d.mem = m /\ d.prescaler = 0 /\ d.inhibit = 0
      /\ d.ee = [cells |-> cells, unlock |-> 0]
  BY DEF PowerOn, a, b
<1> HIDE DEF m, d
<1>8. /\ d.mem.cells[TMR0] = 0 /\ d.mem.cells[INTCON] = 0 /\ d.mem.cells[OPTION_REG] = 0
      /\ d.mem.cells[EEDATA] = 0 /\ d.mem.cells[EEADR] = 0 /\ d.mem.cells[EECON1] = 0
  BY <1>2, <1>4, <1>5, <1>6, <1>7 DEF PartCells
<1>9. /\ 0 % 2 = 0 /\ (0 \div 2) % 2 = 0 /\ (0 \div 4) % 2 = 0 /\ (0 \div 8) % 2 = 0
      /\ (0 \div 32) % 2 = 0 /\ 0 % 8 = 0 /\ 0 \in Int
  OBVIOUS
<1>10. /\ Bit(0, 0) = 0 /\ Bit(0, 1) = 0 /\ Bit(0, 2) = 0 /\ Bit(0, 3) = 0 /\ Bit(0, 5) = 0
       /\ Bit(0, T0IF) = 0 /\ 0 % 8 = 0
  BY <1>9, BitsOf DEF T0IF
<1>11. TimerOf(d) = [tmr0 |-> 0, t0if |-> 0, prescaler |-> 0, inhibit |-> 0]
  BY <1>7, <1>8, <1>10 DEF TimerOf, Intcon
<1>12. OptionOf(d) = [t0cs |-> 0, psa |-> 0, ps |-> 0]
  BY <1>8, <1>10 DEF OptionOf, OptionBits
<1>13. EeRegs(d.mem) = [rd |-> 0, wr |-> 0, wren |-> 0, data |-> 0, adr |-> 0]
  BY <1>8, <1>10 DEF EeRegs
<1>14. QED
  BY <1>7, <1>11, <1>12, <1>13 DEF d

LEMMA PowerUpIsSeen ==
  ASSUME NEW cells \in [0..127 -> Byte], cpu' = PowerOn(cells),
         \/ cells = cpu.ee.cells /\ cpu.ee \in Arrays
         \/ cells = ErasedArray
  PROVE  PartsSeeEvent
<1>1. /\ TimerOf(cpu') = [tmr0 |-> 0, t0if |-> 0, prescaler |-> 0, inhibit |-> 0]
      /\ OptionOf(cpu') = [t0cs |-> 0, psa |-> 0, ps |-> 0]
      /\ EeRegs((cpu').mem) = [rd |-> 0, wr |-> 0, wren |-> 0, data |-> 0, adr |-> 0]
      /\ (cpu').ee = [cells |-> cells, unlock |-> 0]
  BY PoweredOnParts
<1>2. TheTimer("reset", 0)!TimerPowerUp
  BY <1>1 DEF TheTimer!TimerPowerUp, TheTimer!ResetTimer, TheTimer!ResetOption
<1>3. EeRegs((cpu').mem) = TheEeprom(NoKeys)!ResetRegs
  BY <1>1 DEF TheEeprom!ResetRegs
<1>4. NoKeys' = NoKeys /\ TheEeprom(NoKeys)!NoKeys = NoKeys
  BY DEF NoKeys, TheEeprom!NoKeys, TheEeprom!None
<1>5. CASE cells = cpu.ee.cells /\ cpu.ee \in Arrays
  <2>1. (cpu').ee = [cpu.ee EXCEPT !.unlock = 0]
    BY <1>1, <1>5 DEF Arrays
  <2>2. TheEeprom(NoKeys)!EepromReset
    BY <1>3, <1>4, <2>1, Zenon DEF TheEeprom!EepromReset
  <2>3. QED
    BY <1>2, <2>2, Zenon DEF PartsSeeEvent
<1>6. CASE cells = ErasedArray
  <2>1. [TheEeprom(NoKeys)!Blank EXCEPT ![0 % EeSize] = 255] = ErasedArray
    BY Sizes DEF TheEeprom!Blank, ErasedArray
  <2>2. (cpu').ee = [cells |-> [TheEeprom(NoKeys)!Blank EXCEPT ![0 % EeSize] = 255],
                     unlock |-> 0]
    BY <1>1, <1>6, <2>1
  <2>3. TheEeprom(NoKeys)!LoadImage(0, 255)
    BY <1>3, <1>4, <2>2, Zenon DEF TheEeprom!LoadImage
  <2>4. QED
    BY <1>2, <2>3, Zenon DEF PartsSeeEvent
<1>7. QED
  BY <1>5, <1>6

LEMMA OptionsAreSettings ==
  ASSUME NEW v \in Byte
  PROVE  OptionBits(v) \in OptionSettings
<1>1. Bit(v, 5) \in {0, 1} /\ Bit(v, 3) \in {0, 1}
  BY BitOfByte DEF BitNo
<1>2. v % 8 \in 0..7
  BY DEF Byte
<1>3. QED
  BY <1>1, <1>2 DEF OptionBits, OptionSettings

(* write_data to any cell: the part whose register it is sees the new value. *)
LEMMA WriteDataIsSeen ==
  ASSUME cpu \in ProcessorStates, NEW a \in Cells, NEW v \in Byte,
         cpu' = [cpu EXCEPT !.mem = Poke(@, a, v)]
  PROVE  PartsSeeEvent
<1> DEFINE c == cpu.mem.cells
           d == (cpu').mem.cells
<1>1. cpu.mem \in Memories /\ c \in [Cells -> Byte]
  BY StateFields DEF Memories
<1>2. (cpu').mem = Poke(cpu.mem, a, v)
      /\ (cpu').prescaler = cpu.prescaler /\ (cpu').inhibit = cpu.inhibit /\ (cpu').ee = cpu.ee
  BY DEF ProcessorStates
<1>3. d[a] = v /\ \A q \in Cells : q # a => d[q] = c[q]
  <2> DEFINE m == Poke(cpu.mem, a, v)
  <2>1. m.cells[a] = v /\ \A q \in Cells : q # a => m.cells[q] = cpu.mem.cells[q]
    BY <1>1, PokeSetsOne
  <2>2. d = m.cells
    BY <1>2
  <2> HIDE DEF m, d
  <2>3. QED
    BY <2>1, <2>2
<1>4. /\ TimerOf(cpu) = [tmr0 |-> c[TMR0], t0if |-> Bit(c[INTCON], T0IF),
                         prescaler |-> cpu.prescaler, inhibit |-> cpu.inhibit]
      /\ TimerOf(cpu') = [tmr0 |-> d[TMR0], t0if |-> Bit(d[INTCON], T0IF),
                          prescaler |-> cpu.prescaler, inhibit |-> cpu.inhibit]
      /\ OptionOf(cpu) = OptionBits(c[OPTION_REG]) /\ OptionOf(cpu') = OptionBits(d[OPTION_REG])
  BY <1>2 DEF TimerOf, OptionOf, Intcon
<1>5. /\ EeRegs(cpu.mem) = [rd |-> Bit(c[EECON1], 0), wr |-> Bit(c[EECON1], 1),
                            wren |-> Bit(c[EECON1], 2), data |-> c[EEDATA], adr |-> c[EEADR]]
      /\ EeRegs((cpu').mem) = [rd |-> Bit(d[EECON1], 0), wr |-> Bit(d[EECON1], 1),
                               wren |-> Bit(d[EECON1], 2), data |-> d[EEDATA],
                               adr |-> d[EEADR]]
  BY DEF EeRegs
<1> DEFINE t == TimerOf(cpu)        o == OptionOf(cpu)        r == EeRegs(cpu.mem)
           t1 == TimerOf(cpu')      o1 == OptionOf(cpu')      r1 == EeRegs((cpu').mem)
<1> HIDE DEF c, d
<1>6. /\ a \notin {TMR0, INTCON} => t1 = t
      /\ a # OPTION_REG => o1 = o
      /\ a \notin {EECON1, EEDATA, EEADR} => r1 = r
  BY <1>3, <1>4, <1>5, NamedCells
<1>7. /\ a = TMR0 => t1 = [t EXCEPT !.tmr0 = v]
      /\ a = INTCON => t1 = [t EXCEPT !.t0if = Bit(v, T0IF)]
      /\ a = OPTION_REG => o1 = OptionBits(v)
  BY <1>3, <1>4, NamedCells, PartCellsAreCells
<1>8. /\ a = EEDATA => r1 = [r EXCEPT !.data = v]
      /\ a = EEADR => r1 = [r EXCEPT !.adr = v]
  BY <1>3, <1>5, NamedCells, PartCellsAreCells
<1>9. a = EECON1 => r1 = WithControl(r, Bit(v, 0), Bit(v, 1), Bit(v, 2))
  <2>1. a = EECON1 => r1 = [rd |-> Bit(v, 0), wr |-> Bit(v, 1), wren |-> Bit(v, 2),
                            data |-> c[EEDATA], adr |-> c[EEADR]]
    BY <1>3, <1>5, NamedCells, PartCellsAreCells
  <2>2. WithControl(r, Bit(v, 0), Bit(v, 1), Bit(v, 2))
          = [rd |-> Bit(v, 0), wr |-> Bit(v, 1), wren |-> Bit(v, 2),
             data |-> c[EEDATA], adr |-> c[EEADR]]
    BY ControlIsSet DEF c
  <2>3. QED
    BY <2>1, <2>2, Zenon
<1> DEFINE TimerIs  == UNCHANGED <<TimerOf(cpu), OptionOf(cpu)>>
           EepromIs == UNCHANGED <<EeRegs(cpu.mem), cpu.ee>>
<1>10. ASSUME t1 = t, o1 = o PROVE TimerIs
  BY <1>10
<1>11. ASSUME r1 = r PROVE EepromIs
  BY <1>2, <1>11
<1>12. OptionBits(v) \in OptionSettings /\ Bit(v, T0IF) \in {0, 1}
       /\ Bit(v, 0) \in {0, 1} /\ Bit(v, 1) \in {0, 1} /\ Bit(v, 2) \in {0, 1}
  BY OptionsAreSettings, BitOfByte, NamedBits DEF BitNo
<1>13. CASE a = TMR0
  <2>1. TheTimer("poke", 0)!DebugTmr0(v)
    BY <1>6, <1>7, <1>13, PartCellsAreCells
       DEF TheTimer!DebugTmr0, TheTimer!DebugWrite
  <2>2. EepromIs
    BY <1>6, <1>11, <1>13, PartCellsAreCells
  <2>3. QED
    BY <2>1, <2>2, Zenon DEF PartsSeeEvent
<1>14. CASE a = OPTION_REG
  <2>1. TheTimer("rate", 0)!DebugOption(OptionBits(v))
    BY <1>6, <1>7, <1>14, PartCellsAreCells
       DEF TheTimer!DebugOption, TheTimer!DebugWrite
  <2>2. EepromIs
    BY <1>6, <1>11, <1>14, PartCellsAreCells
  <2>3. QED
    BY <1>12, <2>1, <2>2, Zenon DEF PartsSeeEvent
<1>15. CASE a = INTCON
  <2>1. TheTimer("ack", 0)!DebugT0if(Bit(v, T0IF))
    BY <1>6, <1>7, <1>15, PartCellsAreCells
       DEF TheTimer!DebugT0if, TheTimer!DebugWrite
  <2>2. EepromIs
    BY <1>6, <1>11, <1>15, PartCellsAreCells
  <2>3. QED
    BY <1>12, <2>1, <2>2, Zenon DEF PartsSeeEvent
<1>16. ASSUME a \notin {TMR0, INTCON, OPTION_REG} PROVE TimerIs
  BY <1>6, <1>10, <1>16
<1>17. CASE a = EECON1
  <2>1. TheEeprom(NoKeys)!PokeEecon1(Bit(v, 0), Bit(v, 1), Bit(v, 2))
    BY <1>2, <1>9, <1>17, Zenon
       DEF TheEeprom!PokeEecon1, TheEeprom!Control, WithControl, NoKeys
  <2>2. TimerIs
    BY <1>16, <1>17, PartCellsAreCells
  <2>3. QED
    BY <1>12, <2>1, <2>2, Zenon DEF PartsSeeEvent
<1>18. CASE a = EEDATA
  <2>1. TheEeprom(NoKeys)!WriteEedata(v)
    BY <1>2, <1>8, <1>18 DEF TheEeprom!WriteEedata, NoKeys
  <2>2. TimerIs
    BY <1>16, <1>18, PartCellsAreCells
  <2>3. QED
    BY <2>1, <2>2, Zenon DEF PartsSeeEvent
<1>19. CASE a = EEADR
  <2>1. TheEeprom(NoKeys)!WriteEeadr(v)
    BY <1>2, <1>8, <1>19 DEF TheEeprom!WriteEeadr, NoKeys
  <2>2. TimerIs
    BY <1>16, <1>19, PartCellsAreCells
  <2>3. QED
    BY <2>1, <2>2, Zenon DEF PartsSeeEvent
<1>20. CASE a \notin PartCells
  <2>1. TimerIs /\ EepromIs
    BY <1>6, <1>11, <1>16, <1>20 DEF PartCells
  <2>2. QED
    BY <2>1, Zenon DEF PartsSeeEvent
<1>21. CASE a = EECON2
  <2>1. TimerIs /\ EepromIs
    BY <1>6, <1>11, <1>16, <1>21, PartCellsAreCells
  <2>2. QED
    BY <2>1, Zenon DEF PartsSeeEvent
<1>22. QED
  BY <1>13, <1>14, <1>15, <1>17, <1>18, <1>19, <1>20, <1>21 DEF PartCells

LEMMA EditIsSeen ==
  ASSUME ProcessorInv
  PROVE  /\ \A e \in Edits[firmware] : WriteData(e[1], e[2]) \/ SetW(e[2]) => PartsSeeEvent
         /\ \A a \in Detours[firmware] : SetPc(a) => PartsSeeEvent
<1>1. firmware \in Firmware /\ cpu \in ProcessorStates
  BY DEF ProcessorInv, ClockTypes, RegistersInRange
<1>2. Edits[firmware] \subseteq Cells \X Byte
  BY <1>1, CpuAssumption DEF CpuAssumption
<1>3. ASSUME NEW e \in Edits[firmware], WriteData(e[1], e[2])
      PROVE  PartsSeeEvent
  <2>1. PICK a \in Cells, v \in Byte : a = e[1] /\ v = e[2]
    BY <1>2
  <2>2. cpu' = [cpu EXCEPT !.mem = Poke(@, a, v)]
    BY <1>3, <2>1 DEF WriteData, Edit
  <2>3. QED
    BY <1>1, <2>2, WriteDataIsSeen, Zenon
<1>4. ASSUME NEW d, cpu' = d, d.mem = cpu.mem, SameInside(cpu, d) PROVE PartsSeeEvent
  <2>1. PartsAlike(cpu, cpu')
    BY <1>4 DEF PartsAlike, Intcon
  <2>2. PartsUnchanged
    BY <2>1, AlikeToTheParts DEF PartsUnchanged
  <2>3. QED
    BY <2>2, UnchangedIsSeen
<1>5. ASSUME NEW e \in Edits[firmware], SetW(e[2]) PROVE PartsSeeEvent
  <2>1. PICK d : d = [cpu EXCEPT !.w = e[2]]
    OBVIOUS
  <2>2. cpu' = d /\ d.mem = cpu.mem /\ SameInside(cpu, d)
    BY <1>1, <1>5, <2>1 DEF SetW, Edit, SameInside, ProcessorStates
  <2>3. QED
    BY <1>4, <2>2
<1>6. ASSUME NEW a \in Detours[firmware], SetPc(a) PROVE PartsSeeEvent
  <2>1. PICK d : d = [cpu EXCEPT !.pc = a]
    OBVIOUS
  <2>2. cpu' = d /\ d.mem = cpu.mem /\ SameInside(cpu, d)
    BY <1>1, <1>6, <2>1 DEF SetPc, Edit, SameInside, ProcessorStates
  <2>3. QED
    BY <1>4, <2>2
<1>7. QED
  BY <1>3, <1>5, <1>6, Zenon

LEMMA EventIsSeen ==
  ASSUME ProcessorInv, Next, ~Step
  PROVE  PartsSeeEvent
<1>1. firmware \in Firmware /\ cpu \in ProcessorStates
  BY DEF ProcessorInv, ClockTypes, RegistersInRange
<1>2. Pins[firmware] \subseteq 0..15
  BY <1>1, CpuAssumption DEF CpuAssumption
<1>3. ASSUME NEW pin \in Pins[firmware], SetPin(pin) PROVE PartsSeeEvent
  BY <1>2, <1>3, PinIsSeen
<1>4. ASSUME ResetFrame PROVE PartsSeeEvent
  <2>1. cpu' = cpu
    BY <1>4 DEF ResetFrame
  <2>2. PartsUnchanged
    BY <2>1 DEF PartsUnchanged
  <2>3. QED
    BY <2>2, UnchangedIsSeen
<1>5. ASSUME Reset PROVE PartsSeeEvent
  <2>1. PICK cells : cells = cpu.ee.cells
    OBVIOUS
  <2>2. cpu.ee \in Arrays /\ cells \in [0..127 -> Byte]
    BY <1>1, <2>1, StateFields DEF Arrays
  <2>3. cpu' = PowerOn(cells)
    BY <1>5, <2>1 DEF Reset, PowerUp
  <2>4. QED
    BY <2>1, <2>2, <2>3, PowerUpIsSeen
<1>6. ASSUME NEW fw \in Firmware, LoadHex(fw) PROVE PartsSeeEvent
  <2>1. cpu' = PowerOn(ErasedArray)
    BY <1>6 DEF LoadHex, PowerUp
  <2>2. QED
    BY <2>1, ErasedIsArray, PowerUpIsSeen
<1>7. QED
  BY <1>3, <1>4, <1>5, <1>6, EditIsSeen, Zenon DEF Next

(* Every step of any firmware costs the scheduler one to four cycles, and is *)
(* to the timer and the EEPROM the operation that the instruction names on    *)
(* them (memory.rs and cpu.rs); the debugger, the pins and the resets do to    *)
(* them what they say, and nothing else happens to either.                   *)
THEOREM StepsFitTheParts == Spec => StepFitsItsParts
<1> DEFINE Fits == IF ran' = NoInstr THEN PartsSeeEvent
                   ELSE cycles' - cycles \in 1..4 /\ PartsSeeStep
<1>1. ASSUME ProcessorInv, [Next]_vars
      PROVE  [Fits]_vars
  <2>1. CASE Step
    <3>1. PICK i, e : /\ e.spent + EntryCost(e.state) \in 1..4 /\ Finish(i, e)
                      /\ IsInstruction(i)
      BY <1>1, <2>1, StepTakesTime
    <3> DEFINE total == e.spent + EntryCost(e.state)
    <3>2. cycles' = cycles + total /\ total \in 1..4 /\ cycles \in Nat
      BY <1>1, <3>1 DEF Finish, ProcessorInv, ClockTypes
    <3> HIDE DEF total
    <3>3. cycles' - cycles \in 1..4
      BY <3>2
    <3>4. ran' # NoInstr
      <4>1. i.m # "none" /\ NoInstr.m = "none"
        BY <3>1 DEF IsInstruction, NoInstr, Instruction
      <4>2. ran' = i
        BY <3>1 DEF Finish
      <4>3. QED
        BY <4>1, <4>2
    <3>5. PartsSeeStep
      BY <1>1, <2>1, StepIsSeen
    <3>6. QED
      BY <3>3, <3>4, <3>5
  <2>2. CASE ~Step /\ Next
    <3>1. PartsSeeEvent
      BY <1>1, <2>2, EventIsSeen
    <3>2. ran' = NoInstr \/ UNCHANGED vars
      BY <1>1, <2>2, OnlyStepsTakeTime
    <3>3. QED
      BY <3>1, <3>2
  <2>3. CASE UNCHANGED vars
    BY <2>3
  <2>4. QED
    BY <1>1, <2>1, <2>2, <2>3
<1>2. QED
  BY <1>1, ProcessorKeepsInv, PTL DEF Spec, StepFitsItsParts

=============================================================================
