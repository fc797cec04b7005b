--------------------------- MODULE ToolchainProofs ---------------------------
(***************************************************************************)
(* Proofs about the way of a program into the core: the encoder of asm.js    *)
(* and the decoder of decode.rs agree on every word and every statement.    *)
(***************************************************************************)
EXTENDS Toolchain, TLAPS

(***************************************************************************)
(* The bits of a word.                                                      *)
(***************************************************************************)
LEMMA Powers ==
  /\ Weight[0] = 1 /\ Weight[1] = 2 /\ Weight[2] = 4 /\ Weight[3] = 8
  /\ Weight[4] = 16 /\ Weight[5] = 32 /\ Weight[6] = 64 /\ Weight[7] = 128
  /\ Weight[8] = 256 /\ Weight[9] = 512 /\ Weight[10] = 1024 /\ Weight[11] = 2048
  /\ Weight[12] = 4096 /\ Weight[13] = 8192 /\ Weight[14] = 16384
BY DEF Weight

LEMMA WordRange ==
  \A x \in Int : x \in Words <=> x >= 0 /\ x <= 16383
BY DEF Words

LEMMA WordsAreIntegers == \A w \in Words : w \in Int
BY DEF Words

LEMMA WordBits ==
  ASSUME NEW w \in Int
  PROVE  \A i \in 0..13 : Bit(w, i) \in {0, 1}
<1>1. \A i \in 0..13 : Weight[i] \in Nat \ {0}
  BY Powers
<1>2. \A d \in Nat \ {0} : (w \div d) % 2 \in {0, 1}
  OBVIOUS
<1>3. QED
  BY <1>1, <1>2 DEF Bit

(* Two words are the same from bit j up. *)
SameFrom(w, v, j) == w \div Weight[j] = v \div Weight[j]

LEMMA Halved ==
  ASSUME NEW x \in Int, NEW y \in Int
  PROVE  x = y <=> x % 2 = y % 2 /\ x \div 2 = y \div 2
OBVIOUS

LEMMA SameByOneBit ==
  ASSUME NEW w \in Words, NEW v \in Words, NEW i \in 0..13
  PROVE  SameFrom(w, v, i) <=> Bit(w, i) = Bit(v, i) /\ SameFrom(w, v, i + 1)
<1>0. w \in Int /\ v \in Int
  BY DEF Words
<1>1. \A x \in Int : \A y \in Int : x = y <=> x % 2 = y % 2 /\ x \div 2 = y \div 2
  BY Halved
<1>2. CASE i = 0
  <2>1. w \div 2 = (w \div 1) \div 2 /\ v \div 2 = (v \div 1) \div 2
        /\ w \div 1 \in Int /\ v \div 1 \in Int
    BY <1>0
  <2>2. /\ SameFrom(w, v, i) <=> w \div 1 = v \div 1
        /\ SameFrom(w, v, i + 1) <=> w \div 2 = v \div 2
        /\ Bit(w, i) = (w \div 1) % 2 /\ Bit(v, i) = (v \div 1) % 2
    BY <1>2, Powers DEF SameFrom, Bit
  <2>3. QED
    BY <1>1, <2>1, <2>2
<1>3. CASE i = 1
  <2>1. w \div 4 = (w \div 2) \div 2 /\ v \div 4 = (v \div 2) \div 2
        /\ w \div 2 \in Int /\ v \div 2 \in Int
    BY <1>0
  <2>2. /\ SameFrom(w, v, i) <=> w \div 2 = v \div 2
        /\ SameFrom(w, v, i + 1) <=> w \div 4 = v \div 4
        /\ Bit(w, i) = (w \div 2) % 2 /\ Bit(v, i) = (v \div 2) % 2
    BY <1>3, Powers DEF SameFrom, Bit
  <2>3. QED
    BY <1>1, <2>1, <2>2
<1>4. CASE i = 2
  <2>1. w \div 8 = (w \div 4) \div 2 /\ v \div 8 = (v \div 4) \div 2
        /\ w \div 4 \in Int /\ v \div 4 \in Int
    BY <1>0
  <2>2. /\ SameFrom(w, v, i) <=> w \div 4 = v \div 4
        /\ SameFrom(w, v, i + 1) <=> w \div 8 = v \div 8
        /\ Bit(w, i) = (w \div 4) % 2 /\ Bit(v, i) = (v \div 4) % 2
    BY <1>4, Powers DEF SameFrom, Bit
  <2>3. QED
    BY <1>1, <2>1, <2>2
<1>5. CASE i = 3
  <2>1. w \div 16 = (w \div 8) \div 2 /\ v \div 16 = (v \div 8) \div 2
        /\ w \div 8 \in Int /\ v \div 8 \in Int
    BY <1>0
  <2>2. /\ SameFrom(w, v, i) <=> w \div 8 = v \div 8
        /\ SameFrom(w, v, i + 1) <=> w \div 16 = v \div 16
        /\ Bit(w, i) = (w \div 8) % 2 /\ Bit(v, i) = (v \div 8) % 2
    BY <1>5, Powers DEF SameFrom, Bit
  <2>3. QED
    BY <1>1, <2>1, <2>2
<1>6. CASE i = 4
  <2>1. w \div 32 = (w \div 16) \div 2 /\ v \div 32 = (v \div 16) \div 2
        /\ w \div 16 \in Int /\ v \div 16 \in Int
    BY <1>0
  <2>2. /\ SameFrom(w, v, i) <=> w \div 16 = v \div 16
        /\ SameFrom(w, v, i + 1) <=> w \div 32 = v \div 32
        /\ Bit(w, i) = (w \div 16) % 2 /\ Bit(v, i) = (v \div 16) % 2
    BY <1>6, Powers DEF SameFrom, Bit
  <2>3. QED
    BY <1>1, <2>1, <2>2
<1>7. CASE i = 5
  <2>1. w \div 64 = (w \div 32) \div 2 /\ v \div 64 = (v \div 32) \div 2
        /\ w \div 32 \in Int /\ v \div 32 \in Int
    BY <1>0
  <2>2. /\ SameFrom(w, v, i) <=> w \div 32 = v \div 32
        /\ SameFrom(w, v, i + 1) <=> w \div 64 = v \div 64
        /\ Bit(w, i) = (w \div 32) % 2 /\ Bit(v, i) = (v \div 32) % 2
    BY <1>7, Powers DEF SameFrom, Bit
  <2>3. QED
    BY <1>1, <2>1, <2>2
<1>8. CASE i = 6
  <2>1. w \div 128 = (w \div 64) \div 2 /\ v \div 128 = (v \div 64) \div 2
        /\ w \div 64 \in Int /\ v \div 64 \in Int
    BY <1>0
  <2>2. /\ SameFrom(w, v, i) <=> w \div 64 = v \div 64
        /\ SameFrom(w, v, i + 1) <=> w \div 128 = v \div 128
        /\ Bit(w, i) = (w \div 64) % 2 /\ Bit(v, i) = (v \div 64) % 2
    BY <1>8, Powers DEF SameFrom, Bit
  <2>3. QED
    BY <1>1, <2>1, <2>2
<1>9. CASE i = 7
  <2>1. w \div 256 = (w \div 128) \div 2 /\ v \div 256 = (v \div 128) \div 2
        /\ w \div 128 \in Int /\ v \div 128 \in Int
    BY <1>0
  <2>2. /\ SameFrom(w, v, i) <=> w \div 128 = v \div 128
        /\ SameFrom(w, v, i + 1) <=> w \div 256 = v \div 256
        /\ Bit(w, i) = (w \div 128) % 2 /\ Bit(v, i) = (v \div 128) % 2
    BY <1>9, Powers DEF SameFrom, Bit
  <2>3. QED
    BY <1>1, <2>1, <2>2
<1>10. CASE i = 8
  <2>1. w \div 512 = (w \div 256) \div 2 /\ v \div 512 = (v \div 256) \div 2
        /\ w \div 256 \in Int /\ v \div 256 \in Int
    BY <1>0
  <2>2. /\ SameFrom(w, v, i) <=> w \div 256 = v \div 256
        /\ SameFrom(w, v, i + 1) <=> w \div 512 = v \div 512
        /\ Bit(w, i) = (w \div 256) % 2 /\ Bit(v, i) = (v \div 256) % 2
    BY <1>10, Powers DEF SameFrom, Bit
  <2>3. QED
    BY <1>1, <2>1, <2>2
<1>11. CASE i = 9
  <2>1. w \div 1024 = (w \div 512) \div 2 /\ v \div 1024 = (v \div 512) \div 2
        /\ w \div 512 \in Int /\ v \div 512 \in Int
    BY <1>0
  <2>2. /\ SameFrom(w, v, i) <=> w \div 512 = v \div 512
        /\ SameFrom(w, v, i + 1) <=> w \div 1024 = v \div 1024
        /\ Bit(w, i) = (w \div 512) % 2 /\ Bit(v, i) = (v \div 512) % 2
    BY <1>11, Powers DEF SameFrom, Bit
  <2>3. QED
    BY <1>1, <2>1, <2>2
<1>12. CASE i = 10
  <2>1. w \div 2048 = (w \div 1024) \div 2 /\ v \div 2048 = (v \div 1024) \div 2
        /\ w \div 1024 \in Int /\ v \div 1024 \in Int
    BY <1>0
  <2>2. /\ SameFrom(w, v, i) <=> w \div 1024 = v \div 1024
        /\ SameFrom(w, v, i + 1) <=> w \div 2048 = v \div 2048
        /\ Bit(w, i) = (w \div 1024) % 2 /\ Bit(v, i) = (v \div 1024) % 2
    BY <1>12, Powers DEF SameFrom, Bit
  <2>3. QED
    BY <1>1, <2>1, <2>2
<1>13. CASE i = 11
  <2>1. w \div 4096 = (w \div 2048) \div 2 /\ v \div 4096 = (v \div 2048) \div 2
        /\ w \div 2048 \in Int /\ v \div 2048 \in Int
    BY <1>0
  <2>2. /\ SameFrom(w, v, i) <=> w \div 2048 = v \div 2048
        /\ SameFrom(w, v, i + 1) <=> w \div 4096 = v \div 4096
        /\ Bit(w, i) = (w \div 2048) % 2 /\ Bit(v, i) = (v \div 2048) % 2
    BY <1>13, Powers DEF SameFrom, Bit
  <2>3. QED
    BY <1>1, <2>1, <2>2
<1>14. CASE i = 12
  <2>1. w \div 8192 = (w \div 4096) \div 2 /\ v \div 8192 = (v \div 4096) \div 2
        /\ w \div 4096 \in Int /\ v \div 4096 \in Int
    BY <1>0
  <2>2. /\ SameFrom(w, v, i) <=> w \div 4096 = v \div 4096
        /\ SameFrom(w, v, i + 1) <=> w \div 8192 = v \div 8192
        /\ Bit(w, i) = (w \div 4096) % 2 /\ Bit(v, i) = (v \div 4096) % 2
    BY <1>14, Powers DEF SameFrom, Bit
  <2>3. QED
    BY <1>1, <2>1, <2>2
<1>15. CASE i = 13
  <2>1. w \div 16384 = (w \div 8192) \div 2 /\ v \div 16384 = (v \div 8192) \div 2
        /\ w \div 8192 \in Int /\ v \div 8192 \in Int
    BY <1>0
  <2>2. /\ SameFrom(w, v, i) <=> w \div 8192 = v \div 8192
        /\ SameFrom(w, v, i + 1) <=> w \div 16384 = v \div 16384
        /\ Bit(w, i) = (w \div 8192) % 2 /\ Bit(v, i) = (v \div 8192) % 2
    BY <1>15, Powers DEF SameFrom, Bit
  <2>3. QED
    BY <1>1, <2>1, <2>2
<1>16. QED
  BY <1>2, <1>3, <1>4, <1>5, <1>6, <1>7, <1>8, <1>9, <1>10, <1>11, <1>12, <1>13, <1>14, <1>15

(* Two words are the same from bit j up when their bits are. *)
LEMMA SameIsBits ==
  ASSUME NEW w \in Words, NEW v \in Words, NEW j \in 0..14
  PROVE  SameFrom(w, v, j) <=> \A i \in 0..13 : i >= j => Bit(w, i) = Bit(v, i)
<1> DEFINE S(k) == SameFrom(w, v, k)
           E(k) == Bit(w, k) = Bit(v, k)
<1>1. S(14)
  <2>1. w \div 16384 = 0
    BY DEF Words
  <2>2. v \div 16384 = 0
    BY DEF Words
  <2>3. QED
    BY <2>1, <2>2, Powers DEF SameFrom
<1>2. S(0) <=> E(0) /\ S(1)
  <2>1. 0 \in 0..13 /\ 0 + 1 = 1
    OBVIOUS
  <2>2. QED
    BY <2>1, SameByOneBit
<1>3. S(1) <=> E(1) /\ S(2)
  <2>1. 1 \in 0..13 /\ 1 + 1 = 2
    OBVIOUS
  <2>2. QED
    BY <2>1, SameByOneBit
<1>4. S(2) <=> E(2) /\ S(3)
  <2>1. 2 \in 0..13 /\ 2 + 1 = 3
    OBVIOUS
  <2>2. QED
    BY <2>1, SameByOneBit
<1>5. S(3) <=> E(3) /\ S(4)
  <2>1. 3 \in 0..13 /\ 3 + 1 = 4
    OBVIOUS
  <2>2. QED
    BY <2>1, SameByOneBit
<1>6. S(4) <=> E(4) /\ S(5)
  <2>1. 4 \in 0..13 /\ 4 + 1 = 5
    OBVIOUS
  <2>2. QED
    BY <2>1, SameByOneBit
<1>7. S(5) <=> E(5) /\ S(6)
  <2>1. 5 \in 0..13 /\ 5 + 1 = 6
    OBVIOUS
  <2>2. QED
    BY <2>1, SameByOneBit
<1>8. S(6) <=> E(6) /\ S(7)
  <2>1. 6 \in 0..13 /\ 6 + 1 = 7
    OBVIOUS
  <2>2. QED
    BY <2>1, SameByOneBit
<1>9. S(7) <=> E(7) /\ S(8)
  <2>1. 7 \in 0..13 /\ 7 + 1 = 8
    OBVIOUS
  <2>2. QED
    BY <2>1, SameByOneBit
<1>10. S(8) <=> E(8) /\ S(9)
  <2>1. 8 \in 0..13 /\ 8 + 1 = 9
    OBVIOUS
  <2>2. QED
    BY <2>1, SameByOneBit
<1>11. S(9) <=> E(9) /\ S(10)
  <2>1. 9 \in 0..13 /\ 9 + 1 = 10
    OBVIOUS
  <2>2. QED
    BY <2>1, SameByOneBit
<1>12. S(10) <=> E(10) /\ S(11)
  <2>1. 10 \in 0..13 /\ 10 + 1 = 11
    OBVIOUS
  <2>2. QED
    BY <2>1, SameByOneBit
<1>13. S(11) <=> E(11) /\ S(12)
  <2>1. 11 \in 0..13 /\ 11 + 1 = 12
    OBVIOUS
  <2>2. QED
    BY <2>1, SameByOneBit
<1>14. S(12) <=> E(12) /\ S(13)
  <2>1. 12 \in 0..13 /\ 12 + 1 = 13
    OBVIOUS
  <2>2. QED
    BY <2>1, SameByOneBit
<1>15. S(13) <=> E(13) /\ S(14)
  <2>1. 13 \in 0..13 /\ 13 + 1 = 14
    OBVIOUS
  <2>2. QED
    BY <2>1, SameByOneBit
<1> HIDE DEF S, E
<1>16. S(j) <=> \A i \in 0..13 : i >= j => E(i)
  <2>0. CASE j = 0
    BY <1>1, <1>2, <1>3, <1>4, <1>5, <1>6, <1>7, <1>8, <1>9, <1>10, <1>11, <1>12, <1>13, <1>14, <1>15, <2>0
  <2>1. CASE j = 1
    BY <1>1, <1>3, <1>4, <1>5, <1>6, <1>7, <1>8, <1>9, <1>10, <1>11, <1>12, <1>13, <1>14, <1>15, <2>1
  <2>2. CASE j = 2
    BY <1>1, <1>4, <1>5, <1>6, <1>7, <1>8, <1>9, <1>10, <1>11, <1>12, <1>13, <1>14, <1>15, <2>2
  <2>3. CASE j = 3
    BY <1>1, <1>5, <1>6, <1>7, <1>8, <1>9, <1>10, <1>11, <1>12, <1>13, <1>14, <1>15, <2>3
  <2>4. CASE j = 4
    BY <1>1, <1>6, <1>7, <1>8, <1>9, <1>10, <1>11, <1>12, <1>13, <1>14, <1>15, <2>4
  <2>5. CASE j = 5
    BY <1>1, <1>7, <1>8, <1>9, <1>10, <1>11, <1>12, <1>13, <1>14, <1>15, <2>5
  <2>6. CASE j = 6
    BY <1>1, <1>8, <1>9, <1>10, <1>11, <1>12, <1>13, <1>14, <1>15, <2>6
  <2>7. CASE j = 7
    BY <1>1, <1>9, <1>10, <1>11, <1>12, <1>13, <1>14, <1>15, <2>7
  <2>8. CASE j = 8
    BY <1>1, <1>10, <1>11, <1>12, <1>13, <1>14, <1>15, <2>8
  <2>9. CASE j = 9
    BY <1>1, <1>11, <1>12, <1>13, <1>14, <1>15, <2>9
  <2>10. CASE j = 10
    BY <1>1, <1>12, <1>13, <1>14, <1>15, <2>10
  <2>11. CASE j = 11
    BY <1>1, <1>13, <1>14, <1>15, <2>11
  <2>12. CASE j = 12
    BY <1>1, <1>14, <1>15, <2>12
  <2>13. CASE j = 13
    BY <1>1, <1>15, <2>13
  <2>14. CASE j = 14
    BY <1>1, <2>14
  <2>15. QED
    BY <2>0, <2>1, <2>2, <2>3, <2>4, <2>5, <2>6, <2>7, <2>8, <2>9, <2>10, <2>11, <2>12, <2>13, <2>14
<1>17. QED
  BY <1>16 DEF S, E

Tops == {0, 7, 8, 9, 10, 11}

(* The bits of a mask, and of a value without operands. *)
LEMMA MaskBits ==
  ASSUME NEW j \in Tops, NEW i \in 0..13
  PROVE  Bit(16384 - Weight[j], i) = IF i >= j THEN 1 ELSE 0
<1>1. CASE j = 0
  BY <1>1, Powers DEF Bit
<1>2. CASE j = 7
  BY <1>2, Powers DEF Bit
<1>3. CASE j = 8
  BY <1>3, Powers DEF Bit
<1>4. CASE j = 9
  BY <1>4, Powers DEF Bit
<1>5. CASE j = 10
  BY <1>5, Powers DEF Bit
<1>6. CASE j = 11
  BY <1>6, Powers DEF Bit
<1>7. QED
  BY <1>1, <1>2, <1>3, <1>4, <1>5, <1>6 DEF Tops

LEMMA LowBits ==
  ASSUME NEW j \in Tops, NEW v \in Words, v % Weight[j] = 0, NEW i \in 0..13, i < j
  PROVE  Bit(v, i) = 0
<1>0. v \in Int
  BY DEF Words
<1>1. CASE j = 0
  BY <1>0, <1>1, Powers DEF Bit
<1>2. CASE j = 7
  BY <1>0, <1>2, Powers DEF Bit
<1>3. CASE j = 8
  BY <1>0, <1>3, Powers DEF Bit
<1>4. CASE j = 9
  BY <1>0, <1>4, Powers DEF Bit
<1>5. CASE j = 10
  BY <1>0, <1>5, Powers DEF Bit
<1>6. CASE j = 11
  BY <1>0, <1>6, Powers DEF Bit
<1>7. QED
  BY <1>1, <1>2, <1>3, <1>4, <1>5, <1>6 DEF Tops

LEMMA EntryMatches ==
  ASSUME NEW w \in Words, NEW e, NEW j \in Tops, e.val \in Words,
         e.mask = 16384 - Weight[j], e.val % Weight[j] = 0
  PROVE  Matches(w, e) <=> SameFrom(w, e.val, j)
<1>0. \A i \in 0..13 : Bit(w, i) \in {0, 1}
  BY WordsAreIntegers, WordBits
<1>1. ASSUME NEW i \in 0..13, i >= j
      PROVE  Bit(w, i) * Bit(e.mask, i) = Bit(e.val, i) <=> Bit(w, i) = Bit(e.val, i)
  <2>1. Bit(e.mask, i) = 1
    BY <1>1, MaskBits
  <2>2. Bit(w, i) \in {0, 1}
    BY <1>0
  <2>3. QED
    BY <2>1, <2>2
<1>2. ASSUME NEW i \in 0..13, ~(i >= j)
      PROVE  Bit(w, i) * Bit(e.mask, i) = Bit(e.val, i)
  <2>1. Bit(e.mask, i) = 0
    BY <1>2, MaskBits
  <2>2. Bit(w, i) \in {0, 1}
    BY <1>0
  <2>3. i < j
    BY <1>2 DEF Tops
  <2>4. Bit(e.val, i) = 0
    BY <2>3, LowBits
  <2>5. QED
    BY <2>1, <2>2, <2>4
<1>3. j \in 0..14
  BY DEF Tops
<1>4. QED
  BY <1>1, <1>2, <1>3, SameIsBits DEF Matches

(* The words of a row are those between its value and its value with every   *)
(* operand bit set. *)
RowTop == <<0, 0, 0, 0, 0, 7, 7, 7, 8, 8, 8, 8, 8, 8, 8, 8, 8, 8, 8, 8, 8, 8,
            10, 10, 10, 10, 11, 11, 10, 10, 8, 8, 8, 9, 9>>
RowSize == <<1, 1, 1, 1, 1, 128, 128, 128, 256, 256, 256, 256, 256, 256, 256, 256, 256,
             256, 256, 256, 256, 256, 1024, 1024, 1024, 1024, 2048, 2048, 1024, 1024,
             256, 256, 256, 512, 512>>

LEMMA RowFacts ==
  \A n \in 1..35 :
    /\ RowTop[n] \in Tops /\ Weight[RowTop[n]] = RowSize[n]
    /\ TABLE[n].val \in Words /\ TABLE[n].val % RowSize[n] = 0
    /\ n # 5 => TABLE[n].mask = 16384 - RowSize[n]
<1>1. \A n \in 1..35 : RowTop[n] \in Tops
  BY DEF RowTop, Tops
<1>2. \A n \in 1..35 : Weight[RowTop[n]] = RowSize[n]
  BY Powers DEF RowTop, RowSize
<1>3. \A n \in 1..35 : TABLE[n].val \in Words
  <2>1. \A n \in 1..35 : TABLE[n].val \in Int
    BY DEF TABLE, Entry
  <2>2. \A n \in 1..35 : TABLE[n].val >= 0
    BY DEF TABLE, Entry
  <2>3. \A n \in 1..35 : TABLE[n].val <= 16383
    BY DEF TABLE, Entry
  <2>4. ASSUME NEW n \in 1..35 PROVE TABLE[n].val \in Words
    <3> DEFINE v == TABLE[n].val
    <3>1. v \in Int /\ v >= 0 /\ v <= 16383
      BY <2>1, <2>2, <2>3
    <3>2. QED
      BY <3>1, WordRange
  <2>5. QED
    BY <2>4
<1>4. \A n \in 1..35 : TABLE[n].val % RowSize[n] = 0
  BY DEF TABLE, Entry, RowSize
<1>5. \A n \in 1..35 : n # 5 => TABLE[n].mask = 16384 - RowSize[n]
  BY DEF TABLE, Entry, RowSize
<1>6. QED
  BY <1>1, <1>2, <1>3, <1>4, <1>5

LEMMA RowMatches ==
  ASSUME NEW w \in Words, NEW n \in 1..35, n # 5
  PROVE  Matches(w, TABLE[n]) <=> TABLE[n].val <= w /\ w < TABLE[n].val + RowSize[n]
<1> DEFINE v == TABLE[n].val
           j == RowTop[n]
           size == RowSize[n]
<1>1. j \in Tops /\ Weight[j] = size /\ v \in Words /\ v % size = 0
      /\ TABLE[n].mask = 16384 - size
  BY RowFacts
<1>2. Matches(w, TABLE[n]) <=> SameFrom(w, v, j)
  <2> HIDE DEF j
  <2>1. TABLE[n].mask = 16384 - Weight[j] /\ TABLE[n].val % Weight[j] = 0
    BY <1>1
  <2>2. QED
    BY <1>1, <2>1, EntryMatches
<1> HIDE DEF v, j, size
<1>3. size \in {1, 128, 256, 512, 1024, 2048} /\ w \in Int /\ v \in Int
  BY <1>1, Powers DEF Tops, Words
<1>4. w \div size = v \div size <=> v <= w /\ w < v + size
  BY <1>1, <1>3
<1>5. SameFrom(w, v, j) <=> w \div size = v \div size
  BY <1>1 DEF SameFrom
<1>6. QED
  BY <1>2, <1>4, <1>5 DEF v, size

LEMMA RowsAreApart ==
  ASSUME NEW w \in Words, NEW n \in 1..35 \ {5}, NEW o \in 1..35 \ {5},
         TABLE[n].val <= w, w < TABLE[n].val + RowSize[n],
         TABLE[o].val <= w, w < TABLE[o].val + RowSize[o]
  PROVE  n = o
BY DEF RowSize, TABLE, Entry, Words

LEMMA NopMatches ==
  ASSUME NEW w \in Words
  PROVE  Matches(w, TABLE[5]) <=> w \in {0, 32, 64, 96}
<1> DEFINE mask == TABLE[5].mask
           val == TABLE[5].val
<1>1. mask = 16287 /\ val = 0
  BY DEF TABLE, Entry
<1>2. \A i \in 0..13 : Bit(mask, i) = IF i \in {5, 6} THEN 0 ELSE 1
  BY <1>1, Powers DEF Bit
<1>3. \A i \in 0..13 : Bit(val, i) = 0
  BY <1>1, Powers DEF Bit
<1> HIDE DEF mask, val
<1>4. \A i \in 0..13 : Bit(w, i) \in {0, 1}
  BY WordsAreIntegers, WordBits
<1>5. Matches(w, TABLE[5]) <=> \A i \in 0..13 : i \notin {5, 6} => Bit(w, i) = 0
  <2>1. Matches(w, TABLE[5]) <=> \A i \in 0..13 : Bit(w, i) * Bit(mask, i) = Bit(val, i)
    BY DEF Matches, mask, val
  <2>2. \A i \in 0..13 : Bit(w, i) * Bit(mask, i) = Bit(val, i) <=> (i \notin {5, 6} => Bit(w, i) = 0)
    BY <1>2, <1>3, <1>4
  <2>3. QED
    BY <2>1, <2>2
<1>6. ASSUME \A i \in 0..13 : i \notin {5, 6} => Bit(w, i) = 0
      PROVE  w \in {0, 32, 64, 96}
  <2>1. 0 \in Words
    BY WordRange
  <2>2. \A i \in 0..13 : Bit(0, i) = 0
    BY Powers DEF Bit
  <2>3. \A i \in 0..13 : i >= 7 => Bit(w, i) = Bit(0, i)
    BY <1>6, <2>2
  <2>4. SameFrom(w, 0, 7)
    <3>1. 7 \in 0..14
      OBVIOUS
    <3>2. QED
      BY <2>1, <2>3, <3>1, SameIsBits
  <2>5. w \div 128 = 0 /\ w \in Int
    BY <2>4, Powers DEF SameFrom, Words
  <2>6. Bit(w, 0) = 0 /\ Bit(w, 1) = 0 /\ Bit(w, 2) = 0 /\ Bit(w, 3) = 0 /\ Bit(w, 4) = 0
    BY <1>6
  <2>7. /\ w % 2 = 0 /\ (w \div 2) % 2 = 0 /\ (w \div 4) % 2 = 0 /\ (w \div 8) % 2 = 0
        /\ (w \div 16) % 2 = 0
    BY <2>5, <2>6, Powers DEF Bit
  <2>8. QED
    BY <2>5, <2>7
<1>7. ASSUME w \in {0, 32, 64, 96}
      PROVE  \A i \in 0..13 : i \notin {5, 6} => Bit(w, i) = 0
  BY <1>7, Powers DEF Bit
<1>8. QED
  BY <1>5, <1>6, <1>7

(* No word matches two rows. *)
LEMMA OneRowForAWord ==
  ASSUME NEW w \in Words, NEW n \in Rows(w), NEW o \in Rows(w)
  PROVE  n = o
<1>1. n \in 1..35 /\ o \in 1..35 /\ Matches(w, TABLE[n]) /\ Matches(w, TABLE[o])
  BY DEF Rows, TABLE
<1>2. CASE n # 5 /\ o # 5
  BY <1>1, <1>2, RowMatches, RowsAreApart
<1>3. \A m \in 1..35 \ {5} : \A x \in {0, 32, 64, 96} :
        ~(TABLE[m].val <= x /\ x < TABLE[m].val + RowSize[m])
  BY DEF RowSize, TABLE, Entry
<1>4. \A m \in 1..35 \ {5} : Matches(w, TABLE[m]) => ~Matches(w, TABLE[5])
  BY <1>3, NopMatches, RowMatches, SMTT(30)
<1>5. QED
  BY <1>1, <1>2, <1>4

(***************************************************************************)
(* The two tables.                                                          *)
(***************************************************************************)
Blank == ""

(* What a row must be for a mnemonic whose operands are of type t. *)
Agrees(t, fmt, size) ==
  \/ t = Blank /\ fmt = "NoArg"
  \/ t = "fd" /\ fmt = "ByteFd" /\ size = 256
  \/ t = "f"  /\ fmt = "FileF"  /\ size = 128
  \/ t = "fb" /\ fmt = "Bit"    /\ size = 1024
  \/ t = "k"  /\ fmt = "Lit8"   /\ size \in {256, 512, 1024}
  \/ t = "a"  /\ fmt = "Addr11" /\ size = 2048

LEMMA BlankIsNoType == Blank \notin {"fd", "f", "fb", "k", "a"}
BY Zenon DEF Blank

LEMMA OperandTypes ==
  \A t, fmt, size : Agrees(t, fmt, size) =>
    t = Blank \/ t = "fd" \/ t = "f" \/ t = "fb" \/ t = "k" \/ t = "a"
BY SMTT(30) DEF Agrees

LEMMA RowsHaveMnemonics ==
  \A n \in 1..35 : /\ TABLE[n].m \in DOMAIN OPS
                   /\ OPS[TABLE[n].m].b = TABLE[n].val
                   /\ Agrees(OPS[TABLE[n].m].t, TABLE[n].fmt, RowSize[n])
<1> DEFINE Right(n) == /\ OPS[TABLE[n].m].b = TABLE[n].val
                       /\ Agrees(OPS[TABLE[n].m].t, TABLE[n].fmt, RowSize[n])
<1>1. \A n \in 1..35 : TABLE[n].m \in DOMAIN OPS
  BY DEF TABLE, Entry, OPS
<1>2. \A n \in 1..5 : Right(n)
  <2>1. /\ OPS["RETURN"] = Op(\h0008, Blank) /\ OPS["RETFIE"] = Op(\h0009, Blank)
        /\ OPS["SLEEP"] = Op(\h0063, Blank) /\ OPS["CLRWDT"] = Op(\h0064, Blank)
        /\ OPS["NOP"] = Op(\h0000, Blank)
    BY DEF OPS, Blank
  <2>2. /\ TABLE[1] = Entry(\h3FFF, \h0008, "RETURN", "NoArg")
        /\ TABLE[2] = Entry(\h3FFF, \h0009, "RETFIE", "NoArg")
        /\ TABLE[3] = Entry(\h3FFF, \h0063, "SLEEP", "NoArg")
        /\ TABLE[4] = Entry(\h3FFF, \h0064, "CLRWDT", "NoArg")
        /\ TABLE[5] = Entry(\h3F9F, \h0000, "NOP", "NoArg")
    BY DEF TABLE
  <2>3. /\ RowSize[1] = 1 /\ RowSize[2] = 1 /\ RowSize[3] = 1 /\ RowSize[4] = 1
        /\ RowSize[5] = 1
    BY DEF RowSize
  <2>4. /\ Right(1) /\ Right(2) /\ Right(3) /\ Right(4)
        /\ Right(5)
    BY <2>1, <2>2, <2>3 DEF Op, Entry, Agrees
  <2>5. QED
    BY <2>4
<1>3. \A n \in 6..8 : Right(n)
  <2>1. /\ OPS["CLRW"] = Op(\h0100, Blank) /\ OPS["MOVWF"] = Op(\h0080, "f")
        /\ OPS["CLRF"] = Op(\h0180, "f")
    BY DEF OPS, Blank
  <2>2. /\ TABLE[6] = Entry(\h3F80, \h0100, "CLRW", "NoArg")
        /\ TABLE[7] = Entry(\h3F80, \h0080, "MOVWF", "FileF")
        /\ TABLE[8] = Entry(\h3F80, \h0180, "CLRF", "FileF")
    BY DEF TABLE
  <2>3. /\ RowSize[6] = 128 /\ RowSize[7] = 128 /\ RowSize[8] = 128
    BY DEF RowSize
  <2>4. /\ Right(6) /\ Right(7) /\ Right(8)
    BY <2>1, <2>2, <2>3 DEF Op, Entry, Agrees
  <2>5. QED
    BY <2>4
<1>4. \A n \in 9..15 : Right(n)
  <2>1. /\ OPS["ADDWF"] = Op(\h0700, "fd") /\ OPS["ANDWF"] = Op(\h0500, "fd")
        /\ OPS["COMF"] = Op(\h0900, "fd") /\ OPS["DECF"] = Op(\h0300, "fd")
        /\ OPS["DECFSZ"] = Op(\h0B00, "fd") /\ OPS["INCF"] = Op(\h0A00, "fd")
        /\ OPS["INCFSZ"] = Op(\h0F00, "fd")
    BY DEF OPS
  <2>2. /\ TABLE[9] = Entry(\h3F00, \h0700, "ADDWF", "ByteFd")
        /\ TABLE[10] = Entry(\h3F00, \h0500, "ANDWF", "ByteFd")
        /\ TABLE[11] = Entry(\h3F00, \h0900, "COMF", "ByteFd")
        /\ TABLE[12] = Entry(\h3F00, \h0300, "DECF", "ByteFd")
        /\ TABLE[13] = Entry(\h3F00, \h0B00, "DECFSZ", "ByteFd")
        /\ TABLE[14] = Entry(\h3F00, \h0A00, "INCF", "ByteFd")
        /\ TABLE[15] = Entry(\h3F00, \h0F00, "INCFSZ", "ByteFd")
    BY DEF TABLE
  <2>3. /\ RowSize[9] = 256 /\ RowSize[10] = 256 /\ RowSize[11] = 256 /\ RowSize[12] = 256
        /\ RowSize[13] = 256 /\ RowSize[14] = 256 /\ RowSize[15] = 256
    BY DEF RowSize
  <2>4. /\ Right(9) /\ Right(10) /\ Right(11) /\ Right(12)
        /\ Right(13) /\ Right(14) /\ Right(15)
    BY <2>1, <2>2, <2>3 DEF Op, Entry, Agrees
  <2>5. QED
    BY <2>4
<1>5. \A n \in 16..22 : Right(n)
  <2>1. /\ OPS["IORWF"] = Op(\h0400, "fd") /\ OPS["MOVF"] = Op(\h0800, "fd")
        /\ OPS["RLF"] = Op(\h0D00, "fd") /\ OPS["RRF"] = Op(\h0C00, "fd")
        /\ OPS["SUBWF"] = Op(\h0200, "fd") /\ OPS["SWAPF"] = Op(\h0E00, "fd")
        /\ OPS["XORWF"] = Op(\h0600, "fd")
    BY DEF OPS
  <2>2. /\ TABLE[16] = Entry(\h3F00, \h0400, "IORWF", "ByteFd")
        /\ TABLE[17] = Entry(\h3F00, \h0800, "MOVF", "ByteFd")
        /\ TABLE[18] = Entry(\h3F00, \h0D00, "RLF", "ByteFd")
        /\ TABLE[19] = Entry(\h3F00, \h0C00, "RRF", "ByteFd")
        /\ TABLE[20] = Entry(\h3F00, \h0200, "SUBWF", "ByteFd")
        /\ TABLE[21] = Entry(\h3F00, \h0E00, "SWAPF", "ByteFd")
        /\ TABLE[22] = Entry(\h3F00, \h0600, "XORWF", "ByteFd")
    BY DEF TABLE
  <2>3. /\ RowSize[16] = 256 /\ RowSize[17] = 256 /\ RowSize[18] = 256 /\ RowSize[19] = 256
        /\ RowSize[20] = 256 /\ RowSize[21] = 256 /\ RowSize[22] = 256
    BY DEF RowSize
  <2>4. /\ Right(16) /\ Right(17) /\ Right(18) /\ Right(19)
        /\ Right(20) /\ Right(21) /\ Right(22)
    BY <2>1, <2>2, <2>3 DEF Op, Entry, Agrees
  <2>5. QED
    BY <2>4
<1>6. \A n \in 23..28 : Right(n)
  <2>1. /\ OPS["BCF"] = Op(\h1000, "fb") /\ OPS["BSF"] = Op(\h1400, "fb")
        /\ OPS["BTFSC"] = Op(\h1800, "fb") /\ OPS["BTFSS"] = Op(\h1C00, "fb")
        /\ OPS["CALL"] = Op(\h2000, "a") /\ OPS["GOTO"] = Op(\h2800, "a")
    BY DEF OPS
  <2>2. /\ TABLE[23] = Entry(\h3C00, \h1000, "BCF", "Bit")
        /\ TABLE[24] = Entry(\h3C00, \h1400, "BSF", "Bit")
        /\ TABLE[25] = Entry(\h3C00, \h1800, "BTFSC", "Bit")
        /\ TABLE[26] = Entry(\h3C00, \h1C00, "BTFSS", "Bit")
        /\ TABLE[27] = Entry(\h3800, \h2000, "CALL", "Addr11")
        /\ TABLE[28] = Entry(\h3800, \h2800, "GOTO", "Addr11")
    BY DEF TABLE
  <2>3. /\ RowSize[23] = 1024 /\ RowSize[24] = 1024 /\ RowSize[25] = 1024 /\ RowSize[26] = 1024
        /\ RowSize[27] = 2048 /\ RowSize[28] = 2048
    BY DEF RowSize
  <2>4. /\ Right(23) /\ Right(24) /\ Right(25) /\ Right(26)
        /\ Right(27) /\ Right(28)
    BY <2>1, <2>2, <2>3 DEF Op, Entry, Agrees
  <2>5. QED
    BY <2>4
<1>7. \A n \in 29..35 : Right(n)
  <2>1. /\ OPS["MOVLW"] = Op(\h3000, "k") /\ OPS["RETLW"] = Op(\h3400, "k")
        /\ OPS["IORLW"] = Op(\h3800, "k") /\ OPS["ANDLW"] = Op(\h3900, "k")
        /\ OPS["XORLW"] = Op(\h3A00, "k") /\ OPS["SUBLW"] = Op(\h3C00, "k")
        /\ OPS["ADDLW"] = Op(\h3E00, "k")
    BY DEF OPS
  <2>2. /\ TABLE[29] = Entry(\h3C00, \h3000, "MOVLW", "Lit8")
        /\ TABLE[30] = Entry(\h3C00, \h3400, "RETLW", "Lit8")
        /\ TABLE[31] = Entry(\h3F00, \h3800, "IORLW", "Lit8")
        /\ TABLE[32] = Entry(\h3F00, \h3900, "ANDLW", "Lit8")
        /\ TABLE[33] = Entry(\h3F00, \h3A00, "XORLW", "Lit8")
        /\ TABLE[34] = Entry(\h3E00, \h3C00, "SUBLW", "Lit8")
        /\ TABLE[35] = Entry(\h3E00, \h3E00, "ADDLW", "Lit8")
    BY DEF TABLE
  <2>3. /\ RowSize[29] = 1024 /\ RowSize[30] = 1024 /\ RowSize[31] = 256 /\ RowSize[32] = 256
        /\ RowSize[33] = 256 /\ RowSize[34] = 512 /\ RowSize[35] = 512
    BY DEF RowSize
  <2>4. /\ Right(29) /\ Right(30) /\ Right(31) /\ Right(32)
        /\ Right(33) /\ Right(34) /\ Right(35)
    BY <2>1, <2>2, <2>3 DEF Op, Entry, Agrees
  <2>5. QED
    BY <2>4
<1> HIDE DEF Right
<1>8. \A n \in 1..35 : Right(n)
  BY <1>2, <1>3, <1>4, <1>5, <1>6, <1>7
<1>9. QED
  BY <1>1, <1>8 DEF Right

LEMMA MnemonicsHaveRows ==
  \A m \in DOMAIN OPS : \E n \in 1..35 : TABLE[n].m = m
BY SMTT(30) DEF TABLE, Entry, OPS

(***************************************************************************)
(* A statement and its word.                                                *)
(***************************************************************************)
(* A statement as the parser leaves it: operands that its mnemonic takes,   *)
(* and nothing in the fields of the others. *)
WellFormed(s) ==
  /\ s.m \in DOMAIN OPS
  /\ s.f \in Int /\ s.d \in BOOLEAN /\ s.bit \in Int /\ s.k \in Int
  /\ OPS[s.m].t = Blank => s.f = 0 /\ s.d = FALSE /\ s.bit = 0 /\ s.k = 0
  /\ OPS[s.m].t = "fd"  => s.bit = 0 /\ s.k = 0
  /\ OPS[s.m].t = "f"   => s.d = TRUE /\ s.bit = 0 /\ s.k = 0
  /\ OPS[s.m].t = "fb"  => s.d = FALSE /\ s.k = 0
  /\ OPS[s.m].t = "k"   => s.f = 0 /\ s.d = FALSE /\ s.bit = 0
  /\ OPS[s.m].t = "a"   => s.f = 0 /\ s.d = FALSE /\ s.bit = 0

(* The operand fields of a word, the row's own bits aside. *)
Operand(s) ==
  CASE OPS[s.m].t = "fd" -> 128 * AsBit(s.d) + (s.f % 128)
    [] OPS[s.m].t = "f"  -> s.f % 128
    [] OPS[s.m].t = "fb" -> 128 * s.bit + (s.f % 128)
    [] OPS[s.m].t = "k"  -> s.k % 256
    [] OPS[s.m].t = "a"  -> s.k
    [] OTHER -> 0

AddressRange == 0..2047

LEMMA OperandFits ==
  ASSUME NEW s, NEW n \in 1..35, TABLE[n].m = s.m, WellFormed(s), Accepted(s)
  PROVE  /\ Encode(s) = TABLE[n].val + Operand(s)
         /\ Operand(s) \in Int /\ 0 <= Operand(s) /\ Operand(s) < RowSize[n]
<1> DEFINE t == OPS[s.m].t
           b == OPS[s.m].b
<1>1. b = TABLE[n].val /\ Agrees(t, TABLE[n].fmt, RowSize[n])
  BY RowsHaveMnemonics
<1>2. /\ t \in {"fd", "f", "fb"} => s.f \in 0..511
      /\ t = "fb" => s.bit \in 0..7
      /\ t = "k" => s.k \in -128..255
      /\ t = "a" => s.k \in AddressRange
  BY DEF Accepted, AddressRange
<1>3. s.f \in Int /\ s.d \in BOOLEAN /\ s.bit \in Int /\ s.k \in Int
  BY DEF WellFormed
<1>4. AsBit(s.d) \in {0, 1}
  BY DEF AsBit
<1>5. TABLE[n].val \in Int /\ RowSize[n] \in Int /\ RowSize[n] >= 1
  <2>1. TABLE[n].val \in Int
    <3>1. TABLE[n].val \in Words
      BY RowFacts
    <3>2. QED
      BY <3>1, WordsAreIntegers
  <2>2. RowSize[n] \in Int /\ RowSize[n] >= 1
    BY DEF RowSize
  <2>3. QED
    BY <2>1, <2>2
<1>6. CASE t = Blank
  <2>1. Operand(s) = 0
    BY <1>6 DEF Operand, Blank
  <2>2. Encode(s) = b
    BY <1>6 DEF Encode, Blank
  <2>3. QED
    BY <1>1, <1>5, <2>1, <2>2
<1>7. CASE t = "fd"
  <2>1. Operand(s) = 128 * AsBit(s.d) + (s.f % 128)
    BY <1>7 DEF Operand
  <2>2. Encode(s) = b + 128 * AsBit(s.d) + (s.f % 128)
    BY <1>7 DEF Encode, LowSeven
  <2>3. RowSize[n] = 256
    BY <1>1, <1>7 DEF Agrees, Blank
  <2>4. s.f % 128 \in 0..127
    BY <1>3
  <2> DEFINE c == AsBit(s.d)
             l == s.f % 128
  <2> HIDE DEF c, l
  <2>5. Operand(s) = 128 * c + l /\ Encode(s) = b + 128 * c + l
    BY <2>1, <2>2 DEF c, l
  <2>6. c \in {0, 1} /\ l \in 0..127
    BY <1>4, <2>4 DEF c, l
  <2>7. QED
    BY <1>1, <1>5, <2>3, <2>5, <2>6
<1>8. CASE t = "f"
  <2>1. Operand(s) = s.f % 128
    BY <1>8 DEF Operand
  <2>2. Encode(s) = b + (s.f % 128)
    BY <1>8 DEF Encode, LowSeven
  <2>3. RowSize[n] = 128
    BY <1>1, <1>8 DEF Agrees, Blank
  <2>4. s.f % 128 \in 0..127
    BY <1>3
  <2>5. QED
    BY <1>1, <1>5, <2>1, <2>2, <2>3, <2>4
<1>9. CASE t = "fb"
  <2>1. Operand(s) = 128 * s.bit + (s.f % 128)
    BY <1>9 DEF Operand
  <2>2. Encode(s) = b + 128 * s.bit + (s.f % 128)
    BY <1>9 DEF Encode, LowSeven
  <2>3. RowSize[n] = 1024
    BY <1>1, <1>9 DEF Agrees, Blank
  <2>4. s.f % 128 \in 0..127 /\ s.bit \in 0..7
    BY <1>2, <1>3, <1>9
  <2> DEFINE l == s.f % 128
  <2> HIDE DEF l
  <2>5. Operand(s) = 128 * s.bit + l /\ Encode(s) = b + 128 * s.bit + l
    BY <2>1, <2>2 DEF l
  <2>6. l \in 0..127
    BY <2>4 DEF l
  <2>7. QED
    BY <1>1, <1>5, <2>3, <2>4, <2>5, <2>6, SMTT(30)
<1>10. CASE t = "k"
  <2>1. Operand(s) = s.k % 256
    BY <1>10 DEF Operand
  <2>2. Encode(s) = b + (s.k % 256)
    BY <1>10 DEF Encode
  <2>3. RowSize[n] \in {256, 512, 1024}
    BY <1>1, <1>10 DEF Agrees, Blank
  <2>4. s.k % 256 \in 0..255
    BY <1>3
  <2>5. QED
    BY <1>1, <1>5, <2>1, <2>2, <2>3, <2>4
<1>11. CASE t = "a"
  <2>1. Operand(s) = s.k
    BY <1>11 DEF Operand
  <2>2. Encode(s) = b + s.k
    BY <1>11 DEF Encode
  <2>3. RowSize[n] = 2048
    BY <1>1, <1>11 DEF Agrees, Blank
  <2>4. s.k \in Int /\ 0 <= s.k /\ s.k <= 2047
    <3>1. s.k \in AddressRange
      BY <1>2, <1>11
    <3>2. \A i \in Int : i \in AddressRange => 0 <= i /\ i <= 2047
      BY SMTT(60) DEF AddressRange
    <3>3. s.k \in Int
      BY <1>3
    <3>4. QED
      BY <3>1, <3>2, <3>3, SMT
  <2>5. QED
    BY <1>1, <1>5, <2>1, <2>2, <2>3, <2>4
<1>12. t = Blank \/ t = "fd" \/ t = "f" \/ t = "fb" \/ t = "k" \/ t = "a"
  BY <1>1, OperandTypes, Zenon
<1> HIDE DEF t
<1>13. QED
  BY <1>6, <1>7, <1>8, <1>9, <1>10, <1>11, <1>12, Zenon

(* The word of an accepted statement matches the row of its mnemonic, and no *)
(* other. *)
LEMMA EncodedIsItsRow ==
  ASSUME NEW s, NEW n \in 1..35, TABLE[n].m = s.m, WellFormed(s), Accepted(s)
  PROVE  Encode(s) \in Words /\ Rows(Encode(s)) = {n}
<1> DEFINE v == TABLE[n].val
           size == RowSize[n]
           x == Operand(s)
           w == Encode(s)
<1>1. w = v + x /\ x \in Int /\ 0 <= x /\ x < size
  BY OperandFits
<1>2. v \in Words /\ v % size = 0 /\ size \in {1, 128, 256, 512, 1024, 2048}
  <2>1. v \in Words /\ v % size = 0
    BY RowFacts
  <2>2. size \in {1, 128, 256, 512, 1024, 2048}
    BY DEF RowSize
  <2>3. QED
    BY <2>1, <2>2
<1>3. n = 5 => v = 0 /\ size = 1
  BY DEF TABLE, Entry, RowSize
<1> HIDE DEF v, size, x, w
<1>4. v \in Int /\ 0 <= v /\ v <= 16383
  BY <1>2 DEF Words
<1>5. v + size <= 16384
  BY <1>2, <1>4
<1>6. w \in Int /\ v <= w /\ w < v + size /\ w >= 0 /\ w <= 16383
  BY <1>1, <1>2, <1>4, <1>5
<1>7. w \in Words
  BY <1>6, WordRange
<1>8. Matches(w, TABLE[n])
  <2>1. CASE n = 5
    <3>1. w = 0
      BY <1>3, <1>6, <2>1
    <3>2. QED
      BY <1>7, <2>1, <3>1, NopMatches
  <2>2. CASE n # 5
    BY <1>6, <1>7, <2>2, RowMatches DEF v, size
  <2>3. QED
    BY <2>1, <2>2
<1>9. n \in Rows(w)
  BY <1>8 DEF Rows, TABLE
<1>10. Rows(w) = {n}
  <2>1. \A o \in Rows(w) : n = o
    BY <1>7, <1>9, OneRowForAWord
  <2>2. QED
    BY <1>9, <2>1
<1>11. QED
  BY <1>7, <1>10 DEF w

LEMMA MeaningIsTyped ==
  ASSUME NEW s, WellFormed(s)
  PROVE  /\ s.m \in DOMAIN OPS
         /\ \E n \in 1..35 : TABLE[n].m = s.m
BY MnemonicsHaveRows, Zenon DEF WellFormed

(* The fields decode.rs reads are the operands asm.js wrote. *)
LEMMA FieldsAreOperands ==
  ASSUME NEW s, NEW n \in 1..35, TABLE[n].m = s.m, WellFormed(s), Accepted(s)
  PROVE  Fields(Encode(s), s.m, TABLE[n].fmt) = Meaning(s)
<1> DEFINE t == OPS[s.m].t
           v == TABLE[n].val
           size == RowSize[n]
           fmt == TABLE[n].fmt
           x == Operand(s)
           w == Encode(s)
<1>1. w = v + x /\ x \in Int /\ 0 <= x /\ x < size
  BY OperandFits
<1>2. v \in Words /\ v % size = 0
  BY RowFacts
<1>3. Agrees(t, fmt, size)
  BY RowsHaveMnemonics
<1>4. /\ t \in {"fd", "f", "fb"} => s.f \in 0..511
      /\ t = "fb" => s.bit \in 0..7
      /\ t = "k" => s.k \in -128..255
  BY DEF Accepted
<1>5. s.f \in Int /\ s.d \in BOOLEAN /\ s.bit \in Int /\ s.k \in Int
  BY DEF WellFormed
<1>6. \A y \in Words : y \in Int
  BY WordsAreIntegers
<1> HIDE DEF v, size, x, w, fmt
<1>7. v \in Int
  BY <1>2, <1>6
<1>8. CASE t = Blank
  <2>1. fmt = "NoArg"
    BY <1>3, <1>8, BlankIsNoType DEF Agrees
  <2>2. Fields(w, s.m, fmt) = Instruction(s.m, 0, FALSE, 0, 0)
    BY <2>1 DEF Fields
  <2>3. s.f = 0 /\ s.d = FALSE /\ s.bit = 0 /\ s.k = 0
    BY <1>8 DEF WellFormed
  <2>4. Meaning(s) = Instruction(s.m, 0 % 128, FALSE, 0, 0)
    BY <1>8, <2>3 DEF Meaning, Blank
  <2>5. 0 % 128 = 0
    OBVIOUS
  <2>6. QED
    BY <2>2, <2>4, <2>5 DEF w, fmt
<1>9. CASE t = "fd"
  <2>1. fmt = "ByteFd" /\ size = 256
    BY <1>3, <1>9 DEF Agrees, Blank
  <2>2. Fields(w, s.m, fmt) = Instruction(s.m, w % 128, Bit(w, 7) = 1, 0, 0)
    BY <2>1 DEF Fields
  <2> DEFINE c == AsBit(s.d)
             l == s.f % 128
  <2>3. x = 128 * c + l
    BY <1>9 DEF x, Operand
  <2>4. l \in 0..127
    BY <1>5
  <2>5. c \in {0, 1} /\ (c = 1 <=> s.d = TRUE)
    BY <1>5 DEF AsBit
  <2>6. s.bit = 0 /\ s.k = 0
    BY <1>9 DEF WellFormed
  <2>7. Meaning(s) = Instruction(s.m, l, s.d, 0, 0)
    BY <1>9, <2>6 DEF Meaning
  <2> HIDE DEF c, l
  <2>8. w % 128 = l /\ (w \div 128) % 2 = c
    BY <1>1, <1>2, <1>7, <2>1, <2>3, <2>4, <2>5
  <2>9. (Bit(w, 7) = 1) = s.d
    <3>1. Bit(w, 7) = c
      BY <2>8, Powers DEF Bit
    <3>2. QED
      BY <1>5, <2>5, <3>1
  <2>10. QED
    BY <2>2, <2>7, <2>8, <2>9 DEF w, fmt
<1>10. CASE t = "f"
  <2>1. fmt = "FileF" /\ size = 128
    BY <1>3, <1>10 DEF Agrees, Blank
  <2>2. Fields(w, s.m, fmt) = Instruction(s.m, w % 128, TRUE, 0, 0)
    BY <2>1 DEF Fields
  <2> DEFINE l == s.f % 128
  <2>3. x = l
    BY <1>10 DEF x, Operand
  <2>4. l \in 0..127
    BY <1>5
  <2>5. s.d = TRUE /\ s.bit = 0 /\ s.k = 0
    BY <1>10 DEF WellFormed
  <2>6. Meaning(s) = Instruction(s.m, l, TRUE, 0, 0)
    BY <1>10, <2>5 DEF Meaning
  <2> HIDE DEF l
  <2>7. w % 128 = l
    BY <1>1, <1>2, <1>7, <2>1, <2>3, <2>4
  <2>8. QED
    BY <2>2, <2>6, <2>7 DEF w, fmt
<1>11. CASE t = "fb"
  <2>1. fmt = "Bit" /\ size = 1024
    BY <1>3, <1>11 DEF Agrees, Blank
  <2>2. Fields(w, s.m, fmt) = Instruction(s.m, w % 128, FALSE, (w \div 128) % 8, 0)
    BY <2>1 DEF Fields
  <2> DEFINE b == s.bit
             l == s.f % 128
  <2>3. x = 128 * b + l
    BY <1>11 DEF x, Operand
  <2>4. l \in 0..127
    BY <1>5
  <2>5. b \in 0..7
    BY <1>4, <1>11
  <2>6. s.d = FALSE /\ s.k = 0
    BY <1>11 DEF WellFormed
  <2>7. Meaning(s) = Instruction(s.m, l, FALSE, b, 0)
    BY <1>11, <2>6 DEF Meaning
  <2> HIDE DEF b, l
  <2>8. w % 128 = l /\ (w \div 128) % 8 = b
    BY <1>1, <1>2, <1>7, <2>1, <2>3, <2>4, <2>5
  <2>9. QED
    BY <2>2, <2>7, <2>8 DEF w, fmt
<1>12. CASE t = "k"
  <2>1. fmt = "Lit8" /\ size \in {256, 512, 1024}
    BY <1>3, <1>12 DEF Agrees, Blank
  <2>2. Fields(w, s.m, fmt) = Instruction(s.m, 0, FALSE, 0, w % 256)
    BY <2>1 DEF Fields
  <2> DEFINE l == s.k % 256
  <2>3. x = l
    BY <1>12 DEF x, Operand
  <2>4. l \in 0..255
    BY <1>5
  <2>5. s.f = 0 /\ s.d = FALSE /\ s.bit = 0
    BY <1>12 DEF WellFormed
  <2>6. Meaning(s) = Instruction(s.m, 0 % 128, FALSE, 0, l)
    BY <1>12, <2>5 DEF Meaning
  <2>7. 0 % 128 = 0
    OBVIOUS
  <2> HIDE DEF l
  <2>8. w % 256 = l
    <3>1. v % 256 = 0
      <4>1. CASE size = 256
        BY <1>2, <4>1
      <4>2. CASE size = 512
        BY <1>2, <1>7, <4>2
      <4>3. CASE size = 1024
        BY <1>2, <1>7, <4>3
      <4>4. QED
        BY <2>1, <4>1, <4>2, <4>3
    <3>2. w = v + l
      BY <1>1, <2>3
    <3>3. QED
      BY <1>7, <2>4, <3>1, <3>2
  <2>9. QED
    BY <2>2, <2>6, <2>7, <2>8 DEF w, fmt
<1>13. CASE t = "a"
  <2>1. fmt = "Addr11" /\ size = 2048
    BY <1>3, <1>13 DEF Agrees, Blank
  <2> DEFINE y == w % 2048
             l == s.k
  <2>2. Fields(w, s.m, fmt) = Instruction(s.m, 0, FALSE, 0, y)
    BY <2>1 DEF Fields
  <2>3. x = l
    BY <1>13 DEF x, Operand
  <2>4. s.f = 0 /\ s.d = FALSE /\ s.bit = 0
    BY <1>13 DEF WellFormed
  <2>5. Meaning(s) = Instruction(s.m, 0 % 128, FALSE, 0, l)
    BY <1>13, <2>4 DEF Meaning
  <2>6. 0 % 128 = 0
    OBVIOUS
  <2> HIDE DEF l
  <2>7. w % 2048 = l
    BY <1>1, <1>2, <1>7, <2>1, <2>3
  <2>8. y = l
    BY <2>7
  <2> HIDE DEF y
  <2>9. Fields(w, s.m, fmt) = Instruction(s.m, 0, FALSE, 0, l)
    BY <2>2, <2>8
  <2>10. Meaning(s) = Instruction(s.m, 0, FALSE, 0, l)
    BY <2>5, <2>6, SMT
  <2>11. QED
    BY <2>9, <2>10 DEF w, fmt
<1>14. t = Blank \/ t = "fd" \/ t = "f" \/ t = "fb" \/ t = "k" \/ t = "a"
  BY <1>3, OperandTypes, Zenon
<1>15. QED
  BY <1>8, <1>9, <1>10, <1>11, <1>12, <1>13, <1>14, ZenonT(40) DEF w, fmt

(* A statement that asm.js accepts is decoded to what it means. *)
LEMMA EncodedIsDecoded ==
  ASSUME NEW s, WellFormed(s), Accepted(s)
  PROVE  Encode(s) \in Words /\ Decode(Encode(s)) = Meaning(s)
<1>1. PICK n \in 1..35 : TABLE[n].m = s.m
  BY MeaningIsTyped
<1> DEFINE w == Encode(s)
<1>2. w \in Words /\ Rows(w) = {n}
  BY <1>1, EncodedIsItsRow
<1>3. Fields(w, TABLE[n].m, TABLE[n].fmt) = Meaning(s)
  BY <1>1, FieldsAreOperands
<1> HIDE DEF w
<1>4. (CHOOSE i \in Rows(w) : \A o \in Rows(w) : i <= o) = n
  BY <1>2
<1>5. Decode(w) = Fields(w, TABLE[n].m, TABLE[n].fmt)
  BY <1>2, <1>4 DEF Decode
<1>6. QED
  BY <1>2, <1>3, <1>5 DEF w

(***************************************************************************)
(* From the source to the core.                                             *)
(***************************************************************************)
(* A decoded instruction, as it is typed into the editor again. *)
Listing(i) == [m |-> i.m, f |-> i.f, d |-> i.destF, bit |-> i.bit, k |-> i.k]

(* The statement of a program, and the listing of a word, wherever they are. *)
ToolchainInv ==
  /\ word \in Words
  /\ stmt = NoStmt \/ WellFormed(stmt)
  /\ place = "source" => WellFormed(stmt)
  /\ place \in {"flash", "decoded"} /\ stmt # NoStmt =>
       Accepted(stmt) /\ word = Encode(stmt)
  /\ place = "decoded" => instr = Decode(word)
  /\ place = "source" /\ instr # NoInstr =>
       instr = Decode(word) /\ instr.m \in DOMAIN OPS /\ stmt = Listing(instr)

LEMMA NoStatementIsIllFormed ==
  /\ ~WellFormed(NoStmt)
  /\ "none" \notin DOMAIN OPS /\ "Unknown" \notin DOMAIN OPS
<1>1. "none" \notin DOMAIN OPS /\ "Unknown" \notin DOMAIN OPS
  BY DEF OPS
<1>2. NoStmt.m = "none"
  BY DEF NoStmt
<1>3. QED
  BY <1>1, <1>2 DEF WellFormed

LEMMA StatementsAreWellFormed ==
  ASSUME NEW s \in Statements
  PROVE  WellFormed(s)
<1> DEFINE Stmts(t, F, D, B, K) ==
             [m : {m \in DOMAIN OPS : OPS[m].t = t}, f : F, d : D, bit : B, k : K]
<1>1. \/ s \in Stmts(Blank, {0}, {FALSE}, {0}, {0})
      \/ s \in Stmts("fd", Registers, BOOLEAN, {0}, {0})
      \/ s \in Stmts("f", Registers, {TRUE}, {0}, {0})
      \/ s \in Stmts("fb", Registers, {FALSE}, -1..8, {0})
      \/ s \in Stmts("k", {0}, {FALSE}, {0}, Literals)
      \/ s \in Stmts("a", {0}, {FALSE}, {0}, Targets)
  BY Zenon DEF Statements, Blank
<1>2. /\ Registers \subseteq Int /\ Literals \subseteq Int /\ Targets \subseteq Int
      /\ {0} \subseteq Int /\ -1..8 \subseteq Int
      /\ {FALSE} \subseteq BOOLEAN /\ {TRUE} \subseteq BOOLEAN
  BY ToolchainAssumption DEF ToolchainAssumption
<1>3. ASSUME NEW t, NEW F, NEW D, NEW B, NEW K, s \in Stmts(t, F, D, B, K)
      PROVE  /\ s.m \in DOMAIN OPS /\ OPS[s.m].t = t
             /\ s.f \in F /\ s.d \in D /\ s.bit \in B /\ s.k \in K
  BY <1>3
<1> HIDE DEF Stmts
<1>4. CASE s \in Stmts(Blank, {0}, {FALSE}, {0}, {0})
  <2>1. /\ s.m \in DOMAIN OPS /\ OPS[s.m].t = Blank
        /\ s.f \in {0} /\ s.d \in {FALSE} /\ s.bit \in {0} /\ s.k \in {0}
    BY <1>3, <1>4
  <2>2. s.f \in Int /\ s.d \in BOOLEAN /\ s.bit \in Int /\ s.k \in Int
    BY <1>2, <2>1, Zenon
  <2>3. s.f = 0 /\ s.d = FALSE /\ s.bit = 0 /\ s.k = 0
    BY <2>1
  <2>4. OPS[s.m].t \notin {"fd", "f", "fb", "k", "a"}
    BY <2>1, BlankIsNoType
  <2>5. QED
    BY <2>1, <2>2, <2>3, <2>4, Zenon DEF WellFormed
<1>5. CASE s \in Stmts("fd", Registers, BOOLEAN, {0}, {0})
  <2>1. /\ s.m \in DOMAIN OPS /\ OPS[s.m].t = "fd"
        /\ s.f \in Registers /\ s.d \in BOOLEAN /\ s.bit \in {0} /\ s.k \in {0}
    BY <1>3, <1>5
  <2>2. s.f \in Int /\ s.d \in BOOLEAN /\ s.bit \in Int /\ s.k \in Int
    BY <1>2, <2>1, Zenon
  <2>3. s.bit = 0 /\ s.k = 0
    BY <2>1
  <2>4. OPS[s.m].t \notin {Blank, "f", "fb", "k", "a"}
    BY <2>1, BlankIsNoType
  <2>5. QED
    BY <2>1, <2>2, <2>3, <2>4, Zenon DEF WellFormed
<1>6. CASE s \in Stmts("f", Registers, {TRUE}, {0}, {0})
  <2>1. /\ s.m \in DOMAIN OPS /\ OPS[s.m].t = "f"
        /\ s.f \in Registers /\ s.d \in {TRUE} /\ s.bit \in {0} /\ s.k \in {0}
    BY <1>3, <1>6
  <2>2. s.f \in Int /\ s.d \in BOOLEAN /\ s.bit \in Int /\ s.k \in Int
    BY <1>2, <2>1, Zenon
  <2>3. s.d = TRUE /\ s.bit = 0 /\ s.k = 0
    BY <2>1
  <2>4. OPS[s.m].t \notin {Blank, "fd", "fb", "k", "a"}
    BY <2>1, BlankIsNoType
  <2>5. QED
    BY <2>1, <2>2, <2>3, <2>4, Zenon DEF WellFormed
<1>7. CASE s \in Stmts("fb", Registers, {FALSE}, -1..8, {0})
  <2>1. /\ s.m \in DOMAIN OPS /\ OPS[s.m].t = "fb"
        /\ s.f \in Registers /\ s.d \in {FALSE} /\ s.bit \in -1..8 /\ s.k \in {0}
    BY <1>3, <1>7
  <2>2. s.f \in Int /\ s.d \in BOOLEAN /\ s.bit \in Int /\ s.k \in Int
    BY <1>2, <2>1, Zenon
  <2>3. s.d = FALSE /\ s.k = 0
    BY <2>1
  <2>4. OPS[s.m].t \notin {Blank, "fd", "f", "k", "a"}
    BY <2>1, BlankIsNoType
  <2>5. QED
    BY <2>1, <2>2, <2>3, <2>4, Zenon DEF WellFormed
<1>8. CASE s \in Stmts("k", {0}, {FALSE}, {0}, Literals)
  <2>1. /\ s.m \in DOMAIN OPS /\ OPS[s.m].t = "k"
        /\ s.f \in {0} /\ s.d \in {FALSE} /\ s.bit \in {0} /\ s.k \in Literals
    BY <1>3, <1>8
  <2>2. s.f \in Int /\ s.d \in BOOLEAN /\ s.bit \in Int /\ s.k \in Int
    BY <1>2, <2>1, Zenon
  <2>3. s.f = 0 /\ s.d = FALSE /\ s.bit = 0
    BY <2>1
  <2>4. OPS[s.m].t \notin {Blank, "fd", "f", "fb", "a"}
    BY <2>1, BlankIsNoType
  <2>5. QED
    BY <2>1, <2>2, <2>3, <2>4, Zenon DEF WellFormed
<1>9. CASE s \in Stmts("a", {0}, {FALSE}, {0}, Targets)
  <2>1. /\ s.m \in DOMAIN OPS /\ OPS[s.m].t = "a"
        /\ s.f \in {0} /\ s.d \in {FALSE} /\ s.bit \in {0} /\ s.k \in Targets
    BY <1>3, <1>9
  <2>2. s.f \in Int /\ s.d \in BOOLEAN /\ s.bit \in Int /\ s.k \in Int
    BY <1>2, <2>1, Zenon
  <2>3. s.f = 0 /\ s.d = FALSE /\ s.bit = 0
    BY <2>1
  <2>4. OPS[s.m].t \notin {Blank, "fd", "f", "fb", "k"}
    BY <2>1, BlankIsNoType
  <2>5. QED
    BY <2>1, <2>2, <2>3, <2>4, Zenon DEF WellFormed
<1>10. QED
  BY <1>1, <1>4, <1>5, <1>6, <1>7, <1>8, <1>9

(* What the decoder makes of a word, when it knows it. *)
LEMMA DecodedByRow ==
  ASSUME NEW w \in Words, Decode(w).m \in DOMAIN OPS
  PROVE  \E n \in 1..35 : /\ Rows(w) = {n}
                          /\ Decode(w) = Fields(w, TABLE[n].m, TABLE[n].fmt)
<1>1. CASE Rows(w) = {}
  <2>1. Decode(w).m = "Unknown"
    BY <1>1 DEF Decode, Instruction
  <2>2. QED
    BY <2>1, NoStatementIsIllFormed
<1>2. CASE Rows(w) # {}
  <2>1. PICK n \in Rows(w) : TRUE
    BY <1>2
  <2>2. Rows(w) = {n}
    <3>1. \A o \in Rows(w) : n = o
      BY <2>1, OneRowForAWord
    <3>2. QED
      BY <2>1, <3>1
  <2>3. n \in 1..35
    BY <2>1 DEF Rows, TABLE
  <2>4. (CHOOSE i \in Rows(w) : \A o \in Rows(w) : i <= o) = n
    BY <2>2, <2>3
  <2>5. Decode(w) = Fields(w, TABLE[n].m, TABLE[n].fmt)
    BY <1>2, <2>4 DEF Decode
  <2>6. QED
    BY <2>2, <2>3, <2>5
<1>3. QED
  BY <1>1, <1>2

(* The listing of a word the decoder knows is a statement again, of the row   *)
(* the word was read from. *)
LEMMA ListingIsWellFormed ==
  ASSUME NEW w \in Words, NEW i, i = Decode(w), i.m \in DOMAIN OPS
  PROVE  /\ WellFormed(Listing(i))
         /\ \E n \in 1..35 : Rows(w) = {n} /\ TABLE[n].m = Listing(i).m
<1>1. PICK n \in 1..35 : Rows(w) = {n} /\ i = Fields(w, TABLE[n].m, TABLE[n].fmt)
  BY DecodedByRow, Zenon
<1> DEFINE s == Listing(i)
           m == TABLE[n].m
           fmt == TABLE[n].fmt
           t == OPS[m].t
<1>2. m \in DOMAIN OPS /\ Agrees(t, fmt, RowSize[n])
  BY RowsHaveMnemonics
<1>3. s.m = i.m /\ s.f = i.f /\ s.d = i.destF /\ s.bit = i.bit /\ s.k = i.k
  BY DEF Listing
<1>4. w \in Int
  BY WordsAreIntegers
<1>5. /\ w % 128 \in Int /\ (w \div 128) % 8 \in Int
      /\ 0 \in Int /\ TRUE \in BOOLEAN /\ FALSE \in BOOLEAN
  BY <1>4
<1> HIDE DEF m, fmt
<1>6. i = Fields(w, m, fmt)
  BY <1>1 DEF m, fmt
<1> HIDE DEF s
<1> SUFFICES WellFormed(s) /\ s.m = m
  BY <1>1 DEF s, m
<1>7. CASE t = Blank /\ fmt = "NoArg"
  <2>1. i = Instruction(m, 0, FALSE, 0, 0)
    BY <1>6, <1>7 DEF Fields
  <2>2. s.m = m /\ s.f = 0 /\ s.d = FALSE /\ s.bit = 0 /\ s.k = 0
    BY <1>3, <2>1 DEF Instruction
  <2>3. OPS[s.m].t \notin {"fd", "f", "fb", "k", "a"}
    BY <1>7, <2>2, BlankIsNoType
  <2>4. s.m \in DOMAIN OPS /\ s.f \in Int /\ s.d \in BOOLEAN /\ s.bit \in Int /\ s.k \in Int
    BY <1>2, <1>5, <2>2, Zenon
  <2>5. QED
    BY <2>2, <2>3, <2>4, Zenon DEF WellFormed
<1>8. CASE t = "fd" /\ fmt = "ByteFd"
  <2>1. i = Instruction(m, w % 128, Bit(w, 7) = 1, 0, 0)
    BY <1>6, <1>8 DEF Fields
  <2>2. s.m = m /\ s.f = w % 128 /\ s.d = (Bit(w, 7) = 1) /\ s.bit = 0 /\ s.k = 0
    BY <1>3, <2>1 DEF Instruction
  <2>3. OPS[s.m].t \notin {Blank, "f", "fb", "k", "a"}
    BY <1>8, <2>2, BlankIsNoType
  <2>4. s.d \in BOOLEAN
    BY <2>2
  <2>5. s.m \in DOMAIN OPS /\ s.f \in Int /\ s.d \in BOOLEAN /\ s.bit \in Int /\ s.k \in Int
    BY <1>2, <1>5, <2>2, <2>4, Zenon
  <2>6. QED
    BY <2>2, <2>3, <2>5, Zenon DEF WellFormed
<1>9. CASE t = "f" /\ fmt = "FileF"
  <2>1. i = Instruction(m, w % 128, TRUE, 0, 0)
    BY <1>6, <1>9 DEF Fields
  <2>2. s.m = m /\ s.f = w % 128 /\ s.d = TRUE /\ s.bit = 0 /\ s.k = 0
    BY <1>3, <2>1 DEF Instruction
  <2>3. OPS[s.m].t \notin {Blank, "fd", "fb", "k", "a"}
    BY <1>9, <2>2, BlankIsNoType
  <2>4. s.m \in DOMAIN OPS /\ s.f \in Int /\ s.d \in BOOLEAN /\ s.bit \in Int /\ s.k \in Int
    BY <1>2, <1>5, <2>2, Zenon
  <2>5. QED
    BY <2>2, <2>3, <2>4, Zenon DEF WellFormed
<1>10. CASE t = "fb" /\ fmt = "Bit"
  <2>1. i = Instruction(m, w % 128, FALSE, (w \div 128) % 8, 0)
    BY <1>6, <1>10 DEF Fields
  <2>2. s.m = m /\ s.f = w % 128 /\ s.d = FALSE /\ s.bit = (w \div 128) % 8 /\ s.k = 0
    BY <1>3, <2>1 DEF Instruction
  <2>3. OPS[s.m].t \notin {Blank, "fd", "f", "k", "a"}
    BY <1>10, <2>2, BlankIsNoType
  <2>4. s.m \in DOMAIN OPS /\ s.f \in Int /\ s.d \in BOOLEAN /\ s.bit \in Int /\ s.k \in Int
    BY <1>2, <1>5, <2>2, Zenon
  <2>5. QED
    BY <2>2, <2>3, <2>4, Zenon DEF WellFormed
<1>11. CASE t = "k" /\ fmt = "Lit8"
  <2> DEFINE y == w % 256
  <2>0. y \in Int
    BY <1>4
  <2>1. i = Instruction(m, 0, FALSE, 0, y)
    BY <1>6, <1>11 DEF Fields
  <2> HIDE DEF y
  <2>2. s.m = m /\ s.f = 0 /\ s.d = FALSE /\ s.bit = 0 /\ s.k = y
    BY <1>3, <2>1 DEF Instruction
  <2>3. OPS[s.m].t \notin {Blank, "fd", "f", "fb", "a"}
    BY <1>11, <2>2, BlankIsNoType
  <2>4. s.m \in DOMAIN OPS /\ s.f \in Int /\ s.d \in BOOLEAN /\ s.bit \in Int /\ s.k \in Int
    BY <1>2, <1>5, <2>0, <2>2, Zenon
  <2>5. QED
    BY <2>2, <2>3, <2>4, Zenon DEF WellFormed
<1>12. CASE t = "a" /\ fmt = "Addr11"
  <2> DEFINE y == w % 2048
  <2>0. y \in Int
    BY <1>4
  <2>1. i = Instruction(m, 0, FALSE, 0, y)
    BY <1>6, <1>12 DEF Fields
  <2> HIDE DEF y
  <2>2. s.m = m /\ s.f = 0 /\ s.d = FALSE /\ s.bit = 0 /\ s.k = y
    BY <1>3, <2>1 DEF Instruction
  <2>3. OPS[s.m].t \notin {Blank, "fd", "f", "fb", "k"}
    BY <1>12, <2>2, BlankIsNoType
  <2>4. s.m \in DOMAIN OPS /\ s.f \in Int /\ s.d \in BOOLEAN /\ s.bit \in Int /\ s.k \in Int
    BY <1>2, <1>5, <2>2, <2>0, Zenon
  <2>5. QED
    BY <2>2, <2>3, <2>4, Zenon DEF WellFormed
<1>13. QED
  BY <1>2, <1>7, <1>8, <1>9, <1>10, <1>11, <1>12 DEF Agrees

LEMMA ToolchainStarts == ToolchainInit => ToolchainInv
<1> SUFFICES ASSUME ToolchainInit PROVE ToolchainInv
  OBVIOUS
<1>1. CASE place = "source" /\ stmt \in Statements /\ word = 0 /\ instr = NoInstr
  <2>1. WellFormed(stmt)
    BY <1>1, StatementsAreWellFormed
  <2>2. word \in Words
    <3>1. word \in Int /\ word >= 0 /\ word <= 16383
      BY <1>1
    <3>2. QED
      BY <3>1, WordRange
  <2>3. QED
    BY <1>1, <2>1, <2>2 DEF ToolchainInv
<1>2. CASE place = "flash" /\ stmt = NoStmt /\ word \in Words /\ instr = NoInstr
  BY <1>2 DEF ToolchainInv
<1>3. QED
  BY <1>1, <1>2 DEF ToolchainInit

LEMMA ToolchainStep == ToolchainInv /\ [ToolchainNext]_toolchainVars => ToolchainInv'
<1> SUFFICES ASSUME ToolchainInv, [ToolchainNext]_toolchainVars PROVE ToolchainInv'
  OBVIOUS
<1>1. CASE Assemble
  <2>1. place = "source" /\ WellFormed(stmt) /\ UNCHANGED <<stmt, instr>> /\ word \in Words
    BY <1>1 DEF Assemble, ToolchainInv
  <2>2. CASE Accepted(stmt)
    <3>1. place' = "flash" /\ word' = Encode(stmt)
      BY <1>1, <2>2 DEF Assemble
    <3>2. word' \in Words
      BY <2>1, <2>2, <3>1, EncodedIsDecoded
    <3>3. QED
      BY <2>1, <2>2, <3>1, <3>2 DEF ToolchainInv
  <2>3. CASE ~Accepted(stmt)
    <3>1. place' = "rejected" /\ word' = word
      BY <1>1, <2>3 DEF Assemble
    <3>2. QED
      BY <2>1, <3>1 DEF ToolchainInv
  <2>4. QED
    BY <2>2, <2>3
<1>2. CASE Fetch
  BY <1>2 DEF Fetch, ToolchainInv
<1>3. CASE Reassemble
  <2>1. instr = Decode(word) /\ word \in Words /\ instr.m \in DOMAIN OPS
    BY <1>3 DEF Reassemble, ToolchainInv
  <2>2. WellFormed(Listing(instr))
    BY <2>1, ListingIsWellFormed
  <2>3. stmt' = Listing(instr) /\ place' = "source" /\ UNCHANGED <<word, instr>>
    BY <1>3 DEF Reassemble, Listing
  <2>4. QED
    BY <2>1, <2>2, <2>3 DEF ToolchainInv
<1>4. CASE UNCHANGED toolchainVars
  BY <1>4 DEF toolchainVars, ToolchainInv
<1>5. QED
  BY <1>1, <1>2, <1>3, <1>4 DEF ToolchainNext

LEMMA ToolchainInvariant == ToolchainSpec => []ToolchainInv
BY ToolchainStarts, ToolchainStep, PTL DEF ToolchainSpec

(* No word matches two rows of decode.rs's table, be it assembled or loaded:  *)
(* the decoding of a word does not hang on the order of the rows. *)
THEOREM OneRow == ToolchainSpec => []OneRowAtMost
<1>1. ToolchainInv => OneRowAtMost
  <2>1. ASSUME word \in Words PROVE \A n, o \in Rows(word) : n = o
    BY <2>1, OneRowForAWord
  <2>2. QED
    BY <2>1 DEF ToolchainInv, OneRowAtMost
<1>2. QED
  BY <1>1, ToolchainInvariant, PTL

(* Every statement asm.js accepts, whatever its operands, is decoded by        *)
(* decode.rs to the mnemonic and the operands that were written; so is every  *)
(* listing that is typed in again. *)
THEOREM WrittenIsExecuted == ToolchainSpec => []ExecutesWhatIsWritten
<1>1. ToolchainInv => ExecutesWhatIsWritten
  BY EncodedIsDecoded DEF ToolchainInv, ExecutesWhatIsWritten
<1>2. QED
  BY <1>1, ToolchainInvariant, PTL

(* A decoded word that is listed and assembled again matches the very row it  *)
(* matched before: no bit that the decoder looks at has changed. *)
THEOREM ListingsAreStable == ToolchainSpec => ListingIsStable
<1>1. ToolchainInv /\ [ToolchainNext]_toolchainVars =>
        [ place = "source" /\ place' = "flash" /\ instr # NoInstr =>
            Rows(word') = Rows(word) ]_toolchainVars
  <2> SUFFICES ASSUME ToolchainInv, ToolchainNext,
                      place = "source", place' = "flash", instr # NoInstr
               PROVE  Rows(word') = Rows(word)
    BY DEF toolchainVars
  <2>1. Assemble
    BY DEF ToolchainNext, Fetch, Reassemble
  <2>2. Accepted(stmt) /\ word' = Encode(stmt)
    BY <2>1 DEF Assemble
  <2>3. /\ WellFormed(stmt) /\ word \in Words /\ instr = Decode(word)
        /\ instr.m \in DOMAIN OPS /\ stmt = Listing(instr)
    BY DEF ToolchainInv
  <2>4. PICK n \in 1..35 : Rows(word) = {n} /\ TABLE[n].m = stmt.m
    BY <2>3, ListingIsWellFormed
  <2>5. Rows(word') = {n}
    BY <2>2, <2>3, <2>4, EncodedIsItsRow
  <2>6. QED
    BY <2>4, <2>5
<1>2. QED
  BY <1>1, ToolchainInvariant, PTL DEF ToolchainSpec, ListingIsStable

=============================================================================
