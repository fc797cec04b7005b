-------------------------- MODULE PeripheralProofs --------------------------
(***************************************************************************)
(* Proofs about what the core keeps beside its data memory, each for every  *)
(* size of it and every sequence of operations.                             *)
(*                                                                         *)
(* TMR0: value and prescaler together are one counter that loses no cycle,  *)
(* for every width, mix of instructions and sequence of rates.  The         *)
(* arithmetic comes first: what tick() computes from the two parts of the   *)
(* counter, each with a division of its own, is one remainder of the whole. *)
(*                                                                         *)
(* The return stack: the ring implements a stack of its innermost entries,  *)
(* for every ring size and every set of return addresses.                   *)
(*                                                                         *)
(* The data EEPROM: its unlock protocol, for every array size, every data   *)
(* byte, every address and every stream of bytes written to EECON2.         *)
(***************************************************************************)
EXTENDS Timer0, CallStack, Eeprom, SequenceTheorems, TLAPS

(***************************************************************************)
(* TMR0.                                                                    *)
(***************************************************************************)
(* What remains is determined by the quotient. *)
LEMMA Remainder ==
  ASSUME NEW n \in Nat, n > 0, NEW q \in Nat, NEW k \in 0..(n - 1)
  PROVE  (q * n + k) % n = k
<1> DEFINE a == q * n + k
<1>1. q * n \in Nat /\ a \in Nat /\ a = q * n + k
  OBVIOUS
<1> HIDE DEF a
<1>2. PICK p \in Int, r \in 0..(n - 1) : a = p * n + r /\ r = a % n
  <2>1. a % n \in 0..(n - 1) /\ a \div n \in Int /\ a = n * (a \div n) + (a % n)
    BY <1>1
  <2>2. n * (a \div n) = (a \div n) * n
    BY <2>1
  <2>3. QED
    BY <2>1, <2>2
<1>3. q * n + k = p * n + r
  BY <1>1, <1>2
<1>4. ~(p >= q + 1)
  <2> SUFFICES ASSUME p >= q + 1 PROVE FALSE
    OBVIOUS
  <2>1. p * n >= (q + 1) * n
    OBVIOUS
  <2>2. (q + 1) * n = q * n + n
    OBVIOUS
  <2>3. p * n \in Int /\ q * n \in Int
    OBVIOUS
  <2>4. QED
    BY <1>3, <2>1, <2>2, <2>3
<1>5. ~(q >= p + 1)
  <2> SUFFICES ASSUME q >= p + 1 PROVE FALSE
    OBVIOUS
  <2>1. q * n >= (p + 1) * n
    OBVIOUS
  <2>2. (p + 1) * n = p * n + n
    OBVIOUS
  <2>3. p * n \in Int /\ q * n \in Int
    OBVIOUS
  <2>4. QED
    BY <1>3, <2>1, <2>2, <2>3
<1>6. p = q
  BY <1>4, <1>5
<1>7. q * n \in Int
  OBVIOUS
<1>8. QED
  BY <1>2, <1>3, <1>6, <1>7 DEF a

(* A counter of m units of d cycles each, kept as units x and cycles acc of  *)
(* which the full units are taken out: the wrapped units and the cycles     *)
(* left are the remainder of the whole, and the one wraps when the other    *)
(* does.                                                                    *)
LEMMA OneCounter ==
  ASSUME NEW m \in Nat, m > 0, NEW d \in Nat, d > 0, NEW x \in Nat, NEW acc \in Nat
  PROVE  LET total == x + acc \div d
         IN  /\ total \in Nat
             /\ (total % m) * d + (acc % d) = (x * d + acc) % (m * d)
             /\ (total >= m) <=> (x * d + acc >= m * d)
<1> DEFINE u == acc \div d
           r == acc % d
           total == x + u
           q == total \div m
           k == total % m
<1>1. u \in Nat /\ r \in 0..(d - 1) /\ acc = d * u + r
  OBVIOUS
<1>2. total \in Nat
  BY <1>1
<1> HIDE DEF u, r
<1>3. q \in Nat /\ k \in 0..(m - 1) /\ total = m * q + k
  BY <1>2
<1> HIDE DEF q, k
<1>4. x * d + acc = total * d + r
  BY <1>1 DEF total
<1> HIDE DEF total
<1>5. total * d + r = q * (m * d) + (k * d + r)
  BY <1>1, <1>3
<1>6. k * d + r \in 0..(m * d - 1) /\ m * d \in Nat /\ m * d > 0
  <2>1. m * d \in Nat /\ m * d > 0 /\ k * d \in Nat
    BY <1>3
  <2>2. (k + 1) * d <= m * d
    BY <1>3
  <2>3. (k + 1) * d = k * d + d
    BY <1>3
  <2>4. QED
    BY <1>1, <2>1, <2>2, <2>3
<1>7. (x * d + acc) % (m * d) = k * d + r
  <2> DEFINE n == m * d
             rest == k * d + r
  <2>1. x * d + acc = q * n + rest /\ n \in Nat /\ n > 0 /\ rest \in 0..(n - 1)
    BY <1>4, <1>5, <1>6
  <2> HIDE DEF n, rest
  <2>2. (q * n + rest) % n = rest
    BY <1>3, <2>1, Remainder
  <2>3. QED
    BY <2>1, <2>2 DEF n, rest
<1>8. total >= m => total * d >= m * d
  BY <1>2
<1>9. total < m => total * d + r < m * d
  <2> SUFFICES ASSUME total + 1 <= m PROVE total * d + r < m * d
    BY <1>2
  <2>1. (total + 1) * d <= m * d
    BY <1>2
  <2>2. (total + 1) * d = total * d + d
    BY <1>2
  <2>3. total * d \in Nat /\ m * d \in Nat
    BY <1>2
  <2>4. QED
    BY <1>1, <2>1, <2>2, <2>3
<1>10. total * d \in Nat /\ m * d \in Nat
  BY <1>2
<1>11. (total >= m) <=> (x * d + acc >= m * d)
  BY <1>1, <1>2, <1>4, <1>8, <1>9, <1>10
<1>12. (total % m) * d + (acc % d) = (x * d + acc) % (m * d)
  BY <1>7 DEF k, r
<1>13. total = x + acc \div d
  BY DEF total, u
<1>14. QED
  BY ONLY <1>2, <1>11, <1>12, <1>13

----------------------------------------------------------------------------
(* tick()                                                                   *)

Timers     == [tmr0 : 0..(TmrSize - 1), t0if : 0..1, prescaler : Nat, inhibit : 0..2]
OptionBits == [t0cs : 0..1, psa : 0..1, ps : 0..7]

(* Every setting of OPTION_REG selects one of the nine rates. *)
LEMMA DivisorIsRate ==
  ASSUME NEW o \in OptionBits
  PROVE  Divisor(o) \in Nat /\ Divisor(o) > 0 /\ Divisor(o) \in Ideal!Rates
<1>1. o.psa \in 0..1 /\ o.ps \in 0..7
  BY DEF OptionBits
<1>2. \/ o.ps = 0 \/ o.ps = 1 \/ o.ps = 2 \/ o.ps = 3
      \/ o.ps = 4 \/ o.ps = 5 \/ o.ps = 6 \/ o.ps = 7
  BY <1>1
<1>3. Divisor(o) \in Ideal!Rates
  BY <1>1, <1>2 DEF Divisor, Ideal!Rates
<1>4. QED
  BY <1>3 DEF Ideal!Rates

(* While external clocking is selected nothing moves; while the hold lasts  *)
(* only the hold does.                                                      *)
LEMMA TickStands ==
  ASSUME NEW t \in Timers, NEW o \in OptionBits, NEW c \in Nat, o.t0cs = 1
  PROVE  Tick(t, o, c) = t
BY DEF Tick

LEMMA TickHolds ==
  ASSUME NEW t \in Timers, NEW o \in OptionBits, NEW c \in Nat, o.t0cs = 0, c <= t.inhibit
  PROVE  Tick(t, o, c) = [t EXCEPT !.inhibit = @ - c]
<1>1. t.inhibit \in Nat
  BY DEF Timers
<1>2. Inhibited(t, c) = c
  BY <1>1 DEF Inhibited
<1>3. c - Inhibited(t, c) = 0
  BY <1>2
<1>4. QED
  BY <1>2, <1>3 DEF Tick

(* After it, the two parts advance as one counter. *)
LEMMA TickCounts ==
  ASSUME NEW t \in Timers, NEW o \in OptionBits, NEW c \in Nat, o.t0cs = 0, c > t.inhibit
  PROVE  LET u   == Tick(t, o, c)
             sum == t.tmr0 * Divisor(o) + t.prescaler + (c - t.inhibit)
         IN  /\ u \in Timers
             /\ u.inhibit = 0
             /\ u.tmr0 * Divisor(o) + u.prescaler = sum % (TmrSize * Divisor(o))
             /\ u.t0if = IF sum >= TmrSize * Divisor(o) THEN 1 ELSE t.t0if
<1> DEFINE d     == Divisor(o)
           ticks == c - t.inhibit
           acc   == t.prescaler + ticks
           total == t.tmr0 + acc \div d
           u     == Tick(t, o, c)
           sum   == t.tmr0 * d + t.prescaler + ticks
<1>1. t.tmr0 \in Nat /\ t.prescaler \in Nat /\ t.inhibit \in Nat /\ t.t0if \in 0..1
  BY TmrSizeAssumption DEF Timers, TmrSizeAssumption
<1>2. d \in Nat /\ d > 0
  BY DivisorIsRate
<1>3. ticks \in Nat /\ ticks > 0 /\ acc \in Nat
  BY <1>1
<1>4. Inhibited(t, c) = t.inhibit
  BY <1>1 DEF Inhibited
<1>5. u = [[t EXCEPT !.inhibit = @ - t.inhibit]
             EXCEPT !.prescaler = acc % d, !.tmr0 = total % TmrSize,
                    !.t0if = IF total >= TmrSize THEN 1 ELSE @]
  BY <1>3, <1>4 DEF Tick
<1>6. t.inhibit - t.inhibit = 0
  BY <1>1
<1> HIDE DEF ticks, d
<1>7. /\ total \in Nat
      /\ (total % TmrSize) * d + (acc % d) = (t.tmr0 * d + acc) % (TmrSize * d)
      /\ (total >= TmrSize) <=> (t.tmr0 * d + acc >= TmrSize * d)
  <2>1. TmrSize \in Nat /\ TmrSize > 0
    BY TmrSizeAssumption DEF TmrSizeAssumption
  <2> HIDE DEF acc
  <2>2. QED
    BY <1>1, <1>2, <1>3, <2>1, OneCounter
<1>8. t.tmr0 * d + acc = sum
  BY <1>1, <1>2, <1>3
<1> HIDE DEF acc, total
<1>9. acc % d \in Nat /\ total % TmrSize \in 0..(TmrSize - 1)
  BY <1>2, <1>3, <1>7, TmrSizeAssumption DEF TmrSizeAssumption
<1> HIDE DEF u, sum
<1>10. /\ u.tmr0 = total % TmrSize /\ u.prescaler = acc % d /\ u.inhibit = 0
       /\ u.t0if = IF total >= TmrSize THEN 1 ELSE t.t0if
  BY <1>5, <1>6 DEF Timers
<1>11. u \in Timers
  <2>1. u.tmr0 \in 0..(TmrSize - 1) /\ u.prescaler \in Nat /\ u.inhibit \in 0..2
    BY <1>9, <1>10
  <2>2. u.t0if \in 0..1
    BY <1>1, <1>10
  <2>3. u = [tmr0 |-> u.tmr0, t0if |-> u.t0if, prescaler |-> u.prescaler,
             inhibit |-> u.inhibit]
    BY <1>5 DEF Timers
  <2>4. QED
    BY <2>1, <2>2, <2>3 DEF Timers
<1>12. /\ u.tmr0 * d + u.prescaler = sum % (TmrSize * d)
       /\ u.t0if = IF sum >= TmrSize * d THEN 1 ELSE t.t0if
  BY <1>7, <1>8, <1>10
<1>13. QED
  BY ONLY <1>10, <1>11, <1>12 DEF u, sum, d, ticks

----------------------------------------------------------------------------
(* The timer implements the ideal one                                       *)

TimerInv == timer \in Timers /\ option \in OptionBits

(* An instruction that leaves the timer as t before its tick, and the hold  *)
(* as it was, lets the ideal counter elapse from where t stands.            *)
LEMMA TickElapses ==
  ASSUME TimerInv, NEW t \in Timers, t.inhibit = timer.inhibit,
         option' \in OptionBits, NEW c \in Nat, TickAfter(t, c)
  PROVE  /\ timer' \in Timers
         /\ Ideal!ElapseAt(Divisor(option'), option'.t0cs = 0,
                           t.tmr0 * Divisor(option') + t.prescaler, t.t0if, c)
<1> DEFINE o    == option'
           from == t.tmr0 * Divisor(o) + t.prescaler
<1>1. timer' = Tick(t, o, c)
  BY DEF TickAfter
<1>2. o \in OptionBits /\ o.t0cs \in 0..1
  BY DEF OptionBits
<1>3. /\ t.inhibit \in 0..2 /\ t.tmr0 \in 0..(TmrSize - 1)
      /\ t.prescaler \in Nat /\ t.t0if \in 0..1
  BY DEF Timers
<1>4. SUFFICES /\ timer' \in Timers
               /\ timer'.inhibit = IF o.t0cs # 0 THEN t.inhibit
                                   ELSE IF t.inhibit > c THEN t.inhibit - c ELSE 0
               /\ timer'.tmr0 * Divisor(o) + timer'.prescaler =
                    IF o.t0cs = 0 /\ c > t.inhibit
                    THEN (from + (c - t.inhibit)) % (TmrSize * Divisor(o)) ELSE from
               /\ timer'.t0if =
                    IF /\ o.t0cs = 0 /\ c > t.inhibit
                       /\ from + (c - t.inhibit) >= TmrSize * Divisor(o)
                    THEN 1 ELSE t.t0if
  <2> DEFINE counted == IF o.t0cs = 0 /\ c > timer.inhibit THEN c - timer.inhibit ELSE 0
  <2>1. counted > 0 <=> o.t0cs = 0 /\ c > t.inhibit
    BY <1>3
  <2>2. o.t0cs = 0 /\ c > t.inhibit => counted = c - t.inhibit
    OBVIOUS
  <2>3. QED
    BY <1>4, <2>1, <2>2 DEF Ideal!ElapseAt
<1>5. CASE o.t0cs = 1
  BY <1>1, <1>2, <1>5, TickStands
<1>6. CASE o.t0cs = 0 /\ c <= t.inhibit
  <2>1. timer' = [t EXCEPT !.inhibit = @ - c]
    BY <1>1, <1>2, <1>6, TickHolds
  <2>2. t.inhibit - c \in 0..2 /\ (~(t.inhibit > c) => t.inhibit - c = 0)
    BY <1>3, <1>6
  <2>3. timer' \in Timers
    BY <2>1, <2>2 DEF Timers
  <2>4. /\ timer'.inhibit = t.inhibit - c /\ timer'.tmr0 = t.tmr0
        /\ timer'.prescaler = t.prescaler /\ timer'.t0if = t.t0if
    BY <2>1 DEF Timers
  <2>5. ~(c > t.inhibit)
    BY <1>3, <1>6
  <2>6. QED
    BY <1>6, <2>2, <2>3, <2>4, <2>5
<1>7. CASE o.t0cs = 0 /\ c > t.inhibit
  <2>1. /\ timer' \in Timers /\ timer'.inhibit = 0
        /\ timer'.tmr0 * Divisor(o) + timer'.prescaler =
             (from + (c - t.inhibit)) % (TmrSize * Divisor(o))
        /\ timer'.t0if =
             IF from + (c - t.inhibit) >= TmrSize * Divisor(o) THEN 1 ELSE t.t0if
    BY <1>1, <1>2, <1>7, TickCounts
  <2>2. ~(t.inhibit > c)
    BY <1>3, <1>7
  <2>3. QED
    BY <1>7, <2>1, <2>2
<1>8. QED
  BY <1>2, <1>3, <1>5, <1>6, <1>7

(* A write of the debugger, between two instructions, is one at which no    *)
(* time passes.                                                             *)
LEMMA DebugElapses ==
  ASSUME TimerInv, NEW t \in Timers, t.inhibit = timer.inhibit,
         NEW o \in OptionBits, DebugWrite(t, o)
  PROVE  Ideal!ElapseAt(Divisor(option'), option'.t0cs = 0,
                        t.tmr0 * Divisor(option') + t.prescaler, t.t0if, 0)
<1>1. timer' = t /\ option' = o
  BY DEF DebugWrite
<1>2. t.inhibit \in 0..2
  BY DEF Timers
<1>3. /\ ~(0 > t.inhibit)
      /\ IF t.inhibit > 0 THEN t.inhibit - 0 = t.inhibit ELSE t.inhibit = 0
  BY <1>2
<1>4. QED
  BY <1>1, <1>3 DEF Ideal!ElapseAt

(* The registers of a power-on reset, and the ideal timer they stand for.    *)
LEMMA ResetIsTimer ==
  ASSUME NEW t, NEW o, t = ResetTimer, o = ResetOption
  PROVE  /\ t \in Timers /\ o \in OptionBits
         /\ Divisor(o) = 2 /\ (o.t0cs = 0) = TRUE
         /\ t.tmr0 * 2 + t.prescaler = 0 /\ t.t0if = 0 /\ t.inhibit = 0
<1>1. 0 \in 0..(TmrSize - 1)
  BY TmrSizeAssumption DEF TmrSizeAssumption
<1>2. t \in Timers /\ o \in OptionBits
  BY <1>1 DEF ResetTimer, ResetOption, Timers, OptionBits
<1>3. Divisor(o) = 2
  BY DEF ResetOption, Divisor
<1>4. QED
  BY <1>2, <1>3 DEF ResetTimer, ResetOption

(* A load restarts the prescaler and holds the counter. *)
LEMMA LoadIsTimer ==
  ASSUME NEW t \in Timers
  PROVE  OnTmr0Write(t) \in Timers
<1> DEFINE u == OnTmr0Write(t)
<1>1. u = [t EXCEPT !.prescaler = 0, !.inhibit = 2]
  BY DEF OnTmr0Write
<1> HIDE DEF u
<1>2. u = [tmr0 |-> u.tmr0, t0if |-> u.t0if, prescaler |-> u.prescaler,
           inhibit |-> u.inhibit]
  BY <1>1 DEF Timers
<1>3. /\ u.tmr0 \in 0..(TmrSize - 1) /\ u.t0if \in 0..1
      /\ u.prescaler = 0 /\ u.inhibit = 2
  BY <1>1 DEF Timers
<1>4. QED
  BY <1>2, <1>3 DEF Timers, u

(* Every operation is a step of the ideal timer. *)
LEMMA TimerStep ==
  TimerInv /\ TimerNext => TimerInv' /\ Ideal!Next
<1> SUFFICES ASSUME TimerInv, TimerNext PROVE TimerInv' /\ Ideal!Next
  OBVIOUS
<1> DEFINE d == Divisor(option)
<1>1. /\ timer \in Timers /\ option \in OptionBits
      /\ timer.tmr0 \in 0..(TmrSize - 1) /\ timer.tmr0 \in Nat
      /\ timer.prescaler \in Nat /\ timer.t0if \in {0, 1}
  BY TmrSizeAssumption DEF TmrSizeAssumption, TimerInv, Timers
<1>2. d \in Nat /\ d > 0
  BY <1>1, DivisorIsRate
<1>3. ASSUME NEW v \in Loads
      PROVE  /\ v \in 0..(TmrSize - 1) /\ v \in Nat
             /\ [timer EXCEPT !.tmr0 = v] \in Timers
  BY <1>1, Timer0Assumption, TmrSizeAssumption
     DEF Timer0Assumption, TmrSizeAssumption, Timers
<1>4. ASSUME NEW b \in 0..1 PROVE [timer EXCEPT !.t0if = b] \in Timers
  BY <1>1 DEF Timers
<1>5. ASSUME NEW o \in Options
      PROVE  /\ o \in OptionBits /\ Divisor(o) \in Nat
             /\ Divisor(o) \in Ideal!Rates
  BY Timer0Assumption, DivisorIsRate DEF Timer0Assumption, OptionBits
(* The counter, poked from one value to another, and read at a new rate. *)
<1>6. ASSUME NEW v \in Nat
      PROVE  /\ timer.tmr0 * d <= timer.tmr0 * d + timer.prescaler
             /\ (timer.tmr0 * d + timer.prescaler) + (v - timer.tmr0) * d
                  = v * d + timer.prescaler
  <2>1. timer.tmr0 * d \in Nat /\ v * d \in Nat
    BY <1>1, <1>2
  <2>2. (v - timer.tmr0) * d = v * d - timer.tmr0 * d
    BY <1>1, <1>2
  <2>3. QED
    BY <1>1, <2>1, <2>2
<1>7. ASSUME NEW e \in Nat
      PROVE  timer.tmr0 * e + ((timer.tmr0 * d + timer.prescaler) - timer.tmr0 * d)
               = timer.tmr0 * e + timer.prescaler
  <2>1. timer.tmr0 * d \in Nat /\ timer.tmr0 * e \in Nat
    BY <1>1, <1>2
  <2>2. QED
    BY <1>1, <2>1
<1>8. ASSUME NEW c \in InstrCosts, Instr(c) PROVE TimerInv' /\ Ideal!Next
  <2>1. c \in Nat
    BY Timer0Assumption DEF Timer0Assumption
  <2>2. /\ timer' \in Timers
        /\ Ideal!ElapseAt(Divisor(option'), option'.t0cs = 0,
                          timer.tmr0 * Divisor(option') + timer.prescaler,
                          timer.t0if, c)
    BY <1>1, <1>8, <2>1, TickElapses DEF Instr
  <2>3. Ideal!Pass(c)
    BY <1>8, <2>2 DEF Instr, Ideal!Pass, Ideal!Elapse
  <2>4. QED
    BY <1>1, <1>8, <2>2, <2>3 DEF Instr, TimerInv, Ideal!Next
<1>9. ASSUME NEW v \in Loads,
             (\E c \in InstrCosts : WriteTmr0(v, c) \/ WriteTmr0Indirect(v, c)) \/ DebugTmr0(v)
      PROVE  TimerInv' /\ Ideal!Next
  <2> DEFINE t == [timer EXCEPT !.tmr0 = v]
  <2>1. /\ t \in Timers /\ t.tmr0 = v /\ t.inhibit = timer.inhibit
        /\ t.prescaler = timer.prescaler /\ t.t0if = timer.t0if
    BY <1>1, <1>3 DEF Timers
  <2>2. ASSUME NEW c \in InstrCosts, WriteTmr0(v, c) PROVE TimerInv' /\ Ideal!Next
    <3>1. timer' = [t EXCEPT !.prescaler = 0, !.inhibit = 2] /\ option' = option
      BY <2>2 DEF WriteTmr0, OnTmr0Write
    <3>2. timer' \in Timers
      BY <2>1, <3>1, LoadIsTimer DEF OnTmr0Write
    <3>3. /\ timer'.tmr0 = v /\ timer'.prescaler = 0 /\ timer'.inhibit = 2
          /\ timer'.t0if = timer.t0if
      BY <2>1, <3>1 DEF Timers
    <3>4. v * d \in Nat /\ v * d + 0 = v * d
      <4>1. v \in Nat
        BY <1>3
      <4>2. v * d \in Nat
        BY <1>2, <4>1
      <4>3. QED
        BY <4>2
    <3>5. Ideal!Load(v)
      BY <2>2, <3>1, <3>3, <3>4 DEF WriteTmr0, Ideal!Load
    <3>6. QED
      BY <1>1, <3>1, <3>2, <3>5 DEF TimerInv, Ideal!Next
  <2>3. ASSUME NEW c \in InstrCosts, WriteTmr0Indirect(v, c) PROVE TimerInv' /\ Ideal!Next
    <3>1. /\ timer' \in Timers
          /\ Ideal!ElapseAt(Divisor(option'), option'.t0cs = 0,
                            v * Divisor(option') + timer.prescaler, timer.t0if, c)
      <4>1. option' \in OptionBits /\ TickAfter(t, c)
        BY <1>1, <2>3 DEF WriteTmr0Indirect
      <4>2. c \in Nat
        BY Timer0Assumption DEF Timer0Assumption
      <4>3. QED
        BY <2>1, <4>1, <4>2, TickElapses
    <3>2. Ideal!Poke(timer.tmr0, v, c)
      BY <1>3, <1>6, <2>3, <3>1 DEF WriteTmr0Indirect, Ideal!Poke, Ideal!Elapse
    <3>3. QED
      BY <1>1, <2>3, <3>1, <3>2 DEF WriteTmr0Indirect, TimerInv, Ideal!Next
  <2>4. CASE DebugTmr0(v)
    <3>1. DebugWrite(t, option) /\ timer' = t /\ option' = option
      BY <2>4 DEF DebugTmr0, DebugWrite
    <3>2. Ideal!ElapseAt(Divisor(option'), option'.t0cs = 0,
                         v * Divisor(option') + timer.prescaler, timer.t0if, 0)
      BY <1>1, <2>1, <3>1, DebugElapses
    <3>3. Ideal!Poke(timer.tmr0, v, 0)
      BY <1>3, <1>6, <2>4, <3>1, <3>2 DEF DebugTmr0, Ideal!Poke, Ideal!Elapse
    <3>4. QED
      BY <1>1, <2>1, <3>1, <3>3 DEF TimerInv, Ideal!Next
  <2>5. QED
    BY <1>9, <2>2, <2>3, <2>4
<1>10. ASSUME NEW o \in Options, (\E c \in InstrCosts : WriteOption(o, c)) \/ DebugOption(o)
       PROVE  TimerInv' /\ Ideal!Next
  <2>1. ASSUME NEW c \in InstrCosts, WriteOption(o, c) PROVE TimerInv' /\ Ideal!Next
    <3>1. /\ timer' \in Timers
          /\ Ideal!ElapseAt(Divisor(o), o.t0cs = 0,
                            timer.tmr0 * Divisor(o) + timer.prescaler, timer.t0if, c)
      <4>1. option' = o /\ o \in OptionBits /\ TickAfter(timer, c)
        BY <1>5, <2>1 DEF WriteOption
      <4>2. c \in Nat
        BY Timer0Assumption DEF Timer0Assumption
      <4>3. QED
        BY <1>1, <4>1, <4>2, TickElapses
    <3>2. Ideal!Rescale(timer.tmr0, Divisor(o), o.t0cs = 0, c)
      BY <1>1, <1>5, <1>6, <1>7, <2>1, <3>1 DEF WriteOption, Ideal!Rescale
    <3>3. QED
      BY <1>1, <1>5, <2>1, <3>1, <3>2 DEF WriteOption, TimerInv, Ideal!Next
  <2>2. CASE DebugOption(o)
    <3>1. DebugWrite(timer, o) /\ timer' = timer /\ option' = o
      BY <2>2 DEF DebugOption, DebugWrite
    <3>2. Ideal!ElapseAt(Divisor(o), o.t0cs = 0,
                         timer.tmr0 * Divisor(o) + timer.prescaler, timer.t0if, 0)
      BY <1>1, <1>5, <3>1, DebugElapses
    <3>3. Ideal!Rescale(timer.tmr0, Divisor(o), o.t0cs = 0, 0)
      BY <1>1, <1>5, <1>6, <1>7, <2>2, <3>2 DEF DebugOption, Ideal!Rescale
    <3>4. QED
      BY <1>1, <1>5, <3>1, <3>3 DEF TimerInv, Ideal!Next
  <2>3. QED
    BY <1>10, <2>1, <2>2
<1>11. ASSUME NEW b \in 0..1, (\E c \in InstrCosts : WriteT0if(b, c)) \/ DebugT0if(b)
       PROVE  TimerInv' /\ Ideal!Next
  <2> DEFINE t == [timer EXCEPT !.t0if = b]
  <2>1. /\ t \in Timers /\ t.tmr0 = timer.tmr0 /\ t.inhibit = timer.inhibit
        /\ t.prescaler = timer.prescaler /\ t.t0if = b /\ b \in {0, 1}
    BY <1>1, <1>4 DEF Timers
  <2>2. ASSUME NEW c \in InstrCosts, WriteT0if(b, c) PROVE TimerInv' /\ Ideal!Next
    <3>1. /\ timer' \in Timers
          /\ Ideal!ElapseAt(Divisor(option'), option'.t0cs = 0,
                            timer.tmr0 * Divisor(option') + timer.prescaler, b, c)
      <4>1. option' \in OptionBits /\ TickAfter(t, c)
        BY <1>1, <2>2 DEF WriteT0if
      <4>2. c \in Nat
        BY Timer0Assumption DEF Timer0Assumption
      <4>3. QED
        BY <2>1, <4>1, <4>2, TickElapses
    <3>2. Ideal!Flag(b, c)
      BY <2>2, <3>1 DEF WriteT0if, Ideal!Flag, Ideal!Elapse
    <3>3. QED
      BY <1>1, <2>1, <2>2, <3>1, <3>2 DEF WriteT0if, TimerInv, Ideal!Next
  <2>3. CASE DebugT0if(b)
    <3>1. DebugWrite(t, option) /\ timer' = t /\ option' = option
      BY <2>3 DEF DebugT0if, DebugWrite
    <3>2. Ideal!ElapseAt(Divisor(option'), option'.t0cs = 0,
                         timer.tmr0 * Divisor(option') + timer.prescaler, b, 0)
      BY <1>1, <2>1, <3>1, DebugElapses
    <3>3. Ideal!Flag(b, 0)
      BY <2>3, <3>1, <3>2 DEF DebugT0if, Ideal!Flag, Ideal!Elapse
    <3>4. QED
      BY <1>1, <2>1, <3>1, <3>3 DEF TimerInv, Ideal!Next
  <2>4. QED
    BY <1>11, <2>2, <2>3
<1>12. CASE TimerPowerUp
  <2>1. TimerInv' /\ Ideal!Reset'
    BY <1>12, ResetIsTimer DEF TimerPowerUp, TimerInv, Ideal!Reset
  <2>2. Ideal!Restart
    BY <1>12, <2>1 DEF TimerPowerUp, Ideal!Restart
  <2>3. QED
    BY <2>1, <2>2 DEF Ideal!Next
<1>13. QED
  BY <1>8, <1>9, <1>10, <1>11, <1>12 DEF TimerNext

(* TMR0 and its prescaler implement one counter of instruction cycles that  *)
(* loses none at a rollover, a reload, an acknowledgement or a change of    *)
(* rate, and raises T0IF at every rollover and never else.                  *)
THEOREM Timer0ImplementsIdeal == TimerSpec => ImplementsIdealTimer
<1>1. TimerInit => TimerInv /\ Ideal!Init
  BY ResetIsTimer DEF TimerInit, TimerInv, Ideal!Init, Ideal!Reset
<1>2. TimerInv /\ [TimerNext]_timerVars => TimerInv' /\ [Ideal!Next]_(Ideal!vars)
  <2>1. TimerInv /\ UNCHANGED timerVars => TimerInv' /\ UNCHANGED Ideal!vars
    BY DEF timerVars, TimerInv, Ideal!vars
  <2>2. QED
    BY <2>1, TimerStep
<1>3. QED
  BY <1>1, <1>2, PTL DEF TimerSpec, ImplementsIdealTimer, Ideal!Spec

(***************************************************************************)
(* The return stack.                                                        *)
(***************************************************************************)
StackInv == StackTypeOK /\ HoldsTheInnermost

(* Indices around the ring: at most one turn is ever taken off. *)
LEMMA ModSmall == ASSUME NEW n \in Nat \ {0}, NEW a \in 0..(n - 1) PROVE a % n = a
  OBVIOUS

LEMMA ModOnce ==
  ASSUME NEW n \in Nat \ {0}, NEW a \in n..(2*n - 1) PROVE a % n = a - n
<1>1. a - n \in 0..(n - 1)
  OBVIOUS
<1>2. (a - n) % n = a - n
  BY <1>1, ModSmall
<1>3. a % n = (a - n) % n
  OBVIOUS
<1> QED
  BY <1>2, <1>3

(* The i-th level below sp. *)
Behind(sp, i) == (sp + StackSize - i) % StackSize

LEMMA BehindIs ==
  ASSUME NEW sp \in Levels, NEW i \in 1..StackSize
  PROVE  Behind(sp, i) = IF i <= sp THEN sp - i ELSE sp + StackSize - i
<1>1. StackSize \in Nat \ {0}
  BY StackSizeAssumption DEF StackSizeAssumption
<1>2. CASE i <= sp
  <2> DEFINE a == sp + StackSize - i
  <2>1. a \in StackSize..(2 * StackSize - 1)
    BY <1>1, <1>2 DEF Levels
  <2>2. a % StackSize = a - StackSize
    <3> HIDE DEF a
    <3> QED
      BY <1>1, <2>1, ModOnce
  <2> QED
    BY <1>1, <1>2, <2>2 DEF Behind, Levels
<1>3. CASE i > sp
  <2>1. sp + StackSize - i \in 0..(StackSize - 1)
    BY <1>1, <1>3 DEF Levels
  <2>2. (sp + StackSize - i) % StackSize = sp + StackSize - i
    BY <1>1, <2>1, ModSmall
  <2> QED
    BY <1>1, <1>3, <2>2 DEF Behind, Levels
<1> QED
  BY <1>1, <1>2, <1>3 DEF Levels

LEMMA UpIs ==
  ASSUME NEW sp \in Levels
  PROVE  Up(sp) = IF sp = StackSize - 1 THEN 0 ELSE sp + 1
<1>1. StackSize \in Nat \ {0}
  BY StackSizeAssumption DEF StackSizeAssumption
<1>2. CASE sp = StackSize - 1
  <2> DEFINE a == sp + 1
  <2>1. a \in StackSize..(2 * StackSize - 1)
    BY <1>1, <1>2
  <2>2. a % StackSize = a - StackSize
    <3> HIDE DEF a
    <3> QED
      BY <1>1, <2>1, ModOnce
  <2> QED
    BY <1>1, <1>2, <2>2 DEF Up
<1>3. CASE sp # StackSize - 1
  <2>1. sp + 1 \in 0..(StackSize - 1)
    BY <1>1, <1>3 DEF Levels
  <2>2. (sp + 1) % StackSize = sp + 1
    BY <1>1, <2>1, ModSmall
  <2> QED
    BY <1>3, <2>2 DEF Up
<1> QED
  BY <1>2, <1>3

(* Pushing and popping shift the levels by one, and a push hits none of the *)
(* StackSize - 1 levels below.                                              *)
LEMMA Levelling ==
  ASSUME NEW sp \in Levels
  PROVE  /\ Up(sp) \in Levels /\ Down(sp) \in Levels
         /\ Behind(Up(sp), 1) = sp
         /\ \A i \in 1..(StackSize - 1) :
              /\ Behind(Up(sp), i + 1) = Behind(sp, i)
              /\ Behind(Down(sp), i) = Behind(sp, i + 1)
              /\ Behind(sp, i) \in Levels /\ Behind(sp, i) # sp
<1>1. StackSize \in Nat \ {0}
  BY StackSizeAssumption DEF StackSizeAssumption
<1>2. Down(sp) = Behind(sp, 1)
  BY DEF Down, Behind
<1>3. Up(sp) \in Levels
  BY <1>1, UpIs DEF Levels
<1>4. Down(sp) \in Levels
  BY <1>1, <1>2, BehindIs DEF Levels
<1>5. Behind(Up(sp), 1) = sp
  BY <1>1, <1>3, UpIs, BehindIs DEF Levels
<1>6. ASSUME NEW i \in 1..(StackSize - 1)
      PROVE  /\ Behind(Up(sp), i + 1) = Behind(sp, i)
             /\ Behind(Down(sp), i) = Behind(sp, i + 1)
             /\ Behind(sp, i) \in Levels /\ Behind(sp, i) # sp
  <2>1. i \in 1..StackSize /\ i + 1 \in 1..StackSize
    BY <1>1
  <2>2. Behind(sp, i) = IF i <= sp THEN sp - i ELSE sp + StackSize - i
    BY <2>1, BehindIs
  <2>3. Behind(Up(sp), i + 1) = Behind(sp, i)
    <3>1. Behind(Up(sp), i + 1)
            = IF i + 1 <= Up(sp) THEN Up(sp) - (i + 1) ELSE Up(sp) + StackSize - (i + 1)
      BY <1>3, <2>1, BehindIs
    <3> QED
      BY <1>1, <2>2, <3>1, UpIs DEF Levels
  <2>4. Behind(Down(sp), i) = Behind(sp, i + 1)
    <3>1. Down(sp) = IF 1 <= sp THEN sp - 1 ELSE sp + StackSize - 1
      BY <1>1, <1>2, BehindIs
    <3>2. Behind(Down(sp), i)
            = IF i <= Down(sp) THEN Down(sp) - i ELSE Down(sp) + StackSize - i
      BY <1>4, <2>1, BehindIs
    <3>3. Behind(sp, i + 1)
            = IF i + 1 <= sp THEN sp - (i + 1) ELSE sp + StackSize - (i + 1)
      BY <2>1, BehindIs
    <3> QED
      BY <1>1, <3>1, <3>2, <3>3 DEF Levels
  <2> QED
    BY <1>1, <2>2, <2>3, <2>4 DEF Levels
<1> QED
  BY <1>3, <1>4, <1>5, <1>6

----------------------------------------------------------------------------
LEMMA InitStack == StackInit => StackInv
<1> SUFFICES ASSUME StackInit PROVE StackInv
  OBVIOUS
<1>1. 0 \in Levels
  BY StackSizeAssumption DEF StackSizeAssumption, Levels
<1>2. StackTypeOK
  BY <1>1 DEF StackInit, StackTypeOK, EmptyStack
<1>3. HoldsTheInnermost
  BY StackSizeAssumption DEF StackSizeAssumption, StackInit, HoldsTheInnermost
<1> QED
  BY <1>2, <1>3 DEF StackInv

(* The remembered entries after a call: the new one on top of the others,   *)
(* the oldest dropped when there would be too many.                         *)
LEMMA NewestIs ==
  ASSUME NEW s \in Seq(Addr), Len(s) <= StackSize, NEW a \in Addr
  PROVE  LET t == Newest(Append(s, a))
         IN /\ t \in Seq(Addr)
            /\ Len(t) <= StackSize
            /\ Len(t) >= 1 /\ t[Len(t)] = a
            /\ \A i \in 1..(Len(t) - 1) : t[Len(t) - i] = s[Len(s) + 1 - i]
            /\ Len(t) - 1 <= Len(s)
<1>1. StackSize \in Nat \ {0}
  BY StackSizeAssumption DEF StackSizeAssumption
<1> DEFINE u == Append(s, a)
<1>2. u \in Seq(Addr) /\ Len(u) = Len(s) + 1 /\ u[Len(s) + 1] = a
      /\ \A j \in 1..Len(s) : u[j] = s[j]
  OBVIOUS
<1>3. CASE Len(u) > StackSize
  <2>1. /\ Tail(u) \in Seq(Addr) /\ Len(Tail(u)) = Len(u) - 1
        /\ \A j \in 1..(Len(u) - 1) : Tail(u)[j] = u[j + 1]
    BY <1>2, <1>1, <1>3
  <2>2. Newest(u) = Tail(u)
    BY <1>3 DEF Newest
  <2>3. Len(Tail(u)) = Len(s) /\ Len(s) = StackSize
    BY <1>1, <1>2, <1>3, <2>1
  <2>4. Tail(u)[Len(s)] = a
    BY <1>1, <1>2, <2>1, <2>3
  <2>5. \A i \in 1..(Len(s) - 1) : Tail(u)[Len(s) - i] = s[Len(s) + 1 - i]
    BY <1>1, <1>2, <2>1, <2>3
  <2> QED
    BY <1>1, <2>1, <2>2, <2>3, <2>4, <2>5
<1>4. CASE Len(u) <= StackSize
  <2>1. Newest(u) = u
    BY <1>1, <1>2, <1>4 DEF Newest
  <2>2. \A i \in 1..(Len(u) - 1) : u[Len(u) - i] = s[Len(s) + 1 - i]
    BY <1>2
  <2> QED
    BY <1>2, <1>4, <2>1, <2>2
<1> QED
  BY <1>1, <1>2, <1>3, <1>4

LEMMA CallStep ==
  ASSUME StackInv, NEW a \in Addr, Call(a) PROVE StackInv'
<1>1. /\ st \in [ring : [Levels -> Addr \cup {0}], sp : Levels]
      /\ open \in Seq(Addr) /\ pc \in Addr \cup {0} /\ Len(open) <= StackSize
      /\ \A i \in 1..Len(open) : st.ring[Behind(st.sp, i)] = open[Len(open) + 1 - i]
  BY DEF StackInv, StackTypeOK, HoldsTheInnermost, Below, Behind
<1>2. /\ st'.ring = [st.ring EXCEPT ![st.sp] = a] /\ st'.sp = Up(st.sp)
      /\ st' \in [ring : [Levels -> Addr \cup {0}], sp : Levels]
  BY <1>1, Levelling DEF Call, Push
<1>3. /\ open' \in Seq(Addr) /\ Len(open') <= StackSize
      /\ Len(open') >= 1 /\ open'[Len(open')] = a
      /\ \A i \in 1..(Len(open') - 1) : open'[Len(open') - i] = open[Len(open) + 1 - i]
      /\ Len(open') - 1 <= Len(open)
  BY <1>1, NewestIs DEF Call
<1>4. StackTypeOK'
  BY <1>1, <1>2, <1>3 DEF StackTypeOK, Call
<1>5. ASSUME NEW i \in 1..Len(open')
      PROVE  st'.ring[Behind(st'.sp, i)] = open'[Len(open') + 1 - i]
  <2>0. StackSize \in Nat \ {0} /\ Len(open) \in Nat /\ Len(open') \in Nat
    BY <1>1, <1>3, StackSizeAssumption DEF StackSizeAssumption
  <2>1. CASE i = 1
    <3>1. Behind(st'.sp, 1) = st.sp
      BY <1>1, <1>2, Levelling
    <3> QED
      BY <1>1, <1>2, <1>3, <2>0, <2>1, <3>1
  <2>2. CASE i # 1
    <3> DEFINE j == i - 1
    <3>1. j \in 1..(StackSize - 1) /\ j \in 1..(Len(open') - 1) /\ j \in 1..Len(open)
      BY <1>3, <2>0, <2>2
    <3>2. /\ Behind(st'.sp, j + 1) = Behind(st.sp, j)
          /\ Behind(st.sp, j) \in Levels /\ Behind(st.sp, j) # st.sp
      BY <1>1, <1>2, <3>1, Levelling
    <3>3. st'.ring[Behind(st.sp, j)] = st.ring[Behind(st.sp, j)]
      BY <1>1, <1>2, <3>2
    <3>4. open'[Len(open') - j] = open[Len(open) + 1 - j]
      BY <1>3, <3>1
    <3>5. j + 1 = i /\ Len(open') - j = Len(open') + 1 - i
      BY <2>0
    <3> QED
      BY <1>1, <3>1, <3>2, <3>3, <3>4, <3>5
  <2> QED
    BY <2>1, <2>2
<1>6. HoldsTheInnermost'
  BY <1>3, <1>5 DEF HoldsTheInnermost, Below, Behind
<1> QED
  BY <1>4, <1>6 DEF StackInv

LEMMA ReturnStep ==
  ASSUME StackInv, Return PROVE StackInv'
<1>0. StackSize \in Nat \ {0}
  BY StackSizeAssumption DEF StackSizeAssumption
<1>1. /\ st \in [ring : [Levels -> Addr \cup {0}], sp : Levels]
      /\ open \in Seq(Addr) /\ pc \in Addr \cup {0} /\ Len(open) <= StackSize
      /\ \A i \in 1..Len(open) : st.ring[Behind(st.sp, i)] = open[Len(open) + 1 - i]
  BY DEF StackInv, StackTypeOK, HoldsTheInnermost, Below, Behind
<1>2. /\ st'.ring = st.ring /\ st'.sp = Down(st.sp)
      /\ st' \in [ring : [Levels -> Addr \cup {0}], sp : Levels]
      /\ pc' \in Addr \cup {0}
  BY <1>1, Levelling DEF Return, Popped, Top
<1>3. CASE open = <<>>
  <2>1. open' = <<>>
    BY <1>3 DEF Return
  <2> QED
    BY <1>0, <1>2, <2>1 DEF StackInv, StackTypeOK, HoldsTheInnermost
<1>4. CASE open # <<>>
  <2>1. /\ open' = SubSeq(open, 1, Len(open) - 1) /\ open' \in Seq(Addr)
        /\ Len(open) \in Nat /\ Len(open) >= 1 /\ Len(open') = Len(open) - 1
        /\ \A j \in 1..(Len(open) - 1) : open'[j] = open[j]
    <3>1. Len(open) \in Nat /\ Len(open) >= 1
      BY <1>1, <1>4
    <3>2. open' = SubSeq(open, 1, Len(open) - 1)
      BY <1>4 DEF Return
    <3>3. \A j \in 1..(Len(open) - 1) : open[j] \in Addr
      BY <1>1, <3>1
    <3>4. SubSeq(open, 1, Len(open) - 1) \in Seq(Addr)
      BY <3>1, <3>3, SubSeqProperties
    <3>5. Len(SubSeq(open, 1, Len(open) - 1)) = Len(open) - 1
      <4> DEFINE k == Len(open) - 1
                 t == SubSeq(open, 1, k)
      <4>1. Len(t) = IF 1 <= k THEN k - 1 + 1 ELSE 0
        BY <3>1, <3>3, SubSeqProperties
      <4>2. k \in Nat
        BY <3>1
      <4>3. Len(t) = k
        <5> HIDE DEF k, t
        <5> QED
          BY <4>1, <4>2
      <4> QED
        BY <4>3
    <3>6. \A j \in 1..(Len(open) - 1) : SubSeq(open, 1, Len(open) - 1)[j] = open[j]
      BY <1>1, <3>1, <3>5
    <3> QED
      BY <3>1, <3>2, <3>4, <3>5, <3>6
  <2>2. StackTypeOK'
    BY <1>2, <2>1 DEF StackTypeOK
  <2>3. ASSUME NEW i \in 1..Len(open')
        PROVE  st'.ring[Behind(st'.sp, i)] = open'[Len(open') + 1 - i]
    <3>1. i \in 1..(StackSize - 1) /\ i + 1 \in 1..Len(open)
      BY <1>0, <1>1, <2>1
    <3>2. Behind(st'.sp, i) = Behind(st.sp, i + 1)
      BY <1>1, <1>2, <3>1, Levelling
    <3>3. open'[Len(open') + 1 - i] = open[Len(open) + 1 - (i + 1)]
      BY <2>1, <3>1
    <3> QED
      BY <1>1, <1>2, <3>1, <3>2, <3>3
  <2>4. HoldsTheInnermost'
    <3>1. Len(open') <= StackSize
      BY <1>0, <1>1, <2>1
    <3> QED
      BY <2>3, <3>1 DEF HoldsTheInnermost, Below, Behind
  <2> QED
    BY <2>2, <2>4 DEF StackInv
<1> QED
  BY <1>3, <1>4

LEMMA StackInductive == StackInv /\ [StackNext]_stackVars => StackInv'
<1> SUFFICES ASSUME StackInv, [StackNext]_stackVars PROVE StackInv'
  OBVIOUS
<1>1. CASE StackReset
  <2>1. 0 \in Levels
    BY StackSizeAssumption DEF StackSizeAssumption, Levels
  <2> QED
    BY <1>1, <2>1, StackSizeAssumption
    DEF StackSizeAssumption, StackReset, EmptyStack, StackInv, StackTypeOK, HoldsTheInnermost
<1>2. CASE UNCHANGED stackVars
  BY <1>2 DEF stackVars, StackInv, StackTypeOK, HoldsTheInnermost, Below
<1> QED
  BY <1>1, <1>2, CallStep, ReturnStep DEF StackNext

LEMMA StackKeepsInv == StackSpec => []StackInv
  BY InitStack, StackInductive, PTL DEF StackSpec

(* Stack pointer, ring and PC stay within their ranges. *)
THEOREM StackTypeCorrect == StackSpec => []StackTypeOK
<1>1. StackInv => StackTypeOK
  BY DEF StackInv
<1> QED
  BY <1>1, StackKeepsInv, PTL

(* Whatever overflowed or underflowed before, the ring holds the innermost  *)
(* return addresses still open, in order (cpu.rs, push and pop).            *)
THEOREM RingHoldsTheInnermost == StackSpec => []HoldsTheInnermost
<1>1. StackInv => HoldsTheInnermost
  BY DEF StackInv
<1> QED
  BY <1>1, StackKeepsInv, PTL

----------------------------------------------------------------------------
(* Every step of the ring is a step of the abstract stack. *)

LEMMA InnermostIsNewest ==
  ASSUME NEW s \in Seq(Addr), Len(s) <= StackSize + 1
  PROVE  Promise!Innermost(s) = Newest(s)
<1>1. StackSize \in Nat \ {0}
  BY StackSizeAssumption DEF StackSizeAssumption
<1>2. CASE Len(s) > StackSize
  <2>1. Len(s) - StackSize + 1 = 2
    BY <1>1, <1>2
  <2>2. s # <<>>
    BY <1>1, <1>2
  <2>3. Tail(s) = SubSeq(s, 2, Len(s))
    BY <2>2
  <2> QED
    BY <1>2, <2>1, <2>3 DEF Promise!Innermost, Newest
<1>3. CASE ~(Len(s) > StackSize)
  BY <1>3 DEF Promise!Innermost, Newest
<1> QED
  BY <1>2, <1>3

LEMMA StepImplements ==
  ASSUME StackInv, [StackNext]_stackVars PROVE [Promise!Next]_(Promise!vars)
<1>1. ASSUME NEW a \in Addr, Call(a) PROVE Promise!Next
  <2>1. Append(open, a) \in Seq(Addr) /\ Len(Append(open, a)) <= StackSize + 1
    BY StackSizeAssumption
    DEF StackSizeAssumption, StackInv, StackTypeOK, HoldsTheInnermost
  <2>2. Promise!Enter(a)
    BY <1>1, <2>1, InnermostIsNewest DEF Call, Promise!Enter
  <2> QED
    BY <2>2 DEF Promise!Next
<1>2. CASE Return
  <2>1. CASE open = <<>>
    <3>1. st.sp \in Levels /\ st.ring \in [Levels -> Addr \cup {0}]
      BY DEF StackInv, StackTypeOK
    <3>2. pc' \in Addr \cup {0}
      BY <1>2, <3>1, Levelling DEF Return, Top
    <3> QED
      BY <1>2, <2>1, <3>2 DEF Return, Promise!Next, Promise!LeaveNothing
  <2>2. CASE open # <<>>
    <3>1. 1 \in 1..Len(open) /\ Len(open) + 1 - 1 = Len(open)
      BY <2>2 DEF StackInv, StackTypeOK
    <3>2. st.ring[Below(1)] = open[Len(open)]
      BY <3>1 DEF StackInv, HoldsTheInnermost
    <3>3. pc' = open[Len(open)]
      BY <1>2, <3>2 DEF Return, Top, Down, Below
    <3> QED
      BY <1>2, <2>2, <3>3 DEF Return, Promise!Next, Promise!Leave
  <2> QED
    BY <2>1, <2>2
<1>3. CASE StackReset
  BY <1>3 DEF StackReset, Promise!Next, Promise!Restart
<1>4. CASE UNCHANGED stackVars
  BY <1>4 DEF stackVars, Promise!vars
<1> QED
  BY <1>1, <1>2, <1>3, <1>4 DEF StackNext

(* The ring (cpu.rs:224-231) is a return stack of StackSize levels: returns *)
(* find the innermost open call, until more than StackSize were nested.     *)
THEOREM RingIsAReturnStack == StackSpec => ImplementsReturnStack
<1>1. StackInit => Promise!Init
  BY DEF StackInit, Promise!Init
<1>2. StackInv /\ [StackNext]_stackVars => [Promise!Next]_(Promise!vars)
  BY StepImplements
<1> QED
  BY <1>1, <1>2, StackKeepsInv, PTL DEF StackSpec, ImplementsReturnStack, Promise!Spec

(***************************************************************************)
(* The data EEPROM.                                                         *)
(***************************************************************************)
(* The lock and the recent history of EECON2 agree: which state the lock is *)
(* in follows from the last bytes, once one of them was no key.             *)
LockInv ==
  /\ ee.unlock = 1 => keys[3] = KEY1
  /\ ArmedOnlyByTheKeys
  /\ keys[3] \notin {KEY1, KEY2} => ee.unlock = 0
  /\ keys[2] \notin {KEY1, KEY2} /\ keys[3] = KEY1 => ee.unlock = 1
  /\ KeysArm

EepromInv == EepromTypeOK /\ LockInv

LEMMA SlotInArray == ASSUME NEW a \in Nat PROVE a % EeSize \in 0..(EeSize - 1)
  BY EeSizeAssumption DEF EeSizeAssumption

LEMMA AddressIsNat ==
  ASSUME EepromTypeOK PROVE regs.adr \in Nat
<1>1. Addresses \cup {0} \subseteq Nat
  BY EepromAssumption DEF EepromAssumption
<1>2. regs.adr \in Addresses \cup {0}
  BY DEF EepromTypeOK
<1> QED
  BY <1>1, <1>2

LEMMA BlankIsArray == Blank \in [0..(EeSize - 1) -> Data \cup {0}]
  BY EepromAssumption DEF EepromAssumption, Blank

LEMMA InitEeprom == EepromInit => EepromInv
<1> SUFFICES ASSUME EepromInit PROVE EepromInv
  OBVIOUS
<1>1. LockInv
  BY DEF EepromInit, LockInv, ArmedOnlyByTheKeys, NoKeys, None, KeysArm, LastTwo, KEY1, KEY2
<1>2. EepromTypeOK
  BY BlankIsArray DEF EepromInit, EepromTypeOK, ResetRegs, OneBit, NoKeys
<1> QED
  BY <1>1, <1>2 DEF EepromInv

(* What serving EECON1 leaves of the registers and of the array. *)
LEMMA ServedTypes ==
  ASSUME EepromTypeOK, NEW rd \in OneBit, NEW wr \in OneBit, NEW wren \in OneBit
  PROVE  LET r == Control(rd, wr, wren)
         IN /\ Eecon1Regs(r, ee) \in [rd : OneBit, wr : OneBit, wren : OneBit,
                                      data : Data \cup {0}, adr : Addresses \cup {0}]
            /\ Eecon1Array(r, ee) \in [cells : [0..(EeSize - 1) -> Data \cup {0}],
                                       unlock : 0..2]
            /\ Eecon1Regs(r, ee).wren = wren
            /\ Eecon1Regs(r, ee).adr = regs.adr
            /\ Eecon1Array(r, ee).unlock = IF wr = 1 THEN 0 ELSE ee.unlock
<1> DEFINE r == Control(rd, wr, wren)
           s == ServeRead(r, ee)
           Slot == r.adr % EeSize
<1>1. /\ r \in [rd : OneBit, wr : OneBit, wren : OneBit,
                data : Data \cup {0}, adr : Addresses \cup {0}]
      /\ r.wr = wr /\ r.wren = wren /\ r.adr = regs.adr
  BY DEF EepromTypeOK, Control
<1>2. Slot \in 0..(EeSize - 1)
  BY <1>1, SlotInArray, AddressIsNat
<1>3. ee.cells[Slot] \in Data \cup {0}
  BY <1>2 DEF EepromTypeOK
<1>4. /\ s \in [rd : OneBit, wr : OneBit, wren : OneBit,
                data : Data \cup {0}, adr : Addresses \cup {0}]
      /\ s.wr = wr /\ s.wren = wren /\ s.adr = regs.adr
  BY <1>1, <1>3 DEF ServeRead, OneBit
<1>5. s.adr % EeSize = Slot
  BY <1>1, <1>4
<1>6. [ee.cells EXCEPT ![Slot] = s.data] \in [0..(EeSize - 1) -> Data \cup {0}]
  BY <1>2, <1>4 DEF EepromTypeOK
<1>7. Burn(s, ee) \in [cells : [0..(EeSize - 1) -> Data \cup {0}], unlock : 0..2]
  BY <1>4, <1>5, <1>6 DEF EepromTypeOK, Burn
<1>8. Burn(s, ee).unlock = IF wr = 1 THEN 0 ELSE ee.unlock
  BY <1>4 DEF Burn
<1>9. /\ [s EXCEPT !.wr = 0] \in [rd : OneBit, wr : OneBit, wren : OneBit,
                                  data : Data \cup {0}, adr : Addresses \cup {0}]
      /\ [s EXCEPT !.wr = 0].wren = wren /\ [s EXCEPT !.wr = 0].adr = regs.adr
  BY <1>4 DEF OneBit
<1> QED
  BY <1>7, <1>8, <1>9 DEF Eecon1Regs, Eecon1Array

(* The only way EECON1 changes the array: a commit of EEDATA.  A read in    *)
(* the same instruction makes the commit write back what is there.          *)
LEMMA ServedArray ==
  ASSUME EepromTypeOK, NEW rd \in OneBit, NEW wr \in OneBit, NEW wren \in OneBit,
         Eecon1Array(Control(rd, wr, wren), ee).cells # ee.cells
  PROVE  /\ wr = 1 /\ wren = 1 /\ ee.unlock = 2
         /\ Eecon1Array(Control(rd, wr, wren), ee).cells
              = [ee.cells EXCEPT ![regs.adr % EeSize] = regs.data]
<1> DEFINE r == Control(rd, wr, wren)
           s == ServeRead(r, ee)
           Slot == regs.adr % EeSize
<1>1. r.wr = wr /\ r.wren = wren /\ r.adr = regs.adr /\ r.rd = rd /\ r.data = regs.data
  BY DEF EepromTypeOK, Control
<1>2. s.wr = wr /\ s.wren = wren /\ s.adr = regs.adr
      /\ s.data = IF rd = 1 THEN ee.cells[Slot] ELSE regs.data
  BY <1>1 DEF ServeRead, EepromTypeOK, Control
<1>3. Commits(s, ee)
  BY DEF Eecon1Array, Burn
<1>4. Eecon1Array(r, ee).cells = [ee.cells EXCEPT ![Slot] = s.data]
  BY <1>2, <1>3 DEF Eecon1Array, Burn
<1>5. Slot \in 0..(EeSize - 1)
  BY SlotInArray, AddressIsNat
<1>6. [ee.cells EXCEPT ![Slot] = ee.cells[Slot]] = ee.cells
  BY <1>5 DEF EepromTypeOK
<1>7. rd # 1
  BY <1>2, <1>4, <1>6
<1> QED
  BY <1>2, <1>3, <1>4, <1>7 DEF Commits

(* Another byte on EECON2 moves lock and history together. *)
LEMMA Eecon2Step ==
  ASSUME EepromInv, NEW v \in Keys, WriteEecon2(v)
  PROVE  EepromInv'
<1>1. /\ ee'.unlock = Unlocked(ee.unlock, v) /\ ee'.cells = ee.cells
      /\ ee' \in [cells : [0..(EeSize - 1) -> Data \cup {0}], unlock : 0..2]
  BY DEF EepromInv, EepromTypeOK, WriteEecon2, Unlocked
<1>2. keys'[1] = keys[2] /\ keys'[2] = keys[3] /\ keys'[3] = v
  BY DEF WriteEecon2
<1>3. EepromTypeOK'
  BY <1>1 DEF EepromInv, EepromTypeOK, WriteEecon2
<1>4. ee.unlock \in 0..2
  BY DEF EepromInv, EepromTypeOK
<1>5. LockInv'
  BY <1>1, <1>2, <1>4
  DEF EepromInv, LockInv, ArmedOnlyByTheKeys, KeysArm, LastTwo, Unlocked, KEY1, KEY2
<1> QED
  BY <1>3, <1>5 DEF EepromInv

LEMMA Eecon1Step ==
  ASSUME EepromInv, NEW rd \in OneBit, NEW wr \in OneBit, NEW wren \in OneBit,
         WriteEecon1(rd, wr, wren)
  PROVE  EepromInv'
<1>1. EepromTypeOK'
  <2>1. keys' \in (Keys \cup {None}) \X (Keys \cup {None}) \X (Keys \cup {None})
    BY DEF EepromInv, EepromTypeOK, WriteEecon1, NoKeys
  <2> QED
    BY <2>1, ServedTypes DEF EepromInv, EepromTypeOK, WriteEecon1
<1>2. ee'.unlock = IF wr = 1 THEN 0 ELSE ee.unlock
  BY ServedTypes DEF EepromInv, WriteEecon1
<1>3. LockInv'
  BY <1>2 DEF EepromInv, LockInv, ArmedOnlyByTheKeys, KeysArm, LastTwo, WriteEecon1,
              NoKeys, None, KEY1, KEY2
<1> QED
  BY <1>1, <1>3 DEF EepromInv

LEMMA RestartStep ==
  ASSUME regs' = ResetRegs, keys' = NoKeys, ee'.unlock = 0,
         ee' \in [cells : [0..(EeSize - 1) -> Data \cup {0}], unlock : 0..2]
  PROVE  EepromInv'
<1>1. EepromTypeOK'
  BY DEF EepromTypeOK, ResetRegs, OneBit, NoKeys
<1>2. LockInv'
  BY DEF LockInv, ArmedOnlyByTheKeys, KeysArm, LastTwo, NoKeys, None, KEY1, KEY2
<1> QED
  BY <1>1, <1>2 DEF EepromInv

LEMMA EepromInductive == EepromInv /\ [EepromNext]_eepromVars => EepromInv'
<1> SUFFICES ASSUME EepromInv, [EepromNext]_eepromVars PROVE EepromInv'
  OBVIOUS
<1>1. ASSUME NEW rd \in OneBit, NEW wr \in OneBit, NEW wren \in OneBit,
             WriteEecon1(rd, wr, wren)
      PROVE  EepromInv'
  BY <1>1, Eecon1Step
<1>2. ASSUME NEW rd \in OneBit, NEW wr \in OneBit, NEW wren \in OneBit,
             PokeEecon1(rd, wr, wren)
      PROVE  EepromInv'
  BY <1>2 DEF PokeEecon1, Control, EepromInv, EepromTypeOK, LockInv, ArmedOnlyByTheKeys, KeysArm,
              LastTwo
<1>3. ASSUME NEW v \in Keys, WriteEecon2(v) PROVE EepromInv'
  BY <1>3, Eecon2Step
<1>4. ASSUME NEW d \in Data, WriteEedata(d) PROVE EepromInv'
  BY <1>4 DEF WriteEedata, EepromInv, EepromTypeOK, LockInv, ArmedOnlyByTheKeys, KeysArm, LastTwo
<1>5. ASSUME NEW a \in Addresses, WriteEeadr(a) PROVE EepromInv'
  BY <1>5 DEF WriteEeadr, EepromInv, EepromTypeOK, LockInv, ArmedOnlyByTheKeys, KeysArm, LastTwo
<1>6. ASSUME NEW a \in Addresses, NEW d \in Data, LoadImage(a, d) PROVE EepromInv'
  <2>1. [Blank EXCEPT ![a % EeSize] = d] \in [0..(EeSize - 1) -> Data \cup {0}]
    BY BlankIsArray
  <2> QED
    BY <1>6, <2>1, RestartStep DEF LoadImage
<1>7. CASE EepromReset
  BY <1>7, RestartStep DEF EepromReset, EepromInv, EepromTypeOK
<1>8. CASE UNCHANGED eepromVars
  BY <1>8 DEF eepromVars, EepromInv, EepromTypeOK, LockInv, ArmedOnlyByTheKeys, KeysArm, LastTwo
<1> QED
  BY <1>1, <1>2, <1>3, <1>4, <1>5, <1>6, <1>7, <1>8 DEF EepromNext

LEMMA EepromKeepsInv == EepromSpec => []EepromInv
  BY InitEeprom, EepromInductive, PTL DEF EepromSpec

(* Every register, the array and the lock stay within their ranges. *)
THEOREM EepromTypeCorrect == EepromSpec => []EepromTypeOK
<1>1. EepromInv => EepromTypeOK
  BY DEF EepromInv
<1> QED
  BY <1>1, EepromKeepsInv, PTL

(* The lock (cpu.rs, eecon2_write) is armed by 0x55 and then 0xAA with no WR *)
(* since, and by nothing else; and these two arm it after any past that does *)
(* not end in a key byte (after 55 55 AA it is shut).                        *)
THEOREM LockObeysKeys == EepromSpec => []LockFollowsKeys
<1>1. EepromInv => LockFollowsKeys
  BY DEF EepromInv, LockInv, LockFollowsKeys
<1> QED
  BY <1>1, EepromKeepsInv, PTL

(* A byte of the array changes only by a commit right after the two keys    *)
(* under WREN, or by a load: the protection the unlock sequence exists for. *)
THEOREM ArrayIsProtected == EepromSpec => OnlyUnlockedWrites
<1> DEFINE Guarded ==
      ee'.cells # ee.cells =>
        IF regs' = ResetRegs
        THEN \E a \in DOMAIN Blank, d \in Data : ee'.cells = [Blank EXCEPT ![a] = d]
        ELSE /\ regs'.wren = 1 /\ LastTwo = <<KEY1, KEY2>> /\ keys' = NoKeys
             /\ ee'.cells = [ee.cells EXCEPT ![regs.adr % EeSize] = regs.data]
<1>1. ASSUME EepromInv, [EepromNext]_eepromVars PROVE [Guarded]_eepromVars
  <2> SUFFICES ASSUME EepromNext, ee'.cells # ee.cells PROVE Guarded
    BY <1>1
  <2>1. ASSUME NEW rd \in OneBit, NEW wr \in OneBit, NEW wren \in OneBit,
               WriteEecon1(rd, wr, wren)
        PROVE  Guarded
    <3>1. /\ wr = 1 /\ wren = 1 /\ ee.unlock = 2
          /\ ee'.cells = [ee.cells EXCEPT ![regs.adr % EeSize] = regs.data]
      BY <1>1, <2>1, ServedArray DEF EepromInv, WriteEecon1
    <3>2. regs'.wren = 1
      BY <1>1, <2>1, <3>1, ServedTypes DEF EepromInv, WriteEecon1
    <3>3. LastTwo = <<KEY1, KEY2>>
      BY <1>1, <3>1 DEF EepromInv, LockInv, ArmedOnlyByTheKeys
    <3>4. keys' = NoKeys
      BY <2>1, <3>1 DEF WriteEecon1
    <3>5. regs' # ResetRegs
      BY <3>2 DEF ResetRegs
    <3> QED
      BY <3>1, <3>2, <3>3, <3>4, <3>5
  <2>2. ASSUME NEW a \in Addresses, NEW d \in Data, LoadImage(a, d) PROVE Guarded
    <3>1. a % EeSize \in DOMAIN Blank
      BY SlotInArray, EepromAssumption DEF EepromAssumption, Blank
    <3> QED
      BY <2>2, <3>1 DEF LoadImage
  <2> QED
    BY <1>1, <2>1, <2>2
    DEF EepromNext, PokeEecon1, WriteEecon2, WriteEedata, WriteEeadr, EepromReset, EepromInv, EepromTypeOK
<1> QED
  BY <1>1, EepromKeepsInv, PTL DEF EepromSpec, OnlyUnlockedWrites

=============================================================================
