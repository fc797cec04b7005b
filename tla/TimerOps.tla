----------------------------- MODULE TimerOps -----------------------------
(***************************************************************************)
(* TMR0 and its prescaler as functions on a record (core/src/timer.rs).     *)
(*   t = [tmr0, t0if, prescaler, inhibit]: the TMR0 cell, the T0IF bit of   *)
(*       INTCON and the two fields of Timer0;                               *)
(*   o = [t0cs, psa, ps]: the bits of OPTION_REG that tick() reads.         *)
(***************************************************************************)
EXTENDS Integers

CONSTANT TmrSize     \* values of the TMR0 register: 256 in the code

ASSUME TmrSizeAssumption == TmrSize \in Nat \ {0}

(* 2^(PS+1) when the prescaler is assigned to TMR0, else 1:1. *)
Divisor(o) ==
  IF o.psa = 0 THEN <<2, 4, 8, 16, 32, 64, 128, 256>>[o.ps + 1] ELSE 1

TimerReset(t) == [t EXCEPT !.prescaler = 0, !.inhibit = 0]

(* Mutant: the prescaler is not cleared. *)
OnTmr0WriteKeepsPrescaler(t) == [t EXCEPT !.inhibit = 2]

OnTmr0Write(t) == [t EXCEPT !.prescaler = 0, !.inhibit = 2]

(* What is left of `cyc' cycles after the inhibited ones. *)
Inhibited(t, cyc) == IF t.inhibit < cyc THEN t.inhibit ELSE cyc

(* tick(cyc) *)
Tick(t, o, cyc) ==
  LET ticks == cyc - Inhibited(t, cyc)
      acc   == t.prescaler + ticks
      total == t.tmr0 + acc \div Divisor(o)
      held  == [t EXCEPT !.inhibit = @ - Inhibited(t, cyc)]
  IN CASE o.t0cs = 1 -> t
       [] o.t0cs = 0 /\ ticks = 0 -> held
       [] o.t0cs = 0 /\ ticks > 0 ->
            [held EXCEPT !.prescaler = acc % Divisor(o),
                         !.tmr0 = total % TmrSize,
                         !.t0if = IF total >= TmrSize THEN 1 ELSE @]

=============================================================================
