------------------------------ MODULE Timer0 ------------------------------
(***************************************************************************)
(* TMR0 driven by a running program: one action for each kind of            *)
(* instruction the timer can tell apart (cpu.rs, step), with the tick that  *)
(* the same instruction ends with.                                          *)
(***************************************************************************)
EXTENDS TimerOps

CONSTANTS
  InstrCosts,    \* cycles of an instruction: 1 or 2
  Loads,         \* values firmware writes to TMR0
  Options        \* values firmware writes to OPTION_REG

ASSUME Timer0Assumption ==
  /\ InstrCosts \subseteq 1..2
  /\ Loads \subseteq 0..(TmrSize - 1)
  /\ Options \subseteq [t0cs : 0..1, psa : 0..1, ps : 0..7]

VARIABLES
  timer,      \* [tmr0, t0if, prescaler, inhibit]
  option,     \* OPTION_REG
  (* history *)
  event,      \* what the last operation did to the timer
  spent       \* cycles it took

timerVars == <<timer, option, event, spent>>

ResetOption == [t0cs |-> 0, psa |-> 0, ps |-> 0]
ResetTimer  == [tmr0 |-> 0, t0if |-> 0, prescaler |-> 0, inhibit |-> 0]

TimerInit ==
  /\ timer = ResetTimer /\ option = ResetOption
  /\ event = "reset" /\ spent = 0

(* The end of every instruction that does not write TMR0 by its address:    *)
(* the timer, as the instruction left it, ticks for c cycles.               *)
TickAfter(t, c) ==
  /\ timer' = Tick(t, option', c)
  /\ spent' = c

(* An instruction that touches none of the timer's registers. *)
Instr(c) ==
  event' = "pass" /\ UNCHANGED option /\ TickAfter(timer, c)

(* A direct write to TMR0: no tick, the prescaler is cleared, two cycles of  *)
(* hold.  Any write takes two cycles when the instruction skips.            *)
WriteTmr0(v, c) ==
  /\ timer' = OnTmr0Write([timer EXCEPT !.tmr0 = v])
  /\ event' = "load" /\ spent' = c
  /\ UNCHANGED option

(* A write to TMR0 through INDF is not recognised as one (cpu.rs: f7 is the  *)
(* address in the instruction): the cell changes and the timer ticks on.    *)
WriteTmr0Indirect(v, c) ==
  event' = "poke" /\ UNCHANGED option /\ TickAfter([timer EXCEPT !.tmr0 = v], c)

(* A write to OPTION_REG takes effect in the tick of the same instruction. *)
WriteOption(o, c) == event' = "rate" /\ option' = o /\ TickAfter(timer, c)

(* BCF or BSF INTCON, T0IF, or any other write to INTCON *)
WriteT0if(b, c) ==
  event' = "ack" /\ UNCHANGED option /\ TickAfter([timer EXCEPT !.t0if = b], c)

(* write_data from the debugger, between two instructions: no tick, and no   *)
(* call of on_tmr0_write.                                                   *)
DebugWrite(t, o) ==
  /\ timer' = t /\ option' = o
  /\ spent' = 0

DebugTmr0(v)   == event' = "poke" /\ DebugWrite([timer EXCEPT !.tmr0 = v], option)
DebugT0if(b)   == event' = "ack" /\ DebugWrite([timer EXCEPT !.t0if = b], option)
DebugOption(o) == event' = "rate" /\ DebugWrite(timer, o)

(* Power-on reset: OPTION_REG and TMR0 are cleared with the data memory. *)
TimerPowerUp ==
  /\ timer' = ResetTimer /\ option' = ResetOption
  /\ event' = "reset" /\ spent' = 0

TimerNext ==
  \/ \E c \in InstrCosts :
       \/ Instr(c)
       \/ \E v \in Loads : WriteTmr0(v, c) \/ WriteTmr0Indirect(v, c)
       \/ \E o \in Options : WriteOption(o, c)
       \/ \E b \in 0..1 : WriteT0if(b, c)
  \/ \E v \in Loads : DebugTmr0(v)
  \/ \E o \in Options : DebugOption(o)
  \/ \E b \in 0..1 : DebugT0if(b)
  \/ TimerPowerUp

TimerSpec == TimerInit /\ [][TimerNext]_timerVars

----------------------------------------------------------------------------
(* Properties                                                               *)

(* The timer is one counter of instruction cycles: value and prescaler      *)
(* together advance by exactly the cycles that pass outside the hold, roll  *)
(* over without losing any, and raise T0IF at every rollover and never      *)
(* else, across reloads, acknowledgements and changes of rate.              *)
Ideal == INSTANCE IdealTimer WITH
  Size  <- TmrSize,
  Costs <- InstrCosts \cup {1},
  count <- timer.tmr0 * Divisor(option) + timer.prescaler,
  flag  <- timer.t0if,
  hold  <- timer.inhibit,
  div   <- Divisor(option),
  on    <- option.t0cs = 0

ImplementsIdealTimer == Ideal!Spec

(* timer.rs:6: "a write to TMR0 clears the prescaler and inhibits counting   *)
(* for two cycles", however firmware addresses it.                          *)
EveryWriteReloads ==
  event = "poke" /\ spent > 0 => timer.prescaler = 0 /\ timer.inhibit = 2

=============================================================================
