---------------------------- MODULE IdealTimer ----------------------------
(***************************************************************************)
(* What TMR0 promises to firmware (core/src/timer.rs, module comment): one  *)
(* counter of instruction cycles, `div' of them to a unit, that rolls over  *)
(* after Size units and raises a flag when it does.  A load restarts the    *)
(* unit and holds the counter for two cycles.  While external clocking is   *)
(* selected it stands still.  `event' is what the firmware just did.        *)
(***************************************************************************)
EXTENDS Integers

CONSTANTS Size, Costs, Loads

VARIABLES count, flag, hold, div, on, event

vars == <<count, flag, hold, div, on, event>>

Rates == {1, 2, 4, 8, 16, 32, 64, 128, 256}

Reset == count = 0 /\ flag = 0 /\ hold = 0 /\ div = 2 /\ on = TRUE

Init == Reset /\ event = "reset"

(* c cycles pass at the rate d, the counter being at `from' and the flag at  *)
(* f before: no cycle outside the hold and no rollover is lost.             *)
ElapseAt(d, o, from, f, c) ==
  LET counted == IF o /\ c > hold THEN c - hold ELSE 0
      sum     == from + counted
  IN /\ hold'  = IF ~o THEN hold ELSE IF hold > c THEN hold - c ELSE 0
     /\ count' = IF counted > 0 THEN sum % (Size * d) ELSE from
     /\ flag'  = IF counted > 0 /\ sum >= Size * d THEN 1 ELSE f
     /\ div' = d /\ on' = o

Elapse(from, f, c) == ElapseAt(div, on, from, f, c)

Pass(c)        == event' = "pass" /\ Elapse(count, flag, c)
(* Firmware writes the flag. *)
Flag(f, c) == event' = "ack" /\ Elapse(count, f, c)

Load(v) ==
  /\ event' = "load"
  /\ count' = v * div
  /\ hold' = 2
  /\ UNCHANGED <<flag, div, on>>

(* The counter is changed from `old' to v behind the timer's back (by the   *)
(* debugger, or through INDF): it moves by whole units, and the cycles      *)
(* counted within the unit stay.                                            *)
Poke(old, v, c) ==
  /\ event' = "poke"
  /\ old * div <= count
  /\ Elapse(count + (v - old) * div, flag, c)

(* A new rate: the units counted stay as many, of another length, and the    *)
(* cycles counted within the unit are kept, if they be more than a new one. *)
Rescale(old, d, o, c) ==
  /\ event' = "rate"
  /\ old * div <= count
  /\ ElapseAt(d, o, old * d + (count - old * div), flag, c)

Restart == event' = "reset" /\ Reset'

Next ==
  \/ \E c \in Costs : Pass(c)
  \/ \E f \in {0, 1}, c \in Costs \cup {0} : Flag(f, c)
  \/ \E v \in Loads :
       \/ Load(v)
       \/ \E old \in 0..(Size - 1), c \in Costs \cup {0} : Poke(old, v, c)
  \/ \E old \in 0..(Size - 1), d \in Rates, o \in BOOLEAN, c \in Costs \cup {0} :
       Rescale(old, d, o, c)
  \/ Restart

Spec == Init /\ [][Next]_vars

=============================================================================
