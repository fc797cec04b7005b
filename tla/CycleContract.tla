--------------------------- MODULE CycleContract ---------------------------
(***************************************************************************)
(* What the cycle clock promises to the render loop (core/src/scheduler.rs, *)
(* the doc comment of run_cycles), with the instruction loop left out: a    *)
(* request for n cycles is ONE step.                                        *)
(*                                                                         *)
(* The client holds an account.  `due' is the time it has paid for, `now'   *)
(* the time the machine has reached.  A request pays n more cycles and the  *)
(* machine runs up to `due', plus at most the tail of the last instruction. *)
(* That tail is carried: it is not paid for twice.                          *)
(***************************************************************************)
EXTENDS Integers

CONSTANTS
  Tail,        \* how far past `due' the last instruction may reach
  Requests     \* the n a client may ask for

VARIABLES now, due

vars == <<now, due>>

Init == now = 0 /\ due = 0

(* A request that runs to completion.  Time already reached is not run again. *)
Serve(n) ==
  /\ due' = due + n
  /\ \/ now >= due + n /\ now' = now
     \/ now < due + n /\ now' \in (due + n)..(due + n + Tail)

(* A request cut short by a breakpoint: what was not run is written off. *)
Halt(n) ==
  /\ now' \in now..(due + n - 1)
  /\ due' = now'

(* A request cut short because the PC left the flash: nothing is written off. *)
Fail(n) ==
  /\ now' \in now..(due + n - 1)
  /\ due' = due + n

(* One instruction run by hand, outside any request: not paid for. *)
Manual == /\ now' \in (now + 1)..(now + Tail + 1)
          /\ due' = due

Restart == now' = 0 /\ due' = 0

Next ==
  \/ \E n \in Requests : Serve(n) \/ Halt(n) \/ Fail(n)
  \/ Manual
  \/ Restart

Spec == Init /\ [][Next]_vars

=============================================================================
