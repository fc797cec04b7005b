------------------------------ MODULE StackOps ------------------------------
(***************************************************************************)
(* The hardware return stack as functions on a record [ring, sp]            *)
(* (core/src/cpu.rs, push and pop).                                         *)
(***************************************************************************)
EXTENDS Integers

CONSTANT StackSize     \* 8 in the code

ASSUME StackSizeAssumption == StackSize \in Nat \ {0}

Levels == 0..(StackSize - 1)

EmptyStack == [ring |-> [l \in Levels |-> 0], sp |-> 0]

Up(sp)   == (sp + 1) % StackSize
Down(sp) == (sp + StackSize - 1) % StackSize

(* Mutant: the load before the move. *)
TopAtPointer(s) == s.ring[s.sp]

Push(s, a) == [ring |-> [s.ring EXCEPT ![s.sp] = a], sp |-> Up(s.sp)]
Popped(s)  == [s EXCEPT !.sp = Down(s.sp)]
Top(s)     == s.ring[Down(s.sp)]

=============================================================================
