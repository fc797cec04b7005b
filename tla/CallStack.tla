----------------------------- MODULE CallStack -----------------------------
(***************************************************************************)
(* The return stack in use: CALL and interrupt entry push, RETURN, RETLW    *)
(* and RETFIE pop (cpu.rs).  The ring wraps silently when it overflows and  *)
(* when it underflows.                                                      *)
(***************************************************************************)
EXTENDS StackOps, Sequences

CONSTANT Addr     \* return addresses

ASSUME AddrAssumption == Addr \subseteq Nat

VARIABLES
  st,       \* Cpu.stack and Cpu.sp
  pc,       \* where the last return went
  open      \* history: return addresses pushed and neither popped nor overrun

stackVars == <<st, pc, open>>

StackInit == st = EmptyStack /\ pc = 0 /\ open = <<>>

Newest(s) == IF Len(s) > StackSize THEN Tail(s) ELSE s

(* CALL, and service_interrupts *)
Call(a) ==
  /\ st' = Push(st, a)
  /\ open' = Newest(Append(open, a))
  /\ UNCHANGED pc

(* RETURN, RETLW, RETFIE *)
Return ==
  /\ pc' = Top(st)
  /\ st' = Popped(st)
  /\ open' = IF open = <<>> THEN open ELSE SubSeq(open, 1, Len(open) - 1)

StackReset == st' = EmptyStack /\ open' = <<>> /\ UNCHANGED pc

StackNext == (\E a \in Addr : Call(a)) \/ Return \/ StackReset

StackSpec == StackInit /\ [][StackNext]_stackVars

----------------------------------------------------------------------------
StackTypeOK ==
  /\ st \in [ring : [Levels -> Addr \cup {0}], sp : Levels]
  /\ pc \in Addr \cup {0}
  /\ open \in Seq(Addr)

(* The i-th entry below the top of the ring, i = 1 for the top. *)
Below(i) == (st.sp + StackSize - i) % StackSize

(* The ring holds, in order below sp, every return address still open, and  *)
(* never more than StackSize of them: whatever overflowed or underflowed    *)
(* before, the entries a return will find are the innermost ones.           *)
HoldsTheInnermost ==
  /\ Len(open) <= StackSize
  /\ \A i \in 1..Len(open) : st.ring[Below(i)] = open[Len(open) + 1 - i]

(* The ring is a return stack of StackSize levels. *)
Promise == INSTANCE ReturnStack WITH Depth <- StackSize, to <- pc

ImplementsReturnStack == Promise!Spec

=============================================================================
