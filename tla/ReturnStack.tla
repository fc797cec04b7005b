---------------------------- MODULE ReturnStack ----------------------------
(***************************************************************************)
(* What the return stack promises to firmware: returns come back from the   *)
(* calls and interrupts still open, innermost first.  Only the Depth        *)
(* innermost ones are remembered, and a return from none of them goes       *)
(* nobody knows where.                                                      *)
(***************************************************************************)
EXTENDS Sequences, Integers

CONSTANTS Depth, Addr

VARIABLES open, to     \* remembered return addresses; where the last return went

vars == <<open, to>>

Innermost(s) == IF Len(s) > Depth THEN SubSeq(s, Len(s) - Depth + 1, Len(s)) ELSE s

Init == open = <<>> /\ to = 0

Enter(a) == open' = Innermost(Append(open, a)) /\ UNCHANGED to

Leave ==
  /\ open # <<>>
  /\ to' = open[Len(open)]
  /\ open' = SubSeq(open, 1, Len(open) - 1)

LeaveNothing == open = <<>> /\ open' = <<>> /\ to' \in Addr \cup {0}

Restart == open' = <<>> /\ UNCHANGED to

Next == (\E a \in Addr : Enter(a)) \/ Leave \/ LeaveNothing \/ Restart

Spec == Init /\ [][Next]_vars

=============================================================================
