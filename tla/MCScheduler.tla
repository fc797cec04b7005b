---------------------------- MODULE MCScheduler ----------------------------
(* Scheduler on two flash addresses and one address past the flash.         *)
EXTENDS Scheduler

McFlash == {0, 1}
McBeyond == {2}
McStepCosts == {1, 2, 4}
McAsks == {0, 1, 3}
McLongAsk == {5}

=============================================================================
