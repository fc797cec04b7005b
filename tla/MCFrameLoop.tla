--------------------------- MODULE MCFrameLoop ---------------------------
(* FrameLoop on two flash addresses and one past the flash, with at most    *)
(* two sub-steps a frame and half-cycle wall-clock ticks.                   *)
EXTENDS FrameLoop

McFlash == {0, 1}
McTightLoop == {0}
McNothing == {}
McBeyond == {2}
McOneOrTwo == {1, 2}
McOnlyTwo == {2}
McFrameTimes == {1, 6, 8}
McWholeFrames == {3}
McBursts == {1, 2}

=============================================================================
