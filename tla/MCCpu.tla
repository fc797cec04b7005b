-------------------------------- MODULE MCCpu --------------------------------
(* Cpu with the programs of module Guests and, for each, the surroundings    *)
(* that matter to it: interrupt pins for the counter, frames cut short for   *)
(* the display, resets for the storage, edits under the debugger.           *)
EXTENDS Guests, CpuParts

McFirmware == {"counter", "multiplex", "storage", "debugged"}
McStopwatch == {"stopwatch"}
McDigits == {9, 10}

Names == DOMAIN Programs
Around(special, fw, usual) == [n \in Names |-> IF n = fw THEN special ELSE usual]

McPins == [Around({8, 12}, "counter", {}) EXCEPT !["stopwatch"] = {8}]
McEdits == Around({<<INTCON, 164>>, <<PCLATH, 255>>}, "debugged", {})
McDetours == Around({2047}, "debugged", {})
McFrameMin == Around(10, "multiplex", 1000)
McCycleBound == [counter |-> 55, multiplex |-> 110, storage |-> 60,
                 debugged |-> 9, stopwatch |-> 60]

=============================================================================
