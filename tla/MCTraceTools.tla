---------------------------- MODULE MCTraceTools ----------------------------
(* Two drones, a search that may miss one of them, and a ring of ten slots *)
(* filled twice; a clock of four ticks that may step by nearly a cycle, and *)
(* back by one.                                                            *)
EXTENDS TraceTools

MCSwarm == <<1, 2>>

MCSteps == {-1, 0, 1, 3}
=============================================================================
