-------------------------- MODULE MCTemporalHarness --------------------------
(***************************************************************************)
(* An instance of TemporalHarness for TLC: one scenario that stands still, *)
(* one that moves, counters that wrap early.                               *)
(***************************************************************************)
EXTENDS TemporalHarness

SomeScenarios == {"static_scene", "rigid_object"}
SomeMoving == {"rigid_object"}
SomeOrder == << "static_scene", "rigid_object" >>
Wide == [width |-> 2, height |-> 1]
=============================================================================
