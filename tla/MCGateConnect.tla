---------------------------- MODULE MCGateConnect ----------------------------
(* Instances of GateConnect for TLC.                                       *)
EXTENDS GateConnect

MCFDs == {3, 4}
==============================================================================
