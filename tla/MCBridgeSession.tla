--------------------------- MODULE MCBridgeSession ---------------------------
(***************************************************************************)
(* An instance of BridgeSession for TLC.  Four frames over two slots use   *)
(* each slot twice, so every slot is reused once while the other is in     *)
(* flight.                                                                 *)
(***************************************************************************)
EXTENDS BridgeSession

EveryFault == AllFaults
EveryBootstrapFault == AllBootstrapFaults
==============================================================================
