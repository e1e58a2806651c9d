--------------------------- MODULE MCProducerProbe --------------------------
(***************************************************************************)
(* Instances of ProducerProbe for TLC.                                     *)
(***************************************************************************)
EXTENDS ProducerProbe

EveryFault == AllFaults
=============================================================================
