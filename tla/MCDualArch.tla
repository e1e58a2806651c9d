---------------------------- MODULE MCDualArch ----------------------------
(***************************************************************************)
(* Instances of DualArch for TLC.                                          *)
(***************************************************************************)
EXTENDS DualArch

\* Every run the host's command line can ask for.
AllRuns == Runs
=============================================================================
