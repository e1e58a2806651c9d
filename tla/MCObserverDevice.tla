--------------------------- MODULE MCObserverDevice -------------------------
(* Instances of ObserverDevice for TLC.                                    *)
EXTENDS ObserverDevice, TLC

Interchangeable == Permutations(Runtimes)
=============================================================================
