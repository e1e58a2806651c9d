---------------------------- MODULE MCDeviceHooks ----------------------------
EXTENDS DeviceHooks, TLC

CONSTANTS d1, d2

Devices == {d1, d2}
Symmetry == Permutations(Devices)

\* One setting per group of hooks and the state block hook, with and without the
\* canonical slot.
SomeSettings == {{}, {"provenance"}, {"exceptions"}, {"census"}, {"census", "canonical"},
                 {"semantic", "provenance", "canonical"}, {"index_fallback", "rehook"}}
===============================================================================
