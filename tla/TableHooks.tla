------------------------------- MODULE TableHooks -------------------------------
(* The hooks proxy.cpp puts into tables that all resources of a class share, with  *)
(* the game's threads calling through those tables meanwhile. Surfaces and managed *)
(* resources: g_managed_resource_mutex guards a map from the table to its          *)
(* originals (install_surface_vtable_hooks, install_managed_resource_release_trace) *)
(* and a hook that finds none gives up the call. The use traces: patch_vtable      *)
(* keeps one original per slot in a global and takes no lock.                      *)
EXTENDS Naturals, Sequences, SequencesExt

CONSTANTS Thread, NoThread,
          SurfaceTable,  \* tables of IDirect3DSurface9
          ReleaseTable,  \* tables of a managed resource
          MaxRefusals    \* calls of VirtualProtect that fail in a behaviour

Table == SurfaceTable \cup ReleaseTable

ASSUME TableAssumption ==
    /\ NoThread \notin Thread
    /\ SurfaceTable \cap ReleaseTable = {}
    /\ MaxRefusals \in Nat

\* The slots of a table, in the order they are written.
SlotsOf(v) == IF v \in SurfaceTable THEN <<"lock_rect", "unlock_rect">> ELSE <<"release">>
Slot == {"lock_rect", "unlock_rect", "release"}

VARIABLES
    hooked,    \* table -> its slots that hold a hook
    recorded,  \* tables with an entry in the map of originals
    mutex,     \* the thread in g_managed_resource_mutex, or NoThread
    traced,    \* does the slot of the use trace hold its hook?
    original,  \* its g_real_...: "none", "native" or "hook"
    pc,        \* thread -> what it is about to do
    refusals,  \* refusals VirtualProtect may still make
    lost       \* has a call of the game been answered by a hook alone?

vars == <<hooked, recorded, mutex, traced, original, pc, refusals, lost>>

Idle == [at |-> "idle"]
\* In install_..._hooks for table v, about to write its slot number i.
Patching(v, i) == [at |-> "patch", table |-> v, slot |-> i]
\* In a hook of table v, about to look for the original.
InHook(v) == [at |-> "hook", table |-> v]
\* In patch_vtable, about to take the step named.
Tracing(step) == [at |-> step]

TraceSteps == {"protect", "test_original", "read_slot", "write_slot"}

Places == {Idle} \cup {Tracing(s) : s \in TraceSteps} \cup {InHook(v) : v \in Table}
          \cup {Patching(v, i) : v \in Table, i \in 1..3}

Init ==
    /\ hooked = [v \in Table |-> {}]
    /\ recorded = {}
    /\ mutex = NoThread
    /\ traced = FALSE
    /\ original = "none"
    /\ pc = [t \in Thread |-> Idle]
    /\ refusals = MaxRefusals
    /\ lost = FALSE

Goes(t, step) == pc' = [pc EXCEPT ![t] = step]
Refused == refusals > 0 /\ refusals' = refusals - 1

---------------------------------------------------------------------------
(* Hooks under the mutex.                                                   *)

\* A table that holds a hook and is not in the map is left alone, and so is one
\* that is in the map with every slot hooked.
MayPatch(v) == IF v \in recorded THEN hooked[v] # Range(SlotsOf(v)) ELSE hooked[v] = {}

MayEnter == mutex = NoThread

\* The mutex is taken and the originals are read.
InstallBegins(t, v) ==
    /\ pc[t] = Idle
    /\ MayEnter
    /\ MayPatch(v)
    /\ mutex' = t
    /\ Goes(t, Patching(v, 1))
    /\ UNCHANGED <<hooked, recorded, traced, original, refusals, lost>>

\* patch_slot writes the hook; the next slot follows, or the map.
PatchSlot(t) ==
    /\ pc[t].at = "patch"
    /\ LET v == pc[t].table
           i == pc[t].slot
       IN  /\ i <= Len(SlotsOf(v))
           /\ hooked' = [hooked EXCEPT ![v] = @ \cup {SlotsOf(v)[i]}]
           /\ Goes(t, Patching(v, i + 1))
    /\ UNCHANGED <<recorded, mutex, traced, original, refusals, lost>>

\* What a refused slot number i leaves of the slots already hooked: the first is
\* given its original back, unless VirtualProtect refuses again.
AfterRefusalNoRollback(slots, i, again) == slots
AfterRefusal(slots, i, again) == IF i = 2 /\ ~again THEN slots \ {"lock_rect"} ELSE slots

\* VirtualProtect refuses a slot that is to be written; the map is not touched.
PatchRefused(t) ==
    /\ pc[t].at = "patch"
    /\ LET v == pc[t].table
           i == pc[t].slot
       IN  /\ i <= Len(SlotsOf(v))
           /\ SlotsOf(v)[i] \notin hooked[v]
           /\ \E again \in BOOLEAN :
               /\ again => i = 2
               /\ refusals >= 1 + (IF again THEN 1 ELSE 0)
               /\ refusals' = refusals - 1 - (IF again THEN 1 ELSE 0)
               /\ hooked' = [hooked EXCEPT ![v] = AfterRefusal(@, i, again)]
    /\ mutex' = NoThread
    /\ Goes(t, Idle)
    /\ UNCHANGED <<recorded, traced, original, lost>>

\* The originals enter the map and the mutex is let go.
Record(t) ==
    /\ pc[t].at = "patch"
    /\ pc[t].slot > Len(SlotsOf(pc[t].table))
    /\ recorded' = recorded \cup {pc[t].table}
    /\ mutex' = NoThread
    /\ Goes(t, Idle)
    /\ UNCHANGED <<hooked, traced, original, refusals, lost>>

\* The game calls a function of the table and finds the hook in its slot.
GameCalls(t, v) ==
    /\ pc[t] = Idle
    /\ hooked[v] # {}
    /\ Goes(t, InHook(v))
    /\ UNCHANGED <<hooked, recorded, mutex, traced, original, refusals, lost>>

\* The hook's lookup waits for the mutex.
MayLookUpAtOnce == TRUE
MayLookUp == mutex = NoThread

\* Without an original LockRect and UnlockRect answer D3DERR_INVALIDCALL and
\* Release answers 1: the call is lost to the resource.
HookLooksUp(t) ==
    /\ pc[t].at = "hook"
    /\ MayLookUp
    /\ lost' = (lost \/ pc[t].table \notin recorded)
    /\ Goes(t, Idle)
    /\ UNCHANGED <<hooked, recorded, mutex, traced, original, refusals>>

---------------------------------------------------------------------------
(* patch_vtable, in the order of its reads and writes.                      *)

TraceBegins(t) ==
    /\ pc[t] = Idle
    /\ ~traced
    /\ Goes(t, Tracing("protect"))
    /\ UNCHANGED <<hooked, recorded, mutex, traced, original, refusals, lost>>

TraceProtects(t) ==
    /\ pc[t].at = "protect"
    /\ \/ Refused /\ Goes(t, Idle)
       \/ UNCHANGED refusals /\ Goes(t, Tracing("test_original"))
    /\ UNCHANGED <<hooked, recorded, mutex, traced, original, lost>>

\* After `if (!original)`: an original that is set is kept.
AfterTestWritesFirst(known) == "write_slot"
AfterTest(known) == IF known = "none" THEN "read_slot" ELSE "write_slot"

TraceTests(t) ==
    /\ pc[t].at = "test_original"
    /\ Goes(t, Tracing(AfterTest(original)))
    /\ UNCHANGED <<hooked, recorded, mutex, traced, original, refusals, lost>>

TraceReads(t) ==
    /\ pc[t].at = "read_slot"
    /\ original' = IF traced THEN "hook" ELSE "native"
    /\ Goes(t, Tracing("write_slot"))
    /\ UNCHANGED <<hooked, recorded, mutex, traced, refusals, lost>>

TraceWrites(t) ==
    /\ pc[t].at = "write_slot"
    /\ traced' = TRUE
    /\ Goes(t, Idle)
    /\ UNCHANGED <<hooked, recorded, mutex, original, refusals, lost>>

Next ==
    \/ \E t \in Thread, v \in Table : InstallBegins(t, v)
    \/ \E t \in Thread : PatchSlot(t)
    \/ \E t \in Thread : PatchRefused(t)
    \/ \E t \in Thread : Record(t)
    \/ \E t \in Thread, v \in Table : GameCalls(t, v)
    \/ \E t \in Thread : HookLooksUp(t)
    \/ \E t \in Thread : TraceBegins(t)
    \/ \E t \in Thread : TraceProtects(t)
    \/ \E t \in Thread : TraceTests(t)
    \/ \E t \in Thread : TraceReads(t)
    \/ \E t \in Thread : TraceWrites(t)

Spec == Init /\ [][Next]_vars

---------------------------------------------------------------------------
\* Types of the variables; who writes a table's slots holds the mutex, so two
\* threads never do.
TablesTypeOK ==
    /\ hooked \in [Table -> SUBSET Slot]
    /\ \A v \in Table : hooked[v] \subseteq Range(SlotsOf(v))
    /\ recorded \subseteq Table
    /\ mutex \in Thread \cup {NoThread}
    /\ traced \in BOOLEAN /\ lost \in BOOLEAN
    /\ original \in {"none", "native", "hook"}
    /\ pc \in [Thread -> Places]
    /\ refusals \in 0..MaxRefusals
    /\ \A t \in Thread : pc[t].at = "patch" <=> mutex = t

\* What VirtualProtect has refused so far.
NothingRefused == refusals = MaxRefusals
RefusedAtMostOnce == refusals \in {MaxRefusals, MaxRefusals - 1}

\* While VirtualProtect has refused nothing, threads that call through a table that
\* is being hooked reach Direct3D: the
\* slots are written before the originals are in the map, and the lookup waits for
\* the mutex (install_surface_vtable_hooks, surface_vtable_originals).
CallsReachTheOriginal == NothingRefused => ~lost

\* Outside the mutex a table is hooked in all its slots and in the map, or in no
\* slot: a refusal of the second slot takes back the first. Otherwise LockRect
\* would be hooked without an original, for good. It takes a second refusal, of the
\* roll-back, to leave it so.
HooksComeWithTheirMap ==
    mutex = NoThread /\ RefusedAtMostOnce => \A v \in Table :
        hooked[v] = IF v \in recorded THEN Range(SlotsOf(v)) ELSE {}

\* patch_vtable takes no lock, yet a thread never finds a use trace's hook in the
\* slot before the original it calls through is set, whoever else is installing it.
TraceHasItsOriginal == traced => original # "none"

===============================================================================
