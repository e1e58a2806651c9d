------------------------------ MODULE DeviceHooks ------------------------------
(* The virtual table hooks of a device in proxy.cpp: hook_create_device puts them  *)
(* in, Direct3D's own BeginStateBlock copies the library's table over the device's *)
(* and so takes them out again, hook_begin_state_block puts them back. A device    *)
(* has a table of its own; the originals and the address of "the" table are        *)
(* globals of the process.                                                         *)
EXTENDS Naturals, FiniteSets, Sequences, SequencesExt

CONSTANTS Device,      \* addresses a device can have, reused after its release
          NoDevice,    \* g_device_vtable_address is zero
          Settings,    \* the sets of switches a process may be started with
          MaxAlive,    \* devices alive together
          MaxRefusals  \* calls of VirtualProtect that fail in a behaviour

Switches == {"census", "exceptions", "texture_fallback", "index_fallback",
             "semantic", "provenance", "rehook", "canonical"}

ASSUME HookAssumption ==
    /\ Settings \subseteq SUBSET Switches
    /\ NoDevice \notin Device
    /\ MaxAlive \in Nat /\ MaxRefusals \in Nat

ObserverSlotsPresentFirst == <<"present", "end_scene", "release", "reset">>
ObserverSlots == <<"release", "reset", "present", "end_scene">>
ResourceSlots == <<"create_texture", "create_volume_texture", "create_cube_texture",
                   "create_index_buffer", "set_texture", "set_stream_source",
                   "set_indices", "create_vertex_declaration">>
DrawSlots == <<"draw_primitive", "draw_indexed_primitive">>
VB == "create_vertex_buffer"
Block == "begin_state_block"
Slot == Range(ObserverSlots) \cup Range(ResourceSlots) \cup Range(DrawSlots) \cup {VB, Block}

VARIABLES
    opt,        \* the switches of the environment
    alive,      \* devices the game holds
    hooked,     \* device -> the slots of its table that hold the observer's hook
    canonical,  \* does the library's own table hold hook_create_vertex_buffer?
    known,      \* slots whose g_real_... is set
    noted,      \* g_device_vtable_address
    refusals,   \* refusals VirtualProtect may still make
    report,     \* the last begin_state_block_rehook event
    wanted,     \* device -> the slots hooked when it was created
    several,    \* has the game ever held two devices together?
    stray       \* has a slot of a destroyed device been written?

vars == <<opt, alive, hooked, canonical, known, noted, refusals, report, wanted,
          several, stray>>

NoReport == [device |-> NoDevice, vb |-> FALSE, block |-> FALSE, observer |-> FALSE]

---------------------------------------------------------------------------
(* Which groups the switches ask for. *)

ResourceHooks ==
    opt \cap {"census", "exceptions", "texture_fallback", "index_fallback", "semantic"} # {}
DrawHooks == ResourceHooks \/ "provenance" \in opt
BlockHook == ResourceHooks /\ opt \cap {"census", "semantic", "rehook"} # {}
CanonicalHook == ResourceHooks /\ "canonical" \in opt
NotesTable == opt \cap {"census", "exceptions", "texture_fallback", "semantic"} # {}

\* patch_vtable on one table: a slot is hooked unless it must be written and
\* VirtualProtect refuses. `refused` are the slots it refuses in this call.
Hookable(table, slots, refused) == {s \in slots : s \in table \/ s \notin refused}

\* The same slots chained with &&: the first failure ends the chain.
Chained(table, slots, refused) ==
    {slots[i] : i \in {j \in DOMAIN slots :
        \A k \in 1..j : slots[k] \in Hookable(table, {slots[k]}, refused)}}

\* The slots hook_create_device tries: the observer's are chained, the rest is not.
CreateHooks(table, refused) ==
    LET loose == (IF ResourceHooks THEN Range(ResourceSlots) \cup {VB} ELSE {})
                 \cup (IF BlockHook THEN {Block} ELSE {})
                 \cup (IF DrawHooks THEN Range(DrawSlots) ELSE {})
    IN  Chained(table, ObserverSlots, refused) \cup Hookable(table, loose, refused)

\* rehook_observer_device_hooks_after_state_block: three chains, a broken one
\* leaves the others.
RehookedSlotsWithoutDraws(table, refused) ==
    Chained(table, ObserverSlots, refused)
    \cup (IF ResourceHooks THEN Chained(table, ResourceSlots, refused) ELSE {})
RehookedSlots(table, refused) ==
    Chained(table, ObserverSlots, refused)
    \cup (IF ResourceHooks THEN Chained(table, ResourceSlots, refused) ELSE {})
    \cup (IF DrawHooks THEN Chained(table, DrawSlots, refused) ELSE {})

\* What the report's observer_hooks=1 claims.
ObserverGroup ==
    Range(ObserverSlots) \cup (IF ResourceHooks THEN Range(ResourceSlots) ELSE {})
                         \cup (IF DrawHooks THEN Range(DrawSlots) ELSE {})

\* What the rehook returns: every later chain is combined with `&& hooked`.
RehooksAllLastChain(table, refused) ==
    (IF DrawHooks THEN Range(DrawSlots) ELSE Range(ObserverSlots))
        \subseteq RehookedSlots(table, refused)
RehooksAll(table, refused) == ObserverGroup \subseteq RehookedSlots(table, refused)

\* install_canonical_vertex_buffer_hook: only with the original at hand.
InstallsCanonicalUnasked(originals, refused) ==
    CanonicalHook /\ "canonical" \notin refused
InstallsCanonical(originals, refused) ==
    CanonicalHook /\ VB \in originals /\ "canonical" \notin refused

\* The table Direct3D gives a new device, and copies again at every BeginStateBlock.
NativeTable == IF canonical THEN {VB} ELSE {}

\* The slots VirtualProtect refuses in one call of a hook: at most one.
RefusedSets(slots) == {{}} \cup {{s} : s \in {t \in slots : refusals > 0}}
Spends(refused) == refusals' = refusals - Cardinality(refused)

---------------------------------------------------------------------------
Init ==
    /\ opt \in Settings
    /\ alive = {}
    /\ hooked = [d \in Device |-> {}]
    /\ canonical = FALSE
    /\ known = {}
    /\ noted = NoDevice
    /\ refusals = MaxRefusals
    /\ report = NoReport
    /\ wanted = [d \in Device |-> {}]
    /\ several = FALSE
    /\ stray = FALSE

\* g_device_vtable_address is overwritten by every device, for some of the switches.
TableNotedOnce(d) == IF NotesTable /\ noted = NoDevice THEN d ELSE noted
TableNoted(d) == IF NotesTable THEN d ELSE noted

\* hook_create_device. The originals are recorded with the first write of a slot.
CreateDevice(d) ==
    /\ d \notin alive
    /\ Cardinality(alive) < MaxAlive
    /\ \E refused \in RefusedSets(Slot \cup {"canonical"}) :
        /\ Spends(refused)
        /\ LET table == NativeTable \cup CreateHooks(NativeTable, refused)
           IN  /\ hooked' = [hooked EXCEPT ![d] = table]
               /\ wanted' = [wanted EXCEPT ![d] = table]
               /\ known' = known \cup table
               /\ canonical' = (canonical \/ InstallsCanonical(known \cup table, refused))
    /\ alive' = alive \cup {d}
    /\ noted' = TableNoted(d)
    /\ several' = (several \/ alive # {})
    /\ UNCHANGED <<opt, report, stray>>

\* The last reference of a device goes; nothing clears the noted address.
ReleaseDevice(d) ==
    /\ d \in alive
    /\ alive' = alive \ {d}
    /\ hooked' = [hooked EXCEPT ![d] = {}]
    /\ wanted' = [wanted EXCEPT ![d] = {}]
    /\ UNCHANGED <<opt, canonical, known, noted, refusals, report, several, stray>>

\* BeginStateBlock of a device whose slot is not hooked: the table is copied over.
BlockWipesHooks(d) ==
    /\ d \in alive
    /\ Block \notin hooked[d]
    /\ hooked' = [hooked EXCEPT ![d] = NativeTable]
    /\ UNCHANGED <<opt, alive, canonical, known, noted, refusals, report, wanted,
                   several, stray>>

\* rehook_vertex_buffer_after_state_block writes the slot of the noted table, not
\* of the device that is called.
RehooksVB(refused) == noted # NoDevice /\ VB \in known /\ VB \notin refused

\* hook_begin_state_block, after the native call has copied the table.
HookBeginStateBlock(d) ==
    /\ d \in alive
    /\ Block \in hooked[d]
    /\ \E refused \in RefusedSets(Slot) :
        /\ Spends(refused)
        /\ LET wiped == [hooked EXCEPT ![d] = NativeTable]
               buffer == IF RehooksVB(refused) /\ noted \in alive
                         THEN [wiped EXCEPT ![noted] = @ \cup {VB}] ELSE wiped
               table == buffer[d] \cup Hookable(buffer[d], {Block}, refused)
                                  \cup RehookedSlots(buffer[d], refused)
           IN  /\ hooked' = [buffer EXCEPT ![d] = table]
               /\ known' = known \cup table
               /\ report' = [device |-> d, vb |-> RehooksVB(refused),
                             block |-> Block \in Hookable(buffer[d], {Block}, refused),
                             observer |-> RehooksAll(buffer[d], refused)]
        /\ stray' = (stray \/ (RehooksVB(refused) /\ noted \notin alive))
    /\ UNCHANGED <<opt, alive, canonical, noted, wanted, several>>

Next ==
    \/ \E d \in Device : CreateDevice(d)
    \/ \E d \in Device : ReleaseDevice(d)
    \/ \E d \in Device : BlockWipesHooks(d)
    \/ \E d \in Device : HookBeginStateBlock(d)

Spec == Init /\ [][Next]_vars

---------------------------------------------------------------------------
\* Types of the variables; a dead device has no hooks, and a process started
\* without a switch only the four every device gets.
HooksTypeOK ==
    /\ opt \in Settings
    /\ alive \subseteq Device
    /\ hooked \in [Device -> SUBSET Slot]
    /\ wanted \in [Device -> SUBSET Slot]
    /\ \A d \in Device : d \notin alive => hooked[d] = {}
    /\ \A d \in Device : opt = {} => hooked[d] \subseteq Range(ObserverSlots)
    /\ canonical \in BOOLEAN /\ several \in BOOLEAN /\ stray \in BOOLEAN
    /\ known \subseteq Slot
    /\ noted \in Device \cup {NoDevice}
    /\ refusals \in 0..MaxRefusals
    /\ report \in [device : Device \cup {NoDevice}, vb : BOOLEAN, block : BOOLEAN,
                   observer : BOOLEAN]

\* While VirtualProtect refuses nothing, a device that hooks BeginStateBlock has,
\* between two calls of the game, every hook it was created with, however many
\* state blocks were recorded. The one exception: the vertex buffer hook is put back
\* into the noted table, so a device that is not the noted one may lose that hook
\* (docs/internal/CODEX_HANDOFF.md:631 says that the full set is restored).
EveryBlockRestores ==
    refusals = MaxRefusals =>
        \A d \in alive : Block \in wanted[d] =>
            wanted[d] \ hooked[d] \subseteq (IF noted = d THEN {} ELSE {VB})

\* A hook calls through its g_real_... without looking: no table a game can call,
\* the library's own included, holds a hook whose original was never recorded,
\* whatever VirtualProtect refused on the way.
HookHasItsOriginal ==
    /\ \A d \in alive : hooked[d] \subseteq known
    /\ canonical => VB \in known

\* While a device's frames are observed, its Release and Reset are too
\* (hook_create_device hooks them first): the registry would otherwise keep a
\* frame count for an address that is reused.  Of a device all of whose hooks a
\* state block has wiped, see BlockWipesHooks, it says nothing.
ObservedDeathIsSeen ==
    \A d \in alive : hooked[d] \cap {"present", "end_scene"} # {}
                        => {"release", "reset"} \subseteq hooked[d]

\* A begin_state_block_rehook event says what the tables hold: observer_hooks=1
\* exactly when the device has all hooks of its groups, begin_state_block=1 when
\* the next block will be seen, vertex_buffer=1 only if the slot of the noted
\* device holds the hook.
ReportIsTrue ==
    [][\A d \in Device : HookBeginStateBlock(d) =>
        /\ report'.observer <=> ObserverGroup \subseteq hooked'[d]
        /\ report'.block <=> Block \in hooked'[d]
        /\ report'.vb /\ noted \in alive => VB \in hooked'[noted]]_vars

\* The address the vertex buffer hook is written to belongs to a living device, as
\* long as the game never held two devices together: the noted address is never
\* cleared, and only the next creation corrects it.
NoStrayWrite == stray => several

\* What a state block does to the tables, both.
StateBlocksRestore == EveryBlockRestores /\ NoStrayWrite

===============================================================================
