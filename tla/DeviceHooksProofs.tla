---------------------------- MODULE DeviceHooksProofs ---------------------------
(* What DeviceHooks keeps for any number of devices and of refusals, and any set   *)
(* of switches.                                                                    *)
EXTENDS DeviceHooks, FiniteSetTheorems, TLAPS

---------------------------------------------------------------------------
(* The slots, and what a chain of patches hooks of them. *)

LEMMA ObserverNames ==
    /\ DOMAIN ObserverSlots = {1, 2, 3, 4}
    /\ ObserverSlots[1] = "release" /\ ObserverSlots[2] = "reset"
    /\ ObserverSlots[3] = "present" /\ ObserverSlots[4] = "end_scene"
    /\ Range(ObserverSlots) = {"release", "reset", "present", "end_scene"}
<1>1. DOMAIN ObserverSlots = {1, 2, 3, 4}
    BY DEF ObserverSlots
<1>2. /\ ObserverSlots[1] = "release" /\ ObserverSlots[2] = "reset"
      /\ ObserverSlots[3] = "present" /\ ObserverSlots[4] = "end_scene"
    BY DEF ObserverSlots
<1> QED
    BY <1>1, <1>2 DEF Range

LEMMA OtherNames ==
    /\ Range(ResourceSlots) \cap (Range(ObserverSlots) \cup {VB, Block}) = {}
    /\ Range(DrawSlots) \cap (Range(ObserverSlots) \cup {VB, Block}) = {}
    /\ {VB, Block} \cap Range(ObserverSlots) = {} /\ VB # Block
<1>1. /\ DOMAIN ResourceSlots = 1..8 /\ DOMAIN DrawSlots = 1..2
    BY DEF ResourceSlots, DrawSlots
<1>2. Range(ResourceSlots) \subseteq
        {"create_texture", "create_volume_texture", "create_cube_texture",
         "create_index_buffer", "set_texture", "set_stream_source",
         "set_indices", "create_vertex_declaration"}
    <2> SUFFICES ASSUME NEW i \in 1..8
                 PROVE  ResourceSlots[i] \in
                          {"create_texture", "create_volume_texture", "create_cube_texture",
                           "create_index_buffer", "set_texture", "set_stream_source",
                           "set_indices", "create_vertex_declaration"}
        BY <1>1 DEF Range
    <2>1. i = 1 \/ i = 2 \/ i = 3 \/ i = 4 \/ i = 5 \/ i = 6 \/ i = 7 \/ i = 8
        OBVIOUS
    <2> QED
        BY <2>1 DEF ResourceSlots
<1>3. Range(DrawSlots) \subseteq {"draw_primitive", "draw_indexed_primitive"}
    <2> SUFFICES ASSUME NEW i \in 1..2
                 PROVE  DrawSlots[i] \in {"draw_primitive", "draw_indexed_primitive"}
        BY <1>1 DEF Range
    <2>1. i = 1 \/ i = 2
        OBVIOUS
    <2> QED
        BY <2>1 DEF DrawSlots
<1> QED
    BY <1>2, <1>3, ObserverNames DEF VB, Block

\* A chain hooks slots of its own only, and all of them if nothing is refused.
LEMMA ChainIsInside ==
    ASSUME NEW slots, NEW table, NEW refused
    PROVE  Chained(table, slots, refused) \subseteq Range(slots)
    BY DEF Chained, Range

LEMMA ChainIsWhole ==
    ASSUME NEW slots, NEW table, DOMAIN slots \subseteq Nat,
           \A i \in DOMAIN slots : \A k \in 1..i : k \in DOMAIN slots
    PROVE  Chained(table, slots, {}) = Range(slots)
    BY DEF Chained, Range, Hookable

\* The observer's chain never hooks Present or EndScene without Release and Reset.
LEMMA ChainBeginsWithRelease ==
    ASSUME NEW table, NEW refused,
           Chained(table, ObserverSlots, refused) \cap {"present", "end_scene"} # {}
    PROVE  {"release", "reset"} \subseteq Chained(table, ObserverSlots, refused)
<1>1. PICK i \in DOMAIN ObserverSlots :
        /\ ObserverSlots[i] \in {"present", "end_scene"}
        /\ \A k \in 1..i : ObserverSlots[k] \in Hookable(table, {ObserverSlots[k]}, refused)
    BY DEF Chained
<1>2. i = 3 \/ i = 4
    BY <1>1, ObserverNames
<1>3. 1 \in 1..i /\ 2 \in 1..i /\ 1..1 \subseteq 1..i /\ 1..2 \subseteq 1..i
    BY <1>2
<1>4. ObserverSlots[1] \in Chained(table, ObserverSlots, refused)
    BY <1>1, <1>3, ObserverNames DEF Chained
<1>5. ObserverSlots[2] \in Chained(table, ObserverSlots, refused)
    BY <1>1, <1>3, ObserverNames DEF Chained
<1> QED
    BY <1>4, <1>5, ObserverNames

\* What a rehook of a table writes: whole groups, or parts of them.
LEMMA RehookIsInside ==
    ASSUME NEW table, NEW refused
    PROVE  RehookedSlots(table, refused) \subseteq
             Range(ObserverSlots) \cup Range(ResourceSlots) \cup Range(DrawSlots)
    BY ChainIsInside DEF RehookedSlots

LEMMA RehookBeginsWithRelease ==
    ASSUME NEW table, NEW refused,
           RehookedSlots(table, refused) \cap {"present", "end_scene"} # {}
    PROVE  {"release", "reset"} \subseteq RehookedSlots(table, refused)
<1>1. RehookedSlots(table, refused) \cap Range(ObserverSlots)
        = Chained(table, ObserverSlots, refused)
    BY ChainIsInside, OtherNames DEF RehookedSlots
<1> QED
    BY <1>1, ChainBeginsWithRelease, ObserverNames

\* The same of the hooks of a new device.
LEMMA CreateBeginsWithRelease ==
    ASSUME NEW table, NEW refused,
           CreateHooks(table, refused) \cap {"present", "end_scene"} # {}
    PROVE  {"release", "reset"} \subseteq CreateHooks(table, refused)
<1>1. CreateHooks(table, refused) \cap Range(ObserverSlots)
        = Chained(table, ObserverSlots, refused)
    BY ChainIsInside, OtherNames DEF CreateHooks, Hookable
<1> QED
    BY <1>1, ChainBeginsWithRelease, ObserverNames

LEMMA CreateIsInside ==
    ASSUME NEW table, NEW refused
    PROVE  CreateHooks(table, refused) \subseteq Slot
    BY ChainIsInside DEF CreateHooks, Hookable, Slot

LEMMA NativeIsInside == NativeTable \subseteq {VB}
    BY DEF NativeTable

\* One call of a hook meets at most one refusal, and spends it.
LEMMA RefusalsCount ==
    ASSUME NEW slots, NEW refused \in RefusedSets(slots), Spends(refused),
           refusals \in 0..MaxRefusals
    PROVE  /\ refusals' \in 0..MaxRefusals
           /\ refusals' = MaxRefusals => refusals = MaxRefusals /\ refused = {}
<1> USE HookAssumption
<1>1. CASE refused = {}
    BY <1>1, FS_EmptySet DEF Spends
<1>2. CASE refused # {}
    <2>1. PICK s \in slots : refusals > 0 /\ refused = {s}
        BY <1>2 DEF RefusedSets
    <2>2. Cardinality(refused) = 1
        BY <2>1, FS_Singleton
    <2> QED
        BY <2>1, <2>2 DEF Spends
<1> QED
    BY <1>1, <1>2

---------------------------------------------------------------------------
(* Types. A canonical hook and a noted table come with their switches.             *)

SwitchesAgree ==
    /\ canonical => CanonicalHook
    /\ noted # NoDevice => NotesTable

TypeInv == HooksTypeOK /\ SwitchesAgree

\* A process without a switch installs only what every device gets.
LEMMA BareProcess ==
    ASSUME opt = {}
    PROVE  ~ResourceHooks /\ ~BlockHook /\ ~CanonicalHook /\ ~NotesTable
    BY DEF ResourceHooks, BlockHook, CanonicalHook, NotesTable

LEMMA BareCreate ==
    ASSUME NEW table, NEW refused, opt = {}
    PROVE  CreateHooks(table, refused) \subseteq Range(ObserverSlots) \cup
             (IF DrawHooks THEN Range(DrawSlots) ELSE {})
    BY BareProcess, ChainIsInside DEF CreateHooks, Hookable

\* What a state block that is seen leaves of the tables. `rehooked` is the noted
\* table if it is written and belongs to a living device.
LEMMA BlockLeaves ==
    ASSUME NEW d \in Device, HookBeginStateBlock(d), HooksTypeOK
    PROVE  \E refused \in RefusedSets(Slot), vb \in SUBSET {VB} :
             /\ Spends(refused)
             /\ vb \subseteq NativeTable \cup (IF RehooksVB(refused) THEN {VB} ELSE {})
             /\ RehooksVB(refused) /\ noted = d => VB \in vb
             /\ hooked' \in [Device -> SUBSET Slot]
             /\ hooked'[d] = vb \cup Hookable(vb, {Block}, refused) \cup RehookedSlots(vb, refused)
             /\ \A e \in Device \ {d} :
                  hooked'[e] = hooked[e] \cup (IF RehooksVB(refused) /\ noted = e /\ e \in alive
                                               THEN {VB} ELSE {})
             /\ known' = known \cup hooked'[d]
             /\ report' = [device |-> d, vb |-> RehooksVB(refused),
                           block |-> Block \in Hookable(vb, {Block}, refused),
                           observer |-> RehooksAll(vb, refused)]
             /\ stray' = (stray \/ (RehooksVB(refused) /\ noted \notin alive))
<1> DEFINE wiped == [hooked EXCEPT ![d] = NativeTable]
           buffer(r) == IF RehooksVB(r) /\ noted \in alive
                        THEN [wiped EXCEPT ![noted] = @ \cup {VB}] ELSE wiped
           table(r) == buffer(r)[d] \cup Hookable(buffer(r)[d], {Block}, r)
                         \cup RehookedSlots(buffer(r)[d], r)
<1>1. PICK refused \in RefusedSets(Slot) :
        /\ Spends(refused)
        /\ hooked' = [buffer(refused) EXCEPT ![d] = table(refused)]
        /\ known' = known \cup table(refused)
        /\ report' = [device |-> d, vb |-> RehooksVB(refused),
                      block |-> Block \in Hookable(buffer(refused)[d], {Block}, refused),
                      observer |-> RehooksAll(buffer(refused)[d], refused)]
        /\ stray' = (stray \/ (RehooksVB(refused) /\ noted \notin alive))
    BY DEF HookBeginStateBlock
<1>2. hooked \in [Device -> SUBSET Slot] /\ alive \subseteq Device /\ d \in alive
    BY DEF HooksTypeOK, HookBeginStateBlock
<1>3. VB \in Slot /\ Block \in Slot
    BY DEF Slot
<1>4. wiped \in [Device -> SUBSET Slot] /\ wiped[d] = NativeTable
      /\ \A e \in Device \ {d} : wiped[e] = hooked[e]
    BY <1>2, <1>3, NativeIsInside
<1> HIDE DEF wiped
<1>5. /\ buffer(refused) \in [Device -> SUBSET Slot]
      /\ buffer(refused)[d] = NativeTable \cup
           (IF RehooksVB(refused) /\ noted = d THEN {VB} ELSE {})
      /\ \A e \in Device \ {d} :
           buffer(refused)[e] = hooked[e] \cup
             (IF RehooksVB(refused) /\ noted = e /\ e \in alive THEN {VB} ELSE {})
    <2>1. CASE RehooksVB(refused) /\ noted \in alive
        BY <2>1, <1>2, <1>3, <1>4
    <2>2. CASE ~(RehooksVB(refused) /\ noted \in alive)
        BY <2>2, <1>2, <1>4
    <2> QED
        BY <2>1, <2>2
<1> HIDE DEF buffer
<1>6. table(refused) \in SUBSET Slot
    <2>1. RehookedSlots(buffer(refused)[d], refused) \subseteq Slot
        BY RehookIsInside DEF Slot
    <2>2. Hookable(buffer(refused)[d], {Block}, refused) \subseteq Slot
        BY <1>3 DEF Hookable
    <2> QED
        BY <1>5, <2>1, <2>2
<1>7. /\ hooked' \in [Device -> SUBSET Slot] /\ hooked'[d] = table(refused)
      /\ \A e \in Device \ {d} : hooked'[e] = buffer(refused)[e]
    BY <1>1, <1>5, <1>6
<1> QED
    BY <1>1, <1>5, <1>7, NativeIsInside

LEMMA TypeInit == Init => TypeInv
<1> SUFFICES ASSUME Init PROVE TypeInv
    OBVIOUS
<1>1. report \in [device : Device \cup {NoDevice}, vb : BOOLEAN, block : BOOLEAN,
                  observer : BOOLEAN]
    BY DEF Init, NoReport
<1>2. refusals \in 0..MaxRefusals
    BY HookAssumption DEF Init
<1> QED
    BY <1>1, <1>2 DEF Init, TypeInv, HooksTypeOK, SwitchesAgree

\* What the creation of a device leaves.
LEMMA CreateLeaves ==
    ASSUME NEW d \in Device, CreateDevice(d), HooksTypeOK
    PROVE  \E refused \in RefusedSets(Slot \cup {"canonical"}) :
             /\ Spends(refused)
             /\ hooked' \in [Device -> SUBSET Slot] /\ wanted' \in [Device -> SUBSET Slot]
             /\ hooked'[d] = NativeTable \cup CreateHooks(NativeTable, refused)
             /\ wanted'[d] = hooked'[d]
             /\ \A e \in Device \ {d} : hooked'[e] = hooked[e] /\ wanted'[e] = wanted[e]
             /\ known' = known \cup hooked'[d]
             /\ canonical' = (canonical \/ InstallsCanonical(known', refused))
<1> DEFINE table(r) == NativeTable \cup CreateHooks(NativeTable, r)
<1>1. PICK refused \in RefusedSets(Slot \cup {"canonical"}) :
        /\ Spends(refused)
        /\ hooked' = [hooked EXCEPT ![d] = table(refused)]
        /\ wanted' = [wanted EXCEPT ![d] = table(refused)]
        /\ known' = known \cup table(refused)
        /\ canonical' = (canonical \/ InstallsCanonical(known \cup table(refused), refused))
    BY DEF CreateDevice
<1>2. hooked \in [Device -> SUBSET Slot] /\ wanted \in [Device -> SUBSET Slot]
    BY DEF HooksTypeOK
<1>3. table(refused) \in SUBSET Slot
    BY CreateIsInside, NativeIsInside DEF Slot
<1> HIDE DEF table
<1>4. /\ hooked' \in [Device -> SUBSET Slot] /\ wanted' \in [Device -> SUBSET Slot]
      /\ hooked'[d] = table(refused) /\ wanted'[d] = table(refused)
      /\ \A e \in Device \ {d} : hooked'[e] = hooked[e] /\ wanted'[e] = wanted[e]
    BY <1>1, <1>2, <1>3
<1> QED
    BY <1>1, <1>4 DEF table

LEMMA TypeStep == TypeInv /\ [Next]_vars => TypeInv'
<1> SUFFICES ASSUME TypeInv, [Next]_vars PROVE TypeInv'
    OBVIOUS
<1> USE DEF TypeInv
<1>a. hooked \in [Device -> SUBSET Slot] /\ wanted \in [Device -> SUBSET Slot]
      /\ alive \subseteq Device /\ known \subseteq Slot /\ refusals \in 0..MaxRefusals
      /\ noted \in Device \cup {NoDevice}
    BY DEF HooksTypeOK
<1>1. ASSUME NEW d \in Device, CreateDevice(d) PROVE TypeInv'
    <2>1. PICK refused \in RefusedSets(Slot \cup {"canonical"}) :
             /\ Spends(refused)
             /\ hooked' \in [Device -> SUBSET Slot] /\ wanted' \in [Device -> SUBSET Slot]
             /\ hooked'[d] = NativeTable \cup CreateHooks(NativeTable, refused)
             /\ wanted'[d] = hooked'[d]
             /\ \A e \in Device \ {d} : hooked'[e] = hooked[e] /\ wanted'[e] = wanted[e]
             /\ known' = known \cup hooked'[d]
             /\ canonical' = (canonical \/ InstallsCanonical(known', refused))
        BY <1>1, CreateLeaves
    <2>2. opt' = opt /\ alive' = alive \cup {d} /\ noted' = TableNoted(d) /\ report' = report
          /\ several' = (several \/ alive # {}) /\ stray' = stray
        BY <1>1 DEF CreateDevice
    <2>3. refusals' \in 0..MaxRefusals
        BY <2>1, <1>a, RefusalsCount
    <2>4. SwitchesAgree'
        BY <2>1, <2>2 DEF SwitchesAgree, InstallsCanonical, CanonicalHook, ResourceHooks,
                          NotesTable, TableNoted
    <2>5. opt = {} => hooked'[d] \subseteq Range(ObserverSlots)
        <3> SUFFICES ASSUME opt = {} PROVE hooked'[d] \subseteq Range(ObserverSlots)
            OBVIOUS
        <3>1. NativeTable = {}
            BY BareProcess DEF NativeTable, SwitchesAgree
        <3>2. ~DrawHooks
            BY BareProcess DEF DrawHooks
        <3> QED
            BY <3>1, <3>2, <2>1, BareCreate
    <2>6. \A e \in Device : opt' = {} => hooked'[e] \subseteq Range(ObserverSlots)
        BY <2>1, <2>2, <2>5 DEF HooksTypeOK
    <2>7. \A e \in Device : e \notin alive' => hooked'[e] = {}
        BY <2>1, <2>2 DEF HooksTypeOK
    <2> QED
        BY <1>a, <2>1, <2>2, <2>3, <2>4, <2>6, <2>7 DEF HooksTypeOK, TableNoted
<1>2. ASSUME NEW d \in Device, ReleaseDevice(d) PROVE TypeInv'
    <2>1. /\ hooked' \in [Device -> SUBSET Slot] /\ wanted' \in [Device -> SUBSET Slot]
          /\ \A e \in Device : hooked'[e] = IF e = d THEN {} ELSE hooked[e]
        BY <1>2, <1>a DEF ReleaseDevice
    <2> QED
        BY <1>2, <2>1 DEF ReleaseDevice, HooksTypeOK, SwitchesAgree, CanonicalHook,
                          ResourceHooks, NotesTable
<1>3. ASSUME NEW d \in Device, BlockWipesHooks(d) PROVE TypeInv'
    <2>1. VB \in Slot
        BY DEF Slot
    <2>2. /\ hooked' \in [Device -> SUBSET Slot]
          /\ \A e \in Device : hooked'[e] = IF e = d THEN NativeTable ELSE hooked[e]
        BY <1>3, <1>a, <2>1, NativeIsInside DEF BlockWipesHooks
    <2>3. opt = {} => NativeTable = {}
        BY BareProcess DEF NativeTable, SwitchesAgree
    <2> QED
        BY <1>3, <2>2, <2>3 DEF BlockWipesHooks, HooksTypeOK, SwitchesAgree, CanonicalHook,
                                ResourceHooks, NotesTable
<1>4. ASSUME NEW d \in Device, HookBeginStateBlock(d) PROVE TypeInv'
    <2>1. PICK refused \in RefusedSets(Slot), vb \in SUBSET {VB} :
             /\ Spends(refused)
             /\ hooked' \in [Device -> SUBSET Slot]
             /\ \A e \in Device \ {d} :
                  hooked'[e] = hooked[e] \cup (IF RehooksVB(refused) /\ noted = e /\ e \in alive
                                               THEN {VB} ELSE {})
             /\ known' = known \cup hooked'[d]
             /\ report' = [device |-> d, vb |-> RehooksVB(refused),
                           block |-> Block \in Hookable(vb, {Block}, refused),
                           observer |-> RehooksAll(vb, refused)]
             /\ stray' = (stray \/ (RehooksVB(refused) /\ noted \notin alive))
        BY <1>4, BlockLeaves
    <2>2. d \in alive /\ opt' = opt /\ alive' = alive /\ canonical' = canonical
          /\ noted' = noted /\ wanted' = wanted /\ several' = several
        BY <1>4 DEF HookBeginStateBlock
    <2>3. refusals' \in 0..MaxRefusals
        BY <2>1, <1>a, RefusalsCount
    <2>4. opt # {}
        BY <1>4, OtherNames DEF HookBeginStateBlock, HooksTypeOK
    <2>5. report' \in [device : Device \cup {NoDevice}, vb : BOOLEAN, block : BOOLEAN,
                       observer : BOOLEAN]
        BY <2>1 DEF RehooksVB, RehooksAll
    <2>6. stray' \in BOOLEAN
        BY <2>1 DEF HooksTypeOK, RehooksVB
    <2>7. \A e \in Device : e \notin alive' => hooked'[e] = {}
        BY <2>1, <2>2 DEF HooksTypeOK
    <2>8. known' \subseteq Slot
        BY <2>1, <1>a
    <2>9. SwitchesAgree'
        BY <2>2 DEF SwitchesAgree, CanonicalHook, ResourceHooks, NotesTable
    <2> QED
        BY <1>a, <2>1, <2>2, <2>3, <2>4, <2>5, <2>6, <2>7, <2>8, <2>9 DEF HooksTypeOK
<1>5. CASE UNCHANGED vars
    BY <1>5 DEF vars, HooksTypeOK, SwitchesAgree, CanonicalHook, ResourceHooks, NotesTable
<1> QED
    BY <1>1, <1>2, <1>3, <1>4, <1>5 DEF Next

\* Types, for any number of devices and of refusals.
THEOREM HooksAreTyped == Spec => []HooksTypeOK
<1>1. TypeInv => HooksTypeOK
    BY DEF TypeInv
<1> QED
    BY <1>1, TypeInit, TypeStep, PTL DEF Spec

---------------------------------------------------------------------------
(* What the tables hold: originals, whole groups, and the noted table.             *)

OriginalsKnown ==
    /\ \A d \in Device : hooked[d] \subseteq known /\ wanted[d] \subseteq known
    /\ canonical => VB \in known
DeathSeen ==
    \A d \in Device : hooked[d] \cap {"present", "end_scene"} # {}
                        => {"release", "reset"} \subseteq hooked[d]
GroupsWanted == \A d \in Device : wanted[d] \subseteq ObserverGroup \cup {VB, Block}
OneDevice ==
    ~several => \A d \in alive : (\A e \in alive : d = e) /\ (NotesTable => noted = d)

TablesInv ==
    /\ TypeInv
    /\ OriginalsKnown
    /\ DeathSeen
    /\ GroupsWanted
    /\ OneDevice
    /\ EveryBlockRestores
    /\ NoStrayWrite

\* With nothing refused, a rehook brings back the whole groups.
LEMMA RehookIsWhole ==
    ASSUME NEW table
    PROVE  RehookedSlots(table, {}) = ObserverGroup
<1>1. /\ DOMAIN ObserverSlots = 1..4 /\ DOMAIN ResourceSlots = 1..8 /\ DOMAIN DrawSlots = 1..2
    BY DEF ObserverSlots, ResourceSlots, DrawSlots
<1>2. Chained(table, ObserverSlots, {}) = Range(ObserverSlots)
    BY <1>1, ChainIsWhole
<1>3. Chained(table, ResourceSlots, {}) = Range(ResourceSlots)
    BY <1>1, ChainIsWhole
<1>4. Chained(table, DrawSlots, {}) = Range(DrawSlots)
    BY <1>1, ChainIsWhole
<1> QED
    BY <1>2, <1>3, <1>4 DEF RehookedSlots, ObserverGroup

\* A new device gets nothing that a rehook and the two single slots would not.
LEMMA CreateIsRestorable ==
    ASSUME NEW table, NEW refused
    PROVE  CreateHooks(table, refused) \subseteq ObserverGroup \cup {VB, Block}
    BY ChainIsInside DEF CreateHooks, Hookable, ObserverGroup

LEMMA TablesInit == Init => TablesInv
<1> SUFFICES ASSUME Init PROVE TablesInv
    OBVIOUS
<1> QED
    BY TypeInit DEF Init, TablesInv, OriginalsKnown, DeathSeen, GroupsWanted, OneDevice,
                    EveryBlockRestores, NoStrayWrite

LEMMA TablesStep == TablesInv /\ [Next]_vars => TablesInv'
<1> SUFFICES ASSUME TablesInv, [Next]_vars PROVE TablesInv'
    OBVIOUS
<1>t. TypeInv'
    BY TypeStep DEF TablesInv
<1>o. opt' = opt
    BY DEF Next, CreateDevice, ReleaseDevice, BlockWipesHooks, HookBeginStateBlock, vars
<1>g. /\ ObserverGroup' = ObserverGroup /\ (NotesTable)' = NotesTable
      /\ NoDevice \notin Device
    BY <1>o, HookAssumption DEF ObserverGroup, NotesTable, ResourceHooks, DrawHooks
<1>a. /\ hooked \in [Device -> SUBSET Slot] /\ wanted \in [Device -> SUBSET Slot]
      /\ alive \subseteq Device /\ refusals \in 0..MaxRefusals
      /\ noted \in Device \cup {NoDevice} /\ HooksTypeOK
    BY DEF TablesInv, TypeInv, HooksTypeOK
<1>n. NativeTable \subseteq {VB} /\ (NativeTable # {} => VB \in known)
      /\ NativeTable \cap {"present", "end_scene"} = {}
    BY DEF NativeTable, TablesInv, OriginalsKnown, VB
<1>1. ASSUME NEW d \in Device, CreateDevice(d) PROVE TablesInv'
    <2>1. PICK refused \in RefusedSets(Slot \cup {"canonical"}) :
             /\ Spends(refused)
             /\ hooked' \in [Device -> SUBSET Slot] /\ wanted' \in [Device -> SUBSET Slot]
             /\ hooked'[d] = NativeTable \cup CreateHooks(NativeTable, refused)
             /\ wanted'[d] = hooked'[d]
             /\ \A e \in Device \ {d} : hooked'[e] = hooked[e] /\ wanted'[e] = wanted[e]
             /\ known' = known \cup hooked'[d]
             /\ canonical' = (canonical \/ InstallsCanonical(known', refused))
        BY <1>1, <1>a, CreateLeaves
    <2>2. alive' = alive \cup {d} /\ noted' = TableNoted(d) /\ stray' = stray
          /\ several' = (several \/ alive # {})
        BY <1>1 DEF CreateDevice
    <2>3. OriginalsKnown'
        BY <2>1 DEF TablesInv, OriginalsKnown, InstallsCanonical
    <2>4. DeathSeen'
        <3>1. hooked'[d] \cap {"present", "end_scene"} # {}
                => {"release", "reset"} \subseteq hooked'[d]
            BY <2>1, <1>n, CreateBeginsWithRelease
        <3> QED
            BY <2>1, <3>1 DEF TablesInv, DeathSeen
    <2>5. GroupsWanted'
        BY <2>1, <1>g, <1>n, CreateIsRestorable DEF TablesInv, GroupsWanted
    <2>6. OneDevice'
        BY <2>2, <1>g DEF OneDevice, TableNoted
    <2>7. EveryBlockRestores'
        <3> SUFFICES ASSUME refusals' = MaxRefusals, NEW e \in alive', Block \in wanted'[e]
                     PROVE  wanted'[e] \ hooked'[e] \subseteq (IF noted' = e THEN {} ELSE {VB})
            BY DEF EveryBlockRestores
        <3>1. CASE e = d
            BY <3>1, <2>1
        <3>2. CASE e # d
            <4>1. refusals = MaxRefusals /\ e \in alive /\ e \in Device
                BY <3>2, <2>1, <2>2, <1>a, RefusalsCount
            <4>2. wanted[e] \ hooked[e] \subseteq (IF noted = e THEN {} ELSE {VB})
                BY <4>1, <3>2, <2>1 DEF TablesInv, EveryBlockRestores
            <4>3. noted' = d \/ noted' = noted
                BY <2>2 DEF TableNoted
            <4> QED
                BY <4>1, <4>2, <4>3, <3>2, <2>1
        <3> QED
            BY <3>1, <3>2
    <2>8. NoStrayWrite'
        BY <2>2 DEF TablesInv, NoStrayWrite
    <2> QED
        BY <1>t, <2>3, <2>4, <2>5, <2>6, <2>7, <2>8 DEF TablesInv
<1>2. ASSUME NEW d \in Device, ReleaseDevice(d) PROVE TablesInv'
    <2>1. /\ \A e \in Device : hooked'[e] = IF e = d THEN {} ELSE hooked[e]
          /\ \A e \in Device : wanted'[e] = IF e = d THEN {} ELSE wanted[e]
        BY <1>2, <1>a DEF ReleaseDevice
    <2>2. alive' = alive \ {d} /\ known' = known /\ canonical' = canonical /\ noted' = noted
          /\ several' = several /\ stray' = stray /\ refusals' = refusals
        BY <1>2 DEF ReleaseDevice
    <2>3. OriginalsKnown' /\ DeathSeen' /\ GroupsWanted'
        BY <2>1, <2>2, <1>g DEF TablesInv, OriginalsKnown, DeathSeen, GroupsWanted
    <2>4. OneDevice' /\ NoStrayWrite'
        BY <2>2, <1>g DEF TablesInv, OneDevice, NoStrayWrite
    <2>5. EveryBlockRestores'
        BY <2>1, <2>2, <1>a DEF TablesInv, EveryBlockRestores
    <2> QED
        BY <1>t, <2>3, <2>4, <2>5 DEF TablesInv
<1>3. ASSUME NEW d \in Device, BlockWipesHooks(d) PROVE TablesInv'
    <2>1. \A e \in Device : hooked'[e] = IF e = d THEN NativeTable ELSE hooked[e]
        BY <1>3, <1>a DEF BlockWipesHooks
    <2>2. alive' = alive /\ known' = known /\ canonical' = canonical /\ noted' = noted
          /\ several' = several /\ stray' = stray /\ refusals' = refusals /\ wanted' = wanted
          /\ Block \notin hooked[d] /\ d \in alive
        BY <1>3 DEF BlockWipesHooks
    <2>3. OriginalsKnown' /\ DeathSeen' /\ GroupsWanted'
        BY <2>1, <2>2, <1>g, <1>n DEF TablesInv, OriginalsKnown, DeathSeen, GroupsWanted
    <2>4. OneDevice' /\ NoStrayWrite'
        BY <2>2, <1>g DEF TablesInv, OneDevice, NoStrayWrite
    <2>5. EveryBlockRestores'
        \* While nothing was refused, a block that is not seen is the block of a
        \* device that never hooked it.
        <3>1. refusals = MaxRefusals => Block \notin wanted[d]
            BY <2>2, OtherNames DEF TablesInv, EveryBlockRestores
        <3> QED
            BY <3>1, <2>1, <2>2, <1>a DEF TablesInv, EveryBlockRestores
    <2> QED
        BY <1>t, <2>3, <2>4, <2>5 DEF TablesInv
<1>4. ASSUME NEW d \in Device, HookBeginStateBlock(d) PROVE TablesInv'
    <2>1. PICK refused \in RefusedSets(Slot), vb \in SUBSET {VB} :
             /\ Spends(refused)
             /\ vb \subseteq NativeTable \cup (IF RehooksVB(refused) THEN {VB} ELSE {})
             /\ RehooksVB(refused) /\ noted = d => VB \in vb
             /\ hooked'[d] = vb \cup Hookable(vb, {Block}, refused) \cup RehookedSlots(vb, refused)
             /\ \A e \in Device \ {d} :
                  hooked'[e] = hooked[e] \cup (IF RehooksVB(refused) /\ noted = e /\ e \in alive
                                               THEN {VB} ELSE {})
             /\ known' = known \cup hooked'[d]
             /\ stray' = (stray \/ (RehooksVB(refused) /\ noted \notin alive))
        BY <1>4, <1>a, BlockLeaves
    <2>2. d \in alive /\ alive' = alive /\ canonical' = canonical
          /\ noted' = noted /\ wanted' = wanted /\ several' = several
        BY <1>4 DEF HookBeginStateBlock
    <2>3. OriginalsKnown'
        BY <2>1, <2>2, <1>n DEF TablesInv, OriginalsKnown, RehooksVB
    <2>4. DeathSeen'
        <3>1. (vb \cup Hookable(vb, {Block}, refused)) \cap {"present", "end_scene"} = {}
            BY <2>1 DEF Hookable, VB, Block
        <3>2. hooked'[d] \cap {"present", "end_scene"} # {}
                => {"release", "reset"} \subseteq hooked'[d]
            BY <2>1, <3>1, RehookBeginsWithRelease
        <3>3. VB \notin {"present", "end_scene"}
            BY DEF VB
        <3>4. ASSUME NEW e \in Device \ {d}, hooked'[e] \cap {"present", "end_scene"} # {}
              PROVE  {"release", "reset"} \subseteq hooked'[e]
            BY <2>1, <3>3, <3>4 DEF TablesInv, DeathSeen
        <3> QED
            BY <3>2, <3>4 DEF DeathSeen
    <2>5. GroupsWanted' /\ OneDevice'
        BY <2>2, <1>g DEF TablesInv, GroupsWanted, OneDevice
    <2>6. EveryBlockRestores'
        <3> SUFFICES ASSUME refusals' = MaxRefusals, NEW e \in alive', Block \in wanted'[e]
                     PROVE  wanted'[e] \ hooked'[e] \subseteq (IF noted' = e THEN {} ELSE {VB})
            BY DEF EveryBlockRestores
        <3>1. refusals = MaxRefusals /\ refused = {}
            BY <2>1, <1>a, RefusalsCount
        <3>2. CASE e = d
            <4>1. ObserverGroup \cup {Block} \subseteq hooked'[d]
                BY <2>1, <3>1, RehookIsWhole DEF Hookable
            <4>2. wanted[d] \subseteq ObserverGroup \cup {VB, Block} /\ wanted[d] \subseteq known
                BY DEF TablesInv, GroupsWanted, OriginalsKnown
            <4>3. noted = d /\ VB \in wanted[d] => VB \in hooked'[d]
                BY <4>2, <3>1, <2>1, <1>g DEF RehooksVB
            <4> QED
                BY <4>1, <4>2, <4>3, <3>2, <2>2
        <3>3. CASE e # d
            BY <3>1, <3>3, <2>1, <2>2, <1>a DEF TablesInv, EveryBlockRestores
        <3> QED
            BY <3>2, <3>3
    <2>7. NoStrayWrite'
        \* The noted table of a process that held one device at a time is that
        \* device's, and it is alive: it called BeginStateBlock.
        BY <2>1, <2>2 DEF TablesInv, TypeInv, SwitchesAgree, NoStrayWrite, OneDevice, RehooksVB
    <2> QED
        BY <1>t, <2>3, <2>4, <2>5, <2>6, <2>7 DEF TablesInv
<1>5. CASE UNCHANGED vars
    BY <1>5, <1>t, <1>g DEF vars, TablesInv, OriginalsKnown, DeathSeen, GroupsWanted, OneDevice,
                            EveryBlockRestores, NoStrayWrite
<1> QED
    BY <1>1, <1>2, <1>3, <1>4, <1>5 DEF Next

\* No table a game can call holds a hook whose original was never recorded.
THEOREM OriginalsAreRecorded == Spec => []HookHasItsOriginal
<1>1. TablesInv => HookHasItsOriginal
    BY DEF TablesInv, OriginalsKnown, HookHasItsOriginal, TypeInv, HooksTypeOK
<1> QED
    BY <1>1, TablesInit, TablesStep, PTL DEF Spec

\* A table with the hook on Present or EndScene has those on Release and Reset.
THEOREM DeathsAreSeen == Spec => []ObservedDeathIsSeen
<1>1. TablesInv => ObservedDeathIsSeen
    BY DEF TablesInv, DeathSeen, ObservedDeathIsSeen, TypeInv, HooksTypeOK
<1> QED
    BY <1>1, TablesInit, TablesStep, PTL DEF Spec

\* State blocks leave every hook a device was created with, but the vertex buffer
\* hook of a device that is not the noted one, and write into no dead device's
\* table while the game holds one device at a time.
THEOREM BlocksRestore == Spec => []StateBlocksRestore
<1>1. TablesInv => StateBlocksRestore
    BY DEF TablesInv, StateBlocksRestore
<1> QED
    BY <1>1, TablesInit, TablesStep, PTL DEF Spec

\* What one begin_state_block_rehook event says is what the tables hold after it.
ReportTold(d) ==
    HookBeginStateBlock(d) =>
        /\ report'.observer <=> ObserverGroup \subseteq hooked'[d]
        /\ report'.block <=> Block \in hooked'[d]
        /\ report'.vb /\ noted \in alive => VB \in hooked'[noted]

LEMMA ReportStep ==
    ASSUME HooksTypeOK, NEW d \in Device
    PROVE  ReportTold(d)
<1> SUFFICES ASSUME HookBeginStateBlock(d)
             PROVE  /\ report'.observer <=> ObserverGroup \subseteq hooked'[d]
                    /\ report'.block <=> Block \in hooked'[d]
                    /\ report'.vb /\ noted \in alive => VB \in hooked'[noted]
    BY DEF ReportTold
<1>1. PICK refused \in RefusedSets(Slot), vb \in SUBSET {VB} :
         /\ RehooksVB(refused) /\ noted = d => VB \in vb
         /\ hooked'[d] = vb \cup Hookable(vb, {Block}, refused) \cup RehookedSlots(vb, refused)
         /\ \A e \in Device \ {d} :
              hooked'[e] = hooked[e] \cup (IF RehooksVB(refused) /\ noted = e /\ e \in alive
                                           THEN {VB} ELSE {})
         /\ report' = [device |-> d, vb |-> RehooksVB(refused),
                       block |-> Block \in Hookable(vb, {Block}, refused),
                       observer |-> RehooksAll(vb, refused)]
    BY BlockLeaves
<1>2. (vb \cup Hookable(vb, {Block}, refused)) \cap ObserverGroup = {}
    BY <1>1, OtherNames DEF Hookable, ObserverGroup
<1>3. report'.observer <=> ObserverGroup \subseteq hooked'[d]
    BY <1>1, <1>2 DEF RehooksAll
<1>4. Block \notin vb /\ Block \notin RehookedSlots(vb, refused)
    BY <1>1, OtherNames, RehookIsInside
<1>5. report'.block <=> Block \in hooked'[d]
    BY <1>1, <1>4
<1>6. report'.vb /\ noted \in alive => VB \in hooked'[noted]
    BY <1>1 DEF HooksTypeOK
<1> QED
    BY <1>3, <1>5, <1>6

\* A begin_state_block_rehook event is true of the tables it leaves.
THEOREM ReportsAreTrue == Spec => ReportIsTrue
<1>1. TypeInv /\ [Next]_vars => [\A d \in Device : HookBeginStateBlock(d) =>
        /\ report'.observer <=> ObserverGroup \subseteq hooked'[d]
        /\ report'.block <=> Block \in hooked'[d]
        /\ report'.vb /\ noted \in alive => VB \in hooked'[noted]]_vars
    BY ReportStep DEF TypeInv, ReportTold
<1> QED
    BY <1>1, TypeInit, TypeStep, PTL DEF Spec, ReportIsTrue
===============================================================================
