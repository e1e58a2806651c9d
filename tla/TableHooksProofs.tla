---------------------------- MODULE TableHooksProofs ----------------------------
(* What TableHooks keeps for any number of threads and tables.                     *)
EXTENDS TableHooks, TLAPS

\* The slots of a table, as a set.
LEMMA SlotSets ==
    ASSUME NEW v \in Table
    PROVE  /\ v \in SurfaceTable => /\ Range(SlotsOf(v)) = {"lock_rect", "unlock_rect"}
                                    /\ Len(SlotsOf(v)) = 2
                                    /\ SlotsOf(v)[1] = "lock_rect"
                                    /\ SlotsOf(v)[2] = "unlock_rect"
           /\ v \notin SurfaceTable => /\ Range(SlotsOf(v)) = {"release"}
                                       /\ Len(SlotsOf(v)) = 1
                                       /\ SlotsOf(v)[1] = "release"
<1>1. CASE v \in SurfaceTable
    <2>1. SlotsOf(v) = <<"lock_rect", "unlock_rect">>
        BY <1>1 DEF SlotsOf
    <2>2. DOMAIN SlotsOf(v) = {1, 2}
        BY <2>1
    <2> QED
        BY <1>1, <2>1, <2>2 DEF Range
<1>2. CASE v \notin SurfaceTable
    <2>1. SlotsOf(v) = <<"release">>
        BY <1>2 DEF SlotsOf
    <2>2. DOMAIN SlotsOf(v) = {1}
        BY <2>1
    <2> QED
        BY <1>2, <2>1, <2>2 DEF Range
<1> QED
    BY <1>1, <1>2

LEMMA SlotInTable ==
    ASSUME NEW v \in Table, NEW i \in 1..3, i <= Len(SlotsOf(v))
    PROVE  /\ SlotsOf(v)[i] \in Range(SlotsOf(v))
           /\ i + 1 \in 1..3
           /\ i = 1 \/ (i = 2 /\ v \in SurfaceTable)
<1>1. CASE v \in SurfaceTable
    <2>0. Len(SlotsOf(v)) = 2
        BY <1>1, SlotSets
    <2>1. i = 1 \/ i = 2
        BY <2>0
    <2> QED
        BY <1>1, <2>1, SlotSets
<1>2. CASE v \notin SurfaceTable
    <2>0. Len(SlotsOf(v)) = 1
        BY <1>2, SlotSets
    <2>1. i = 1
        BY <2>0
    <2> QED
        BY <1>2, <2>1, SlotSets
<1> QED
    BY <1>1, <1>2

LEMMA RangeInSlot == ASSUME NEW v \in Table PROVE Range(SlotsOf(v)) \subseteq Slot
    BY SlotSets DEF Slot

\* The places a thread can be at.
LEMMA PlacesAre ==
    /\ Idle \in Places
    /\ \A s \in TraceSteps : Tracing(s) \in Places
    /\ \A v \in Table : InHook(v) \in Places
    /\ \A v \in Table, i \in 1..3 : Patching(v, i) \in Places
    BY DEF Places

LEMMA PlaceIs ==
    ASSUME NEW p \in Places
    PROVE  /\ p.at = "patch" => p.table \in Table /\ p.slot \in 1..3
           /\ p.at = "hook" => p.table \in Table
    BY DEF Places, Idle, Tracing, InHook, Patching, TraceSteps

LEMMA PlaceNames ==
    /\ Idle.at = "idle"
    /\ \A s \in TraceSteps : Tracing(s).at = s
    /\ \A v : InHook(v).at = "hook" /\ InHook(v).table = v
    /\ \A v, i : /\ Patching(v, i).at = "patch" /\ Patching(v, i).table = v
                 /\ Patching(v, i).slot = i
    BY DEF Idle, Tracing, InHook, Patching

\* A thread goes somewhere; the others stay.
LEMMA Going ==
    ASSUME pc \in [Thread -> Places], NEW t \in Thread, NEW p \in Places, Goes(t, p)
    PROVE  /\ pc' \in [Thread -> Places]
           /\ pc'[t] = p
           /\ \A u \in Thread : u # t => pc'[u] = pc[u]
    BY DEF Goes

LEMMA TypeInit == Init => TablesTypeOK
<1> SUFFICES ASSUME Init PROVE TablesTypeOK
    OBVIOUS
<1>1. pc \in [Thread -> Places]
    BY PlacesAre DEF Init
<1>2. \A t \in Thread : pc[t].at # "patch"
    BY PlaceNames DEF Init
<1>3. \A t \in Thread : mutex # t
    BY TableAssumption DEF Init
<1>4. \A v \in Table : hooked[v] = {}
    BY DEF Init
<1>5. hooked \in [Table -> SUBSET Slot]
    BY DEF Init
<1>6. refusals \in 0..MaxRefusals
    BY TableAssumption DEF Init
<1> QED
    BY <1>1, <1>2, <1>3, <1>4, <1>5, <1>6 DEF Init, TablesTypeOK

\* A step that neither takes nor frees the mutex, and moves one thread between
\* places outside it, keeps the owner.
LEMMA OwnerStays ==
    ASSUME TablesTypeOK, NEW t \in Thread, NEW p \in Places, Goes(t, p),
           mutex' = mutex, pc[t].at = "patch" <=> p.at = "patch"
    PROVE  /\ pc' \in [Thread -> Places]
           /\ \A u \in Thread : pc'[u].at = "patch" <=> mutex' = u
    BY Going DEF TablesTypeOK

LEMMA TypeStep == TablesTypeOK /\ [Next]_vars => TablesTypeOK'
<1> SUFFICES ASSUME TablesTypeOK, [Next]_vars PROVE TablesTypeOK'
    OBVIOUS
<1> USE TableAssumption
<1>1. ASSUME NEW t \in Thread, NEW v \in Table, InstallBegins(t, v) PROVE TablesTypeOK'
    <2>1. 1 <= 3 /\ Patching(v, 1) \in Places
        BY PlacesAre
    <2>2. Goes(t, Patching(v, 1))
        BY <1>1 DEF InstallBegins
    <2>3. /\ pc' \in [Thread -> Places] /\ pc'[t] = Patching(v, 1)
          /\ \A u \in Thread : u # t => pc'[u] = pc[u]
        BY <2>1, <2>2, Going DEF TablesTypeOK
    <2>4. pc'[t].at = "patch" /\ mutex' = t
        BY <1>1, <2>3, PlaceNames DEF InstallBegins
    <2>5. \A u \in Thread : u # t => pc'[u].at # "patch"
        BY <1>1, <2>3 DEF InstallBegins, MayEnter, TablesTypeOK
    <2> QED
        BY <1>1, <2>3, <2>4, <2>5 DEF InstallBegins, TablesTypeOK
<1>2. ASSUME NEW t \in Thread, PatchSlot(t) PROVE TablesTypeOK'
    <2> DEFINE v == pc[t].table  i == pc[t].slot
    <2>1. v \in Table /\ i \in 1..3 /\ i <= Len(SlotsOf(v)) /\ pc[t].at = "patch"
        BY <1>2, PlaceIs DEF PatchSlot, TablesTypeOK
    <2>2. SlotsOf(v)[i] \in Range(SlotsOf(v)) /\ i + 1 \in 1..3
        BY <2>1, SlotInTable
    <2>3. Patching(v, i + 1) \in Places /\ Patching(v, i + 1).at = "patch"
        BY <2>1, <2>2, PlacesAre, PlaceNames
    <2>4. /\ pc' \in [Thread -> Places]
          /\ \A u \in Thread : pc'[u].at = "patch" <=> mutex' = u
        BY <1>2, <2>1, <2>3, OwnerStays DEF PatchSlot
    <2>5. SlotsOf(v)[i] \in Slot
        BY <2>1, <2>2, RangeInSlot
    <2>6. hooked' = [hooked EXCEPT ![v] = @ \cup {SlotsOf(v)[i]}]
        BY <1>2 DEF PatchSlot
    <2> HIDE DEF v, i
    <2>7. /\ hooked' \in [Table -> SUBSET Slot]
          /\ \A w \in Table : hooked'[w] \subseteq Range(SlotsOf(w))
        BY <2>1, <2>2, <2>5, <2>6 DEF TablesTypeOK
    <2> QED
        BY <1>2, <2>4, <2>7 DEF PatchSlot, TablesTypeOK
<1>3. ASSUME NEW t \in Thread, PatchRefused(t) PROVE TablesTypeOK'
    <2> DEFINE v == pc[t].table  i == pc[t].slot
    <2>1. v \in Table /\ pc[t].at = "patch"
        BY <1>3, PlaceIs DEF PatchRefused, TablesTypeOK
    <2>2. PICK again \in BOOLEAN :
              /\ refusals >= 1 + (IF again THEN 1 ELSE 0)
              /\ refusals' = refusals - 1 - (IF again THEN 1 ELSE 0)
              /\ hooked' = [hooked EXCEPT ![v] = AfterRefusal(@, i, again)]
        BY <1>3 DEF PatchRefused
    <2>3. AfterRefusal(hooked[v], i, again) \subseteq hooked[v]
        BY DEF AfterRefusal
    <2>4. refusals' \in 0..MaxRefusals
        BY <2>2 DEF TablesTypeOK
    <2>5. /\ pc' \in [Thread -> Places] /\ pc'[t] = Idle
          /\ \A u \in Thread : u # t => pc'[u] = pc[u]
        BY <1>3, PlacesAre, Going DEF PatchRefused, TablesTypeOK
    <2>6. \A u \in Thread : pc'[u].at # "patch" /\ mutex' # u
        BY <1>3, <2>1, <2>5, PlaceNames DEF PatchRefused, TablesTypeOK
    <2> HIDE DEF v, i
    <2>7. /\ hooked' \in [Table -> SUBSET Slot]
          /\ \A w \in Table : hooked'[w] \subseteq Range(SlotsOf(w))
        BY <2>1, <2>2, <2>3 DEF TablesTypeOK
    <2> QED
        BY <1>3, <2>4, <2>5, <2>6, <2>7 DEF PatchRefused, TablesTypeOK
<1>4. ASSUME NEW t \in Thread, Record(t) PROVE TablesTypeOK'
    <2>1. pc[t].table \in Table /\ pc[t].at = "patch"
        BY <1>4, PlaceIs DEF Record, TablesTypeOK
    <2>2. /\ pc' \in [Thread -> Places] /\ pc'[t] = Idle
          /\ \A u \in Thread : u # t => pc'[u] = pc[u]
        BY <1>4, PlacesAre, Going DEF Record, TablesTypeOK
    <2>3. \A u \in Thread : pc'[u].at # "patch" /\ mutex' # u
        BY <1>4, <2>1, <2>2, PlaceNames DEF Record, TablesTypeOK
    <2> QED
        BY <1>4, <2>1, <2>2, <2>3 DEF Record, TablesTypeOK
<1>5. ASSUME NEW t \in Thread, NEW v \in Table, GameCalls(t, v) PROVE TablesTypeOK'
    <2>1. InHook(v) \in Places /\ InHook(v).at = "hook" /\ pc[t].at = "idle"
        BY <1>5, PlacesAre, PlaceNames DEF GameCalls
    <2>2. /\ pc' \in [Thread -> Places]
          /\ \A u \in Thread : pc'[u].at = "patch" <=> mutex' = u
        BY <1>5, <2>1, OwnerStays DEF GameCalls
    <2> QED
        BY <1>5, <2>2 DEF GameCalls, TablesTypeOK
<1>6. ASSUME NEW t \in Thread, HookLooksUp(t) PROVE TablesTypeOK'
    <2>1. Idle \in Places /\ Idle.at = "idle"
        BY PlacesAre, PlaceNames
    <2>2. /\ pc' \in [Thread -> Places]
          /\ \A u \in Thread : pc'[u].at = "patch" <=> mutex' = u
        BY <1>6, <2>1, OwnerStays DEF HookLooksUp
    <2>3. lost' \in BOOLEAN
        BY <1>6 DEF HookLooksUp, TablesTypeOK
    <2> QED
        BY <1>6, <2>2, <2>3 DEF HookLooksUp, TablesTypeOK
<1>7. ASSUME NEW t \in Thread, TraceBegins(t) PROVE TablesTypeOK'
    <2>1. /\ "protect" \in TraceSteps /\ Tracing("protect") \in Places
          /\ Tracing("protect").at = "protect" /\ pc[t].at = "idle"
        BY <1>7, PlacesAre, PlaceNames DEF TraceBegins, TraceSteps
    <2>2. /\ pc' \in [Thread -> Places]
          /\ \A u \in Thread : pc'[u].at = "patch" <=> mutex' = u
        BY <1>7, <2>1, OwnerStays DEF TraceBegins
    <2> QED
        BY <1>7, <2>2 DEF TraceBegins, TablesTypeOK
<1>8. ASSUME NEW t \in Thread, TraceProtects(t) PROVE TablesTypeOK'
    <2>1. "test_original" \in TraceSteps
        BY DEF TraceSteps
    <2>2. PICK p \in {Idle, Tracing("test_original")} : Goes(t, p)
        BY <1>8 DEF TraceProtects
    <2>3. p \in Places /\ p.at # "patch"
        BY <2>1, PlacesAre, PlaceNames
    <2>4. /\ pc' \in [Thread -> Places]
          /\ \A u \in Thread : pc'[u].at = "patch" <=> mutex' = u
        BY <1>8, <2>2, <2>3, OwnerStays DEF TraceProtects
    <2>5. refusals' \in 0..MaxRefusals
        BY <1>8 DEF TraceProtects, Refused, TablesTypeOK
    <2> QED
        BY <1>8, <2>4, <2>5 DEF TraceProtects, TablesTypeOK
<1>9. ASSUME NEW t \in Thread, TraceTests(t) PROVE TablesTypeOK'
    <2>1. AfterTest(original) \in TraceSteps /\ AfterTest(original) # "patch"
        BY DEF AfterTest, TraceSteps
    <2>2. /\ Tracing(AfterTest(original)) \in Places
          /\ Tracing(AfterTest(original)).at # "patch"
        BY <2>1, PlacesAre, PlaceNames
    <2>3. /\ pc' \in [Thread -> Places]
          /\ \A u \in Thread : pc'[u].at = "patch" <=> mutex' = u
        BY <1>9, <2>2, OwnerStays DEF TraceTests
    <2> QED
        BY <1>9, <2>3 DEF TraceTests, TablesTypeOK
<1>10. ASSUME NEW t \in Thread, TraceReads(t) PROVE TablesTypeOK'
    <2>1. "write_slot" \in TraceSteps
        BY DEF TraceSteps
    <2>2. Tracing("write_slot") \in Places /\ Tracing("write_slot").at = "write_slot"
        BY <2>1, PlacesAre, PlaceNames
    <2>3. /\ pc' \in [Thread -> Places]
          /\ \A u \in Thread : pc'[u].at = "patch" <=> mutex' = u
        BY <1>10, <2>2, OwnerStays DEF TraceReads
    <2>4. original' \in {"none", "native", "hook"}
        BY <1>10 DEF TraceReads
    <2> QED
        BY <1>10, <2>3, <2>4 DEF TraceReads, TablesTypeOK
<1>11. ASSUME NEW t \in Thread, TraceWrites(t) PROVE TablesTypeOK'
    <2>1. Idle \in Places /\ Idle.at = "idle"
        BY PlacesAre, PlaceNames
    <2>2. /\ pc' \in [Thread -> Places]
          /\ \A u \in Thread : pc'[u].at = "patch" <=> mutex' = u
        BY <1>11, <2>1, OwnerStays DEF TraceWrites
    <2> QED
        BY <1>11, <2>2 DEF TraceWrites, TablesTypeOK
<1>12. CASE UNCHANGED vars
    BY <1>12 DEF vars, TablesTypeOK
<1> QED
    BY <1>1, <1>2, <1>3, <1>4, <1>5, <1>6, <1>7, <1>8, <1>9, <1>10, <1>11, <1>12 DEF Next

\* The types hold in every state, and only the owner of the mutex is writing slots.
THEOREM TypesHold == Spec => []TablesTypeOK
    BY TypeInit, TypeStep, PTL DEF Spec

------------------------------------------------------------------------------
\* The table a thread is writing, if any.
UnderWay(v) == \E t \in Thread : mutex = t /\ pc[t].table = v

\* The slots of v that come before slot number i.
Before(v, i) == {SlotsOf(v)[j] : j \in {k \in 1..2 : k < i /\ k <= Len(SlotsOf(v))}}

\* With at most one refusal: a table nobody is writing agrees with the map, the one
\* that is being written is not in the map and is hooked up to the slot reached.
MapAgrees ==
    \A v \in Table :
        /\ ~UnderWay(v) => hooked[v] = IF v \in recorded THEN Range(SlotsOf(v)) ELSE {}
        /\ \A t \in Thread : mutex = t /\ pc[t].table = v =>
               v \notin recorded /\ hooked[v] = Before(v, pc[t].slot)

LEMMA BeforeIs ==
    ASSUME NEW v \in Table
    PROVE  /\ Before(v, 1) = {}
           /\ \A i \in 1..3 : i <= Len(SlotsOf(v)) =>
                  Before(v, i + 1) = Before(v, i) \cup {SlotsOf(v)[i]}
           /\ \A i \in 1..3 : i > Len(SlotsOf(v)) => Before(v, i) = Range(SlotsOf(v))
           /\ v \in SurfaceTable => Before(v, 2) = {"lock_rect"}
<1>1. CASE v \in SurfaceTable
    <2>1. Len(SlotsOf(v)) = 2 /\ SlotsOf(v)[1] = "lock_rect" /\ SlotsOf(v)[2] = "unlock_rect"
          /\ Range(SlotsOf(v)) = {"lock_rect", "unlock_rect"}
        BY <1>1, SlotSets
    <2>2. Before(v, 1) = {} /\ Before(v, 2) = {"lock_rect"}
          /\ Before(v, 3) = {"lock_rect", "unlock_rect"}
        BY <2>1 DEF Before
    <2>3. \A i \in 1..3 : i <= 2 => i = 1 \/ i = 2
        OBVIOUS
    <2>4. \A i \in 1..3 : i > 2 => i = 3
        OBVIOUS
    <2> QED
        BY <1>1, <2>1, <2>2, <2>3, <2>4
<1>2. CASE v \notin SurfaceTable
    <2>1. Len(SlotsOf(v)) = 1 /\ SlotsOf(v)[1] = "release"
          /\ Range(SlotsOf(v)) = {"release"}
        BY <1>2, SlotSets
    <2>2. Before(v, 1) = {} /\ Before(v, 2) = {"release"} /\ Before(v, 3) = {"release"}
        BY <2>1 DEF Before
    <2>3. \A i \in 1..3 : i <= 1 => i = 1
        OBVIOUS
    <2>4. \A i \in 1..3 : i > 1 => i = 2 \/ i = 3
        OBVIOUS
    <2> QED
        BY <1>2, <2>1, <2>2, <2>3, <2>4
<1> QED
    BY <1>1, <1>2

LEMMA MapInit == Init => MapAgrees
    BY TableAssumption DEF Init, MapAgrees, UnderWay

\* Steps that touch neither the tables nor the map nor the mutex, of a thread that
\* does not write slots.
LEMMA MapUntouched ==
    ASSUME TablesTypeOK, MapAgrees, NEW t \in Thread, pc[t].at # "patch",
           NEW p \in Places, Goes(t, p), UNCHANGED <<hooked, recorded, mutex>>
    PROVE  MapAgrees'
<1>1. \A u \in Thread : mutex = u => pc'[u] = pc[u]
    BY Going DEF TablesTypeOK
<1> QED
    BY <1>1 DEF MapAgrees, UnderWay

LEMMA MapStep ==
    ASSUME RefusedAtMostOnce', TablesTypeOK, TablesTypeOK', MapAgrees, [Next]_vars
    PROVE  MapAgrees'
<1> USE TableAssumption
<1>1. ASSUME NEW t \in Thread, NEW v \in Table, InstallBegins(t, v) PROVE MapAgrees'
    <2>1. /\ 1 <= 3 /\ Patching(v, 1) \in Places
          /\ Patching(v, 1).table = v /\ Patching(v, 1).slot = 1
        BY PlacesAre, PlaceNames
    <2>2. pc'[t] = Patching(v, 1)
        BY <1>1, <2>1, Going DEF InstallBegins, TablesTypeOK
    <2>3. mutex = NoThread /\ mutex' = t /\ UNCHANGED <<hooked, recorded>> /\ MayPatch(v)
        BY <1>1 DEF InstallBegins, MayEnter
    <2>4. \A w \in Table : ~UnderWay(w)
        BY <2>3 DEF UnderWay
    <2>5. v \notin recorded /\ hooked[v] = {}
        BY <2>3, <2>4 DEF MapAgrees, MayPatch
    <2>6. hooked'[v] = Before(v, 1)
        BY <2>3, <2>5, BeforeIs
    <2> QED
        BY <2>1, <2>2, <2>3, <2>4, <2>5, <2>6 DEF MapAgrees, UnderWay
<1>2. ASSUME NEW t \in Thread, PatchSlot(t) PROVE MapAgrees'
    <2> DEFINE v == pc[t].table  i == pc[t].slot
    <2>1. v \in Table /\ i \in 1..3 /\ i <= Len(SlotsOf(v)) /\ mutex = t
        BY <1>2, PlaceIs DEF PatchSlot, TablesTypeOK
    <2>2. i + 1 \in 1..3
        BY <2>1, SlotInTable
    <2>3. /\ Patching(v, i + 1) \in Places
          /\ Patching(v, i + 1).table = v /\ Patching(v, i + 1).slot = i + 1
        BY <2>1, <2>2, PlacesAre, PlaceNames
    <2>4. pc'[t] = Patching(v, i + 1)
        BY <1>2, <2>3, Going DEF PatchSlot, TablesTypeOK
    <2>5. v \notin recorded /\ hooked[v] = Before(v, i)
        BY <2>1 DEF MapAgrees
    <2>6. hooked' = [hooked EXCEPT ![v] = @ \cup {SlotsOf(v)[i]}]
          /\ UNCHANGED <<recorded, mutex>>
        BY <1>2 DEF PatchSlot
    <2> HIDE DEF v, i
    <2>7. hooked'[v] = Before(v, i + 1) /\ \A w \in Table : w # v => hooked'[w] = hooked[w]
        BY <2>1, <2>5, <2>6, BeforeIs DEF TablesTypeOK
    <2>8. pc[t].table = v
        BY DEF v
    <2>9. t \in Thread /\ pc'[t].table = v /\ pc'[t].slot = i + 1
        BY <2>3, <2>4
    <2>10. \A w : UnderWay(w) <=> w = v
        BY <2>1, <2>8, <2>9 DEF UnderWay
    <2>11. \A w : UnderWay(w)' <=> w = v
        BY <2>1, <2>6, <2>9 DEF UnderWay
    <2>12. \A u \in Thread : mutex' = u => u = t
        BY <2>1, <2>6
    <2> QED
        BY <2>5, <2>6, <2>7, <2>9, <2>10, <2>11, <2>12 DEF MapAgrees
<1>3. ASSUME NEW t \in Thread, PatchRefused(t) PROVE MapAgrees'
    <2> DEFINE v == pc[t].table  i == pc[t].slot
    <2>1. v \in Table /\ i \in 1..3 /\ i <= Len(SlotsOf(v)) /\ mutex = t
        BY <1>3, PlaceIs DEF PatchRefused, TablesTypeOK
    <2>2. refusals' \in {MaxRefusals, MaxRefusals - 1} /\ refusals <= MaxRefusals
        BY DEF TablesTypeOK, RefusedAtMostOnce
    <2>3. hooked' = [hooked EXCEPT ![v] = AfterRefusal(@, i, FALSE)]
        <3>1. PICK again \in BOOLEAN :
                  /\ refusals' = refusals - 1 - (IF again THEN 1 ELSE 0)
                  /\ hooked' = [hooked EXCEPT ![v] = AfterRefusal(@, i, again)]
            BY <1>3 DEF PatchRefused
        <3>2. refusals \in Nat
            BY DEF TablesTypeOK
        <3>3. again = FALSE
            BY <2>2, <3>1, <3>2
        <3> QED
            BY <3>1, <3>3
    <2>4. v \notin recorded /\ hooked[v] = Before(v, i)
        BY <2>1 DEF MapAgrees
    <2>5. UNCHANGED recorded /\ mutex' = NoThread
        BY <1>3 DEF PatchRefused
    <2>6. pc[t].table = v
        OBVIOUS
    <2> HIDE DEF v, i
    <2>7. AfterRefusal(hooked[v], i, FALSE) = {}
        <3>1. CASE i = 1
            BY <2>1, <2>4, <3>1, BeforeIs DEF AfterRefusal
        <3>2. CASE i = 2 /\ v \in SurfaceTable
            BY <2>1, <2>4, <3>2, BeforeIs DEF AfterRefusal
        <3> QED
            BY <2>1, <3>1, <3>2, SlotInTable
    <2>8. hooked'[v] = {} /\ \A w \in Table : w # v => hooked'[w] = hooked[w]
        BY <2>1, <2>3, <2>7 DEF TablesTypeOK
    <2>9. \A w \in Table : ~UnderWay(w)'
        BY <2>5 DEF UnderWay
    <2>10. \A w \in Table : w # v => ~UnderWay(w)
        BY <2>1, <2>6 DEF UnderWay
    <2> QED
        BY <2>1, <2>4, <2>5, <2>8, <2>9, <2>10 DEF MapAgrees
<1>4. ASSUME NEW t \in Thread, Record(t) PROVE MapAgrees'
    <2> DEFINE v == pc[t].table  i == pc[t].slot
    <2>1. v \in Table /\ i \in 1..3 /\ i > Len(SlotsOf(v)) /\ mutex = t
        <3>1. v \in Table /\ i \in 1..3 /\ mutex = t
            BY <1>4, PlaceIs DEF Record, TablesTypeOK
        <3> QED
            BY <1>4, <3>1 DEF Record
    <2>2. hooked[v] = Range(SlotsOf(v))
        BY <2>1, BeforeIs DEF MapAgrees
    <2>3. recorded' = recorded \cup {v} /\ UNCHANGED hooked /\ mutex' = NoThread
        BY <1>4 DEF Record
    <2>4. pc[t].table = v
        OBVIOUS
    <2> HIDE DEF v, i
    <2>5. \A w \in Table : ~UnderWay(w)'
        BY <2>3 DEF UnderWay
    <2>6. \A w \in Table : w # v => ~UnderWay(w)
        BY <2>1, <2>4 DEF UnderWay
    <2> QED
        BY <2>1, <2>2, <2>3, <2>5, <2>6 DEF MapAgrees
<1>5. ASSUME NEW t \in Thread, NEW v \in Table, GameCalls(t, v) PROVE MapAgrees'
    <2>1. InHook(v) \in Places /\ pc[t].at = "idle"
        BY <1>5, PlacesAre, PlaceNames DEF GameCalls
    <2> QED
        BY <1>5, <2>1, MapUntouched DEF GameCalls
<1>6. ASSUME NEW t \in Thread, HookLooksUp(t) PROVE MapAgrees'
    BY <1>6, PlacesAre, MapUntouched DEF HookLooksUp
<1>7. ASSUME NEW t \in Thread, TraceBegins(t) PROVE MapAgrees'
    <2>1. Tracing("protect") \in Places /\ pc[t].at = "idle"
        BY <1>7, PlacesAre, PlaceNames DEF TraceBegins, TraceSteps
    <2> QED
        BY <1>7, <2>1, MapUntouched DEF TraceBegins
<1>8. ASSUME NEW t \in Thread, TraceProtects(t) PROVE MapAgrees'
    <2>1. PICK p \in {Idle, Tracing("test_original")} : Goes(t, p)
        BY <1>8 DEF TraceProtects
    <2>2. p \in Places
        BY PlacesAre DEF TraceSteps
    <2> QED
        BY <1>8, <2>1, <2>2, MapUntouched DEF TraceProtects
<1>9. ASSUME NEW t \in Thread, TraceTests(t) PROVE MapAgrees'
    <2>1. AfterTest(original) \in TraceSteps
        BY DEF AfterTest, TraceSteps
    <2>2. Tracing(AfterTest(original)) \in Places
        BY <2>1, PlacesAre
    <2> QED
        BY <1>9, <2>2, MapUntouched DEF TraceTests
<1>10. ASSUME NEW t \in Thread, TraceReads(t) PROVE MapAgrees'
    <2>1. Tracing("write_slot") \in Places
        BY PlacesAre DEF TraceSteps
    <2> QED
        BY <1>10, <2>1, MapUntouched DEF TraceReads
<1>11. ASSUME NEW t \in Thread, TraceWrites(t) PROVE MapAgrees'
    BY <1>11, PlacesAre, MapUntouched DEF TraceWrites
<1>12. CASE UNCHANGED vars
    BY <1>12 DEF vars, MapAgrees, UnderWay
<1> QED
    BY <1>1, <1>2, <1>3, <1>4, <1>5, <1>6, <1>7, <1>8, <1>9, <1>10, <1>11, <1>12 DEF Next

\* What is refused stays refused.
LEMMA RefusalsCount ==
    ASSUME TablesTypeOK, TablesTypeOK', [Next]_vars
    PROVE  /\ RefusedAtMostOnce' => RefusedAtMostOnce
           /\ NothingRefused' => NothingRefused
<1>1. refusals \in 0..MaxRefusals /\ refusals' \in 0..MaxRefusals
    BY DEF TablesTypeOK
<1>2. refusals' <= refusals
    <2>1. ASSUME NEW t \in Thread, PatchRefused(t) PROVE refusals' <= refusals
        BY <1>1, <2>1 DEF PatchRefused
    <2>2. ASSUME NEW t \in Thread, TraceProtects(t) PROVE refusals' <= refusals
        BY <1>1, <2>2 DEF TraceProtects, Refused
    <2>3. CASE UNCHANGED refusals
        BY <1>1, <2>3
    <2> QED
        BY <2>1, <2>2, <2>3 DEF Next, vars, InstallBegins, PatchSlot, Record, GameCalls,
            HookLooksUp, TraceBegins, TraceTests, TraceReads, TraceWrites
<1> QED
    BY <1>1, <1>2, TableAssumption DEF RefusedAtMostOnce, NothingRefused

MapAgreesAtFirst == RefusedAtMostOnce => MapAgrees

LEMMA MapAlways == Spec => []MapAgreesAtFirst
<1>1. Init => TablesTypeOK /\ MapAgreesAtFirst
    BY TypeInit, MapInit DEF MapAgreesAtFirst
<1>2. TablesTypeOK /\ MapAgreesAtFirst /\ [Next]_vars => (TablesTypeOK /\ MapAgreesAtFirst)'
    BY TypeStep, MapStep, RefusalsCount DEF MapAgreesAtFirst
<1> QED
    BY <1>1, <1>2, PTL DEF Spec

\* As long as VirtualProtect refuses at most once, a table is hooked in all its
\* slots and in the map, or in no slot, whenever nobody is writing it.
THEOREM TablesArePaired == Spec => []HooksComeWithTheirMap
<1>1. TablesTypeOK /\ MapAgreesAtFirst => HooksComeWithTheirMap
    BY TableAssumption DEF MapAgreesAtFirst, MapAgrees, UnderWay, HooksComeWithTheirMap
<1>2. Spec => []MapAgreesAtFirst
    BY MapAlways
<1> QED
    BY <1>1, <1>2, TypesHold, PTL

------------------------------------------------------------------------------
\* A thread in a hook came through a table that is in the map, or will be: its
\* writer cannot fail any more.
CallsAreServed ==
    /\ ~lost
    /\ \A t \in Thread : pc[t].at = "hook" => pc[t].table \in recorded \/ UnderWay(pc[t].table)

LEMMA CallsInit == Init => CallsAreServed
    BY PlaceNames DEF Init, CallsAreServed

\* A thread that writes a table goes on writing it unless it moves.
LEMMA ServedStays ==
    ASSUME TablesTypeOK, CallsAreServed, NEW t \in Thread, NEW p \in Places, Goes(t, p),
           UNCHANGED <<recorded, mutex>>, lost => lost', lost' => lost,
           p.at # "hook", mutex = t => p.table = pc[t].table
    PROVE  CallsAreServed'
<1>1. /\ pc'[t] = p
      /\ \A u \in Thread : u # t => pc'[u] = pc[u]
    BY Going DEF TablesTypeOK
<1>2. \A w : UnderWay(w) => UnderWay(w)'
    BY <1>1 DEF UnderWay
<1> QED
    BY <1>1, <1>2 DEF CallsAreServed

LEMMA CallsStep ==
    ASSUME NothingRefused', TablesTypeOK, TablesTypeOK', MapAgrees, CallsAreServed, [Next]_vars
    PROVE  CallsAreServed'
<1> USE TableAssumption
<1>1. ASSUME NEW t \in Thread, NEW v \in Table, InstallBegins(t, v) PROVE CallsAreServed'
    <2>1. Patching(v, 1) \in Places /\ Patching(v, 1).at = "patch"
        <3>1. 1 \in 1..3
            OBVIOUS
        <3> QED
            BY <3>1, PlacesAre, PlaceNames
    <2>2. /\ pc'[t].at = "patch"
          /\ \A u \in Thread : u # t => pc'[u] = pc[u]
        BY <1>1, <2>1, Going DEF InstallBegins, TablesTypeOK
    <2>3. \A w : ~UnderWay(w)
        BY <1>1 DEF InstallBegins, MayEnter, UnderWay
    <2> QED
        BY <1>1, <2>2, <2>3 DEF InstallBegins, CallsAreServed
<1>2. ASSUME NEW t \in Thread, PatchSlot(t) PROVE CallsAreServed'
    <2> DEFINE v == pc[t].table  i == pc[t].slot
    <2>1. v \in Table /\ i \in 1..3 /\ i <= Len(SlotsOf(v))
        BY <1>2, PlaceIs DEF PatchSlot, TablesTypeOK
    <2>2. i + 1 \in 1..3
        BY <2>1, SlotInTable
    <2>3. /\ Patching(v, i + 1) \in Places
          /\ Patching(v, i + 1).table = v /\ Patching(v, i + 1).at = "patch"
        BY <2>1, <2>2, PlacesAre, PlaceNames
    <2> QED
        BY <1>2, <2>3, ServedStays DEF PatchSlot
<1>3. ASSUME NEW t \in Thread, PatchRefused(t) PROVE CallsAreServed'
    <2>1. refusals' = MaxRefusals /\ refusals \in 0..MaxRefusals
        BY DEF TablesTypeOK, NothingRefused
    <2> QED
        BY <1>3, <2>1 DEF PatchRefused
<1>4. ASSUME NEW t \in Thread, Record(t) PROVE CallsAreServed'
    <2>1. mutex = t
        BY <1>4 DEF Record, TablesTypeOK
    <2>2. pc'[t] = Idle /\ \A u \in Thread : u # t => pc'[u] = pc[u]
        BY <1>4, PlacesAre, Going DEF Record, TablesTypeOK
    <2>3. \A w : UnderWay(w) => w \in recorded'
        BY <1>4, <2>1 DEF Record, UnderWay
    <2> QED
        BY <1>4, <2>2, <2>3, PlaceNames DEF Record, CallsAreServed
<1>5. ASSUME NEW t \in Thread, NEW v \in Table, GameCalls(t, v) PROVE CallsAreServed'
    <2>1. InHook(v) \in Places /\ InHook(v).table = v /\ pc[t].at = "idle" /\ mutex # t
        BY <1>5, PlacesAre, PlaceNames DEF GameCalls, TablesTypeOK
    <2>2. /\ pc'[t] = InHook(v)
          /\ \A u \in Thread : u # t => pc'[u] = pc[u]
        BY <1>5, <2>1, Going DEF GameCalls, TablesTypeOK
    <2>3. \A w : UnderWay(w) => UnderWay(w)'
        BY <1>5, <2>1, <2>2 DEF GameCalls, UnderWay
    <2>4. v \in recorded \/ UnderWay(v)
        BY <1>5 DEF GameCalls, MapAgrees
    <2> QED
        BY <1>5, <2>1, <2>2, <2>3, <2>4 DEF GameCalls, CallsAreServed
<1>6. ASSUME NEW t \in Thread, HookLooksUp(t) PROVE CallsAreServed'
    <2>1. pc[t].at = "hook" /\ mutex = NoThread
        BY <1>6 DEF HookLooksUp, MayLookUp
    <2>2. ~UnderWay(pc[t].table)
        BY <2>1 DEF UnderWay
    <2>3. ~lost'
        BY <1>6, <2>1, <2>2 DEF HookLooksUp, CallsAreServed
    <2>4. Idle \in Places /\ Idle.at = "idle" /\ mutex # t
        BY <2>1, PlacesAre, PlaceNames
    <2>5. lost => lost'
        BY DEF CallsAreServed
    <2> QED
        BY <1>6, <2>3, <2>4, <2>5, ServedStays DEF HookLooksUp
<1>7. ASSUME NEW t \in Thread, TraceBegins(t) PROVE CallsAreServed'
    <2>1. /\ Tracing("protect") \in Places /\ Tracing("protect").at = "protect"
          /\ pc[t].at = "idle" /\ mutex # t
        BY <1>7, PlacesAre, PlaceNames DEF TraceBegins, TraceSteps, TablesTypeOK
    <2> QED
        BY <1>7, <2>1, ServedStays DEF TraceBegins
<1>8. ASSUME NEW t \in Thread, TraceProtects(t) PROVE CallsAreServed'
    <2>1. PICK p \in {Idle, Tracing("test_original")} : Goes(t, p)
        BY <1>8 DEF TraceProtects
    <2>2. p \in Places /\ p.at # "hook" /\ mutex # t
        BY <1>8, PlacesAre, PlaceNames DEF TraceSteps, TraceProtects, TablesTypeOK
    <2> QED
        BY <1>8, <2>1, <2>2, ServedStays DEF TraceProtects
<1>9. ASSUME NEW t \in Thread, TraceTests(t) PROVE CallsAreServed'
    <2>1. AfterTest(original) \in TraceSteps /\ AfterTest(original) # "hook"
        BY DEF AfterTest, TraceSteps
    <2>2. /\ Tracing(AfterTest(original)) \in Places
          /\ Tracing(AfterTest(original)).at # "hook" /\ mutex # t
        BY <1>9, <2>1, PlacesAre, PlaceNames DEF TraceTests, TablesTypeOK
    <2> QED
        BY <1>9, <2>2, ServedStays DEF TraceTests
<1>10. ASSUME NEW t \in Thread, TraceReads(t) PROVE CallsAreServed'
    <2>1. /\ Tracing("write_slot") \in Places /\ Tracing("write_slot").at = "write_slot"
          /\ mutex # t
        BY <1>10, PlacesAre, PlaceNames DEF TraceSteps, TraceReads, TablesTypeOK
    <2> QED
        BY <1>10, <2>1, ServedStays DEF TraceReads
<1>11. ASSUME NEW t \in Thread, TraceWrites(t) PROVE CallsAreServed'
    <2>1. Idle \in Places /\ Idle.at = "idle" /\ mutex # t
        BY <1>11, PlacesAre, PlaceNames DEF TraceWrites, TablesTypeOK
    <2> QED
        BY <1>11, <2>1, ServedStays DEF TraceWrites
<1>12. CASE UNCHANGED vars
    BY <1>12 DEF vars, CallsAreServed, UnderWay
<1> QED
    BY <1>1, <1>2, <1>3, <1>4, <1>5, <1>6, <1>7, <1>8, <1>9, <1>10, <1>11, <1>12 DEF Next

ServedAtFirst == NothingRefused => CallsAreServed

\* Until VirtualProtect refuses something, no call of the game is answered by a hook
\* alone, however the threads that call interleave with the thread that installs.
THEOREM NoCallIsLost == Spec => []CallsReachTheOriginal
<1>1. Init => TablesTypeOK /\ MapAgreesAtFirst /\ ServedAtFirst
    BY TypeInit, MapInit, CallsInit DEF MapAgreesAtFirst, ServedAtFirst
<1>2. NothingRefused => RefusedAtMostOnce
    BY TableAssumption DEF NothingRefused, RefusedAtMostOnce
<1>3. TablesTypeOK /\ MapAgreesAtFirst /\ ServedAtFirst /\ [Next]_vars
          => (TablesTypeOK /\ MapAgreesAtFirst /\ ServedAtFirst)'
    BY <1>2, TypeStep, MapStep, CallsStep, RefusalsCount DEF MapAgreesAtFirst, ServedAtFirst
<1>4. ServedAtFirst => CallsReachTheOriginal
    BY DEF ServedAtFirst, CallsAreServed, CallsReachTheOriginal
<1> QED
    BY <1>1, <1>3, <1>4, PTL DEF Spec

------------------------------------------------------------------------------
\* A thread about to write the hook of a use trace has seen or set the original.
OriginalFirst ==
    /\ TraceHasItsOriginal
    /\ \A t \in Thread : pc[t].at = "write_slot" => original # "none"

\* Steps that leave the use trace alone and do not come to its last step.
LEMMA TraceUntouched ==
    ASSUME TablesTypeOK, OriginalFirst, NEW t \in Thread, NEW p \in Places, Goes(t, p),
           p.at = "write_slot" => original # "none", UNCHANGED <<traced, original>>
    PROVE  OriginalFirst'
    BY Going DEF TablesTypeOK, OriginalFirst, TraceHasItsOriginal

LEMMA TraceStep ==
    ASSUME TablesTypeOK, OriginalFirst, [Next]_vars
    PROVE  OriginalFirst'
<1>1. ASSUME NEW t \in Thread, NEW v \in Table, InstallBegins(t, v) PROVE OriginalFirst'
    <2>1. 1 \in 1..3
        OBVIOUS
    <2>2. Patching(v, 1) \in Places /\ Patching(v, 1).at = "patch"
        BY <2>1, PlacesAre, PlaceNames
    <2> QED
        BY <1>1, <2>2, TraceUntouched DEF InstallBegins
<1>2. ASSUME NEW t \in Thread, PatchSlot(t) PROVE OriginalFirst'
    <2> DEFINE v == pc[t].table  i == pc[t].slot
    <2>1. v \in Table /\ i \in 1..3 /\ i <= Len(SlotsOf(v))
        BY <1>2, PlaceIs DEF PatchSlot, TablesTypeOK
    <2>2. i + 1 \in 1..3
        BY <2>1, SlotInTable
    <2>3. Patching(v, i + 1) \in Places /\ Patching(v, i + 1).at = "patch"
        BY <2>1, <2>2, PlacesAre, PlaceNames
    <2> QED
        BY <1>2, <2>3, TraceUntouched DEF PatchSlot
<1>3. ASSUME NEW t \in Thread, PatchRefused(t) PROVE OriginalFirst'
    BY <1>3, PlacesAre, PlaceNames, TraceUntouched DEF PatchRefused
<1>4. ASSUME NEW t \in Thread, Record(t) PROVE OriginalFirst'
    BY <1>4, PlacesAre, PlaceNames, TraceUntouched DEF Record
<1>5. ASSUME NEW t \in Thread, NEW v \in Table, GameCalls(t, v) PROVE OriginalFirst'
    BY <1>5, PlacesAre, PlaceNames, TraceUntouched DEF GameCalls
<1>6. ASSUME NEW t \in Thread, HookLooksUp(t) PROVE OriginalFirst'
    BY <1>6, PlacesAre, PlaceNames, TraceUntouched DEF HookLooksUp
<1>7. ASSUME NEW t \in Thread, TraceBegins(t) PROVE OriginalFirst'
    <2>1. Tracing("protect") \in Places /\ Tracing("protect").at = "protect"
        BY PlacesAre, PlaceNames DEF TraceSteps
    <2> QED
        BY <1>7, <2>1, TraceUntouched DEF TraceBegins
<1>8. ASSUME NEW t \in Thread, TraceProtects(t) PROVE OriginalFirst'
    <2>1. PICK p \in {Idle, Tracing("test_original")} : Goes(t, p)
        BY <1>8 DEF TraceProtects
    <2>2. p \in Places /\ p.at # "write_slot"
        BY PlacesAre, PlaceNames DEF TraceSteps
    <2> QED
        BY <1>8, <2>1, <2>2, TraceUntouched DEF TraceProtects
<1>9. ASSUME NEW t \in Thread, TraceTests(t) PROVE OriginalFirst'
    <2>1. AfterTest(original) \in TraceSteps
        BY DEF AfterTest, TraceSteps
    <2>2. AfterTest(original) = "write_slot" => original # "none"
        BY DEF AfterTest
    <2>3. /\ Tracing(AfterTest(original)) \in Places
          /\ Tracing(AfterTest(original)).at = AfterTest(original)
        BY <2>1, PlacesAre, PlaceNames
    <2> QED
        BY <1>9, <2>2, <2>3, TraceUntouched DEF TraceTests
<1>10. ASSUME NEW t \in Thread, TraceReads(t) PROVE OriginalFirst'
    <2>1. original' # "none" /\ UNCHANGED traced
        BY <1>10 DEF TraceReads
    <2> QED
        BY <2>1 DEF OriginalFirst, TraceHasItsOriginal
<1>11. ASSUME NEW t \in Thread, TraceWrites(t) PROVE OriginalFirst'
    <2>1. Idle \in Places /\ Idle.at = "idle"
        BY PlacesAre, PlaceNames
    <2>2. pc'[t] = Idle /\ \A u \in Thread : u # t => pc'[u] = pc[u]
        BY <1>11, <2>1, Going DEF TraceWrites, TablesTypeOK
    <2> QED
        BY <1>11, <2>1, <2>2 DEF TraceWrites, OriginalFirst, TraceHasItsOriginal
<1>12. CASE UNCHANGED vars
    BY <1>12 DEF vars, OriginalFirst, TraceHasItsOriginal
<1> QED
    BY <1>1, <1>2, <1>3, <1>4, <1>5, <1>6, <1>7, <1>8, <1>9, <1>10, <1>11, <1>12 DEF Next

\* patch_vtable needs no lock for this much: no thread finds the hook of a use trace
\* in the slot before the original it calls through is set.
THEOREM TracesCallThrough == Spec => []TraceHasItsOriginal
<1>1. Init => TablesTypeOK /\ OriginalFirst
    BY TypeInit, PlaceNames DEF Init, OriginalFirst, TraceHasItsOriginal
<1>2. TablesTypeOK /\ OriginalFirst /\ [Next]_vars => (TablesTypeOK /\ OriginalFirst)'
    BY TypeStep, TraceStep
<1>3. OriginalFirst => TraceHasItsOriginal
    BY DEF OriginalFirst
<1> QED
    BY <1>1, <1>2, <1>3, PTL DEF Spec
===============================================================================
