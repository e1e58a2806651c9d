----------------------- MODULE ManagedResourcesProofs -----------------------
(***************************************************************************)
(* Proofs about ManagedResources, for every set of threads, addresses and  *)
(* surfaces, every game and every bound.                                   *)
(***************************************************************************)
EXTENDS ManagedResources, FiniteSetTheorems, TLAPS

\* Threads whose creation has not been entered into the map yet.
Pending == { t \in Threads : job[t].op \in {"identify", "register"} }

\* The objects and the ids given out so far.
CountsOK ==
  /\ game \in Games /\ faults \in Nat
  /\ births \in Seq(1 .. MaxGeneration) /\ Len(births) <= game.objects
  /\ generation \in 1 .. game.generations
  /\ \A i \in 1 .. Len(births) : births[i] <= generation
  /\ tracked \in Seq(Nat) /\ nextId = Len(tracked) + 1
  /\ \A i \in 1 .. Len(tracked) : tracked[i] \in 1 .. Len(births)
  /\ Len(tracked) + Cardinality(Pending) <= Len(births)

\* What lives at an address.
HeapOK ==
  /\ DOMAIN heap = Addrs
  /\ \A a \in Addrs : heap[a] # Free =>
       /\ heap[a] \in Object /\ heap[a].n <= Len(births)
       /\ opt.semantic /\ heap[a].managed /\ heap[a].class # "volume_texture"
            => heap[a].lockable

DeviceOK ==
  /\ bound \in [Slots -> Addrs \cup {None}]
  /\ owner \in [Surfaces -> Addrs \cup {None}]
  /\ scan \in [gen : 0 .. MaxGeneration, samples : 0 .. SampleLimit, stale : Nat]

\* The map: an id is at one address, and no entry is older than its object.
RegistryOK ==
  /\ DOMAIN reg = Addrs /\ DOMAIN before = 1 .. MaxObjects
  /\ surfaceId \in [Surfaces -> 0 .. MaxObjects]
  /\ \A a \in Addrs : reg[a] # NoEntry =>
       /\ Traced /\ reg[a] \in Entry /\ reg[a].id <= Len(tracked)
       /\ births[tracked[reg[a].id]] <= reg[a].creation
       /\ reg[a].bgen <= generation
  /\ \A a, b \in Addrs : reg[a].id # 0 /\ reg[a].id = reg[b].id => a = b

\* A scan counts every binding once.
ScanOK(j) == j.gen <= generation /\ j.stale + Cardinality(j.left) <= 3

JobsOK ==
  /\ DOMAIN job = Threads
  /\ \A t \in Threads :
       /\ JobOK(job[t])
       /\ job[t].op \in {"reset", "bump", "probe"} => t = Creator
       /\ t \notin game.crew => job[t] = Idle

\* Before the generation of a Reset is counted.
Resetting(j) == j.op \in {"reset", "bump"} \/ (j.op = "probe" /\ ~j.after)

\* What the call of a thread relies on of the object it was made on.
Holds(t) ==
  LET j == job[t] IN
  /\ j.op \in {"identify", "register"} =>
       /\ Traced /\ Live(j.a) /\ heap[j.a].refs = 1
       /\ heap[j.a].class # "volume_texture" /\ Busy("release", j.a) = {}
  /\ j.op = "register" => births[heap[j.a].n] <= j.gen
  /\ j.op \in {"register", "take"} => j.gen <= generation
  /\ j.op = "take" => Live(j.a) /\ Spare(j.a) > 0
  /\ j.op = "release" => Live(j.a)
  /\ j.op = "scan" => ScanOK(j)
  /\ j.op = "drop" => ScanOK(j.next)
  /\ Resetting(j) => generation < game.generations

\* The references that calls in progress will give up are there.
HeldOK ==
  /\ \A t \in Threads : Holds(t)
  /\ \A a \in Addrs : Live(a) => Cardinality(Busy("release", a)) <= heap[a].refs

\* The inductive invariant behind the type invariant, for any threads.
SoundInv == CountsOK /\ HeapOK /\ DeviceOK /\ RegistryOK /\ JobsOK /\ HeldOK

----------------------------------------------------------------------------
(* Threads and their jobs.                                                 *)

LEMMA Constants ==
  /\ Creator \in Threads /\ IsFiniteSet(Threads)
  /\ SampleLimit \in Nat /\ MaxObjects \in Nat
  /\ MaxRefs \in Nat /\ MaxRefs >= 1 /\ MaxGeneration \in Nat /\ MaxGeneration >= 1
  BY ManagedAssumption

LEMMA GameFacts ==
  ASSUME CountsOK
  PROVE  /\ GameOK(game) /\ game.crew \subseteq Threads /\ Creator \in game.crew
         /\ game.objects \in 1 .. MaxObjects /\ game.generations \in 1 .. MaxGeneration
         /\ game.requests \subseteq Request /\ opt \in Setting
         /\ generation \in 1 .. MaxGeneration
         /\ Len(births) \in 0 .. MaxObjects /\ Len(tracked) \in 0 .. Len(births)
<1>1. GameOK(game)
  BY ManagedAssumption DEF CountsOK
<1>2. /\ game.crew \subseteq Threads /\ Creator \in game.crew
      /\ game.objects \in 1 .. MaxObjects /\ game.generations \in 1 .. MaxGeneration
      /\ game.requests \subseteq Request /\ opt \in Setting
  BY <1>1 DEF GameOK, opt
<1>3. Len(births) \in Nat /\ Len(tracked) \in Nat
  BY DEF CountsOK
<1>4. Cardinality(Pending) \in Nat
  BY Constants, FS_Subset, FS_CardinalityType DEF Pending
<1>5. generation \in 1 .. MaxGeneration
  BY <1>2, Constants DEF CountsOK
<1>6. Len(births) \in 0 .. MaxObjects
  BY <1>2, <1>3, Constants DEF CountsOK
<1>7. Len(tracked) \in 0 .. Len(births)
  BY <1>3, <1>4 DEF CountsOK
<1>8. QED
  BY <1>1, <1>2, <1>5, <1>6, <1>7

\* Threads in a call are finitely many.
LEMMA BusyIsFinite ==
  ASSUME NEW op, NEW a
  PROVE  /\ IsFiniteSet(Busy(op, a)) /\ Cardinality(Busy(op, a)) \in Nat
         /\ IsFiniteSet(Busy(op, a)') /\ Cardinality(Busy(op, a)') \in Nat
<1>1. Busy(op, a) \in SUBSET Threads /\ Busy(op, a)' \in SUBSET Threads
  BY DEF Busy
<1>2. QED
  BY <1>1, Constants, FS_Subset, FS_CardinalityType

\* Only thread t moves, to what it does next.
Moves(t) ==
  /\ DOMAIN job' = Threads
  /\ \A u \in Threads : u # t => job'[u] = job[u]

LEMMA MovesBy ==
  ASSUME JobsOK, NEW t \in Threads, NEW j, job' = [job EXCEPT ![t] = j]
  PROVE  Moves(t) /\ job'[t] = j
  BY DEF Moves, JobsOK

LEMMA NoMove ==
  ASSUME JobsOK, NEW t \in Threads, UNCHANGED job
  PROVE  Moves(t) /\ job'[t] = job[t]
  BY DEF Moves, JobsOK

\* A kind of call that thread t neither leaves nor enters.
LEMMA BusyKept ==
  ASSUME NEW t \in Threads, Moves(t), NEW op, job[t].op # op, job'[t].op # op
  PROVE  \A a : Busy(op, a)' = Busy(op, a)
  BY DEF Busy, Moves

LEMMA JobsMove ==
  ASSUME JobsOK, NEW t \in game.crew, t \in Threads, Moves(t), JobOK(job'[t]),
         job'[t].op \in {"reset", "bump", "probe"} => t = Creator, UNCHANGED game
  PROVE  JobsOK'
  BY DEF JobsOK, Moves, JobOK

LEMMA PendingKept ==
  ASSUME NEW t \in Threads, Moves(t),
         job'[t].op \in {"identify", "register"} => job[t].op \in {"identify", "register"}
  PROVE  Cardinality(Pending') \in Nat /\ Cardinality(Pending) \in Nat
         /\ Cardinality(Pending') <= Cardinality(Pending)
<1>1. Pending' \in SUBSET Pending /\ Pending \in SUBSET Threads
  BY DEF Pending, Moves
<1>2. IsFiniteSet(Pending) /\ IsFiniteSet(Pending')
  BY <1>1, Constants, FS_Subset
<1>3. QED
  BY <1>1, <1>2, FS_Subset, FS_CardinalityType
----------------------------------------------------------------------------
(* The heap.                                                               *)

\* The object at an address stays what it is, but for its references and its
\* contents.
Same(x, y) ==
  /\ y.n = x.n /\ y.class = x.class /\ y.managed = x.managed
  /\ y.lockable = x.lockable

\* An address keeps its object, or loses it with its last reference.
Keeps(a) ==
  \/ heap'[a] = Free /\ (heap[a] = Free \/ heap[a].refs = 0)
  \/ /\ heap[a] # Free /\ heap'[a] \in Object /\ Same(heap[a], heap'[a])
     /\ heap'[a].refs = heap[a].refs /\ heap'[a].released = heap[a].released

LEMMA LiveIs ==
  ASSUME HeapOK, NEW a \in Addrs
  PROVE  /\ Live(a) <=> heap[a] # Free
         /\ Live(a) => heap[a] \in Object
  BY DEF HeapOK, Live, Free, Object

\* What the runtime frees and what it unbinds.
LEMMA Reaps ==
  ASSUME NEW h, NEW b, NEW kept, Reap(h, b, kept)
  PROVE  /\ DOMAIN heap' = Addrs
         /\ \A a \in Addrs :
              \/ heap'[a] = h[a]
              \/ heap'[a] = Free /\ h[a].n # 0 /\ h[a].refs = 0
         /\ \A a \in Addrs : a \in kept => heap'[a] = h[a]
         /\ bound' = b
         /\ \A a \in Addrs : h[a].refs = 0 /\ h[a].n # 0 /\ a \notin kept
              => heap'[a] = Free \/ \E s \in Slots : b[s] = a
         /\ DOMAIN owner' = Surfaces
         /\ \A s \in Surfaces :
              owner'[s] = IF owner[s] # None /\ heap'[owner[s]].n = 0 THEN None
                          ELSE owner[s]
  BY DEF Reap

LEMMA ReapKeeps ==
  ASSUME HeapOK, NEW b, NEW kept, Reap(heap, b, kept)
  PROVE  DOMAIN heap' = Addrs /\ \A a \in Addrs : Keeps(a)
<1>1. /\ DOMAIN heap' = Addrs
      /\ \A a \in Addrs :
           \/ heap'[a] = heap[a]
           \/ heap'[a] = Free /\ heap[a].n # 0 /\ heap[a].refs = 0
  BY Reaps
<1>2. ASSUME NEW a \in Addrs PROVE Keeps(a)
  <2>1. CASE heap[a] = Free
    BY <1>1, <2>1 DEF Keeps, Free
  <2>2. CASE heap[a] # Free
    BY <1>1, <2>2 DEF Keeps, HeapOK, Same
  <2>3. QED
    BY <2>1, <2>2
<1>3. QED
  BY <1>1, <1>2

LEMMA HeapSame ==
  ASSUME HeapOK, UNCHANGED heap
  PROVE  DOMAIN heap' = Addrs /\ \A a \in Addrs : Keeps(a)
  BY DEF HeapOK, Keeps, Same

\* The owners and bindings after a reaping.
LEMMA ReapDevice ==
  ASSUME DeviceOK, NEW h, NEW b \in [Slots -> Addrs \cup {None}], NEW kept,
         Reap(h, b, kept), UNCHANGED scan
  PROVE  DeviceOK'
<1>1. /\ bound' = b /\ DOMAIN owner' = Surfaces
      /\ \A s \in Surfaces : owner'[s] \in {None, owner[s]}
  BY Reaps
<1>2. owner' = [s \in Surfaces |-> owner'[s]]
  BY DEF Reap
<1>3. owner' \in [Surfaces -> Addrs \cup {None}]
  BY <1>1, <1>2 DEF DeviceOK
<1>4. QED
  BY <1>1, <1>3 DEF DeviceOK

LEMMA HeapKept ==
  ASSUME HeapOK, CountsOK, DOMAIN heap' = Addrs, \A a \in Addrs : Keeps(a),
         UNCHANGED <<births, game>>
  PROVE  HeapOK'
<1>1. ASSUME NEW a \in Addrs, heap'[a] # Free
      PROVE  /\ heap'[a] \in Object /\ heap'[a].n <= Len(births)'
             /\ opt'.semantic /\ heap'[a].managed /\ heap'[a].class # "volume_texture"
                  => heap'[a].lockable
  <2>1. heap[a] # Free /\ heap'[a] \in Object /\ Same(heap[a], heap'[a])
    BY <1>1 DEF Keeps
  <2>2. QED
    BY <2>1 DEF Same, HeapOK, opt
<1>2. QED
  BY <1>1 DEF HeapOK

LEMMA CountsKept ==
  ASSUME CountsOK, NEW t \in Threads, Moves(t),
         job'[t].op \in {"identify", "register"} => job[t].op \in {"identify", "register"},
         UNCHANGED <<game, births, generation, tracked, nextId, faults>>
  PROVE  CountsOK'
<1>1. Len(tracked) \in Nat /\ Len(births) \in Nat
  BY DEF CountsOK
<1>2. Cardinality(Pending') \in Nat /\ Cardinality(Pending) \in Nat
      /\ Cardinality(Pending') <= Cardinality(Pending)
  BY PendingKept
<1>3. Len(tracked) + Cardinality(Pending') <= Len(births)
  BY <1>1, <1>2 DEF CountsOK
<1>4. QED
  BY <1>3 DEF CountsOK

\* Calls on objects whose references stay are not disturbed by another's.
LEMMA HeldKept ==
  ASSUME SoundInv, NEW t \in Threads, Moves(t),
         DOMAIN heap' = Addrs, \A a \in Addrs : Keeps(a),
         UNCHANGED <<births, game>>, generation' \in Nat, generation' >= generation,
         generation' = generation \/ t = Creator,
         job[t].op # "release", job'[t].op # "release",
         Holds(t)'
  PROVE  HeldOK'
<1>0. /\ \A a : Busy("release", a)' = Busy("release", a)
      /\ \A a : Cardinality(Busy("release", a)) \in Nat
  BY BusyKept, BusyIsFinite
<1>g. generation \in Nat
  BY DEF SoundInv, CountsOK, GameFacts
<1>1. ASSUME NEW a \in Addrs, Live(a), heap[a].refs > 0
      PROVE  Live(a)' /\ heap'[a] \in Object /\ Same(heap[a], heap'[a])
             /\ heap'[a].refs = heap[a].refs
  BY <1>1, LiveIs DEF SoundInv, Keeps, Live, Free, Same, Object
<1>2. ASSUME NEW a \in Addrs, Live(a)'
      PROVE  Cardinality(Busy("release", a)') <= heap'[a].refs
  BY <1>0, <1>2, LiveIs DEF SoundInv, Keeps, Live, Free, Same, Object, HeldOK
<1>3. ASSUME NEW u \in Threads, u # t PROVE Holds(u)'
  <2>0. PICK j : j = job[u]
    OBVIOUS
  <2>1. job[u] = j /\ job'[u] = j /\ Holds(u) /\ JobOK(j)
    BY <1>3, <2>0 DEF Moves, SoundInv, HeldOK, JobsOK
  <2>2. j.op \in {"identify", "register", "take", "release"} => j.a \in Addrs
    BY <2>1 DEF JobOK, Scan
  <2>3. ASSUME j.op \in {"identify", "register"}
        PROVE  /\ Traced' /\ Live(j.a)' /\ heap'[j.a].refs = 1
               /\ heap'[j.a].class # "volume_texture" /\ Busy("release", j.a)' = {}
               /\ heap'[j.a].n = heap[j.a].n
    <3>1. Live(j.a) /\ heap[j.a].refs = 1 /\ Traced
          /\ heap[j.a].class # "volume_texture" /\ Busy("release", j.a) = {}
      BY <2>1, <2>3 DEF Holds
    <3>2. QED
      BY <1>0, <1>1, <2>2, <2>3, <3>1 DEF Same, opt, Traced
  <2>4. ASSUME j.op = "take"
        PROVE  Live(j.a)' /\ Spare(j.a)' > 0
    <3>1. Live(j.a) /\ Spare(j.a) > 0 /\ heap[j.a] \in Object
      BY <2>1, <2>2, <2>4, LiveIs DEF Holds, SoundInv
    <3>2. heap[j.a].refs > 0
      BY <1>0, <3>1 DEF Spare, Object
    <3>3. Live(j.a)' /\ heap'[j.a].refs = heap[j.a].refs
      BY <1>1, <2>2, <2>4, <3>1, <3>2
    <3>4. QED
      BY <1>0, <3>1, <3>3 DEF Spare
  <2>5. ASSUME j.op = "release"
        PROVE  Live(j.a)'
    <3>1. Live(j.a) /\ heap[j.a] \in Object
      BY <2>1, <2>2, <2>5, LiveIs DEF Holds, SoundInv
    <3>2. u \in Busy("release", j.a)
      BY <2>1, <2>5 DEF Busy
    <3>3. Cardinality(Busy("release", j.a)) # 0
      BY <3>2, BusyIsFinite, FS_EmptySet
    <3>4. heap[j.a].refs > 0
      BY <1>0, <2>2, <2>5, <3>1, <3>3 DEF SoundInv, HeldOK, Object
    <3>5. QED
      BY <1>1, <2>2, <2>5, <3>1, <3>4
  <2>6. ASSUME j.op = "register" PROVE births'[heap'[j.a].n] <= j.gen
    BY <2>1, <2>3, <2>6 DEF Holds
  <2>7. ASSUME j.op \in {"register", "take"} PROVE j.gen <= generation'
    <3>1. j.gen <= generation /\ j.gen \in Nat
      BY <2>1, <2>7, Constants DEF Holds, JobOK, Scan
    <3>2. QED
      BY <1>g, <3>1
  <2>8. ASSUME j.op = "scan" PROVE ScanOK(j)'
    <3>1. ScanOK(j) /\ j.gen \in Nat
      BY <2>1, <2>8, Constants DEF Holds, JobOK, Scan
    <3>2. QED
      BY <1>g, <3>1 DEF ScanOK
  <2>9. ASSUME j.op = "drop" PROVE ScanOK(j.next)'
    <3>1. ScanOK(j.next) /\ j.next.gen \in Nat
      BY <2>1, <2>9, Constants DEF Holds, JobOK, Scan
    <3>2. QED
      BY <1>g, <3>1 DEF ScanOK
  <2>10. ASSUME Resetting(j) PROVE generation' < game'.generations
    <3>1. u = Creator /\ t # Creator
      BY <1>3, <2>1, <2>10 DEF Resetting, SoundInv, JobsOK
    <3>2. QED
      BY <2>1, <2>10, <3>1 DEF Holds
  <2>11. QED
    BY <2>1, <2>3, <2>4, <2>5, <2>6, <2>7, <2>8, <2>9, <2>10 DEF Holds
<1>4. QED
  BY <1>2, <1>3 DEF HeldOK

LEMMA RegistryKept ==
  ASSUME RegistryOK, CountsOK, UNCHANGED <<reg, surfaceId, tracked, game>>,
         DOMAIN before' = DOMAIN before,
         \A i \in 1 .. Len(births) : births'[i] = births[i],
         generation' \in Nat, generation' >= generation
  PROVE  RegistryOK'
<1>1. ASSUME NEW a \in Addrs, reg'[a] # NoEntry
      PROVE  /\ Traced' /\ reg'[a] \in Entry /\ reg'[a].id <= Len(tracked')
             /\ births'[tracked'[reg'[a].id]] <= reg'[a].creation
             /\ reg'[a].bgen <= generation'
  <2>1. /\ Traced /\ reg[a] \in Entry /\ reg[a].id <= Len(tracked)
        /\ births[tracked[reg[a].id]] <= reg[a].creation
        /\ reg[a].bgen <= generation
    BY <1>1 DEF RegistryOK
  <2>2. reg[a].id \in 1 .. Len(tracked) /\ reg[a].bgen \in Nat
    BY <2>1, Constants DEF Entry, CountsOK
  <2>3. tracked[reg[a].id] \in 1 .. Len(births)
    BY <2>2 DEF CountsOK
  <2>4. reg[a].bgen <= generation'
    BY <2>1, <2>2, GameFacts
  <2>5. QED
    BY <2>1, <2>3, <2>4 DEF Traced, opt
<1>2. QED
  BY <1>1 DEF RegistryOK

\* A step that gives no references and takes none.
LEMMA SoftStep ==
  ASSUME SoundInv, NEW t \in game.crew, Moves(t), JobOK(job'[t]),
         job'[t].op \in {"reset", "bump", "probe"} => t = Creator,
         DOMAIN heap' = Addrs, \A a \in Addrs : Keeps(a),
         UNCHANGED <<births, game>>, generation' >= generation,
         generation' = generation \/ t = Creator,
         CountsOK', DeviceOK', RegistryOK',
         job[t].op # "release", job'[t].op # "release",
         Holds(t)'
  PROVE  SoundInv'
<1>1. t \in Threads
  BY GameFacts DEF SoundInv
<1>2. HeapOK'
  BY HeapKept DEF SoundInv
<1>3. JobsOK'
  BY <1>1, JobsMove DEF SoundInv
<1>4. generation' \in Nat
  BY Constants DEF CountsOK
<1>5. HeldOK'
  BY <1>1, <1>4, HeldKept
<1>6. QED
  BY <1>2, <1>3, <1>5 DEF SoundInv

\* Such a step that leaves the map and the counts alone.
LEMMA PlainStep ==
  ASSUME SoundInv, NEW t \in game.crew, Moves(t), JobOK(job'[t]),
         job'[t].op \in {"reset", "bump", "probe"} => t = Creator,
         job'[t].op \in {"identify", "register"} => job[t].op \in {"identify", "register"},
         DOMAIN heap' = Addrs, \A a \in Addrs : Keeps(a),
         UNCHANGED <<births, game, generation, tracked, nextId, faults, reg, surfaceId>>,
         DOMAIN before' = DOMAIN before, DeviceOK',
         job[t].op # "release", job'[t].op # "release",
         Holds(t)'
  PROVE  SoundInv'
<1>1. t \in Threads /\ generation \in Nat
  BY GameFacts, Constants DEF SoundInv
<1>2. CountsOK'
  BY <1>1, CountsKept DEF SoundInv
<1>3. RegistryOK'
  BY <1>1, RegistryKept DEF SoundInv
<1>4. generation' >= generation /\ generation' = generation
  BY <1>1
<1>5. QED
  BY <1>2, <1>3, <1>4, SoftStep
----------------------------------------------------------------------------
(* The steps that give no reference and take none.                         *)

\* The job of a thread, by its name.
LEMMA JobIs ==
  ASSUME NEW j, JobOK(j)
  PROVE  /\ j.op = "identify" => j \in [op : {"identify"}, a : Addrs]
         /\ j.op \in {"register", "take"} =>
              j \in [op : {"register", "take"}, a : Addrs, gen : 1 .. MaxGeneration]
         /\ j.op \in {"release", "erase"} =>
              j \in [op : {"release", "erase"}, a : Addrs, id : 0 .. MaxObjects]
         /\ j.op = "scan" => j \in Scan
         /\ j.op = "drop" => j \in [op : {"drop"}, a : Addrs, next : Scan]
         /\ j.op = "probe" => /\ j.after \in BOOLEAN /\ j.cand \subseteq Addrs
                              /\ j.id \in [j.cand -> 1 .. MaxObjects]
  BY DEF JobOK, Scan

\* A thread of the game, its job, and what its call relies on.
LEMMA ThreadFacts ==
  ASSUME SoundInv, NEW t \in game.crew
  PROVE  t \in Threads /\ JobOK(job[t]) /\ Holds(t)
  BY GameFacts DEF SoundInv, JobsOK, HeldOK

LEMMA Quiet ==
  ASSUME NEW t, job'[t].op \in {"idle", "erase"}
  PROVE  Holds(t)'
  BY DEF Holds, Resetting

LEMMA IdleIsOK == JobOK(Idle) /\ Idle.op = "idle"
  BY DEF Idle, JobOK

LEMMA DeviceKept ==
  ASSUME DeviceOK, UNCHANGED <<bound, owner, scan>>
  PROVE  DeviceOK'
  BY DEF DeviceOK

LEMMA SlotsAreThree ==
  /\ IsFiniteSet(Slots) /\ Cardinality(Slots) = 3
  /\ \A x \in SUBSET Slots : IsFiniteSet(x) /\ Cardinality(x) \in 0 .. 3
<1>1. IsFiniteSet({"texture"}) /\ Cardinality({"texture"}) = 1
  BY FS_Singleton
<1>2. IsFiniteSet({"texture"} \cup {"stream"}) /\ Cardinality({"texture"} \cup {"stream"}) = 2
  BY <1>1, FS_AddElement
<1>3. /\ IsFiniteSet(({"texture"} \cup {"stream"}) \cup {"indices"})
      /\ Cardinality(({"texture"} \cup {"stream"}) \cup {"indices"}) = 3
  BY <1>2, FS_AddElement
<1>4. Slots = ({"texture"} \cup {"stream"}) \cup {"indices"}
  BY DEF Slots
<1>5. IsFiniteSet(Slots) /\ Cardinality(Slots) = 3
  BY <1>3, <1>4
<1>6. ASSUME NEW x \in SUBSET Slots PROVE IsFiniteSet(x) /\ Cardinality(x) \in 0 .. 3
  <2>1. IsFiniteSet(x) /\ Cardinality(x) <= Cardinality(Slots) /\ Cardinality(x) \in Nat
    BY <1>5, FS_Subset, FS_CardinalityType
  <2>2. QED
    BY <1>5, <2>1
<1>7. QED
  BY <1>5, <1>6

LEMMA TrackIdentifiesSound ==
  ASSUME SoundInv, NEW t \in game.crew, TrackIdentifies(t)
  PROVE  SoundInv'
<1> USE DEF runtimeVars, deviceVars, registryVars, logVars
<1>0. PICK j : j = job[t]
  OBVIOUS
<1>1. t \in Threads /\ JobOK(j) /\ Holds(t) /\ j.op = "identify" /\ j.a \in Addrs
  BY <1>0, ThreadFacts, JobIs DEF TrackIdentifies
<1>2. /\ Moves(t) /\ job'[t] = [op |-> "register", a |-> j.a, gen |-> generation]
      /\ UNCHANGED <<game, heap, births, bound, owner, generation, scan, reg, surfaceId,
                     nextId, before, tracked, faults>>
  BY <1>0, <1>1, MovesBy DEF TrackIdentifies, Goes, SoundInv
<1>3. /\ Traced /\ Live(j.a) /\ heap[j.a].refs = 1
      /\ heap[j.a].class # "volume_texture" /\ Busy("release", j.a) = {}
  BY <1>0, <1>1 DEF Holds
<1>4. births[heap[j.a].n] <= generation /\ generation \in 1 .. MaxGeneration
  <2>1. heap[j.a] \in Object /\ heap[j.a].n <= Len(births)
    BY <1>1, <1>3 DEF SoundInv, HeapOK, Live, Free
  <2>2. heap[j.a].n \in 1 .. Len(births)
    BY <2>1, Constants DEF Object, SoundInv, CountsOK
  <2>3. QED
    BY <2>2, GameFacts DEF SoundInv, CountsOK
<1>5. Busy("release", j.a)' = Busy("release", j.a)
  BY <1>0, <1>1, <1>2, BusyKept
<1>6. JobOK(job'[t])
  BY <1>1, <1>2, <1>4 DEF JobOK
<1>7. Holds(t)'
  BY <1>2, <1>3, <1>4, <1>5 DEF Holds, Traced, opt, Live, Resetting
<1>8. DeviceOK' /\ DOMAIN heap' = Addrs /\ \A a \in Addrs : Keeps(a)
  BY <1>2, DeviceKept, HeapSame DEF SoundInv
<1>9. QED
  BY <1>0, <1>1, <1>2, <1>6, <1>7, <1>8, PlainStep

LEMMA HookSetsSound ==
  ASSUME SoundInv, NEW t \in game.crew, HookSets(t)
  PROVE  SoundInv'
<1> USE DEF runtimeVars, deviceVars, registryVars, logVars
<1>1. t \in Threads
  BY ThreadFacts
<1>2. PICK a \in Addrs : Usable(a) /\ job' = [job EXCEPT ![t] =
                            [op |-> "take", a |-> a, gen |-> generation]]
  BY DEF HookSets, Goes
<1>3. /\ Moves(t) /\ job'[t] = [op |-> "take", a |-> a, gen |-> generation]
      /\ job[t].op = "idle"
      /\ UNCHANGED <<game, heap, births, bound, owner, generation, scan, reg, surfaceId,
                     nextId, before, tracked, faults>>
  <2>1. Moves(t) /\ job'[t] = [op |-> "take", a |-> a, gen |-> generation]
    BY <1>1, <1>2, MovesBy DEF SoundInv
  <2>2. QED
    BY <2>1 DEF HookSets, Idle
<1>4. generation \in 1 .. MaxGeneration
  BY GameFacts DEF SoundInv
<1>5. Busy("release", a)' = Busy("release", a)
  BY <1>1, <1>3, BusyKept
<1>6. JobOK(job'[t])
  BY <1>3, <1>4 DEF JobOK
<1>7. Live(a)' /\ Spare(a)' > 0
  BY <1>2, <1>3, <1>5 DEF Usable, Live, Spare
<1>8. Holds(t)'
  BY <1>3, <1>4, <1>7 DEF Holds, Resetting
<1>9. DeviceOK' /\ DOMAIN heap' = Addrs /\ \A b \in Addrs : Keeps(b)
  BY <1>3, DeviceKept, HeapSame DEF SoundInv
<1>10. QED
  BY <1>3, <1>6, <1>8, <1>9, PlainStep

LEMMA HookDrawsSound ==
  ASSUME SoundInv, NEW t \in game.crew, HookDraws(t)
  PROVE  SoundInv'
<1> USE DEF runtimeVars, deviceVars, registryVars, logVars
<1> DEFINE current == IF scan.gen = generation THEN scan
                      ELSE [gen |-> generation, samples |-> 0, stale |-> 0]
           sampled == ShouldSample(generation, current.samples, SampleLimit)
           ticket == [op |-> "scan", gen |-> generation,
                      sample |-> current.samples + 1, stale |-> 0, left |-> Slots]
<1>1. t \in Threads /\ generation \in 1 .. MaxGeneration
  BY ThreadFacts, GameFacts DEF SoundInv
<1>2. /\ job[t] = Idle
      /\ scan' = IF sampled THEN [current EXCEPT !.samples = @ + 1] ELSE current
      /\ job' = [job EXCEPT ![t] = IF sampled THEN ticket ELSE Idle]
      /\ UNCHANGED <<game, heap, births, bound, owner, generation, reg, surfaceId,
                     nextId, before, tracked, faults>>
  BY DEF HookDraws, Goes
<1>3. current \in [gen : 0 .. MaxGeneration, samples : 0 .. SampleLimit, stale : Nat]
  BY <1>1, Constants DEF SoundInv, DeviceOK
<1> HIDE DEF current
<1>4. sampled => generation > 1 /\ current.samples < SampleLimit
  BY DEF ShouldSample
<1>5. sampled => ticket \in Scan
  BY <1>1, <1>3, <1>4, Constants DEF Scan
<1> HIDE DEF sampled
<1>6. scan' \in [gen : 0 .. MaxGeneration, samples : 0 .. SampleLimit, stale : Nat]
  BY <1>2, <1>3, <1>4, Constants
<1>7. ticket.op = "scan" /\ ticket.gen = generation /\ ticket.stale + Cardinality(ticket.left) <= 3
  BY SlotsAreThree
<1> HIDE DEF ticket
<1>8. Moves(t) /\ job'[t] = IF sampled THEN ticket ELSE Idle
  BY <1>1, <1>2, MovesBy DEF SoundInv
<1>9. job'[t].op \in {"scan", "idle"} /\ JobOK(job'[t]) /\ job[t].op = "idle"
  BY <1>2, <1>5, <1>7, <1>8, IdleIsOK DEF JobOK
<1>10. Holds(t)'
  BY <1>1, <1>2, <1>7, <1>8, <1>9, IdleIsOK DEF Holds, ScanOK, Resetting
<1>11. DeviceOK' /\ DOMAIN heap' = Addrs /\ \A b \in Addrs : Keeps(b)
  BY <1>2, <1>6, HeapSame DEF SoundInv, DeviceOK
<1>12. QED
  BY <1>2, <1>8, <1>9, <1>10, <1>11, PlainStep

\* A scan that has looked at one binding more.
LEMMA ScanGoesOn ==
  ASSUME NEW j \in Scan, ScanOK(j), NEW s \in j.left
  PROVE  /\ [j EXCEPT !.left = @ \ {s}] \in Scan
         /\ ScanOK([j EXCEPT !.left = @ \ {s}])
         /\ [[j EXCEPT !.left = @ \ {s}] EXCEPT !.stale = @ + 1] \in Scan
         /\ ScanOK([[j EXCEPT !.left = @ \ {s}] EXCEPT !.stale = @ + 1])
<1> DEFINE x == j.left \ {s}
<1>1. IsFiniteSet(j.left) /\ Cardinality(j.left) \in Nat
  BY SlotsAreThree DEF Scan
<1>2. Cardinality(x) = Cardinality(j.left) - 1 /\ Cardinality(x) \in Nat
  BY <1>1, FS_RemoveElement, FS_CardinalityType
<1>3. x \in SUBSET Slots /\ j.stale \in 0 .. 3 /\ j.stale + Cardinality(j.left) <= 3
      /\ j.gen <= generation
  BY DEF Scan, ScanOK
<1> HIDE DEF x
<1>4. j.stale + 1 \in 0 .. 3 /\ j.stale + Cardinality(x) <= 3
      /\ (j.stale + 1) + Cardinality(x) <= 3
  BY <1>1, <1>2, <1>3
<1> DEFINE k == [j EXCEPT !.left = x]
           m == [k EXCEPT !.stale = @ + 1]
<1>5. k \in Scan /\ k.left = x /\ k.stale = j.stale /\ k.gen = j.gen
  BY <1>3 DEF Scan
<1> HIDE DEF k
<1>6. m \in Scan /\ m.left = x /\ m.stale = j.stale + 1 /\ m.gen = j.gen
  BY <1>4, <1>5 DEF Scan
<1> HIDE DEF m
<1>7. ScanOK(k) /\ ScanOK(m)
  BY <1>3, <1>4, <1>5, <1>6 DEF ScanOK
<1>8. QED
  BY <1>5, <1>6, <1>7 DEF k, m, x

LEMMA ScanGetsSound ==
  ASSUME SoundInv, NEW t \in game.crew, ScanGets(t)
  PROVE  SoundInv'
<1> USE DEF runtimeVars, deviceVars, registryVars, logVars
<1>0. PICK j : j = job[t]
  OBVIOUS
<1>1. t \in Threads /\ j.op = "scan" /\ j \in Scan /\ ScanOK(j)
  BY <1>0, ThreadFacts, JobIs DEF ScanGets, Holds
<1>p. PICK s \in job[t].left : \E k :
        /\ job' = [job EXCEPT ![t] = k]
        /\ \/ k = [job[t] EXCEPT !.left = @ \ {s}]
           \/ /\ bound[s] # None
              /\ \/ k = [op |-> "drop", a |-> bound[s],
                         next |-> [job[t] EXCEPT !.left = @ \ {s}]]
                 \/ k = [op |-> "drop", a |-> bound[s],
                         next |-> [[job[t] EXCEPT !.left = @ \ {s}]
                                     EXCEPT !.stale = @ + 1]]
  BY ZenonT(60) DEF ScanGets, Goes
<1>2. PICK k :
        /\ job' = [job EXCEPT ![t] = k]
        /\ \/ k = [job[t] EXCEPT !.left = @ \ {s}]
           \/ /\ bound[s] # None
              /\ \/ k = [op |-> "drop", a |-> bound[s],
                         next |-> [job[t] EXCEPT !.left = @ \ {s}]]
                 \/ k = [op |-> "drop", a |-> bound[s],
                         next |-> [[job[t] EXCEPT !.left = @ \ {s}]
                                     EXCEPT !.stale = @ + 1]]
  BY <1>p
<1>s. s \in j.left
  BY <1>0
<1>3. UNCHANGED <<game, heap, births, bound, owner, generation, scan, reg, surfaceId,
                  nextId, before, tracked, faults>>
  BY DEF ScanGets
<1> DEFINE next == [j EXCEPT !.left = @ \ {s}]
           more == [next EXCEPT !.stale = @ + 1]
<1>4. next \in Scan /\ ScanOK(next) /\ more \in Scan /\ ScanOK(more)
  BY <1>1, <1>s, ScanGoesOn
<1>a. /\ s \in j.left /\ job' = [job EXCEPT ![t] = k]
      /\ \/ k = next
         \/ bound[s] # None /\ k = [op |-> "drop", a |-> bound[s], next |-> next]
         \/ bound[s] # None /\ k = [op |-> "drop", a |-> bound[s], next |-> more]
  BY <1>0, <1>2
<1> HIDE DEF next, more
<1>5. bound[s] # None => bound[s] \in Addrs
  BY <1>1, <1>a DEF SoundInv, DeviceOK, Scan
<1>6. \/ k \in Scan /\ ScanOK(k)
      \/ k \in [op : {"drop"}, a : Addrs, next : Scan] /\ ScanOK(k.next)
  <2>1. ASSUME NEW n \in Scan, ScanOK(n), bound[s] # None,
               k = [op |-> "drop", a |-> bound[s], next |-> n]
        PROVE  k \in [op : {"drop"}, a : Addrs, next : Scan] /\ ScanOK(k.next)
    BY <1>5, <2>1
  <2>2. QED
    BY <1>4, <1>a, <2>1
<1>7. Moves(t) /\ job'[t] = k
  BY <1>1, <1>a, MovesBy DEF SoundInv
<1>8. k.op \in {"scan", "drop"} /\ JobOK(k)
      /\ (k.op = "scan" => ScanOK(k)) /\ (k.op = "drop" => ScanOK(k.next))
  BY <1>6 DEF JobOK, Scan
<1>9. Holds(t)'
  BY <1>3, <1>7, <1>8 DEF Holds, ScanOK, Resetting
<1>10. DeviceOK' /\ DOMAIN heap' = Addrs /\ \A b \in Addrs : Keeps(b)
  BY <1>3, HeapSame, DeviceKept DEF SoundInv
<1>11. QED
  BY <1>0, <1>1, <1>3, <1>7, <1>8, <1>9, <1>10, PlainStep

LEMMA ScanDropsSound ==
  ASSUME SoundInv, NEW t \in game.crew, ScanDrops(t)
  PROVE  SoundInv'
<1> USE DEF runtimeVars, deviceVars, registryVars, logVars
<1>0. PICK j : j = job[t]
  OBVIOUS
<1>1. t \in Threads /\ j.op = "drop" /\ j.next \in Scan /\ ScanOK(j.next)
  BY <1>0, ThreadFacts, JobIs DEF ScanDrops, Holds
<1>2. /\ job' = [job EXCEPT ![t] = j.next] /\ Reap(heap, bound, Queried(t))
      /\ UNCHANGED <<game, births, generation, scan, reg, surfaceId,
                     nextId, before, tracked, faults>>
  BY <1>0 DEF ScanDrops, Goes
<1>3. Moves(t) /\ job'[t] = j.next
  BY <1>1, <1>2, MovesBy DEF SoundInv
<1>4. job'[t].op = "scan" /\ JobOK(job'[t])
  BY <1>1, <1>3 DEF JobOK, Scan
<1>5. Holds(t)'
  BY <1>1, <1>2, <1>3, <1>4 DEF Holds, ScanOK, Resetting
<1>6. DOMAIN heap' = Addrs /\ \A b \in Addrs : Keeps(b)
  BY <1>2, ReapKeeps DEF SoundInv
<1>7. DeviceOK'
  BY <1>2, ReapDevice DEF SoundInv, DeviceOK
<1>8. QED
  BY <1>0, <1>1, <1>2, <1>3, <1>4, <1>5, <1>6, <1>7, PlainStep

LEMMA ScanEndsSound ==
  ASSUME SoundInv, NEW t \in game.crew, ScanEnds(t)
  PROVE  SoundInv'
<1> USE DEF runtimeVars, deviceVars, registryVars, logVars
<1>0. PICK j : j = job[t]
  OBVIOUS
<1>1. t \in Threads /\ j.op = "scan" /\ j \in Scan
  BY <1>0, ThreadFacts, JobIs DEF ScanEnds
<1>2. /\ job' = [job EXCEPT ![t] = Idle]
      /\ scan' = IF CountsFor(j) THEN [scan EXCEPT !.stale = @ + j.stale] ELSE scan
      /\ UNCHANGED <<game, heap, births, bound, owner, generation, reg, surfaceId,
                     nextId, before, tracked, faults>>
  BY <1>0 DEF ScanEnds, Goes
<1>3. Moves(t) /\ job'[t] = Idle
  BY <1>1, <1>2, MovesBy DEF SoundInv
<1>4. job'[t].op = "idle" /\ JobOK(job'[t])
  BY <1>3, IdleIsOK
<1>5. scan' \in [gen : 0 .. MaxGeneration, samples : 0 .. SampleLimit, stale : Nat]
  <2>1. scan \in [gen : 0 .. MaxGeneration, samples : 0 .. SampleLimit, stale : Nat]
    BY DEF SoundInv, DeviceOK
  <2>2. j.stale \in Nat
    BY <1>1 DEF Scan
  <2>3. QED
    BY <1>2, <2>1, <2>2
<1>6. DeviceOK' /\ DOMAIN heap' = Addrs /\ \A b \in Addrs : Keeps(b)
  BY <1>2, <1>5, HeapSame DEF SoundInv, DeviceOK
<1>7. Holds(t)'
  BY <1>4, Quiet
<1>8. QED
  BY <1>0, <1>1, <1>2, <1>3, <1>4, <1>6, <1>7, PlainStep

\* Writing to an object changes nothing but its contents.
LEMMA Written ==
  ASSUME NEW x \in Object, NEW c \in 0 .. 1, NEW y, y = [x EXCEPT !.content = c]
  PROVE  /\ y \in Object /\ Same(x, y) /\ y.refs = x.refs /\ y.released = x.released
         /\ y.content = c
  BY DEF Object, Same

\* A step that leaves the thread where it is, or lets it end its call.
LEMMA StandingStep ==
  ASSUME SoundInv, NEW t \in game.crew, job[t].op = "idle",
         UNCHANGED <<job, births, game, generation, tracked, nextId, faults, scan, before>>,
         RegistryOK', DeviceOK', DOMAIN heap' = Addrs, \A a \in Addrs : Keeps(a)
  PROVE  SoundInv'
<1>1. t \in Threads /\ JobOK(job[t])
  BY ThreadFacts
<1>2. Moves(t) /\ job'[t] = job[t]
  BY <1>1, NoMove DEF SoundInv
<1>3. CountsOK'
  BY <1>1, <1>2, CountsKept DEF SoundInv
<1>4. Holds(t)'
  BY <1>2, Quiet
<1>5. generation' >= generation /\ generation' = generation
  BY GameFacts, Constants DEF SoundInv
<1>6. QED
  BY <1>1, <1>2, <1>3, <1>4, <1>5, SoftStep

LEMMA RegistrySame ==
  ASSUME SoundInv, UNCHANGED <<births, game, generation, tracked, reg, surfaceId, before>>
  PROVE  RegistryOK'
<1>1. generation \in Nat
  BY GameFacts, Constants DEF SoundInv
<1>2. QED
  BY <1>1, RegistryKept DEF SoundInv

LEMMA HookLocksSound ==
  ASSUME SoundInv, NEW t \in game.crew, HookLocks(t)
  PROVE  SoundInv'
<1> USE DEF runtimeVars, deviceVars, registryVars, logVars
<1>1. PICK a \in Addrs, c \in Contents :
        Usable(a) /\ heap' = [heap EXCEPT ![a].content = c]
  BY DEF HookLocks
<1>2. job[t].op = "idle"
      /\ UNCHANGED <<job, births, bound, owner, game, generation, tracked, nextId, faults,
                     scan, reg, surfaceId, before>>
  BY DEF HookLocks, Idle
<1>3. heap[a] \in Object /\ heap[a] # Free /\ DOMAIN heap = Addrs
  BY <1>1, LiveIs DEF Usable, SoundInv, HeapOK
<1>4. c \in 0 .. 1
  BY DEF Contents
<1>5. DOMAIN heap' = Addrs /\ \A b \in Addrs : Keeps(b)
  <2>1. DOMAIN heap' = Addrs /\ heap'[a] = [heap[a] EXCEPT !.content = c]
        /\ \A b \in Addrs : b # a => heap'[b] = heap[b]
    BY <1>1, <1>3
  <2>2. Keeps(a)
    BY <1>3, <1>4, <2>1, Written DEF Keeps
  <2>3. ASSUME NEW b \in Addrs, b # a PROVE Keeps(b)
    BY <2>1, <2>3 DEF Keeps, SoundInv, HeapOK, Same
  <2>4. QED
    BY <2>1, <2>2, <2>3
<1>6. DeviceOK' /\ RegistryOK'
  BY <1>2, DeviceKept, RegistrySame DEF SoundInv
<1>7. QED
  BY <1>2, <1>5, <1>6, StandingStep

LEMMA HookLocksSurfaceSound ==
  ASSUME SoundInv, NEW t \in game.crew, HookLocksSurface(t)
  PROVE  SoundInv'
<1> USE DEF runtimeVars, deviceVars, registryVars, logVars
<1>1. job[t].op = "idle"
      /\ UNCHANGED <<job, heap, births, bound, owner, game, generation, tracked, nextId, faults,
                     scan, reg, surfaceId, before>>
  BY DEF HookLocksSurface, Idle
<1>2. DeviceOK' /\ RegistryOK' /\ DOMAIN heap' = Addrs /\ \A b \in Addrs : Keeps(b)
  BY <1>1, DeviceKept, RegistrySame, HeapSame DEF SoundInv
<1>3. QED
  BY <1>1, <1>2, StandingStep

LEMMA HookGetsSurfaceSound ==
  ASSUME SoundInv, NEW t \in game.crew, HookGetsSurface(t)
  PROVE  SoundInv'
<1> USE DEF runtimeVars, deviceVars, registryVars, logVars
<1>1. PICK a \in Addrs, s \in Surfaces :
        /\ owner' = [owner EXCEPT ![s] = a]
        /\ surfaceId' = IF IdAt(a) = 0 THEN surfaceId
                        ELSE [surfaceId EXCEPT ![s] = IdAt(a)]
  BY DEF HookGetsSurface
<1>2. job[t].op = "idle"
      /\ UNCHANGED <<job, heap, births, bound, game, generation, tracked, nextId, faults,
                     scan, reg, before>>
  BY DEF HookGetsSurface, Idle
<1>3. IdAt(a) \in 0 .. MaxObjects
  <2>1. CASE reg[a] = NoEntry
    BY <2>1, Constants DEF IdAt, NoEntry
  <2>2. CASE reg[a] # NoEntry
    <3>1. reg[a].id \in 0 .. MaxObjects
      BY <2>2, Constants DEF SoundInv, RegistryOK, Entry
    <3>2. QED
      BY <3>1, Constants DEF IdAt
  <2>3. QED
    BY <2>1, <2>2
<1>4. DeviceOK'
  BY <1>1, <1>2 DEF SoundInv, DeviceOK
<1>5. RegistryOK'
  <2>1. surfaceId' \in [Surfaces -> 0 .. MaxObjects]
    BY <1>1, <1>3 DEF SoundInv, RegistryOK
  <2>2. QED
    BY <1>2, <2>1 DEF SoundInv, RegistryOK, Traced, opt
<1>6. DOMAIN heap' = Addrs /\ \A b \in Addrs : Keeps(b)
  BY <1>2, HeapSame DEF SoundInv
<1>7. QED
  BY <1>2, <1>4, <1>5, <1>6, StandingStep

LEMMA HookUnbindsSound ==
  ASSUME SoundInv, NEW t \in game.crew, HookUnbinds(t)
  PROVE  SoundInv'
<1> USE DEF runtimeVars, deviceVars, registryVars, logVars
<1>1. PICK s \in Slots : Reap(heap, [bound EXCEPT ![s] = None], Queried(t))
  BY DEF HookUnbinds
<1>2. job[t].op = "idle"
      /\ UNCHANGED <<job, births, game, generation, tracked, nextId, faults, scan, reg,
                     surfaceId, before>>
  BY DEF HookUnbinds, Idle
<1>3. [bound EXCEPT ![s] = None] \in [Slots -> Addrs \cup {None}]
  BY DEF SoundInv, DeviceOK
<1>4. DeviceOK' /\ RegistryOK' /\ DOMAIN heap' = Addrs /\ \A b \in Addrs : Keeps(b)
  BY <1>1, <1>2, <1>3, ReapDevice, RegistrySame, ReapKeeps DEF SoundInv
<1>5. QED
  BY <1>2, <1>4, StandingStep

----------------------------------------------------------------------------
(* The Reset.                                                              *)

LEMMA ProbingIsOK ==
  ASSUME SoundInv, NEW b \in BOOLEAN
  PROVE  JobOK(Probing(b)) /\ Probing(b).op = "probe" /\ Probing(b).after = b
<1>1. Candidates \subseteq Addrs
  BY DEF Candidates
<1>2. ASSUME NEW a \in Candidates PROVE reg[a].id \in 1 .. MaxObjects
  BY <1>1 DEF Candidates, SoundInv, RegistryOK, Entry, NoEntry
<1>3. [a \in Candidates |-> reg[a].id] \in [Candidates -> 1 .. MaxObjects]
  BY <1>2
<1>4. QED
  BY <1>1, <1>3 DEF Probing, JobOK

LEMMA ResetBeginsSound ==
  ASSUME SoundInv, NEW t \in game.crew, ResetBegins(t)
  PROVE  SoundInv'
<1> USE DEF runtimeVars, deviceVars, registryVars, logVars
<1> DEFINE k == IF opt.probe THEN Probing(FALSE) ELSE [op |-> "reset"]
<1>1. t \in Threads
  BY ThreadFacts
<1>2. /\ t = Creator /\ job[t].op = "idle" /\ generation < game.generations
      /\ job' = [job EXCEPT ![t] = k]
      /\ UNCHANGED <<game, heap, births, bound, owner, generation, scan, reg, surfaceId,
                     nextId, before, tracked, faults>>
  BY DEF ResetBegins, Goes, Idle
<1>3. JobOK(k) /\ k.op \in {"reset", "probe"}
  BY ProbingIsOK DEF JobOK
<1> HIDE DEF k
<1>4. Moves(t) /\ job'[t] = k
  BY <1>1, <1>2, MovesBy DEF SoundInv
<1>5. Holds(t)'
  BY <1>2, <1>3, <1>4 DEF Holds
<1>6. DeviceOK' /\ DOMAIN heap' = Addrs /\ \A b \in Addrs : Keeps(b)
  BY <1>2, HeapSame, DeviceKept DEF SoundInv
<1>7. QED
  BY <1>2, <1>3, <1>4, <1>5, <1>6, PlainStep

LEMMA ProbeReadsSound ==
  ASSUME SoundInv, NEW t \in game.crew, ProbeReads(t)
  PROVE  SoundInv'
<1> USE DEF runtimeVars, deviceVars, registryVars, logVars
<1>0. PICK j : j = job[t]
  OBVIOUS
<1>1. t \in Threads /\ j.op = "probe" /\ Holds(t)
  BY <1>0, ThreadFacts DEF ProbeReads
<1>2. /\ Reap(heap, bound, Queried(t))
      /\ DOMAIN before' = DOMAIN before
      /\ UNCHANGED <<game, births, generation, scan, reg, surfaceId, nextId, tracked, faults>>
  BY DEF ProbeReads
<1>3. PICK k : /\ job' = [job EXCEPT ![t] = k]
               /\ k = Idle \/ (k = [op |-> "reset"] /\ ~j.after)
  BY <1>0 DEF ProbeReads, Goes
<1>4. Moves(t) /\ job'[t] = k
  BY <1>1, <1>3, MovesBy DEF SoundInv
<1>5. JobOK(k) /\ k.op \in {"idle", "reset"} /\ (k.op = "reset" => ~j.after)
  BY <1>3, IdleIsOK DEF JobOK
<1>6. t = Creator
  BY <1>0, <1>1 DEF SoundInv, JobsOK
<1>7. Holds(t)'
  BY <1>0, <1>1, <1>2, <1>4, <1>5 DEF Holds, Resetting
<1>8. DOMAIN heap' = Addrs /\ \A b \in Addrs : Keeps(b)
  BY <1>2, ReapKeeps DEF SoundInv
<1>9. DeviceOK'
  BY <1>2, ReapDevice DEF SoundInv, DeviceOK
<1>10. QED
  BY <1>0, <1>1, <1>2, <1>4, <1>5, <1>6, <1>7, <1>8, <1>9, PlainStep

\* A Reset loses contents and unbinds everything.
LEMMA ResetKeeps ==
  ASSUME HeapOK, NEW lost \in SUBSET {a \in Addrs : Live(a)}, NEW b, NEW kept,
         Reap([a \in Addrs |-> IF a \in lost THEN [heap[a] EXCEPT !.content = 1 - @]
                               ELSE heap[a]], b, kept)
  PROVE  DOMAIN heap' = Addrs /\ \A a \in Addrs : Keeps(a)
<1> DEFINE h == [a \in Addrs |-> IF a \in lost THEN [heap[a] EXCEPT !.content = 1 - @]
                                 ELSE heap[a]]
<1>1. ASSUME NEW a \in Addrs, heap[a] # Free
      PROVE  h[a] \in Object /\ Same(heap[a], h[a]) /\ h[a].refs = heap[a].refs
             /\ h[a].released = heap[a].released
  <2>1. heap[a] \in Object /\ 1 - heap[a].content \in 0 .. 1
    BY <1>1 DEF HeapOK, Object
  <2>2. CASE a \in lost
    BY <2>1, <2>2, Written
  <2>3. CASE a \notin lost
    BY <2>1, <2>3 DEF Same
  <2>4. QED
    BY <2>2, <2>3
<1>2. ASSUME NEW a \in Addrs, heap[a] = Free PROVE h[a] = Free
  BY <1>2, LiveIs
<1> HIDE DEF h
<1>3. /\ DOMAIN heap' = Addrs
      /\ \A a \in Addrs :
           \/ heap'[a] = h[a]
           \/ heap'[a] = Free /\ h[a].n # 0 /\ h[a].refs = 0
  BY Reaps DEF h
<1>4. ASSUME NEW a \in Addrs PROVE Keeps(a)
  <2>1. CASE heap[a] = Free
    BY <1>2, <1>3, <2>1 DEF Keeps, Free
  <2>2. CASE heap[a] # Free
    BY <1>1, <1>3, <2>2 DEF Keeps
  <2>3. QED
    BY <2>1, <2>2
<1>5. QED
  BY <1>3, <1>4

LEMMA OriginalResetsSound ==
  ASSUME SoundInv, NEW t \in game.crew, OriginalResets(t)
  PROVE  SoundInv'
<1> USE DEF runtimeVars, deviceVars, registryVars, logVars
<1>1. t \in Threads /\ job[t].op = "reset" /\ Holds(t) /\ t = Creator
  BY ThreadFacts DEF OriginalResets, SoundInv, JobsOK
<1>2. UNCHANGED <<game, births, generation, scan, reg, surfaceId, nextId, tracked, faults,
                  before>>
  BY DEF OriginalResets
<1>3. PICK k : job' = [job EXCEPT ![t] = k] /\ (k = Idle \/ k = [op |-> "bump"])
  BY DEF OriginalResets, Goes
<1>4. Moves(t) /\ job'[t] = k /\ JobOK(k) /\ k.op \in {"idle", "bump"}
  <2>1. Moves(t) /\ job'[t] = k
    BY <1>1, <1>3, MovesBy DEF SoundInv
  <2>2. JobOK(k) /\ k.op \in {"idle", "bump"}
    BY <1>3, IdleIsOK DEF JobOK
  <2>3. QED
    BY <2>1, <2>2
<1>5. Holds(t)'
  BY <1>1, <1>2, <1>4 DEF Holds, Resetting
<1>6. DeviceOK' /\ DOMAIN heap' = Addrs /\ \A b \in Addrs : Keeps(b)
  <2>1. CASE UNCHANGED runtimeVars
    BY <1>2, <2>1, DeviceKept, HeapSame DEF SoundInv
  <2>2. CASE \E lost \in SUBSET {a \in Addrs : Live(a) /\ opt.probe} :
               Reap([a \in Addrs |-> IF a \in lost THEN [heap[a] EXCEPT !.content = 1 - @]
                                     ELSE heap[a]],
                    [s \in Slots |-> None], Queried(t))
    <3>1. PICK lost \in SUBSET {a \in Addrs : Live(a)} :
               Reap([a \in Addrs |-> IF a \in lost THEN [heap[a] EXCEPT !.content = 1 - @]
                                     ELSE heap[a]],
                    [s \in Slots |-> None], Queried(t))
      BY <2>2
    <3>2. [s \in Slots |-> None] \in [Slots -> Addrs \cup {None}]
      OBVIOUS
    <3>3. QED
      BY <1>2, <3>1, <3>2, ResetKeeps, ReapDevice DEF SoundInv
  <2>3. QED
    BY <2>1, <2>2 DEF OriginalResets
<1>7. QED
  BY <1>1, <1>2, <1>4, <1>5, <1>6, PlainStep

LEMMA ResetBumpsSound ==
  ASSUME SoundInv, NEW t \in game.crew, ResetBumps(t)
  PROVE  SoundInv'
<1> USE DEF runtimeVars, deviceVars, registryVars, logVars
<1> DEFINE k == IF opt.probe THEN Probing(TRUE) ELSE Idle
<1>1. t \in Threads /\ job[t].op = "bump" /\ Holds(t) /\ t = Creator
  BY ThreadFacts DEF ResetBumps, SoundInv, JobsOK
<1>2. /\ generation' = generation + 1 /\ job' = [job EXCEPT ![t] = k]
      /\ UNCHANGED <<game, heap, births, bound, owner, scan, reg, surfaceId,
                     nextId, before, tracked, faults>>
  BY DEF ResetBumps, Goes
<1>3. JobOK(k) /\ k.op \in {"idle", "probe"} /\ (k.op = "probe" => k.after)
  BY ProbingIsOK, IdleIsOK
<1> HIDE DEF k
<1>4. Moves(t) /\ job'[t] = k
  BY <1>1, <1>2, MovesBy DEF SoundInv
<1>5. Holds(t)'
  BY <1>3, <1>4 DEF Holds, Resetting
<1>6. /\ generation \in Nat /\ generation' \in Nat /\ generation' >= generation
      /\ generation' \in 1 .. game.generations
  <2>1. generation < game.generations
    BY <1>1 DEF Holds, Resetting
  <2>2. generation \in 1 .. game.generations /\ game.generations \in Nat
    BY GameFacts, Constants DEF SoundInv, CountsOK
  <2>3. QED
    BY <1>2, <2>1, <2>2
<1>7. CountsOK'
  <2>1. Cardinality(Pending') \in Nat /\ Cardinality(Pending) \in Nat
        /\ Cardinality(Pending') <= Cardinality(Pending)
    BY <1>1, <1>3, <1>4, PendingKept
  <2>2. Len(tracked) \in Nat /\ Len(births) \in Nat
    BY DEF SoundInv, CountsOK
  <2>3. Len(tracked) + Cardinality(Pending') <= Len(births)
    BY <2>1, <2>2 DEF SoundInv, CountsOK
  <2>4. ASSUME NEW i \in 1 .. Len(births) PROVE births[i] <= generation'
    <3>1. births[i] \in Nat /\ births[i] <= generation
      BY Constants DEF SoundInv, CountsOK
    <3>2. QED
      BY <1>6, <3>1
  <2>5. QED
    BY <1>2, <1>6, <2>3, <2>4 DEF SoundInv, CountsOK
<1>8. RegistryOK'
  BY <1>2, <1>6, RegistryKept DEF SoundInv
<1>9. DeviceOK' /\ DOMAIN heap' = Addrs /\ \A b \in Addrs : Keeps(b)
  BY <1>2, HeapSame, DeviceKept DEF SoundInv
<1>10. QED
  BY <1>1, <1>2, <1>3, <1>4, <1>5, <1>6, <1>7, <1>8, <1>9, SoftStep

----------------------------------------------------------------------------
(* The map.                                                                *)

\* An entry that notes what was reported.
LEMMA NotedIsEntry ==
  ASSUME NEW e \in Entry, NEW slot \in Slots, NEW gen \in 0 .. MaxGeneration,
         NEW c, c = Noted(e, slot, gen)
  PROVE  /\ c \in Entry /\ c.bgen = gen /\ c.id = e.id /\ c.kind = e.kind
         /\ c.creation = e.creation /\ c.releases = e.releases
         /\ slot \in c.mask /\ (e.bgen = gen => e.mask \subseteq c.mask)
<1> DEFINE m == IF e.bgen = gen THEN e.mask \cup {slot} ELSE {slot}
<1>1. /\ m \in SUBSET Slots /\ slot \in m
      /\ e.bgen = gen => e.mask \subseteq m
  BY DEF Entry
<1>2. c = [[e EXCEPT !.bgen = gen] EXCEPT !.mask = m]
  BY DEF Noted, Entry
<1> HIDE DEF m
<1> DEFINE d == [e EXCEPT !.bgen = gen]
<1>3. /\ d \in Entry /\ d.bgen = gen /\ d.id = e.id /\ d.kind = e.kind
      /\ d.creation = e.creation /\ d.releases = e.releases
  BY DEF Entry
<1> HIDE DEF d
<1>4. c = [d EXCEPT !.mask = m]
  BY <1>2 DEF d
<1>5. /\ c \in Entry /\ c.bgen = d.bgen /\ c.id = d.id /\ c.kind = d.kind
      /\ c.creation = d.creation /\ c.releases = d.releases /\ c.mask = m
  BY <1>1, <1>3, <1>4 DEF Entry
<1>6. QED
  BY <1>1, <1>3, <1>5

LEMMA SlotOfIsSlot == ASSUME NEW class PROVE SlotOf(class) \in Slots
  BY DEF SlotOf, Slots

\* Entries change only in what they note, or disappear.
LEMMA RegistryEdited ==
  ASSUME SoundInv, DOMAIN reg' = Addrs,
         surfaceId' \in [Surfaces -> 0 .. MaxObjects],
         UNCHANGED <<births, game, generation, tracked, before>>,
         \A a \in Addrs :
           \/ reg'[a] = NoEntry
           \/ /\ reg[a] # NoEntry /\ reg'[a] \in Entry /\ reg'[a].id = reg[a].id
              /\ reg'[a].creation = reg[a].creation /\ reg'[a].bgen <= generation
  PROVE  RegistryOK'
<1>1. ASSUME NEW a \in Addrs, reg'[a] # NoEntry
      PROVE  /\ Traced' /\ reg'[a] \in Entry /\ reg'[a].id <= Len(tracked')
             /\ births'[tracked'[reg'[a].id]] <= reg'[a].creation
             /\ reg'[a].bgen <= generation'
  BY <1>1 DEF SoundInv, RegistryOK, Traced, opt
<1>2. ASSUME NEW a \in Addrs, NEW b \in Addrs, reg'[a].id # 0, reg'[a].id = reg'[b].id
      PROVE  a = b
  <2>1. reg'[a].id = reg[a].id /\ reg'[b].id = reg[b].id
    BY <1>2 DEF NoEntry
  <2>2. QED
    BY <1>2, <2>1 DEF SoundInv, RegistryOK
<1>3. DOMAIN before' = 1 .. MaxObjects
  BY DEF SoundInv, RegistryOK
<1>4. QED
  BY <1>1, <1>2, <1>3 DEF RegistryOK

LEMMA EntryIs ==
  ASSUME SoundInv, NEW a \in Addrs
  PROVE  /\ reg[a].id # 0 <=> reg[a] # NoEntry
         /\ reg[a].id # 0 => reg[a] \in Entry /\ reg[a].id \in 1 .. Len(tracked)
                             /\ reg[a].bgen <= generation /\ Traced
         /\ reg[a].id \in 0 .. MaxObjects
<1>1. CASE reg[a] = NoEntry
  BY <1>1, Constants DEF NoEntry
<1>2. CASE reg[a] # NoEntry
  <2>1. reg[a] \in Entry /\ reg[a].id <= Len(tracked) /\ reg[a].bgen <= generation /\ Traced
    BY <1>2 DEF SoundInv, RegistryOK
  <2>2. reg[a].id \in 1 .. MaxObjects
    BY <2>1 DEF Entry
  <2>3. QED
    BY <1>2, <2>1, <2>2, Constants, GameFacts DEF SoundInv
<1>3. QED
  BY <1>1, <1>2

LEMMA HookBindsSound ==
  ASSUME SoundInv, NEW t \in game.crew, HookBinds(t)
  PROVE  SoundInv'
<1> USE DEF runtimeVars, deviceVars, registryVars, logVars
<1>0. PICK j : j = job[t]
  OBVIOUS
<1>1. /\ t \in Threads /\ j.op = "take" /\ Holds(t)
      /\ j.a \in Addrs /\ j.gen \in 1 .. MaxGeneration
  <2>1. j.op = "take"
    BY <1>0 DEF HookBinds
  <2>2. t \in Threads /\ JobOK(j) /\ Holds(t)
    BY <1>0, ThreadFacts
  <2>3. QED
    BY <2>1, <2>2, JobIs
<1> DEFINE slot == SlotOf(heap[j.a].class)
<1>2. /\ Reap(heap, [bound EXCEPT ![slot] = j.a], Queried(t))
      /\ job' = [job EXCEPT ![t] = Idle]
      /\ UNCHANGED <<game, births, generation, scan, surfaceId, nextId, before, tracked, faults>>
  BY <1>0 DEF HookBinds, Goes
<1>3. reg' = reg \/ (reg[j.a].id # 0 /\ reg' = [reg EXCEPT ![j.a] = Noted(@, slot, j.gen)])
  BY <1>0 DEF HookBinds, StaleAt
<1>4. slot \in Slots
  BY SlotOfIsSlot
<1> HIDE DEF slot
<1>5. Moves(t) /\ job'[t] = Idle
  BY <1>1, <1>2, MovesBy DEF SoundInv
<1>6. JobOK(job'[t]) /\ job'[t].op = "idle" /\ Holds(t)'
  BY <1>5, IdleIsOK, Quiet
<1>7. DOMAIN heap' = Addrs /\ \A b \in Addrs : Keeps(b)
  BY <1>2, ReapKeeps DEF SoundInv
<1>8. [bound EXCEPT ![slot] = j.a] \in [Slots -> Addrs \cup {None}]
  BY <1>1, <1>4 DEF SoundInv, DeviceOK
<1>9. DeviceOK'
  BY <1>2, <1>8, ReapDevice DEF SoundInv
<1>10. RegistryOK'
  <2>1. j.gen <= generation /\ j.gen \in 0 .. MaxGeneration
    BY <1>0, <1>1, Constants DEF Holds
  <2>2. DOMAIN reg = Addrs
    BY DEF SoundInv, RegistryOK
  <2>3. ASSUME NEW a \in Addrs
        PROVE  \/ reg'[a] = NoEntry
               \/ /\ reg[a] # NoEntry /\ reg'[a] \in Entry /\ reg'[a].id = reg[a].id
                  /\ reg'[a].creation = reg[a].creation /\ reg'[a].bgen <= generation
    <3>1. CASE reg'[a] = reg[a]
      BY <3>1, EntryIs
    <3>2. CASE reg'[a] # reg[a]
      <4>1. a = j.a /\ reg[a].id # 0 /\ reg'[a] = Noted(reg[a], slot, j.gen)
        BY <1>3, <2>2, <3>2
      <4>2. reg[a] \in Entry /\ reg[a] # NoEntry
        BY <4>1, EntryIs
      <4>3. PICK e, c, s, g : /\ e = reg[a] /\ c = reg'[a] /\ s = slot /\ g = j.gen
                              /\ c = Noted(e, s, g)
        BY <4>1
      <4>4. c \in Entry /\ c.bgen = g /\ c.id = e.id /\ c.creation = e.creation
        <5>1. e \in Entry /\ s \in Slots /\ g \in 0 .. MaxGeneration
          BY <1>4, <2>1, <4>2, <4>3
        <5>2. c = Noted(e, s, g)
          BY <4>3
        <5>3. QED
          BY <5>1, <5>2, NotedIsEntry
      <4>5. QED
        BY <2>1, <4>2, <4>3, <4>4
    <3>3. QED
      BY <3>1, <3>2
  <2>4. DOMAIN reg' = Addrs
    BY <1>3, <2>2
  <2>5. surfaceId' \in [Surfaces -> 0 .. MaxObjects]
    BY <1>2 DEF SoundInv, RegistryOK
  <2>6. QED
    BY <1>2, <2>3, <2>4, <2>5, RegistryEdited
<1>11. CountsOK'
  BY <1>1, <1>2, <1>5, <1>6, CountsKept DEF SoundInv
<1>12. generation' >= generation
  BY <1>2, GameFacts, Constants DEF SoundInv
<1>13. QED
  BY <1>0, <1>1, <1>2, <1>5, <1>6, <1>7, <1>9, <1>10, <1>11, <1>12, SoftStep

LEMMA ReleaseErasesSound ==
  ASSUME SoundInv, NEW t \in game.crew, ReleaseErases(t)
  PROVE  SoundInv'
<1> USE DEF runtimeVars, deviceVars, registryVars, logVars
<1>0. PICK j : j = job[t]
  OBVIOUS
<1>1. t \in Threads /\ j.op = "erase" /\ j.a \in Addrs
  BY <1>0, ThreadFacts, JobIs DEF ReleaseErases
<1>2. /\ reg' = [reg EXCEPT ![j.a] = NoEntry]
      /\ surfaceId' = [s \in Surfaces |-> IF surfaceId[s] = j.id THEN 0 ELSE surfaceId[s]]
      /\ job' = [job EXCEPT ![t] = Idle]
      /\ UNCHANGED <<game, heap, births, bound, owner, generation, scan, nextId, before,
                     tracked, faults>>
  BY <1>0 DEF ReleaseErases, Erase, Goes
<1>3. Moves(t) /\ job'[t] = Idle
  BY <1>1, <1>2, MovesBy DEF SoundInv
<1>4. JobOK(job'[t]) /\ job'[t].op = "idle" /\ Holds(t)'
  BY <1>3, IdleIsOK, Quiet
<1>5. DeviceOK' /\ DOMAIN heap' = Addrs /\ \A b \in Addrs : Keeps(b)
  BY <1>2, HeapSame, DeviceKept DEF SoundInv
<1>6. RegistryOK'
  <2>1. surfaceId' \in [Surfaces -> 0 .. MaxObjects]
    BY <1>2, Constants DEF SoundInv, RegistryOK
  <2>2. DOMAIN reg = Addrs
    BY DEF SoundInv, RegistryOK
  <2>3. ASSUME NEW a \in Addrs
        PROVE  \/ reg'[a] = NoEntry
               \/ /\ reg[a] # NoEntry /\ reg'[a] \in Entry /\ reg'[a].id = reg[a].id
                  /\ reg'[a].creation = reg[a].creation /\ reg'[a].bgen <= generation
    BY <1>2, <2>2, EntryIs
  <2>4. QED
    BY <1>2, <2>1, <2>2, <2>3, RegistryEdited
<1>7. CountsOK'
  BY <1>1, <1>2, <1>3, <1>4, CountsKept DEF SoundInv
<1>8. generation' >= generation
  BY <1>2, GameFacts, Constants DEF SoundInv
<1>9. QED
  BY <1>0, <1>1, <1>2, <1>3, <1>4, <1>5, <1>6, <1>7, <1>8, SoftStep

\* The threads whose creation is pending, without one of them.
LEMMA PendingLess ==
  ASSUME NEW t \in Threads, Moves(t), job[t].op \in {"identify", "register"},
         job'[t].op \notin {"identify", "register"}
  PROVE  /\ Cardinality(Pending) \in Nat /\ Cardinality(Pending') \in Nat
         /\ Cardinality(Pending') = Cardinality(Pending) - 1
<1>1. Pending' = Pending \ {t} /\ t \in Pending /\ Pending \in SUBSET Threads
  BY DEF Pending, Moves
<1>2. IsFiniteSet(Pending)
  BY <1>1, Constants, FS_Subset
<1>3. QED
  BY <1>1, <1>2, FS_RemoveElement, FS_CardinalityType

LEMMA PendingMore ==
  ASSUME NEW t \in Threads, Moves(t)
  PROVE  /\ Cardinality(Pending) \in Nat /\ Cardinality(Pending') \in Nat
         /\ Cardinality(Pending') <= Cardinality(Pending) + 1
<1>1. Pending' \in SUBSET (Pending \cup {t}) /\ Pending \in SUBSET Threads
  BY DEF Pending, Moves
<1>2. IsFiniteSet(Pending)
  BY <1>1, Constants, FS_Subset
<1>3. /\ IsFiniteSet(Pending \cup {t})
      /\ Cardinality(Pending \cup {t}) <= Cardinality(Pending) + 1
      /\ Cardinality(Pending) \in Nat /\ Cardinality(Pending \cup {t}) \in Nat
  <2>1. /\ IsFiniteSet(Pending \cup {t})
        /\ Cardinality(Pending \cup {t}) =
             IF t \in Pending THEN Cardinality(Pending) ELSE Cardinality(Pending) + 1
    BY <1>2, FS_AddElement
  <2>2. Cardinality(Pending) \in Nat
    BY <1>2, FS_CardinalityType
  <2>3. QED
    BY <2>1, <2>2
<1>4. /\ IsFiniteSet(Pending') /\ Cardinality(Pending') <= Cardinality(Pending \cup {t})
  BY <1>1, <1>3, FS_Subset
<1>5. Cardinality(Pending') \in Nat
  BY <1>4, FS_CardinalityType
<1>6. QED
  BY <1>3, <1>4, <1>5

LEMMA Appended ==
  ASSUME NEW S, NEW q \in Seq(S), NEW x \in S, NEW r, r = Append(q, x)
  PROVE  /\ r \in Seq(S) /\ Len(r) = Len(q) + 1 /\ Len(q) \in Nat
         /\ \A i \in 1 .. Len(q) : r[i] = q[i]
         /\ r[Len(q) + 1] = x
  OBVIOUS

LEMMA MemberOf ==
  ASSUME NEW S, NEW q \in Seq(S), NEW k \in 1 .. Len(q)
  PROVE  q[k] \in S
  OBVIOUS

LEMMA TrackRegistersSound ==
  ASSUME SoundInv, NEW t \in game.crew, TrackRegisters(t)
  PROVE  SoundInv'
<1> USE DEF runtimeVars, deviceVars, registryVars, logVars
<1>0. PICK j : j = job[t]
  OBVIOUS
<1>1. /\ t \in Threads /\ j.op = "register" /\ Holds(t)
      /\ j.a \in Addrs /\ j.gen \in 1 .. MaxGeneration
  <2>1. j.op = "register"
    BY <1>0 DEF TrackRegisters
  <2>2. t \in Threads /\ JobOK(j) /\ Holds(t)
    BY <1>0, ThreadFacts
  <2>3. QED
    BY <2>1, <2>2, JobIs
<1> DEFINE entry == [id |-> nextId, kind |-> heap[j.a].class, creation |-> j.gen,
                     releases |-> 0, bgen |-> 0, mask |-> {}]
<1>2. /\ reg' = [reg EXCEPT ![j.a] = entry]
      /\ nextId' = nextId + 1 /\ tracked' = Append(tracked, heap[j.a].n)
      /\ job' = [job EXCEPT ![t] = Idle]
      /\ UNCHANGED <<game, heap, births, bound, owner, generation, scan, surfaceId, before>>
  BY <1>0 DEF TrackRegisters, Goes
<1>3. faults' \in Nat
  BY DEF TrackRegisters, SoundInv, CountsOK
<1>4. Moves(t) /\ job'[t] = Idle
  BY <1>1, <1>2, MovesBy DEF SoundInv
<1>5. JobOK(job'[t]) /\ job'[t].op = "idle" /\ Holds(t)'
  BY <1>4, IdleIsOK, Quiet
<1>6. /\ Traced /\ heap[j.a] \in Object /\ heap[j.a].n \in 1 .. Len(births)
      /\ heap[j.a].class # "volume_texture" /\ births[heap[j.a].n] <= j.gen
  <2>1. /\ Traced /\ Live(j.a) /\ heap[j.a].class # "volume_texture"
        /\ births[heap[j.a].n] <= j.gen
    BY <1>0, <1>1 DEF Holds
  <2>2. heap[j.a] \in Object /\ heap[j.a].n <= Len(births)
    BY <1>1, <2>1 DEF SoundInv, HeapOK, Live, Free
  <2>3. QED
    BY <2>1, <2>2, Constants DEF Object, SoundInv, CountsOK
<1>7. /\ Cardinality(Pending) \in Nat /\ Cardinality(Pending') \in Nat
      /\ Cardinality(Pending') = Cardinality(Pending) - 1
  BY <1>0, <1>1, <1>4, <1>5, PendingLess
<1>8. /\ tracked' \in Seq(Nat) /\ Len(tracked') = Len(tracked) + 1 /\ Len(tracked) \in Nat
      /\ \A i \in 1 .. Len(tracked) : tracked'[i] = tracked[i]
      /\ tracked'[Len(tracked) + 1] = heap[j.a].n
  <2>1. tracked \in Seq(Nat) /\ heap[j.a].n \in Nat
    BY <1>6 DEF SoundInv, CountsOK, Object
  <2>2. QED
    BY <1>2, <2>1, Appended
<1>9. Len(births) \in 0 .. MaxObjects /\ Len(tracked) + Cardinality(Pending) <= Len(births)
      /\ nextId = Len(tracked) + 1
  BY GameFacts DEF SoundInv, CountsOK
<1>10. Len(tracked') + Cardinality(Pending') <= Len(births)
       /\ nextId' = Len(tracked') + 1 /\ nextId \in 1 .. MaxObjects
  <2>1. Cardinality(Pending) >= 1
    BY <1>7
  <2>2. QED
    BY <1>2, <1>7, <1>8, <1>9, <2>1, Constants
<1>11. ASSUME NEW i \in 1 .. Len(tracked')
       PROVE  tracked'[i] \in 1 .. Len(births)
  <2>1. CASE i \in 1 .. Len(tracked)
    BY <1>8, <2>1 DEF SoundInv, CountsOK
  <2>2. CASE i = Len(tracked) + 1
    BY <1>6, <1>8, <2>2
  <2>3. QED
    BY <1>8, <2>1, <2>2
<1>12. CountsOK'
  BY <1>2, <1>3, <1>8, <1>10, <1>11 DEF SoundInv, CountsOK
<1>13. /\ entry \in Entry /\ entry.id = nextId /\ entry.bgen = 0 /\ entry.creation = j.gen
  BY <1>1, <1>6, <1>10, Constants DEF Entry, Object
<1> HIDE DEF entry
<1>14. RegistryOK'
  <2>0. DOMAIN reg = Addrs /\ DOMAIN reg' = Addrs /\ reg'[j.a] = entry
        /\ \A a \in Addrs : a # j.a => reg'[a] = reg[a]
    BY <1>1, <1>2 DEF SoundInv, RegistryOK
  <2>1. ASSUME NEW a \in Addrs, reg'[a] # NoEntry
        PROVE  /\ Traced' /\ reg'[a] \in Entry /\ reg'[a].id <= Len(tracked')
               /\ births'[tracked'[reg'[a].id]] <= reg'[a].creation
               /\ reg'[a].bgen <= generation'
    <3>1. CASE a = j.a
      <4>1. tracked'[entry.id] = heap[j.a].n
        BY <1>8, <1>9, <1>13
      <4>2. entry.id <= Len(tracked') /\ 0 <= generation
        BY <1>8, <1>9, <1>13, GameFacts, Constants DEF SoundInv
      <4>3. QED
        BY <1>2, <1>6, <1>13, <2>0, <3>1, <4>1, <4>2 DEF Traced, opt
    <3>2. CASE a # j.a
      <4>1. reg'[a] = reg[a] /\ reg[a] \in Entry /\ reg[a].id \in 1 .. Len(tracked)
            /\ Traced /\ reg[a].bgen <= generation
            /\ births[tracked[reg[a].id]] <= reg[a].creation
        BY <2>0, <2>1, <3>2, EntryIs DEF SoundInv, RegistryOK
      <4>2. tracked'[reg[a].id] = tracked[reg[a].id] /\ reg[a].id <= Len(tracked')
        BY <1>8, <4>1
      <4>3. QED
        BY <1>2, <4>1, <4>2 DEF Traced, opt
    <3>3. QED
      BY <3>1, <3>2
  <2>2. ASSUME NEW a \in Addrs, NEW b \in Addrs, reg'[a].id # 0, reg'[a].id = reg'[b].id
        PROVE  a = b
    <3>1. ASSUME NEW c \in Addrs, c # j.a PROVE reg'[c].id = reg[c].id /\ reg[c].id # nextId
      <4>1. reg[c].id = 0 \/ reg[c].id \in 1 .. Len(tracked)
        BY EntryIs
      <4>2. QED
        BY <1>8, <1>9, <2>0, <3>1, <4>1
    <3>2. reg'[j.a].id = nextId
      BY <1>13, <2>0
    <3>3. QED
      BY <2>2, <3>1, <3>2 DEF SoundInv, RegistryOK
  <2>3. QED
    BY <1>2, <2>0, <2>1, <2>2 DEF SoundInv, RegistryOK
<1>15. DeviceOK' /\ DOMAIN heap' = Addrs /\ \A b \in Addrs : Keeps(b)
  BY <1>2, HeapSame, DeviceKept DEF SoundInv
<1>16. generation' >= generation
  BY <1>2, GameFacts, Constants DEF SoundInv
<1>17. QED
  BY <1>0, <1>1, <1>2, <1>4, <1>5, <1>12, <1>14, <1>15, <1>16, SoftStep

----------------------------------------------------------------------------
(* The steps that give references or take them, at one address.            *)

\* What such a step does at its address a, seen from the other calls there.
Disturbs(a) ==
  /\ Busy("identify", a) = {} /\ Busy("register", a) = {}
  /\ Busy("take", a) # {} => Live(a)' /\ Spare(a)' > 0
  /\ Busy("release", a)' # {} => Live(a)'
  /\ Live(a)' => Cardinality(Busy("release", a)') <= heap'[a].refs

LEMMA HeldAtOne ==
  ASSUME SoundInv, NEW t \in Threads, Moves(t), NEW a \in Addrs,
         \A b \in Addrs : b # a => Keeps(b) /\ Busy("release", b)' = Busy("release", b),
         UNCHANGED <<game, generation>>,
         \A i \in 1 .. Len(births) : births'[i] = births[i],
         Disturbs(a), Holds(t)'
  PROVE  HeldOK'
<1>1. ASSUME NEW b \in Addrs, b # a, Live(b), heap[b].refs > 0
      PROVE  Live(b)' /\ heap'[b] \in Object /\ Same(heap[b], heap'[b])
             /\ heap'[b].refs = heap[b].refs
  BY <1>1, LiveIs DEF SoundInv, Keeps, Live, Free, Same, Object
<1>2. ASSUME NEW b \in Addrs, Live(b)'
      PROVE  Cardinality(Busy("release", b)') <= heap'[b].refs
  <2>1. CASE b = a
    BY <1>2, <2>1 DEF Disturbs
  <2>2. CASE b # a
    BY <1>2, <2>2, LiveIs DEF SoundInv, Keeps, Live, Free, Same, Object, HeldOK
  <2>3. QED
    BY <2>1, <2>2
<1>3. ASSUME NEW u \in Threads, u # t PROVE Holds(u)'
  <2>0. PICK j : j = job[u]
    OBVIOUS
  <2>1. job[u] = j /\ job'[u] = j /\ Holds(u) /\ JobOK(j)
    BY <1>3, <2>0 DEF Moves, SoundInv, HeldOK, JobsOK
  <2>2. j.op \in {"identify", "register", "take", "release"} => j.a \in Addrs
    BY <2>1, JobIs
  <2>3. ASSUME j.op \in {"identify", "register"}
        PROVE  /\ Traced' /\ Live(j.a)' /\ heap'[j.a].refs = 1
               /\ heap'[j.a].class # "volume_texture" /\ Busy("release", j.a)' = {}
               /\ heap'[j.a].n = heap[j.a].n /\ heap[j.a].n \in 1 .. Len(births)
    <3>1. Live(j.a) /\ heap[j.a].refs = 1 /\ Traced
          /\ heap[j.a].class # "volume_texture" /\ Busy("release", j.a) = {}
      BY <2>1, <2>3 DEF Holds
    <3>2. j.a # a
      BY <2>1, <2>3 DEF Disturbs, Busy
    <3>3. heap[j.a].n \in 1 .. Len(births)
      BY <2>2, <2>3, <3>1, LiveIs, Constants DEF SoundInv, HeapOK, Object, CountsOK
    <3>4. QED
      BY <1>1, <2>2, <2>3, <3>1, <3>2, <3>3 DEF Same, opt, Traced
  <2>4. ASSUME j.op = "take"
        PROVE  Live(j.a)' /\ Spare(j.a)' > 0
    <3>1. CASE j.a = a
      BY <2>1, <2>4, <3>1 DEF Disturbs, Busy
    <3>2. CASE j.a # a
      <4>1. Live(j.a) /\ Spare(j.a) > 0 /\ heap[j.a] \in Object
        BY <2>1, <2>2, <2>4, LiveIs DEF Holds, SoundInv
      <4>2. heap[j.a].refs > 0
        BY <4>1, BusyIsFinite DEF Spare, Object
      <4>3. Live(j.a)' /\ heap'[j.a].refs = heap[j.a].refs
        BY <1>1, <2>2, <2>4, <3>2, <4>1, <4>2
      <4>4. Busy("release", j.a)' = Busy("release", j.a)
        BY <2>2, <2>4, <3>2
      <4>5. QED
        BY <4>1, <4>3, <4>4 DEF Spare
    <3>3. QED
      BY <3>1, <3>2
  <2>5. ASSUME j.op = "release"
        PROVE  Live(j.a)'
    <3>1. CASE j.a = a
      BY <2>1, <2>5, <3>1 DEF Disturbs, Busy
    <3>2. CASE j.a # a
      <4>1. Live(j.a) /\ heap[j.a] \in Object
        BY <2>1, <2>2, <2>5, LiveIs DEF Holds, SoundInv
      <4>2. u \in Busy("release", j.a)
        BY <2>1, <2>5 DEF Busy
      <4>3. Cardinality(Busy("release", j.a)) # 0
            /\ Cardinality(Busy("release", j.a)) \in Nat
        BY <4>2, BusyIsFinite, FS_EmptySet
      <4>4. heap[j.a].refs > 0
        BY <2>2, <2>5, <4>1, <4>3 DEF SoundInv, HeldOK, Object
      <4>5. QED
        BY <1>1, <2>2, <2>5, <3>2, <4>1, <4>4
    <3>3. QED
      BY <3>1, <3>2
  <2>6. ASSUME j.op = "register" PROVE births'[heap'[j.a].n] <= j.gen
    BY <2>1, <2>3, <2>6 DEF Holds
  <2>7. QED
    BY <2>1, <2>3, <2>4, <2>5, <2>6 DEF Holds, ScanOK
<1>4. QED
  BY <1>2, <1>3 DEF HeldOK

\* An object with other counts.
LEMMA Recounted ==
  ASSUME NEW x \in Object, NEW r \in 0 .. MaxRefs, NEW y, y = [x EXCEPT !.refs = r]
  PROVE  /\ y \in Object /\ Same(x, y) /\ y.refs = r /\ y.released = x.released
         /\ y.content = x.content
  BY DEF Object, Same

LEMMA HeapAtOne ==
  ASSUME SoundInv, NEW a \in Addrs, DOMAIN heap' = Addrs,
         \A b \in Addrs : b # a => Keeps(b),
         heap'[a] # Free => /\ heap[a] # Free /\ heap'[a] \in Object
                            /\ Same(heap[a], heap'[a]),
         UNCHANGED <<births, game>>
  PROVE  HeapOK'
<1>1. ASSUME NEW b \in Addrs, heap'[b] # Free
      PROVE  /\ heap'[b] \in Object /\ heap'[b].n <= Len(births)'
             /\ opt'.semantic /\ heap'[b].managed /\ heap'[b].class # "volume_texture"
                  => heap'[b].lockable
  <2>1. heap[b] # Free /\ heap'[b] \in Object /\ Same(heap[b], heap'[b])
    BY <1>1 DEF Keeps
  <2>2. QED
    BY <2>1 DEF Same, SoundInv, HeapOK, opt
<1>2. QED
  BY <1>1 DEF HeapOK

LEMMA GameAddRefsSound ==
  ASSUME SoundInv, NEW t \in game.crew, GameAddRefs(t)
  PROVE  SoundInv'
<1> USE DEF runtimeVars, deviceVars, registryVars, logVars
<1>1. PICK a \in Addrs : /\ Usable(a) /\ heap[a].refs + heap[a].released < MaxRefs
                         /\ heap' = [heap EXCEPT ![a].refs = @ + 1]
  BY DEF GameAddRefs
<1>2. /\ job[t].op = "idle" /\ t \in Threads /\ JobOK(job[t])
      /\ UNCHANGED <<job, births, bound, owner, game, generation, tracked, nextId, faults,
                     scan, reg, surfaceId, before>>
  BY ThreadFacts DEF GameAddRefs, Idle
<1>3. Moves(t) /\ job'[t] = job[t] /\ Holds(t)'
  BY <1>2, NoMove, Quiet DEF SoundInv
<1>4. /\ Live(a) /\ Spare(a) > 0 /\ heap[a] \in Object /\ heap[a] # Free
      /\ Busy("identify", a) = {} /\ Busy("register", a) = {}
  BY <1>1, LiveIs DEF Usable, Creating, SoundInv
<1>5. heap[a].refs + 1 \in 0 .. MaxRefs
  BY <1>1, <1>4, Constants DEF Object
<1>6. /\ DOMAIN heap' = Addrs /\ heap'[a] = [heap[a] EXCEPT !.refs = heap[a].refs + 1]
      /\ \A b \in Addrs : b # a => heap'[b] = heap[b]
  BY <1>1, <1>4 DEF SoundInv, HeapOK
<1>7. /\ heap'[a] \in Object /\ Same(heap[a], heap'[a]) /\ heap'[a].refs = heap[a].refs + 1
  BY <1>4, <1>5, <1>6, Recounted
<1>8. \A b \in Addrs : b # a => Keeps(b)
  BY <1>6 DEF Keeps, SoundInv, HeapOK, Same
<1>9. \A op, b : Busy(op, b)' = Busy(op, b)
  BY <1>2 DEF Busy
<1>10. Disturbs(a)
  <2>1. Live(a)'
    BY <1>4, <1>7 DEF Live, Same
  <2>2. Spare(a)' = Spare(a) + 1 /\ Spare(a) \in Int
    BY <1>4, <1>7, <1>9, BusyIsFinite DEF Spare, Object
  <2>3. Cardinality(Busy("release", a)') <= heap'[a].refs
    BY <1>4, <1>7, <1>9, BusyIsFinite DEF SoundInv, HeldOK, Object
  <2>4. QED
    BY <1>4, <2>1, <2>2, <2>3 DEF Disturbs
<1>11. HeldOK'
  BY <1>2, <1>3, <1>8, <1>9, <1>10, HeldAtOne
<1>12. HeapOK'
  BY <1>2, <1>4, <1>6, <1>7, <1>8, HeapAtOne
<1>13. CountsOK' /\ DeviceOK' /\ RegistryOK' /\ JobsOK'
  <2>1. CountsOK'
    BY <1>2, <1>3, CountsKept DEF SoundInv
  <2>2. JobsOK'
    BY <1>2 DEF SoundInv, JobsOK, JobOK
  <2>3. QED
    BY <1>2, <2>1, <2>2, DeviceKept, RegistrySame DEF SoundInv
<1>14. QED
  BY <1>11, <1>12, <1>13 DEF SoundInv

\* What one reference less leaves.
LEMMA LessReferred ==
  ASSUME HeapOK, NEW a \in Addrs, heap[a] \in Object, heap[a].refs >= 1,
         NEW b, NEW kept, Reap([heap EXCEPT ![a].refs = @ - 1], b, kept)
  PROVE  /\ DOMAIN heap' = Addrs
         /\ \A c \in Addrs : c # a => Keeps(c)
         /\ \/ heap'[a] = Free /\ heap[a].refs = 1
            \/ /\ heap'[a] \in Object /\ Same(heap[a], heap'[a])
               /\ heap'[a].refs = heap[a].refs - 1 /\ heap'[a].released = heap[a].released
<1> DEFINE h == [heap EXCEPT ![a].refs = @ - 1]
<1>1. heap[a].refs - 1 \in 0 .. MaxRefs
  BY Constants DEF Object
<1>2. /\ h[a] = [heap[a] EXCEPT !.refs = heap[a].refs - 1]
      /\ \A c \in Addrs : c # a => h[c] = heap[c]
  BY DEF HeapOK
<1>3. /\ h[a] \in Object /\ Same(heap[a], h[a]) /\ h[a].refs = heap[a].refs - 1
      /\ h[a].released = heap[a].released
  BY <1>1, <1>2, Recounted
<1> HIDE DEF h
<1>4. /\ DOMAIN heap' = Addrs
      /\ \A c \in Addrs :
           \/ heap'[c] = h[c]
           \/ heap'[c] = Free /\ h[c].n # 0 /\ h[c].refs = 0
  BY Reaps DEF h
<1>5. ASSUME NEW c \in Addrs, c # a PROVE Keeps(c)
  <2>1. CASE heap[c] = Free
    BY <1>2, <1>4, <1>5, <2>1 DEF Keeps, Free
  <2>2. CASE heap[c] # Free
    BY <1>2, <1>4, <1>5, <2>2 DEF Keeps, HeapOK, Same
  <2>3. QED
    BY <2>1, <2>2
<1>6. CASE heap'[a] = h[a]
  BY <1>3, <1>4, <1>5, <1>6
<1>7. CASE heap'[a] # h[a]
  <2>1. heap'[a] = Free /\ h[a].refs = 0
    BY <1>4, <1>7
  <2>2. heap[a].refs = 1
    BY <1>3, <2>1 DEF Object
  <2>3. QED
    BY <1>4, <1>5, <2>1, <2>2
<1>8. QED
  BY <1>6, <1>7

LEMMA GameReleasesSound ==
  ASSUME SoundInv, NEW t \in game.crew, GameReleases(t)
  PROVE  SoundInv'
<1> USE DEF runtimeVars, deviceVars, registryVars, logVars
<1>1. PICK a \in Addrs :
        MayRelease(a) /\ Reap([heap EXCEPT ![a].refs = @ - 1], bound, Queried(t))
  BY DEF GameReleases
<1>2. /\ job[t].op = "idle" /\ t \in Threads /\ JobOK(job[t])
      /\ UNCHANGED <<job, births, game, generation, tracked, nextId, faults,
                     scan, reg, surfaceId, before>>
  BY ThreadFacts DEF GameReleases, Idle
<1>3. Moves(t) /\ job'[t] = job[t] /\ Holds(t)'
  BY <1>2, NoMove, Quiet DEF SoundInv
<1>4. /\ Live(a) /\ Spare(a) > 0 /\ heap[a] \in Object /\ heap[a] # Free
      /\ Busy("identify", a) = {} /\ Busy("register", a) = {}
      /\ Busy("take", a) # {} => Spare(a) > 1
  BY <1>1, LiveIs DEF MayRelease, Usable, Creating, SoundInv
<1>5. PICK c : c = Cardinality(Busy("release", a))
  OBVIOUS
<1>6. /\ c \in Nat /\ heap[a].refs \in Nat /\ Spare(a) = heap[a].refs - c
      /\ heap[a].refs >= 1
  BY <1>4, <1>5, BusyIsFinite DEF Spare, Object
<1>7. /\ DOMAIN heap' = Addrs /\ \A b \in Addrs : b # a => Keeps(b)
      /\ \/ heap'[a] = Free /\ heap[a].refs = 1
         \/ /\ heap'[a] \in Object /\ Same(heap[a], heap'[a])
            /\ heap'[a].refs = heap[a].refs - 1
  BY <1>1, <1>4, <1>6, LessReferred DEF SoundInv
<1>8. \A op, b : Busy(op, b)' = Busy(op, b)
  BY <1>2 DEF Busy
<1>9. heap[a].refs > 1 => Live(a)' /\ heap'[a].refs = heap[a].refs - 1
  BY <1>4, <1>7 DEF Same, Live
<1>10. Disturbs(a)
  <2>1. Busy("take", a) # {} => Live(a)' /\ Spare(a)' > 0
    BY <1>4, <1>5, <1>6, <1>8, <1>9 DEF Spare
  <2>2. Busy("release", a) # {} => c >= 1
    BY <1>5, <1>6, BusyIsFinite, FS_EmptySet
  <2>3. Busy("release", a)' # {} => Live(a)'
    BY <1>4, <1>6, <1>8, <1>9, <2>2
  <2>4. Live(a)' => c <= heap'[a].refs
    BY <1>4, <1>6, <1>7 DEF Live, Free
  <2>5. QED
    BY <1>4, <1>5, <1>8, <2>1, <2>3, <2>4 DEF Disturbs
<1>11. HeldOK'
  BY <1>2, <1>3, <1>7, <1>8, <1>10, HeldAtOne
<1>12. HeapOK'
  BY <1>2, <1>4, <1>7, HeapAtOne
<1>13. CountsOK' /\ DeviceOK' /\ RegistryOK' /\ JobsOK'
  <2>1. CountsOK'
    BY <1>2, <1>3, CountsKept DEF SoundInv
  <2>2. JobsOK'
    BY <1>2 DEF SoundInv, JobsOK, JobOK
  <2>3. DeviceOK'
    BY <1>1, <1>2, ReapDevice DEF SoundInv, DeviceOK
  <2>4. QED
    BY <1>2, <2>1, <2>2, <2>3, RegistrySame DEF SoundInv
<1>14. QED
  BY <1>11, <1>12, <1>13 DEF SoundInv

LEMMA HookReleasesSound ==
  ASSUME SoundInv, NEW t \in game.crew, HookReleases(t)
  PROVE  SoundInv'
<1> USE DEF runtimeVars, deviceVars, registryVars, logVars
<1>1. PICK a \in Addrs :
        /\ MayRelease(a)
        /\ heap' = [heap EXCEPT ![a].released = @ + 1]
        /\ reg' = IF reg[a].id = 0 THEN reg ELSE [reg EXCEPT ![a].releases = @ + 1]
        /\ job' = [job EXCEPT ![t] = [op |-> "release", a |-> a, id |-> reg[a].id]]
  BY DEF HookReleases, Goes, Counted
<1>2. /\ job[t].op = "idle" /\ t \in Threads
      /\ UNCHANGED <<births, bound, owner, game, generation, tracked, nextId, faults,
                     scan, surfaceId, before>>
  BY ThreadFacts DEF HookReleases, Idle
<1>3. /\ Moves(t) /\ job'[t] = [op |-> "release", a |-> a, id |-> reg[a].id]
  BY <1>1, <1>2, MovesBy DEF SoundInv
<1>4. /\ Live(a) /\ Spare(a) > 0 /\ heap[a] \in Object /\ heap[a] # Free
      /\ Busy("identify", a) = {} /\ Busy("register", a) = {}
      /\ Busy("take", a) # {} => Spare(a) > 1
  BY <1>1, LiveIs DEF MayRelease, Usable, Creating, SoundInv
<1>5. PICK c : c = Cardinality(Busy("release", a))
  OBVIOUS
<1>6. /\ c \in Nat /\ heap[a].refs \in Nat /\ Spare(a) = heap[a].refs - c
  BY <1>4, <1>5, BusyIsFinite DEF Spare, Object
<1>7. Busy("release", a)' = Busy("release", a) \cup {t} /\ t \notin Busy("release", a)
  BY <1>2, <1>3 DEF Busy, Moves
<1>8. Cardinality(Busy("release", a)') = c + 1
  BY <1>5, <1>7, BusyIsFinite, FS_AddElement
<1>9. \A b : b # a => Busy("release", b)' = Busy("release", b)
  BY <1>2, <1>3 DEF Busy, Moves
<1>10. /\ DOMAIN heap' = Addrs
       /\ heap'[a] = [heap[a] EXCEPT !.released = heap[a].released + 1]
       /\ \A b \in Addrs : b # a => heap'[b] = heap[b]
  BY <1>1, <1>4 DEF SoundInv, HeapOK
<1>11. /\ heap'[a] \in Object /\ Same(heap[a], heap'[a]) /\ heap'[a].refs = heap[a].refs
  BY <1>4, <1>10 DEF Object, Same
<1>12. \A b \in Addrs : b # a => Keeps(b)
  BY <1>10 DEF Keeps, SoundInv, HeapOK, Same
<1>13. Live(a)'
  BY <1>4, <1>11 DEF Live, Same
<1>14. Disturbs(a)
  BY <1>4, <1>5, <1>6, <1>8, <1>11, <1>13 DEF Disturbs, Spare
<1>15. Holds(t)'
  BY <1>3, <1>13 DEF Holds, Resetting
<1>16. HeldOK'
  BY <1>2, <1>3, <1>9, <1>12, <1>14, <1>15, HeldAtOne
<1>17. HeapOK'
  BY <1>2, <1>4, <1>10, <1>11, <1>12, HeapAtOne
<1>18. JobOK(job'[t]) /\ job'[t].op = "release"
  BY <1>3, EntryIs DEF JobOK
<1>19. CountsOK' /\ DeviceOK' /\ JobsOK'
  BY <1>2, <1>3, <1>18, CountsKept, DeviceKept, JobsMove DEF SoundInv
<1>20. RegistryOK'
  <2>1. DOMAIN reg = Addrs /\ surfaceId \in [Surfaces -> 0 .. MaxObjects]
    BY DEF SoundInv, RegistryOK
  <2>2. ASSUME NEW b \in Addrs
        PROVE  \/ reg'[b] = NoEntry
               \/ /\ reg[b] # NoEntry /\ reg'[b] \in Entry /\ reg'[b].id = reg[b].id
                  /\ reg'[b].creation = reg[b].creation /\ reg'[b].bgen <= generation
    <3>1. CASE reg'[b] = reg[b]
      BY <3>1, EntryIs
    <3>2. CASE reg'[b] # reg[b]
      <4>1. b = a /\ reg[a].id # 0 /\ reg' = [reg EXCEPT ![a].releases = @ + 1]
        BY <1>1, <2>1, <3>2
      <4>2. reg[a] \in Entry /\ reg[a] # NoEntry /\ reg[a].bgen <= generation
        BY <4>1, EntryIs
      <4>3. reg'[a] = [reg[a] EXCEPT !.releases = reg[a].releases + 1]
        BY <2>1, <4>1, <4>2
      <4>4. /\ reg'[a] \in Entry /\ reg'[a].id = reg[a].id
            /\ reg'[a].creation = reg[a].creation /\ reg'[a].bgen = reg[a].bgen
        BY <4>2, <4>3 DEF Entry
      <4>5. QED
        BY <4>1, <4>2, <4>4
    <3>3. QED
      BY <3>1, <3>2
  <2>3. DOMAIN reg' = Addrs
    BY <1>1, <2>1
  <2>4. QED
    BY <1>2, <2>1, <2>2, <2>3, RegistryEdited
<1>21. QED
  BY <1>16, <1>17, <1>19, <1>20 DEF SoundInv

LEMMA OriginalReleasesSound ==
  ASSUME SoundInv, NEW t \in game.crew, OriginalReleases(t)
  PROVE  SoundInv'
<1> USE DEF runtimeVars, deviceVars, registryVars, logVars
<1>0. PICK j : j = job[t]
  OBVIOUS
<1>1. /\ t \in Threads /\ j.op = "release" /\ Holds(t)
      /\ j.a \in Addrs /\ j.id \in 0 .. MaxObjects
  <2>1. j.op = "release"
    BY <1>0 DEF OriginalReleases
  <2>2. t \in Threads /\ JobOK(j) /\ Holds(t)
    BY <1>0, ThreadFacts
  <2>3. QED
    BY <2>1, <2>2, JobIs
<1>2. PICK a : a = j.a /\ a \in Addrs
  BY <1>1
<1>3. PICK k : /\ job' = [job EXCEPT ![t] = k]
               /\ k = Idle \/ k = [op |-> "erase", a |-> a, id |-> j.id]
  BY <1>0, <1>2 DEF OriginalReleases, Goes
<1>4. /\ Reap([heap EXCEPT ![a].refs = @ - 1], bound, Queried(t))
      /\ UNCHANGED <<births, game, generation, tracked, nextId, faults,
                     scan, reg, surfaceId, before>>
  BY <1>0, <1>2 DEF OriginalReleases
<1>5. Moves(t) /\ job'[t] = k
  BY <1>1, <1>3, MovesBy DEF SoundInv
<1>6. JobOK(k) /\ k.op \in {"idle", "erase"}
  BY <1>1, <1>2, <1>3, IdleIsOK DEF JobOK
<1>7. Live(a) /\ heap[a] \in Object /\ heap[a] # Free
  BY <1>0, <1>1, <1>2, LiveIs DEF Holds, SoundInv
<1>8. PICK c : c = Cardinality(Busy("release", a))
  OBVIOUS
<1>9. Busy("release", a)' = Busy("release", a) \ {t} /\ t \in Busy("release", a)
  BY <1>0, <1>1, <1>2, <1>5, <1>6 DEF Busy, Moves
<1>10. c \in Nat /\ c >= 1 /\ Cardinality(Busy("release", a)') = c - 1
  <2>1. c \in Nat /\ c # 0
    BY <1>8, <1>9, BusyIsFinite, FS_EmptySet
  <2>2. Cardinality(Busy("release", a)') = c - 1
    BY <1>8, <1>9, BusyIsFinite, FS_RemoveElement
  <2>3. QED
    BY <2>1, <2>2
<1>11. heap[a].refs \in Nat /\ c <= heap[a].refs /\ Spare(a) = heap[a].refs - c
  BY <1>2, <1>7, <1>8 DEF Spare, Object, SoundInv, HeldOK
<1>12. /\ DOMAIN heap' = Addrs /\ \A b \in Addrs : b # a => Keeps(b)
       /\ \/ heap'[a] = Free /\ heap[a].refs = 1
          \/ /\ heap'[a] \in Object /\ Same(heap[a], heap'[a])
             /\ heap'[a].refs = heap[a].refs - 1
  <2>1. heap[a].refs >= 1
    BY <1>10, <1>11
  <2>2. QED
    BY <1>2, <1>4, <1>7, <2>1, LessReferred DEF SoundInv
<1>13. heap[a].refs > 1 => Live(a)' /\ heap'[a].refs = heap[a].refs - 1
  BY <1>7, <1>12 DEF Same, Live
<1>14. \A b : b # a => Busy("release", b)' = Busy("release", b)
  BY <1>0, <1>2, <1>5, <1>6 DEF Busy, Moves
<1>15. Disturbs(a)
  <2>1. Busy("identify", a) = {} /\ Busy("register", a) = {}
    <3>1. ASSUME NEW u \in Threads, job[u].op \in {"identify", "register"}, job[u].a = a
          PROVE  Busy("release", a) = {}
      BY <3>1 DEF SoundInv, HeldOK, Holds
    <3>2. QED
      BY <1>9, <3>1 DEF Busy
  <2>2. Busy("take", a) # {} => Live(a)' /\ Spare(a)' > 0
    <3>1. ASSUME Busy("take", a) # {} PROVE heap[a].refs - c > 0
      <4>1. PICK u \in Threads : job[u].op = "take" /\ job[u].a = a
        BY <3>1 DEF Busy
      <4>2. QED
        BY <1>11, <4>1 DEF SoundInv, HeldOK, Holds
    <3>2. ASSUME Busy("take", a) # {} PROVE Live(a)' /\ Spare(a)' > 0
      <4>1. heap[a].refs > 1
        BY <1>10, <1>11, <3>1, <3>2
      <4>2. Live(a)' /\ heap'[a].refs = heap[a].refs - 1
        BY <1>13, <4>1
      <4>3. QED
        BY <1>10, <1>11, <3>1, <3>2, <4>2 DEF Spare
    <3>3. QED
      BY <3>2
  <2>3. Busy("release", a)' # {} => Live(a)'
    <3>1. ASSUME Busy("release", a)' # {} PROVE c > 1
      <4>1. c - 1 # 0
        BY <1>10, <3>1, BusyIsFinite, FS_EmptySet
      <4>2. QED
        BY <1>10, <4>1
    <3>2. QED
      BY <1>10, <1>11, <1>13, <3>1
  <2>4. Live(a)' => c - 1 <= heap'[a].refs
    BY <1>10, <1>11, <1>12 DEF Live, Free
  <2>5. QED
    BY <1>10, <2>1, <2>2, <2>3, <2>4 DEF Disturbs
<1>16. Holds(t)'
  BY <1>5, <1>6, Quiet
<1>17. HeldOK'
  BY <1>1, <1>2, <1>4, <1>5, <1>12, <1>14, <1>15, <1>16, HeldAtOne
<1>18. HeapOK'
  BY <1>2, <1>4, <1>7, <1>12, HeapAtOne
<1>19. CountsOK' /\ JobsOK' /\ DeviceOK' /\ RegistryOK'
  <2>1. CountsOK' /\ JobsOK'
    BY <1>1, <1>4, <1>5, <1>6, CountsKept, JobsMove DEF SoundInv
  <2>2. DeviceOK'
    BY <1>4, ReapDevice DEF SoundInv, DeviceOK
  <2>3. QED
    BY <1>4, <2>1, <2>2, RegistrySame
<1>20. QED
  BY <1>17, <1>18, <1>19 DEF SoundInv

\* The adaptation, and the older fallback where the adaptation is on, leave
\* what was asked for as MANAGED lockable.
LEMMA RetryIsLockable ==
  ASSUME NEW r \in Request, opt.semantic, NEW hr, Retry(r, hr).retry
  PROVE  Lockable(r.class, Retry(r, hr))
<1> DEFINE plan == Plan(r.class, r.usage, r.pool, r.shared, hr)
<1>1. Fallback(r, hr).retry => Refused(r.pool, r.shared, hr) /\ Adaptable(r.class, r.usage)
  BY DEF Fallback
<1>2. plan.retry <=> Refused(r.pool, r.shared, hr) /\ Adaptable(r.class, r.usage)
  BY DEF Plan
<1>3. Retry(r, hr) = plan /\ plan.retry
  BY <1>1, <1>2 DEF Retry
<1>4. r.class \in Textures => "dynamic" \in plan.usage
  BY <1>2, <1>3 DEF Plan
<1>5. r.class \in Textures \/ r.class \in Buffers
  BY <1>2, <1>3 DEF Adaptable
<1>6. QED
  BY <1>3, <1>4, <1>5 DEF Lockable

\* The creation that succeeded: the game's, or the second attempt.
Made(r, hr) ==
  IF hr # "ok" THEN Retry(r, hr)
  ELSE [retry |-> FALSE, usage |-> r.usage, pool |-> r.pool]

\* What a creation that succeeds does at address a.
Creates(t, r, a, hr) ==
  /\ ~Live(a) /\ (hr # "ok" => Made(r, hr).retry)
  /\ heap' = [heap EXCEPT ![a] =
       [n |-> Len(births) + 1, class |-> r.class,
        managed |-> r.pool = "managed", lockable |-> Lockable(r.class, Made(r, hr)),
        refs |-> 1, released |-> 0, content |-> 0]]
  /\ job' = [job EXCEPT ![t] =
       IF Traced /\ r.pool = "managed" /\ r.class # "volume_texture"
       THEN [op |-> "identify", a |-> a] ELSE Idle]

LEMMA CreatesIs ==
  ASSUME NEW t, HookCreates(t)
  PROVE  \E r \in game.requests, a \in Addrs : \E hr : Creates(t, r, a, hr)
  BY ZenonT(120) DEF HookCreates, Goes, Made, Creates

LEMMA HookCreatesSound ==
  ASSUME SoundInv, NEW t \in game.crew, HookCreates(t)
  PROVE  SoundInv'
<1> USE DEF runtimeVars, deviceVars, registryVars, logVars
<1>1. /\ job[t].op = "idle" /\ t \in Threads /\ Len(births) < game.objects
      /\ births' = Append(births, generation)
      /\ UNCHANGED <<bound, owner, game, generation, tracked, nextId, faults,
                     scan, reg, surfaceId, before>>
  BY ThreadFacts DEF HookCreates, Idle
<1>p. PICK r \in game.requests, a \in Addrs : \E hr : Creates(t, r, a, hr)
  BY CreatesIs
<1>2. PICK hr :
        /\ ~Live(a) /\ (hr # "ok" => Made(r, hr).retry)
        /\ heap' = [heap EXCEPT ![a] =
             [n |-> Len(births) + 1, class |-> r.class,
              managed |-> r.pool = "managed", lockable |-> Lockable(r.class, Made(r, hr)),
              refs |-> 1, released |-> 0, content |-> 0]]
        /\ job' = [job EXCEPT ![t] =
             IF Traced /\ r.pool = "managed" /\ r.class # "volume_texture"
             THEN [op |-> "identify", a |-> a] ELSE Idle]
  BY <1>p DEF Creates
<1>l. PICK l : l = Lockable(r.class, Made(r, hr))
  OBVIOUS
<1> DEFINE object == [n |-> Len(births) + 1, class |-> r.class,
                      managed |-> r.pool = "managed", lockable |-> l,
                      refs |-> 1, released |-> 0, content |-> 0]
           asked == Traced /\ r.pool = "managed" /\ r.class # "volume_texture"
           k == IF asked THEN [op |-> "identify", a |-> a] ELSE Idle
<1>3. r \in Request
  BY GameFacts DEF SoundInv
<1>4. l \in BOOLEAN
  BY <1>l DEF Lockable
<1>5. opt.semantic /\ r.pool = "managed" => l
  <2>1. CASE hr = "ok"
    <3>1. Made(r, hr).pool = r.pool
      BY <2>1 DEF Made
    <3>2. QED
      BY <1>l, <3>1 DEF Lockable
  <2>2. CASE hr # "ok"
    <3>1. Made(r, hr) = Retry(r, hr)
      BY <2>2 DEF Made
    <3>2. opt.semantic => Lockable(r.class, Retry(r, hr))
      BY <1>2, <1>3, <2>2, <3>1, RetryIsLockable
    <3>3. QED
      BY <1>l, <3>1, <3>2
  <2>3. QED
    BY <2>1, <2>2
<1>6. /\ Len(births) \in Nat /\ Len(births) + 1 <= game.objects
      /\ Len(births) + 1 \in 1 .. MaxObjects /\ generation \in 1 .. MaxGeneration
  BY <1>1, GameFacts, Constants DEF SoundInv, CountsOK
<1>7. /\ births' \in Seq(1 .. MaxGeneration) /\ Len(births') = Len(births) + 1
      /\ \A i \in 1 .. Len(births) : births'[i] = births[i]
      /\ births'[Len(births) + 1] = generation
  <2>1. births \in Seq(1 .. MaxGeneration)
    BY DEF SoundInv, CountsOK
  <2>2. QED
    BY <1>1, <1>6, <2>1, Appended
<1>8. object \in Object
  BY <1>3, <1>4, <1>6, Constants DEF Object, Request
<1>9. /\ ~Live(a) /\ DOMAIN heap' = Addrs /\ heap'[a] = object
      /\ \A b \in Addrs : b # a => heap'[b] = heap[b]
  <2>1. heap' = [heap EXCEPT ![a] = object]
    BY <1>2, <1>l
  <2>2. DOMAIN heap = Addrs
    BY DEF SoundInv, HeapOK
  <2> HIDE DEF object
  <2>3. QED
    BY <1>2, <2>1, <2>2
<1>10. /\ object.n = Len(births) + 1 /\ object.refs = 1 /\ object.class = r.class
       /\ object.managed = (r.pool = "managed") /\ object.lockable = l
  OBVIOUS
<1> HIDE DEF object
<1>11. job' = [job EXCEPT ![t] = k]
  BY <1>2
<1>12. asked => Traced /\ r.class # "volume_texture"
  OBVIOUS
<1>13. JobOK(k) /\ k.op \in {"identify", "idle"} /\ (k.op = "identify" => asked /\ k.a = a)
  BY IdleIsOK DEF JobOK
<1> HIDE DEF asked, k
<1>14. Moves(t) /\ job'[t] = k
  BY <1>1, <1>11, MovesBy DEF SoundInv
<1>15. Live(a)'
  BY <1>6, <1>9, <1>10 DEF Live
<1>16. \A op \in {"identify", "register", "take", "release"} : Busy(op, a) = {}
  BY <1>9 DEF Busy, SoundInv, HeldOK, Holds
<1>17. /\ \A b : Busy("release", b)' = Busy("release", b)
       /\ Busy("release", a)' = {} /\ Cardinality(Busy("release", a)') = 0
  BY <1>1, <1>13, <1>14, <1>16, BusyKept, FS_EmptySet
<1>18. \A b \in Addrs : b # a => Keeps(b)
  BY <1>9 DEF Keeps, SoundInv, HeapOK, Same
<1>19. Disturbs(a)
  BY <1>9, <1>10, <1>15, <1>16, <1>17 DEF Disturbs
<1>20. Holds(t)'
  BY <1>1, <1>9, <1>10, <1>12, <1>13, <1>14, <1>15, <1>17
  DEF Holds, Resetting, Traced, opt
<1>21. HeldOK'
  BY <1>1, <1>7, <1>14, <1>17, <1>18, <1>19, <1>20, HeldAtOne
<1>22. JobsOK'
  BY <1>1, <1>13, <1>14, JobsMove DEF SoundInv
<1>23. HeapOK'
  <2>1. ASSUME NEW b \in Addrs, heap'[b] # Free
        PROVE  /\ heap'[b] \in Object /\ heap'[b].n <= Len(births)'
               /\ opt'.semantic /\ heap'[b].managed /\ heap'[b].class # "volume_texture"
                    => heap'[b].lockable
    <3>1. CASE b = a
      <4>1. heap'[b] = object /\ opt' = opt
        BY <1>1, <1>9, <3>1 DEF opt
      <4>2. object.n <= Len(births')
        BY <1>6, <1>7, <1>10
      <4>3. opt.semantic /\ object.managed => object.lockable
        BY <1>5, <1>10
      <4>4. QED
        BY <1>8, <4>1, <4>2, <4>3
    <3>2. CASE b # a
      <4>1. heap'[b] = heap[b] /\ heap[b] \in Object /\ heap[b].n <= Len(births)
        BY <1>9, <2>1, <3>2 DEF SoundInv, HeapOK
      <4>2. heap[b].n <= Len(births')
        BY <1>6, <1>7, <4>1 DEF Object
      <4>3. QED
        BY <1>1, <2>1, <4>1, <4>2 DEF SoundInv, HeapOK, opt
    <3>3. QED
      BY <3>1, <3>2
  <2>2. QED
    BY <1>9, <2>1 DEF HeapOK
<1>24. CountsOK'
  <2>1. ASSUME NEW i \in 1 .. Len(births') PROVE births'[i] <= generation
    <3>1. CASE i \in 1 .. Len(births)
      BY <1>7, <3>1 DEF SoundInv, CountsOK
    <3>2. CASE i = Len(births) + 1
      BY <1>6, <1>7, <3>2
    <3>3. QED
      BY <1>6, <1>7, <3>1, <3>2
  <2>2. ASSUME NEW i \in 1 .. Len(tracked) PROVE tracked[i] \in 1 .. Len(births')
    BY <1>6, <1>7 DEF SoundInv, CountsOK
  <2>3. /\ Cardinality(Pending) \in Nat /\ Cardinality(Pending') \in Nat
        /\ Cardinality(Pending') <= Cardinality(Pending) + 1
    BY <1>1, <1>14, PendingMore
  <2>4. Len(tracked) + Cardinality(Pending) <= Len(births) /\ Len(tracked) \in Nat
    BY DEF SoundInv, CountsOK
  <2>5. Len(tracked) + Cardinality(Pending') <= Len(births')
    BY <1>6, <1>7, <2>3, <2>4
  <2>6. QED
    BY <1>1, <1>6, <1>7, <2>1, <2>2, <2>5 DEF SoundInv, CountsOK
<1>25. RegistryOK' /\ DeviceOK'
  <2>1. generation' \in Nat /\ generation' >= generation
    BY <1>1, <1>6, Constants
  <2>2. QED
    BY <1>1, <1>7, <2>1, RegistryKept, DeviceKept DEF SoundInv
<1>26. QED
  BY <1>21, <1>22, <1>23, <1>24, <1>25 DEF SoundInv

LEMMA InitSound == Init => SoundInv
<1> SUFFICES ASSUME Init PROVE SoundInv
  OBVIOUS
<1>1. GameOK(game) /\ game \in Games
  BY ManagedAssumption DEF Init
<1>2. Pending = {} /\ Cardinality(Pending) = 0
  BY FS_EmptySet DEF Init, Pending, Idle
<1>3. CountsOK
  BY <1>1, <1>2, Constants DEF Init, CountsOK, GameOK
<1>4. HeapOK
  BY DEF Init, HeapOK
<1>5. DeviceOK
  BY Constants DEF Init, DeviceOK
<1>6. RegistryOK
  BY Constants DEF Init, RegistryOK, NoEntry
<1>7. JobsOK
  BY IdleIsOK DEF Init, JobsOK
<1>8. HeldOK
  BY DEF Init, HeldOK, Holds, Resetting, Live, Free, Idle
<1>9. QED
  BY <1>3, <1>4, <1>5, <1>6, <1>7, <1>8 DEF SoundInv

LEMMA StepSound ==
  ASSUME SoundInv, NEW t \in game.crew, Step(t)
  PROVE  SoundInv'
  BY HookCreatesSound, GameAddRefsSound, TrackIdentifiesSound, TrackRegistersSound,
     GameReleasesSound, HookReleasesSound, OriginalReleasesSound, ReleaseErasesSound,
     HookUnbindsSound, HookSetsSound, HookBindsSound, HookDrawsSound, ScanGetsSound,
     ScanDropsSound, ScanEndsSound, HookLocksSound, HookGetsSurfaceSound,
     HookLocksSurfaceSound, ResetBeginsSound, ProbeReadsSound, OriginalResetsSound,
     ResetBumpsSound
  DEF Step

LEMMA SoundStep == SoundInv /\ [Next]_vars => SoundInv'
<1>1. ASSUME SoundInv, Next PROVE SoundInv'
  BY <1>1, StepSound DEF Next
<1>2. ASSUME SoundInv, UNCHANGED vars PROVE SoundInv'
  <2>1. UNCHANGED << game, heap, births, bound, owner, generation, scan, reg, surfaceId,
                     nextId, before, tracked, faults, job >>
    BY <1>2 DEF vars, runtimeVars, deviceVars, registryVars
  <2>2. CountsOK'
    BY <1>2, <2>1 DEF SoundInv, CountsOK, Pending
  <2>3. HeapOK'
    BY <1>2, <2>1 DEF SoundInv, HeapOK, opt
  <2>4. DeviceOK'
    BY <1>2, <2>1 DEF SoundInv, DeviceOK
  <2>5. RegistryOK'
    BY <1>2, <2>1 DEF SoundInv, RegistryOK, Traced, opt
  <2>6. JobsOK'
    BY <1>2, <2>1 DEF SoundInv, JobsOK
  <2>7. /\ \A op, a : Busy(op, a)' = Busy(op, a)
        /\ \A a : Live(a)' = Live(a) /\ Spare(a)' = Spare(a)
    BY <2>1 DEF Busy, Live, Spare
  <2>8. Traced' = Traced
    BY <2>1 DEF Traced, opt
  <2>9. ASSUME NEW t \in Threads PROVE Holds(t)'
    <3>1. Holds(t) /\ job'[t] = job[t] /\ job[t] = job'[t]
      BY <1>2, <2>1 DEF SoundInv, HeldOK
    <3>2. PICK j : j = job[t]
      OBVIOUS
    <3>3. QED
      BY <2>1, <2>7, <2>8, <3>1, <3>2 DEF Holds, ScanOK, Resetting
  <2>10. HeldOK'
    BY <1>2, <2>1, <2>7, <2>9 DEF SoundInv, HeldOK
  <2>11. QED
    BY <2>2, <2>3, <2>4, <2>5, <2>6, <2>10 DEF SoundInv
<1>3. QED
  BY <1>1, <1>2

LEMMA SoundAlways == Spec => []SoundInv
  BY InitSound, SoundStep, PTL DEF Spec

\* Every variable of the tracing stays in its range, whatever the threads of
\* the game do: ids never run out before objects do, and no ticket is above the
\* sample limit.
THEOREM ManagedTypeCorrect == Spec => []ManagedTypeOK
<1>1. ASSUME SoundInv PROVE ManagedTypeOK
  <2>1. GameOK(game) /\ generation \in 1 .. MaxGeneration
        /\ Len(births) <= MaxObjects /\ Len(tracked) <= Len(births)
    BY <1>1, GameFacts, Constants DEF SoundInv
  <2>2. DOMAIN births = 1 .. Len(births) /\ DOMAIN tracked = 1 .. Len(tracked)
    BY <1>1 DEF SoundInv, CountsOK
  <2>3. QED
    BY <1>1, <2>1, <2>2 DEF SoundInv, CountsOK, HeapOK, DeviceOK, RegistryOK, JobsOK,
       ManagedTypeOK
<1>2. QED
  BY <1>1, SoundAlways, PTL

\* What the game asked for as MANAGED can be locked under the semantic
\* adaptation, in whichever pool it ended, for every game and any threads.
THEOREM AdaptedStaysLockable == Spec => []AdaptedIsLockable
<1>1. ASSUME SoundInv PROVE AdaptedIsLockable
  BY <1>1, LiveIs DEF SoundInv, HeapOK, AdaptedIsLockable
<1>2. QED
  BY <1>1, SoundAlways, PTL

----------------------------------------------------------------------------
(* One thread: nothing comes between the steps of a call.                  *)

\* The creator is at one of these steps with the object at a.
At(ops, a) == job[Creator].op \in ops /\ job[Creator].a = a

\* An entry names the object the game holds at its address, and its Release is
\* seen; but for the one that is being erased.
EntryOK(a) ==
  reg[a].id # 0 /\ ~At({"erase"}, a) =>
    /\ Live(a) /\ heap[a].refs > 0
    /\ tracked[reg[a].id] = heap[a].n /\ reg[a].kind = heap[a].class
    /\ heap[a].class \in releaseHooked

\* What is traced and held has an entry; but for the one being entered.
ObjectOK(a) ==
  /\ Live(a) /\ heap[a].refs > 0 /\ heap[a].managed /\ Traced
  /\ heap[a].class # "volume_texture" /\ ~At({"identify", "register"}, a)
  => reg[a].id # 0 /\ reg[a].releases = heap[a].released

EntriesOK == \A a \in Addrs : EntryOK(a) /\ ObjectOK(a)

\* What a creation and a release know of the entry at their address.
CallOK ==
  LET j == job[Creator] IN
  /\ j.op \in {"identify", "register"} => reg[j.a].id = 0 /\ heap[j.a].released = 0
  /\ j.op \in {"release", "erase"} => j.id = reg[j.a].id
  /\ j.op = "erase" => j.id # 0 /\ (Live(j.a) => heap[j.a].refs = 0)

\* A surface has the id of the texture it belongs to.
SurfacesOK ==
  \A s \in Surfaces : surfaceId[s] # 0 =>
    \/ job[Creator].op = "erase" /\ job[Creator].id = surfaceId[s]
    \/ owner[s] # None /\ reg[owner[s]].id = surfaceId[s]

\* The map is exact as long as no hook on Release was refused.
ExactInv == faults = 0 => EntriesOK /\ CallOK /\ SurfacesOK

\* What was told of an entry of the map is noted in it.
ToldOK ==
  LET j == job[Creator] IN
  /\ told \subseteq (1 .. Len(tracked)) \X Slots \X (1 .. generation)
  /\ j.op = "take" => j.gen = generation
  /\ \A a \in Addrs : \A s \in Slots : \A g \in 1 .. generation :
       << reg[a].id, s, g >> \in told =>
         reg[a].bgen > g \/ (reg[a].bgen = g /\ s \in reg[a].mask)

\* From the first probe of a Reset to the second the fingerprints of what is
\* in the map are those of this Reset.
PrintsOK ==
  LET j == job[Creator] IN
  /\ j.op = "probe" => j.cand = Candidates /\ j.id = [a \in Candidates |-> reg[a].id]
  /\ opt.probe /\ (j.op \in {"reset", "bump"} \/ (j.op = "probe" /\ j.after)) =>
       \A a \in Candidates : before[reg[a].id].valid =>
         << heap[a].n, before[reg[a].id].content >> \in taken
  /\ j.op = "probe" => opt.probe

\* The inductive invariant of a game with one thread.
AloneInv == OneThread => ExactInv /\ ToldOK /\ PrintsOK

LEMMA AloneIs ==
  ASSUME SoundInv, OneThread
  PROVE  /\ game.crew = {Creator}
         /\ \A u \in Threads : u # Creator => job[u] = Idle
         /\ Queried(Creator) = {}
<1>1. IsFiniteSet(game.crew) /\ Creator \in game.crew
  BY GameFacts, Constants, FS_Subset DEF SoundInv
<1>2. game.crew = {Creator}
  BY <1>1, FS_Singleton DEF OneThread
<1>3. \A u \in Threads : u # Creator => job[u] = Idle
  BY <1>2 DEF SoundInv, JobsOK
<1>4. Queried(Creator) = {}
  BY <1>3 DEF Queried, Idle
<1>5. QED
  BY <1>2, <1>3, <1>4

\* Kinds of call that tie an entry to its object, or part them.
Ties == {"identify", "register", "release", "erase"}

\* A step that gives no reference of the game's and takes none, and neither
\* enters an object nor erases one.
Leaves ==
  /\ \A a \in Addrs : Keeps(a)
  /\ \A a \in Addrs : /\ reg'[a].id = reg[a].id /\ reg'[a].kind = reg[a].kind
                      /\ reg'[a].releases = reg[a].releases
  /\ \A s \in Surfaces :
       owner'[s] = owner[s] \/ (owner[s] # None /\ heap'[owner[s]].n = 0)
  /\ UNCHANGED << game, surfaceId, tracked, releaseHooked, faults >>
  /\ job[Creator].op \notin Ties /\ job'[Creator].op \notin Ties

\* What is held stays.
LEMMA HeldStays ==
  ASSUME NEW a \in Addrs, Keeps(a), heap[a] \in Object, heap[a].refs > 0
  PROVE  /\ heap'[a] \in Object /\ Same(heap[a], heap'[a])
         /\ heap'[a].refs = heap[a].refs /\ heap'[a].released = heap[a].released
         /\ Live(a)' /\ heap'[a].n # 0
<1>1. heap[a].n # 0
  BY DEF Object
<1>2. heap[a] # Free
  BY <1>1 DEF Free
<1>3. heap'[a] \in Object /\ Same(heap[a], heap'[a])
      /\ heap'[a].refs = heap[a].refs /\ heap'[a].released = heap[a].released
  BY <1>2 DEF Keeps
<1>4. QED
  BY <1>1, <1>3 DEF Live, Same

LEMMA WasThere ==
  ASSUME NEW a \in Addrs, Keeps(a), Live(a)'
  PROVE  /\ heap[a] # Free /\ heap'[a] \in Object /\ Same(heap[a], heap'[a])
         /\ heap'[a].refs = heap[a].refs /\ heap'[a].released = heap[a].released
  BY DEF Keeps, Live, Free

\* What a step does at another address.
LEMMA Elsewhere ==
  ASSUME SoundInv, EntriesOK, NEW b \in Addrs, Keeps(b), UNCHANGED game,
         reg'[b].id = reg[b].id, reg'[b].kind = reg[b].kind,
         reg'[b].releases = reg[b].releases,
         \A i \in 1 .. Len(tracked) : tracked'[i] = tracked[i],
         releaseHooked \subseteq releaseHooked',
         ~At(Ties, b), ~At(Ties, b)'
  PROVE  EntryOK(b)' /\ ObjectOK(b)'
<1>1. ~At({"erase"}, b) /\ ~At({"identify", "register"}, b)
  BY DEF At, Ties
<1>2. ASSUME reg'[b].id # 0
      PROVE  /\ Live(b)' /\ heap'[b].refs > 0
             /\ tracked'[reg'[b].id] = heap'[b].n /\ reg'[b].kind = heap'[b].class
             /\ heap'[b].class \in releaseHooked'
  <2>1. /\ Live(b) /\ heap[b] \in Object /\ heap[b].refs > 0
        /\ tracked[reg[b].id] = heap[b].n /\ reg[b].kind = heap[b].class
        /\ heap[b].class \in releaseHooked
    BY <1>1, <1>2, LiveIs DEF EntriesOK, EntryOK, SoundInv
  <2>2. reg[b].id \in 1 .. Len(tracked)
    BY <1>2, EntryIs
  <2>3. QED
    BY <2>1, <2>2, HeldStays DEF Same
<1>3. ASSUME Live(b)', heap'[b].refs > 0, heap'[b].managed, Traced',
             heap'[b].class # "volume_texture"
      PROVE  reg'[b].id # 0 /\ reg'[b].releases = heap'[b].released
  <2>1. Traced
    BY <1>3 DEF Traced, opt
  <2>2. /\ heap[b] # Free /\ Same(heap[b], heap'[b])
        /\ heap'[b].refs = heap[b].refs /\ heap'[b].released = heap[b].released
    BY <1>3, WasThere
  <2>3. Live(b)
    BY <2>2, LiveIs DEF SoundInv
  <2>4. QED
    BY <1>1, <1>3, <2>1, <2>2, <2>3 DEF EntriesOK, ObjectOK, Same
<1>4. QED
  BY <1>2, <1>3 DEF EntryOK, ObjectOK

\* A surface of a texture that is named keeps its owner.
LEMMA OwnerStays ==
  ASSUME SoundInv, EntriesOK, NEW s \in Surfaces, owner[s] # None, reg[owner[s]].id # 0,
         ~At({"erase"}, owner[s]), Keeps(owner[s]),
         owner'[s] = owner[s] \/ (owner[s] # None /\ heap'[owner[s]].n = 0)
  PROVE  owner'[s] = owner[s]
<1>1. PICK b : b = owner[s] /\ b \in Addrs
  BY DEF SoundInv, DeviceOK
<1>2. Live(b) /\ heap[b] \in Object /\ heap[b].refs > 0
  BY <1>1, LiveIs DEF EntriesOK, EntryOK, SoundInv
<1>3. heap'[b].n # 0
  BY <1>1, <1>2, HeldStays
<1>4. QED
  BY <1>1, <1>3

LEMMA LeavesExact ==
  ASSUME SoundInv, ExactInv, Leaves
  PROVE  ExactInv'
<1> SUFFICES ASSUME faults' = 0 PROVE EntriesOK' /\ CallOK' /\ SurfacesOK'
  BY DEF ExactInv
<1>1. EntriesOK /\ SurfacesOK
  BY DEF ExactInv, Leaves
<1>2. PICK j, k : j = job[Creator] /\ k = job'[Creator]
  OBVIOUS
<1>3. j.op \notin Ties /\ k.op \notin Ties
  BY <1>2 DEF Leaves
<1>4. EntriesOK'
  <2>1. ASSUME NEW b \in Addrs PROVE EntryOK(b)' /\ ObjectOK(b)'
    <3>1. ~At(Ties, b) /\ ~At(Ties, b)'
      BY <1>2, <1>3 DEF At
    <3>2. QED
      BY <1>1, <3>1, Elsewhere DEF Leaves
  <2>2. QED
    BY <2>1 DEF EntriesOK
<1>5. CallOK'
  BY <1>2, <1>3 DEF CallOK, Ties
<1>6. SurfacesOK'
  <2>1. ASSUME NEW s \in Surfaces, surfaceId'[s] # 0
        PROVE  owner'[s] # None /\ reg'[owner'[s]].id = surfaceId'[s]
    <3>1. surfaceId'[s] = surfaceId[s]
      BY DEF Leaves
    <3>2. owner[s] # None /\ reg[owner[s]].id = surfaceId[s] /\ owner[s] \in Addrs
      BY <1>1, <1>2, <1>3, <2>1, <3>1 DEF SurfacesOK, Ties, SoundInv, DeviceOK
    <3>3. Keeps(owner[s]) /\ reg'[owner[s]].id = reg[owner[s]].id
          /\ ~At({"erase"}, owner[s])
      BY <1>2, <1>3, <3>2 DEF Leaves, At, Ties
    <3>4. owner'[s] = owner[s]
      BY <1>1, <2>1, <3>1, <3>2, <3>3, OwnerStays DEF Leaves
    <3>5. QED
      BY <3>1, <3>2, <3>3, <3>4
  <2>2. QED
    BY <2>1 DEF SurfacesOK
<1>7. QED
  BY <1>4, <1>5, <1>6

LEMMA ReapOwners ==
  ASSUME NEW h, NEW b, NEW kept, Reap(h, b, kept)
  PROVE  \A s \in Surfaces :
           owner'[s] = owner[s] \/ (owner[s] # None /\ heap'[owner[s]].n = 0)
<1>1. \A s \in Surfaces :
        owner'[s] = IF owner[s] # None /\ heap'[owner[s]].n = 0 THEN None ELSE owner[s]
  BY Reaps
<1>2. QED
  BY <1>1

\* The creator, alone, in its call j.
LEMMA CreatorFacts ==
  ASSUME SoundInv, OneThread
  PROVE  /\ Creator \in game.crew /\ Creator \in Threads /\ Queried(Creator) = {}
         /\ JobsOK /\ HeapOK /\ JobOK(job[Creator])
  BY AloneIs, GameFacts, ThreadFacts DEF SoundInv

\* Such a step that neither reports a binding nor is part of a Reset.
Passes ==
  /\ Leaves /\ UNCHANGED << told, reg, tracked, generation >>
  /\ job'[Creator].op \notin {"take", "probe", "reset", "bump"}

LEMMA LeavesHeap ==
  ASSUME SoundInv, UNCHANGED << heap, owner, reg >>
  PROVE  /\ \A a \in Addrs : Keeps(a)
         /\ \A a \in Addrs : /\ reg'[a].id = reg[a].id /\ reg'[a].kind = reg[a].kind
                             /\ reg'[a].releases = reg[a].releases
         /\ \A s \in Surfaces :
              owner'[s] = owner[s] \/ (owner[s] # None /\ heap'[owner[s]].n = 0)
  BY HeapSame DEF SoundInv

LEMMA LeavesReap ==
  ASSUME SoundInv, NEW b, NEW kept, Reap(heap, b, kept)
  PROVE  /\ \A a \in Addrs : Keeps(a)
         /\ \A s \in Surfaces :
              owner'[s] = owner[s] \/ (owner[s] # None /\ heap'[owner[s]].n = 0)
  BY ReapKeeps, ReapOwners DEF SoundInv

LEMMA HookUnbindsPasses ==
  ASSUME SoundInv, OneThread, HookUnbinds(Creator)
  PROVE  Passes
<1> USE DEF runtimeVars, deviceVars, registryVars, logVars
<1>1. PICK s \in Slots : Reap(heap, [bound EXCEPT ![s] = None], Queried(Creator))
  BY DEF HookUnbinds
<1>2. job[Creator].op = "idle" /\ job'[Creator].op = "idle"
      /\ UNCHANGED << game, surfaceId, tracked, releaseHooked, faults, told, reg, generation >>
  BY DEF HookUnbinds, Idle
<1>3. /\ \A a \in Addrs : Keeps(a)
      /\ \A x \in Surfaces :
           owner'[x] = owner[x] \/ (owner[x] # None /\ heap'[owner[x]].n = 0)
  BY <1>1, LeavesReap
<1>4. QED
  BY <1>2, <1>3 DEF Passes, Leaves, Ties

LEMMA HookDrawsPasses ==
  ASSUME SoundInv, OneThread, HookDraws(Creator)
  PROVE  Passes
<1> USE DEF runtimeVars, deviceVars, registryVars, logVars
<1>1. /\ job[Creator].op = "idle"
      /\ UNCHANGED << game, heap, owner, surfaceId, tracked, releaseHooked, faults, told,
                      reg, generation >>
  BY DEF HookDraws, Idle
<1>2. PICK b, n : job' = [job EXCEPT ![Creator] =
        IF b THEN [op |-> "scan", gen |-> generation, sample |-> n, stale |-> 0,
                   left |-> Slots]
        ELSE Idle]
  BY Zenon DEF HookDraws, Goes
<1>3. job'[Creator] = IF b THEN [op |-> "scan", gen |-> generation, sample |-> n,
                                 stale |-> 0, left |-> Slots]
                      ELSE Idle
  BY <1>2, CreatorFacts, MovesBy
<1>4. job'[Creator].op \in {"scan", "idle"}
  BY <1>3, IdleIsOK
<1>5. QED
  BY <1>1, <1>4, LeavesHeap DEF Passes, Leaves, Ties

LEMMA ScanGetsPasses ==
  ASSUME SoundInv, OneThread, ScanGets(Creator)
  PROVE  Passes
<1> USE DEF runtimeVars, deviceVars, registryVars, logVars
<1>1. /\ job[Creator].op = "scan"
      /\ UNCHANGED << game, heap, owner, surfaceId, tracked, releaseHooked, faults, told,
                      reg, generation >>
  BY DEF ScanGets
<1>p. PICK s \in job[Creator].left : \E k :
        /\ job' = [job EXCEPT ![Creator] = k]
        /\ k = [job[Creator] EXCEPT !.left = @ \ {s}] \/ k.op = "drop"
  BY ZenonT(60) DEF ScanGets, Goes
<1>2. PICK k : /\ job' = [job EXCEPT ![Creator] = k]
               /\ k = [job[Creator] EXCEPT !.left = @ \ {s}] \/ k.op = "drop"
  BY <1>p
<1>3. PICK j : j = job[Creator]
  OBVIOUS
<1>4. j \in Scan
  BY <1>1, <1>3, CreatorFacts, JobIs
<1>5. k.op \in {"scan", "drop"}
  <2>1. ASSUME k = [j EXCEPT !.left = @ \ {s}] PROVE k.op = j.op
    BY <1>4, <2>1 DEF Scan
  <2>2. QED
    BY <1>1, <1>2, <1>3, <2>1
<1>6. job'[Creator] = k
  BY <1>2, CreatorFacts, MovesBy
<1>7. QED
  BY <1>1, <1>5, <1>6, LeavesHeap DEF Passes, Leaves, Ties

LEMMA ScanDropsPasses ==
  ASSUME SoundInv, OneThread, ScanDrops(Creator)
  PROVE  Passes
<1> USE DEF runtimeVars, deviceVars, registryVars, logVars
<1>1. PICK j : j = job[Creator]
  OBVIOUS
<1>2. j.op = "drop" /\ j.next \in Scan
  BY <1>1, CreatorFacts, JobIs DEF ScanDrops
<1>3. /\ Reap(heap, bound, Queried(Creator)) /\ job' = [job EXCEPT ![Creator] = j.next]
      /\ UNCHANGED << game, surfaceId, tracked, releaseHooked, faults, told, reg, generation >>
  BY <1>1 DEF ScanDrops, Goes
<1>4. job'[Creator] = j.next
  BY <1>3, CreatorFacts, MovesBy
<1>5. j.next.op = "scan"
  BY <1>2 DEF Scan
<1>6. /\ \A a \in Addrs : Keeps(a)
      /\ \A x \in Surfaces :
           owner'[x] = owner[x] \/ (owner[x] # None /\ heap'[owner[x]].n = 0)
  BY <1>3, LeavesReap
<1>7. QED
  BY <1>1, <1>2, <1>3, <1>4, <1>5, <1>6 DEF Passes, Leaves, Ties

LEMMA ScanEndsPasses ==
  ASSUME SoundInv, OneThread, ScanEnds(Creator)
  PROVE  Passes
<1> USE DEF runtimeVars, deviceVars, registryVars, logVars
<1>1. /\ job[Creator].op = "scan" /\ job' = [job EXCEPT ![Creator] = Idle]
      /\ UNCHANGED << game, heap, owner, surfaceId, tracked, releaseHooked, faults, told,
                      reg, generation >>
  BY DEF ScanEnds, Goes
<1>2. job'[Creator] = Idle
  BY <1>1, CreatorFacts, MovesBy
<1>3. QED
  BY <1>1, <1>2, LeavesHeap, IdleIsOK DEF Passes, Leaves, Ties

\* The game writes to what it holds.
LEMMA LockKeeps ==
  ASSUME SoundInv, NEW t, HookLocks(t)
  PROVE  \A b \in Addrs : Keeps(b)
<1>1. PICK a \in Addrs, c \in Contents :
        Usable(a) /\ heap' = [heap EXCEPT ![a].content = c]
  BY DEF HookLocks
<1>2. heap[a] \in Object /\ heap[a] # Free /\ DOMAIN heap = Addrs
  BY <1>1, LiveIs DEF Usable, SoundInv, HeapOK
<1>3. c \in 0 .. 1
  BY DEF Contents
<1>4. DOMAIN heap' = Addrs /\ heap'[a] = [heap[a] EXCEPT !.content = c]
      /\ \A b \in Addrs : b # a => heap'[b] = heap[b]
  BY <1>1, <1>2
<1>5. Keeps(a)
  BY <1>2, <1>3, <1>4, Written DEF Keeps
<1>6. ASSUME NEW b \in Addrs, b # a PROVE Keeps(b)
  BY <1>4, <1>6 DEF Keeps, SoundInv, HeapOK, Same
<1>7. QED
  BY <1>5, <1>6

LEMMA LocksPass ==
  ASSUME SoundInv, OneThread, HookLocks(Creator) \/ HookLocksSurface(Creator)
  PROVE  Passes
<1> USE DEF runtimeVars, deviceVars, registryVars, logVars
<1>1. /\ job[Creator].op = "idle" /\ job'[Creator].op = "idle"
      /\ UNCHANGED << game, owner, surfaceId, tracked, releaseHooked, faults, told,
                      reg, generation >>
  BY DEF HookLocks, HookLocksSurface, Idle
<1>2. \A b \in Addrs : Keeps(b)
  BY LockKeeps, HeapSame DEF HookLocksSurface, SoundInv
<1>3. QED
  BY <1>1, <1>2 DEF Passes, Leaves, Ties

\* Reports stay noted while entries keep their marks or are of new objects.
LEMMA ToldKept ==
  ASSUME SoundInv, ToldOK, UNCHANGED told,
         Len(tracked') \in Nat, Len(tracked') >= Len(tracked),
         generation' \in Nat, generation' >= generation,
         job'[Creator].op = "take" => job'[Creator].gen = generation',
         \A a \in Addrs :
           \/ /\ reg'[a].id = reg[a].id /\ reg'[a].bgen = reg[a].bgen
              /\ reg'[a].mask = reg[a].mask
           \/ reg'[a].id \notin 1 .. Len(tracked)
  PROVE  ToldOK'
<1>1. generation \in Nat /\ Len(tracked) \in Nat
  BY GameFacts, Constants DEF SoundInv, CountsOK
<1>2. told \subseteq (1 .. Len(tracked)) \X Slots \X (1 .. generation)
  BY DEF ToldOK
<1>3. /\ 1 .. Len(tracked) \subseteq 1 .. Len(tracked')
      /\ 1 .. generation \subseteq 1 .. generation'
  BY <1>1
<1>4. told' \subseteq (1 .. Len(tracked')) \X Slots \X (1 .. generation')
  BY <1>2, <1>3
<1>5. ASSUME NEW a \in Addrs, NEW s \in Slots, NEW g \in 1 .. generation',
             << reg'[a].id, s, g >> \in told'
      PROVE  reg'[a].bgen > g \/ (reg'[a].bgen = g /\ s \in reg'[a].mask)
  <2>1. reg'[a].id \in 1 .. Len(tracked) /\ g \in 1 .. generation
    BY <1>2, <1>5
  <2>2. /\ reg'[a].id = reg[a].id /\ reg'[a].bgen = reg[a].bgen
        /\ reg'[a].mask = reg[a].mask
    BY <2>1
  <2>3. << reg[a].id, s, g >> \in told
    BY <1>5, <2>2
  <2>4. QED
    BY <2>1, <2>2, <2>3 DEF ToldOK
<1>6. QED
  BY <1>4, <1>5 DEF ToldOK

LEMMA ToldSame ==
  ASSUME SoundInv, ToldOK, UNCHANGED << told, reg, tracked, generation >>,
         job'[Creator].op = "take" => job'[Creator].gen = generation
  PROVE  ToldOK'
<1>1. generation \in Nat /\ Len(tracked) \in Nat
  BY GameFacts, Constants DEF SoundInv, CountsOK
<1>2. /\ Len(tracked') \in Nat /\ Len(tracked') >= Len(tracked)
      /\ generation' \in Nat /\ generation' >= generation
  BY <1>1
<1>3. QED
  BY <1>2, ToldKept

\* Fingerprints matter in a Reset only.
LEMMA NoReset ==
  ASSUME job'[Creator].op \notin {"probe", "reset", "bump"}
  PROVE  PrintsOK'
  BY DEF PrintsOK

\* The parts of the invariant in a game with one thread.
Alone == ExactInv /\ ToldOK /\ PrintsOK

LEMMA PassesAlone ==
  ASSUME SoundInv, Alone, Passes
  PROVE  Alone'
<1>1. ExactInv'
  BY LeavesExact DEF Alone, Passes
<1>2. ToldOK'
  BY ToldSame DEF Alone, Passes
<1>3. QED
  BY <1>1, <1>2, NoReset DEF Alone, Passes

LEMMA HookSetsAlone ==
  ASSUME SoundInv, OneThread, Alone, HookSets(Creator)
  PROVE  Alone'
<1> USE DEF runtimeVars, deviceVars, registryVars, logVars
<1>1. PICK a \in Addrs : job' = [job EXCEPT ![Creator] =
                            [op |-> "take", a |-> a, gen |-> generation]]
  BY DEF HookSets, Goes
<1>2. /\ job[Creator].op = "idle"
      /\ UNCHANGED << game, heap, owner, surfaceId, tracked, releaseHooked, faults, told,
                      reg, generation >>
  BY DEF HookSets, Idle
<1>3. job'[Creator] = [op |-> "take", a |-> a, gen |-> generation]
  BY <1>1, CreatorFacts, MovesBy
<1>4. Leaves
  BY <1>2, <1>3, LeavesHeap DEF Leaves, Ties
<1>5. QED
  BY <1>2, <1>3, <1>4, LeavesExact, ToldSame, NoReset DEF Alone

\* What a binding hook does to the entry at its address, and tells.
LEMMA HookBindsTells ==
  ASSUME SoundInv, OneThread, ToldOK, HookBinds(Creator)
  PROVE  /\ ToldOK' /\ (repeated' => repeated)
         /\ \A a \in Addrs : /\ reg'[a].id = reg[a].id /\ reg'[a].kind = reg[a].kind
                             /\ reg'[a].releases = reg[a].releases
<1> USE DEF runtimeVars, deviceVars, registryVars, logVars
<1>1. PICK j : j = job[Creator]
  OBVIOUS
<1>2. j.op = "take" /\ j.a \in Addrs /\ j.gen = generation
  <2>1. j.op = "take"
    BY <1>1 DEF HookBinds
  <2>2. JobOK(j)
    BY <1>1, CreatorFacts
  <2>3. j.a \in Addrs
    BY <2>1, <2>2, JobIs
  <2>4. QED
    BY <1>1, <2>1, <2>3 DEF ToldOK
<1>3. PICK slot, e : slot = SlotOf(heap[j.a].class) /\ e = reg[j.a]
  OBVIOUS
<1>4. slot \in Slots
  BY <1>3, SlotOfIsSlot
<1>5. job'[Creator] = Idle
  <2>1. job' = [job EXCEPT ![Creator] = Idle]
    BY DEF HookBinds, Goes
  <2>2. QED
    BY <2>1, CreatorFacts, MovesBy
<1>6. UNCHANGED << tracked, generation, scans >>
  BY DEF HookBinds
<1>7. generation \in 1 .. MaxGeneration /\ DOMAIN reg = Addrs
  BY GameFacts DEF SoundInv, RegistryOK
<1>8. CASE StaleAt(j.a, slot, generation) /\ ~(e.bgen = generation /\ slot \in e.mask)
  <2>1. /\ reg' = [reg EXCEPT ![j.a] = Noted(e, slot, generation)]
        /\ told' = told \cup {<< e.id, slot, generation >>}
        /\ repeated' = (repeated \/ << e.id, slot, generation >> \in told)
    BY <1>1, <1>2, <1>3, <1>8 DEF HookBinds, Line
  <2>2. e.id # 0 /\ e \in Entry /\ e.id \in 1 .. Len(tracked) /\ e.bgen <= generation
    BY <1>2, <1>3, <1>8, EntryIs DEF StaleAt
  <2>3. PICK c : c = Noted(e, slot, generation)
    OBVIOUS
  <2>4. /\ c.bgen = generation /\ c.id = e.id /\ c.kind = e.kind
        /\ c.releases = e.releases /\ slot \in c.mask
        /\ e.bgen = generation => e.mask \subseteq c.mask
    <3>1. generation \in 0 .. MaxGeneration
      BY <1>7, Constants
    <3>2. QED
      BY <1>4, <2>2, <2>3, <3>1, NotedIsEntry
  <2>5. reg'[j.a] = c /\ \A a \in Addrs : a # j.a => reg'[a] = reg[a]
    BY <1>2, <1>7, <2>1, <2>3
  <2>6. << e.id, slot, generation >> \notin told
    <3>1. generation \in 1 .. generation
      BY <1>7, Constants
    <3>2. << e.id, slot, generation >> \in told =>
            e.bgen > generation \/ (e.bgen = generation /\ slot \in e.mask)
      BY <1>2, <1>3, <1>4, <3>1 DEF ToldOK
    <3>3. ~(e.bgen > generation)
      BY <1>7, <2>2, Constants DEF Entry
    <3>4. QED
      BY <1>8, <3>2, <3>3
  <2>7. told' \subseteq (1 .. Len(tracked)) \X Slots \X (1 .. generation)
    <3>1. generation \in 1 .. generation
      BY <1>7, Constants
    <3>2. told \subseteq (1 .. Len(tracked)) \X Slots \X (1 .. generation)
      BY DEF ToldOK
    <3>3. << e.id, slot, generation >> \in (1 .. Len(tracked)) \X Slots \X (1 .. generation)
      BY <1>4, <2>2, <3>1
    <3>4. QED
      BY <2>1, <3>2, <3>3
  <2>8. ASSUME NEW a \in Addrs, NEW s \in Slots, NEW g \in 1 .. generation,
               << reg'[a].id, s, g >> \in told'
        PROVE  reg'[a].bgen > g \/ (reg'[a].bgen = g /\ s \in reg'[a].mask)
    <3>1. CASE a = j.a
      <4>1. g < generation \/ g = generation
        BY <1>7, Constants
      <4>2. CASE g < generation
        BY <2>4, <2>5, <3>1, <4>2
      <4>3. CASE g = generation /\ s = slot
        BY <2>4, <2>5, <3>1, <4>3
      <4>4. CASE g = generation /\ s # slot
        <5>1. << e.id, s, g >> \in told
          BY <2>1, <2>4, <2>5, <2>8, <3>1, <4>4
        <5>2. e.bgen > g \/ (e.bgen = g /\ s \in e.mask)
          BY <1>2, <1>3, <5>1 DEF ToldOK
        <5>3. ~(e.bgen > g)
          BY <1>7, <2>2, <4>4, Constants DEF Entry
        <5>4. QED
          BY <2>4, <2>5, <3>1, <4>4, <5>2, <5>3
      <4>5. QED
        BY <4>1, <4>2, <4>3, <4>4
    <3>2. CASE a # j.a
      <4>1. reg'[a] = reg[a]
        BY <2>5, <3>2
      <4>2. reg[a].id # e.id
        BY <1>2, <1>3, <2>2, <3>2 DEF SoundInv, RegistryOK
      <4>3. << reg[a].id, s, g >> \in told
        BY <2>1, <2>8, <4>1, <4>2
      <4>4. QED
        BY <4>1, <4>3 DEF ToldOK
    <3>3. QED
      BY <3>1, <3>2
  <2>9. ToldOK'
    BY <1>5, <1>6, <2>7, <2>8, IdleIsOK DEF ToldOK
  <2>10. \A a \in Addrs : /\ reg'[a].id = reg[a].id /\ reg'[a].kind = reg[a].kind
                          /\ reg'[a].releases = reg[a].releases
    BY <1>3, <2>4, <2>5
  <2>11. QED
    BY <2>1, <2>6, <2>9, <2>10
<1>9. CASE ~(StaleAt(j.a, slot, generation) /\ ~(e.bgen = generation /\ slot \in e.mask))
  <2>1. UNCHANGED << reg, told >> /\ (repeated' => repeated)
    BY <1>1, <1>2, <1>3, <1>9 DEF HookBinds
  <2>2. ToldOK'
    BY <1>5, <1>6, <2>1, ToldSame, IdleIsOK
  <2>3. QED
    BY <2>1, <2>2
<1>10. QED
  BY <1>8, <1>9

LEMMA HookBindsAlone ==
  ASSUME SoundInv, OneThread, Alone, HookBinds(Creator)
  PROVE  Alone'
<1> USE DEF runtimeVars, deviceVars, registryVars, logVars
<1>1. PICK b : Reap(heap, b, Queried(Creator))
  BY DEF HookBinds
<1>2. job[Creator].op = "take" /\ job' = [job EXCEPT ![Creator] = Idle]
      /\ UNCHANGED << game, surfaceId, tracked, releaseHooked, faults >>
  BY DEF HookBinds, Goes
<1>3. job'[Creator] = Idle
  BY <1>2, CreatorFacts, MovesBy
<1>4. Leaves
  <2>1. /\ \A a \in Addrs : Keeps(a)
        /\ \A x \in Surfaces :
             owner'[x] = owner[x] \/ (owner[x] # None /\ heap'[owner[x]].n = 0)
    BY <1>1, LeavesReap
  <2>2. \A a \in Addrs : /\ reg'[a].id = reg[a].id /\ reg'[a].kind = reg[a].kind
                         /\ reg'[a].releases = reg[a].releases
    BY HookBindsTells DEF Alone
  <2>3. QED
    BY <1>2, <1>3, <2>1, <2>2, IdleIsOK DEF Leaves, Ties
<1>5. QED
  BY <1>3, <1>4, LeavesExact, HookBindsTells, NoReset, IdleIsOK DEF Alone

LEMMA SameCandidates ==
  ASSUME UNCHANGED << game, reg, heap >>
  PROVE  Candidates' = Candidates
  BY DEF Candidates, Traced, opt, Live

\* Candidates may be lost, but no other object comes in the place of one.
LEMMA FewerCandidates ==
  ASSUME UNCHANGED << game, reg >>, \A a \in Addrs : Keeps(a)
  PROVE  Candidates' \subseteq Candidates
         /\ \A a \in Candidates' : heap'[a].n = heap[a].n
<1>1. ASSUME NEW a \in Candidates' PROVE a \in Candidates /\ heap'[a].n = heap[a].n
  <2>1. a \in Addrs /\ Traced /\ reg[a].id # 0 /\ reg[a].kind = "texture2d" /\ Live(a)'
    BY <1>1 DEF Candidates, Traced, opt
  <2>2. heap'[a].n = heap[a].n
    BY <2>1, WasThere DEF Same
  <2>3. Live(a)
    BY <2>1, <2>2 DEF Live
  <2>4. QED
    BY <2>1, <2>2, <2>3 DEF Candidates
<1>2. QED
  BY <1>1

LEMMA ResetBeginsAlone ==
  ASSUME SoundInv, OneThread, Alone, ResetBegins(Creator)
  PROVE  Alone'
<1> USE DEF runtimeVars, deviceVars, registryVars, logVars
<1>1. PICK k : k = IF opt.probe THEN Probing(FALSE) ELSE [op |-> "reset"]
  OBVIOUS
<1>2. /\ job[Creator].op = "idle" /\ job' = [job EXCEPT ![Creator] = k]
      /\ UNCHANGED << game, heap, owner, surfaceId, tracked, releaseHooked, faults, told,
                      reg, generation >>
  BY <1>1 DEF ResetBegins, Goes, Idle
<1>3. job'[Creator] = k
  BY <1>2, CreatorFacts, MovesBy
<1>4. k.op \in {"probe", "reset"} /\ (k.op = "probe" <=> opt.probe)
      /\ (k.op = "probe" => k.cand = Candidates /\ k.id = [a \in Candidates |-> reg[a].id]
                            /\ ~k.after)
  BY <1>1 DEF Probing
<1>5. Leaves
  BY <1>2, <1>3, <1>4, LeavesHeap DEF Leaves, Ties
<1>6. Candidates' = Candidates /\ opt' = opt
  BY <1>2, SameCandidates DEF opt
<1>7. PrintsOK'
  BY <1>2, <1>3, <1>4, <1>6 DEF PrintsOK
<1>8. ToldOK'
  BY <1>2, <1>3, <1>4, ToldSame DEF Alone
<1>9. QED
  BY <1>5, <1>7, <1>8, LeavesExact DEF Alone

\* What the first probe of a Reset leaves of the fingerprints.
Prints(cand, id, ok) ==
  [i \in DOMAIN before |->
     IF \A a \in cand : id[a] # i THEN before[i]
     ELSE LET a == CHOOSE c \in cand : id[c] = i IN Stored(i, a \in ok, heap[a].content)]

\* The fingerprints of a probe, by the objects they were taken of.
LEMMA PrintsTaken ==
  ASSUME SoundInv, NEW ok, NEW id, id = [a \in Candidates |-> reg[a].id],
         before' = Prints(Candidates, id, ok),
         NEW a \in Candidates, before'[reg[a].id].valid
  PROVE  a \in ok /\ before'[reg[a].id].content = heap[a].content
<1>1. PICK i : i = reg[a].id
  OBVIOUS
<1>2. a \in Addrs /\ reg[a].id # 0
  BY DEF Candidates
<1>3. i \in 1 .. MaxObjects
  BY <1>1, <1>2, EntryIs DEF Entry
<1>4. i \in DOMAIN before
  BY <1>3 DEF SoundInv, RegistryOK
<1>5. id[a] = i
  BY <1>1
<1> DEFINE x == CHOOSE c \in Candidates : id[c] = i
<1>6. x \in Candidates /\ id[x] = i
  BY <1>5
<1> HIDE DEF x
<1>7. x = a
  <2>1. reg[x].id = reg[a].id /\ x \in Addrs
    BY <1>1, <1>6 DEF Candidates
  <2>2. QED
    BY <1>2, <2>1 DEF SoundInv, RegistryOK
<1>8. before'[i] = Stored(i, a \in ok, heap[a].content)
  <2>1. before'[i] = Stored(i, x \in ok, heap[x].content)
    BY <1>4, <1>5 DEF x, Prints
  <2>2. QED
    BY <1>7, <2>1
<1>9. PICK d : d = before'[reg[a].id]
  OBVIOUS
<1>10. d.valid /\ d = Stored(i, a \in ok, heap[a].content)
  BY <1>1, <1>8, <1>9
<1>11. CASE a \in ok
  BY <1>9, <1>10, <1>11 DEF Stored
<1>12. CASE a \notin ok
  <2>1. d = NoFingerprint
    BY <1>10, <1>12 DEF Stored
  <2>2. QED
    BY <1>10, <2>1 DEF NoFingerprint
<1>13. QED
  BY <1>11, <1>12

LEMMA ProbeReadsAlone ==
  ASSUME SoundInv, OneThread, Alone, ProbeReads(Creator)
  PROVE  Alone'
<1> USE DEF runtimeVars, deviceVars, registryVars, logVars
<1>1. PICK j : j = job[Creator]
  OBVIOUS
<1>2. /\ j.op = "probe" /\ Reap(heap, bound, Queried(Creator))
      /\ UNCHANGED << game, reg, surfaceId, tracked, releaseHooked, faults, told, generation >>
  BY <1>1 DEF ProbeReads
<1>3. j.cand = Candidates /\ j.id = [a \in Candidates |-> reg[a].id]
  BY <1>1, <1>2 DEF Alone, PrintsOK
<1>4. /\ \A a \in Addrs : Keeps(a)
      /\ \A x \in Surfaces :
           owner'[x] = owner[x] \/ (owner[x] # None /\ heap'[owner[x]].n = 0)
  BY <1>2, LeavesReap
<1>p. PICK ok \in SUBSET {a \in job[Creator].cand : heap[a].lockable} :
        \/ /\ before' = Prints(job[Creator].cand, job[Creator].id, ok)
           /\ taken' = { << heap[a].n, heap[a].content >> : a \in ok }
           /\ Goes(Creator, [op |-> "reset"])
        \/ Goes(Creator, Idle)
  BY Zenon DEF ProbeReads, Prints
<1>5. \/ /\ before' = Prints(j.cand, j.id, ok)
         /\ taken' = { << heap[a].n, heap[a].content >> : a \in ok }
         /\ Goes(Creator, [op |-> "reset"])
      \/ Goes(Creator, Idle)
  BY <1>1, <1>p
<1>6. job'[Creator].op \in {"reset", "idle"}
  <2>1. Goes(Creator, [op |-> "reset"]) => job'[Creator] = [op |-> "reset"]
    BY CreatorFacts, MovesBy DEF Goes
  <2>2. Goes(Creator, Idle) => job'[Creator] = Idle
    BY CreatorFacts, MovesBy DEF Goes
  <2>3. QED
    BY <1>5, <2>1, <2>2, IdleIsOK
<1>7. Leaves
  BY <1>1, <1>2, <1>4, <1>6 DEF Leaves, Ties
<1>8. ToldOK'
  BY <1>2, <1>6, ToldSame DEF Alone
<1>9. PrintsOK'
  <2>1. CASE Goes(Creator, Idle)
    <3>1. job'[Creator] = Idle
      BY <2>1, CreatorFacts, MovesBy DEF Goes
    <3>2. QED
      BY <3>1, NoReset, IdleIsOK
  <2>2. CASE /\ before' = Prints(j.cand, j.id, ok)
             /\ taken' = { << heap[a].n, heap[a].content >> : a \in ok }
    <3>1. ASSUME NEW a \in Candidates, before'[reg[a].id].valid
          PROVE  << heap[a].n, before'[reg[a].id].content >> \in taken'
      <4>1. before' = Prints(Candidates, j.id, ok)
        BY <1>3, <2>2
      <4>2. a \in ok /\ before'[reg[a].id].content = heap[a].content
        BY <1>3, <3>1, <4>1, PrintsTaken
      <4>3. QED
        BY <2>2, <4>2
    <3>2. Candidates' \subseteq Candidates /\ \A a \in Candidates' : heap'[a].n = heap[a].n
      BY <1>2, <1>4, FewerCandidates
    <3>3. \A a \in Candidates' : before'[reg'[a].id].valid =>
            << heap'[a].n, before'[reg'[a].id].content >> \in taken'
      BY <1>2, <3>1, <3>2
    <3>4. QED
      BY <1>6, <3>3 DEF PrintsOK
  <2>3. QED
    BY <1>5, <2>1, <2>2
<1>10. QED
  BY <1>7, <1>8, <1>9, LeavesExact DEF Alone

LEMMA OriginalResetsAlone ==
  ASSUME SoundInv, OneThread, Alone, OriginalResets(Creator)
  PROVE  Alone'
<1> USE DEF runtimeVars, deviceVars, registryVars, logVars
<1>1. /\ job[Creator].op = "reset"
      /\ UNCHANGED << game, reg, surfaceId, tracked, releaseHooked, faults, told, generation,
                      before, taken >>
  BY DEF OriginalResets
<1>2. PICK k : job' = [job EXCEPT ![Creator] = k] /\ (k = Idle \/ k = [op |-> "bump"])
  BY DEF OriginalResets, Goes
<1>3. job'[Creator] = k /\ k.op \in {"idle", "bump"}
  <2>1. job'[Creator] = k
    BY <1>2, CreatorFacts, MovesBy
  <2>2. QED
    BY <1>2, <2>1, IdleIsOK
<1>4. /\ \A a \in Addrs : Keeps(a)
      /\ \A x \in Surfaces :
           owner'[x] = owner[x] \/ (owner[x] # None /\ heap'[owner[x]].n = 0)
  <2>1. CASE UNCHANGED runtimeVars
    BY <1>1, <2>1, LeavesHeap
  <2>2. CASE \E lost \in SUBSET {a \in Addrs : Live(a) /\ opt.probe} :
               Reap([a \in Addrs |-> IF a \in lost THEN [heap[a] EXCEPT !.content = 1 - @]
                                     ELSE heap[a]],
                    [s \in Slots |-> None], Queried(Creator))
    <3>1. PICK lost \in SUBSET {a \in Addrs : Live(a)} :
               Reap([a \in Addrs |-> IF a \in lost THEN [heap[a] EXCEPT !.content = 1 - @]
                                     ELSE heap[a]],
                    [s \in Slots |-> None], Queried(Creator))
      BY <2>2
    <3>2. QED
      BY <3>1, ResetKeeps, ReapOwners, CreatorFacts
  <2>3. QED
    BY <2>1, <2>2 DEF OriginalResets
<1>5. Leaves
  BY <1>1, <1>3, <1>4 DEF Leaves, Ties
<1>6. ToldOK'
  BY <1>1, <1>3, ToldSame DEF Alone
<1>7. PrintsOK'
  <2>1. Candidates' \subseteq Candidates /\ \A a \in Candidates' : heap'[a].n = heap[a].n
    BY <1>1, <1>4, FewerCandidates
  <2>2. opt.probe => \A a \in Candidates : before[reg[a].id].valid =>
          << heap[a].n, before[reg[a].id].content >> \in taken
    BY <1>1 DEF Alone, PrintsOK
  <2>3. opt'.probe => \A a \in Candidates' : before'[reg'[a].id].valid =>
          << heap'[a].n, before'[reg'[a].id].content >> \in taken'
    BY <1>1, <2>1, <2>2 DEF opt
  <2>4. QED
    BY <1>3, <2>3 DEF PrintsOK
<1>8. QED
  BY <1>5, <1>6, <1>7, LeavesExact DEF Alone

LEMMA ResetBumpsAlone ==
  ASSUME SoundInv, OneThread, Alone, ResetBumps(Creator)
  PROVE  Alone'
<1> USE DEF runtimeVars, deviceVars, registryVars, logVars
<1>1. PICK k : k = IF opt.probe THEN Probing(TRUE) ELSE Idle
  OBVIOUS
<1>2. /\ job[Creator].op = "bump" /\ job' = [job EXCEPT ![Creator] = k]
      /\ generation' = generation + 1
      /\ UNCHANGED << game, heap, owner, surfaceId, tracked, releaseHooked, faults, told,
                      reg, before, taken >>
  BY <1>1 DEF ResetBumps, Goes
<1>3. job'[Creator] = k
  BY <1>2, CreatorFacts, MovesBy
<1>4. k.op \in {"probe", "idle"} /\ (k.op = "probe" <=> opt.probe)
      /\ (k.op = "probe" => k.cand = Candidates /\ k.id = [a \in Candidates |-> reg[a].id]
                            /\ k.after)
  BY <1>1, IdleIsOK DEF Probing
<1>5. Leaves
  BY <1>2, <1>3, <1>4, LeavesHeap DEF Leaves, Ties
<1>6. Candidates' = Candidates /\ opt' = opt
  BY <1>2, SameCandidates DEF opt
<1>7. PrintsOK'
  <2>1. opt.probe => \A a \in Candidates : before[reg[a].id].valid =>
          << heap[a].n, before[reg[a].id].content >> \in taken
    BY <1>2 DEF Alone, PrintsOK
  <2>2. QED
    BY <1>2, <1>3, <1>4, <1>6, <2>1 DEF PrintsOK
<1>8. ToldOK'
  <2>1. generation \in Nat /\ Len(tracked) \in Nat
    BY GameFacts, Constants DEF SoundInv, CountsOK
  <2>2. generation' \in Nat /\ generation' >= generation
        /\ Len(tracked') \in Nat /\ Len(tracked') >= Len(tracked)
    BY <1>2, <2>1
  <2>3. job'[Creator].op # "take"
    BY <1>3, <1>4
  <2>4. QED
    BY <1>2, <2>2, <2>3, ToldKept DEF Alone
<1>9. QED
  BY <1>5, <1>7, <1>8, LeavesExact DEF Alone

----------------------------------------------------------------------------
(* The steps that give, take, enter or erase, in a game with one thread.   *)

LEMMA SpareIsHeld ==
  ASSUME SoundInv, NEW a \in Addrs, Usable(a)
  PROVE  Live(a) /\ heap[a] \in Object /\ heap[a].refs > 0
<1>1. Live(a) /\ heap[a] \in Object /\ Spare(a) > 0
  BY LiveIs DEF Usable, SoundInv
<1>2. PICK c : c = Cardinality(Busy("release", a))
  OBVIOUS
<1>3. c \in Nat /\ Spare(a) = heap[a].refs - c
  BY <1>2, BusyIsFinite DEF Spare
<1>4. QED
  BY <1>1, <1>3 DEF Object

\* A step of a call on the object at a, seen from the other addresses.
LEMMA OthersExact ==
  ASSUME SoundInv, EntriesOK, NEW a \in Addrs,
         \A b \in Addrs : b # a =>
           /\ Keeps(b) /\ reg'[b].id = reg[b].id /\ reg'[b].kind = reg[b].kind
           /\ reg'[b].releases = reg[b].releases,
         UNCHANGED game, \A i \in 1 .. Len(tracked) : tracked'[i] = tracked[i],
         releaseHooked \subseteq releaseHooked',
         job[Creator].op \in Ties => job[Creator].a = a,
         job'[Creator].op \in Ties => job'[Creator].a = a,
         EntryOK(a)' /\ ObjectOK(a)'
  PROVE  EntriesOK'
<1>1. ASSUME NEW b \in Addrs, b # a PROVE EntryOK(b)' /\ ObjectOK(b)'
  <2>1. ~At(Ties, b) /\ ~At(Ties, b)'
    BY <1>1 DEF At
  <2>2. QED
    BY <1>1, <2>1, Elsewhere
<1>2. QED
  BY <1>1 DEF EntriesOK

LEMMA GameAddRefsAlone ==
  ASSUME SoundInv, OneThread, Alone, GameAddRefs(Creator)
  PROVE  Alone'
<1> USE DEF runtimeVars, deviceVars, registryVars, logVars
<1>1. PICK a \in Addrs : /\ Usable(a) /\ heap[a].refs + heap[a].released < MaxRefs
                         /\ heap' = [heap EXCEPT ![a].refs = @ + 1]
  BY DEF GameAddRefs
<1>2. /\ job[Creator].op = "idle" /\ job'[Creator].op = "idle" /\ UNCHANGED job
      /\ UNCHANGED << game, owner, surfaceId, tracked, releaseHooked, faults, told,
                      reg, generation >>
  BY DEF GameAddRefs, Idle
<1>3. Live(a) /\ heap[a] \in Object /\ heap[a].refs > 0
  BY <1>1, SpareIsHeld
<1>4. /\ heap'[a] = [heap[a] EXCEPT !.refs = heap[a].refs + 1]
      /\ \A b \in Addrs : b # a => heap'[b] = heap[b]
  BY <1>1, <1>3 DEF SoundInv, HeapOK
<1>5. /\ Same(heap[a], heap'[a]) /\ heap'[a].refs > 0 /\ heap'[a].released = heap[a].released
  BY <1>1, <1>3, <1>4, Constants DEF Object, Same
<1>6. \A b \in Addrs : b # a => Keeps(b)
  BY <1>4 DEF Keeps, SoundInv, HeapOK, Same
<1>7. ExactInv'
  <2> SUFFICES ASSUME faults' = 0 PROVE EntriesOK' /\ CallOK' /\ SurfacesOK'
    BY DEF ExactInv
  <2>1. EntriesOK /\ SurfacesOK
    BY <1>2 DEF Alone, ExactInv
  <2>2. EntryOK(a)' /\ ObjectOK(a)'
    <3>1. EntryOK(a) /\ ObjectOK(a)
      BY <2>1 DEF EntriesOK
    <3>2. Live(a)' /\ Traced' = Traced /\ \A ops : At(ops, a)' = At(ops, a)
      BY <1>2, <1>3, <1>5 DEF Live, Same, Traced, opt, At
    <3>3. QED
      BY <1>2, <1>3, <1>5, <3>1, <3>2 DEF EntryOK, ObjectOK, Same
  <2>3. EntriesOK'
    BY <1>2, <1>6, <2>1, <2>2, OthersExact DEF Ties
  <2>4. CallOK' /\ SurfacesOK'
    BY <1>2, <2>1 DEF CallOK, SurfacesOK
  <2>5. QED
    BY <2>3, <2>4
<1>8. QED
  BY <1>2, <1>7, ToldSame, NoReset DEF Alone

LEMMA TrackIdentifiesAlone ==
  ASSUME SoundInv, OneThread, Alone, TrackIdentifies(Creator)
  PROVE  Alone'
<1> USE DEF runtimeVars, deviceVars, registryVars, logVars
<1>1. PICK j : j = job[Creator]
  OBVIOUS
<1>2. j.op = "identify" /\ j.a \in Addrs
  BY <1>1, CreatorFacts, JobIs DEF TrackIdentifies
<1>3. /\ job' = [job EXCEPT ![Creator] = [op |-> "register", a |-> j.a, gen |-> generation]]
      /\ UNCHANGED << game, heap, owner, surfaceId, tracked, releaseHooked, faults, told,
                      reg, generation >>
  BY <1>1 DEF TrackIdentifies, Goes
<1>4. job'[Creator] = [op |-> "register", a |-> j.a, gen |-> generation]
  BY <1>3, CreatorFacts, MovesBy
<1>5. ExactInv'
  <2> SUFFICES ASSUME faults' = 0 PROVE EntriesOK' /\ CallOK' /\ SurfacesOK'
    BY DEF ExactInv
  <2>1. EntriesOK /\ SurfacesOK /\ reg[j.a].id = 0 /\ heap[j.a].released = 0
    BY <1>1, <1>2, <1>3 DEF Alone, ExactInv, CallOK
  <2>2. EntryOK(j.a)' /\ ObjectOK(j.a)'
    BY <1>3, <1>4, <2>1 DEF EntryOK, ObjectOK, At
  <2>3. \A b \in Addrs : Keeps(b)
    BY <1>3, HeapSame DEF SoundInv
  <2>4. EntriesOK'
    BY <1>1, <1>2, <1>3, <1>4, <2>1, <2>2, <2>3, OthersExact
  <2>5. CallOK'
    BY <1>3, <1>4, <2>1 DEF CallOK
  <2>6. SurfacesOK'
    BY <1>1, <1>2, <1>3, <2>1 DEF SurfacesOK
  <2>7. QED
    BY <2>4, <2>5, <2>6
<1>6. ToldOK'
  BY <1>3, <1>4, ToldSame DEF Alone
<1>7. QED
  BY <1>4, <1>5, <1>6, NoReset DEF Alone

LEMMA TrackRegistersAlone ==
  ASSUME SoundInv, OneThread, Alone, TrackRegisters(Creator)
  PROVE  Alone'
<1> USE DEF runtimeVars, deviceVars, registryVars, logVars
<1>1. PICK j : j = job[Creator]
  OBVIOUS
<1>2. /\ j.op = "register" /\ j.a \in Addrs /\ Live(j.a) /\ heap[j.a].refs = 1
      /\ heap[j.a] \in Object
  <2>1. j.op = "register"
    BY <1>1 DEF TrackRegisters
  <2>2. JobOK(j) /\ Holds(Creator)
    BY <1>1, CreatorFacts, ThreadFacts
  <2>3. j.a \in Addrs
    BY <2>1, <2>2, JobIs
  <2>4. QED
    BY <1>1, <2>1, <2>2, <2>3, LiveIs DEF Holds, SoundInv
<1> DEFINE entry == [id |-> nextId, kind |-> heap[j.a].class, creation |-> j.gen,
                     releases |-> 0, bgen |-> 0, mask |-> {}]
<1>3. /\ reg' = [reg EXCEPT ![j.a] = entry]
      /\ tracked' = Append(tracked, heap[j.a].n)
      /\ job' = [job EXCEPT ![Creator] = Idle]
      /\ UNCHANGED << game, heap, owner, surfaceId, told, generation >>
  BY <1>1 DEF TrackRegisters, Goes
<1>4. job'[Creator] = Idle
  BY <1>3, CreatorFacts, MovesBy
<1>5. /\ entry.id = nextId /\ entry.kind = heap[j.a].class /\ entry.releases = 0
  OBVIOUS
<1> HIDE DEF entry
<1>6. reg'[j.a] = entry /\ \A b \in Addrs : b # j.a => reg'[b] = reg[b]
  BY <1>2, <1>3 DEF SoundInv, RegistryOK
<1>7. /\ Len(tracked') = Len(tracked) + 1 /\ Len(tracked) \in Nat
      /\ \A i \in 1 .. Len(tracked) : tracked'[i] = tracked[i]
      /\ tracked'[Len(tracked) + 1] = heap[j.a].n /\ nextId = Len(tracked) + 1
  <2>1. tracked \in Seq(Nat) /\ heap[j.a].n \in Nat
    BY <1>2 DEF SoundInv, CountsOK, Object
  <2>2. QED
    BY <1>3, <2>1, Appended DEF SoundInv, CountsOK
<1>8. ExactInv'
  <2> SUFFICES ASSUME faults' = 0 PROVE EntriesOK' /\ CallOK' /\ SurfacesOK'
    BY DEF ExactInv
  <2>1. faults = 0 /\ releaseHooked' = releaseHooked \cup {heap[j.a].class}
    <3>1. CASE faults' = faults + 1
      BY <3>1 DEF SoundInv, CountsOK
    <3>2. CASE releaseHooked' = releaseHooked \cup {heap[j.a].class} /\ UNCHANGED faults
      BY <3>2
    <3>3. QED
      BY <1>1, <3>1, <3>2 DEF TrackRegisters
  <2>2. EntriesOK /\ SurfacesOK /\ reg[j.a].id = 0 /\ heap[j.a].released = 0
    BY <1>1, <1>2, <2>1 DEF Alone, ExactInv, CallOK
  <2>3. EntryOK(j.a)' /\ ObjectOK(j.a)'
    <3>1. tracked'[reg'[j.a].id] = heap[j.a].n /\ reg'[j.a].id # 0
      BY <1>5, <1>6, <1>7
    <3>2. /\ heap'[j.a] = heap[j.a] /\ Live(j.a)' /\ heap'[j.a].refs > 0
          /\ reg'[j.a].kind = heap'[j.a].class /\ heap'[j.a].class \in releaseHooked'
      <4>1. heap'[j.a] = heap[j.a] /\ Live(j.a)'
        BY <1>2, <1>3 DEF Live
      <4>2. heap'[j.a].refs > 0
        BY <1>2, <4>1
      <4>3. heap'[j.a].class \in releaseHooked'
        BY <2>1, <4>1
      <4>4. QED
        BY <1>5, <1>6, <4>1, <4>2, <4>3
    <3>5. EntryOK(j.a)'
      BY <3>1, <3>2 DEF EntryOK
    <3>3. ObjectOK(j.a)'
      BY <1>3, <1>5, <1>6, <2>2, <3>1 DEF ObjectOK
    <3>4. QED
      BY <3>3, <3>5
  <2>4. \A b \in Addrs : Keeps(b)
    BY <1>3, HeapSame DEF SoundInv
  <2>5. EntriesOK'
    BY <1>1, <1>2, <1>3, <1>4, <1>6, <1>7, <2>1, <2>2, <2>3, <2>4, OthersExact, IdleIsOK DEF Ties
  <2>6. CallOK'
    BY <1>4, IdleIsOK DEF CallOK
  <2>7. SurfacesOK'
    <3>1. ASSUME NEW s \in Surfaces, surfaceId'[s] # 0
          PROVE  owner'[s] # None /\ reg'[owner'[s]].id = surfaceId'[s]
      <4>1. owner[s] # None /\ reg[owner[s]].id = surfaceId[s] /\ owner[s] \in Addrs
            /\ surfaceId[s] # 0
        BY <1>1, <1>2, <1>3, <2>2, <3>1 DEF SurfacesOK, SoundInv, DeviceOK
      <4>2. owner[s] # j.a
        BY <2>2, <4>1
      <4>3. QED
        BY <1>3, <1>6, <4>1, <4>2
    <3>2. QED
      BY <3>1 DEF SurfacesOK
  <2>8. QED
    BY <2>5, <2>6, <2>7
<1>9. ToldOK'
  <2>1. generation \in Nat
    BY GameFacts, Constants DEF SoundInv
  <2>2. reg'[j.a].id \notin 1 .. Len(tracked)
    BY <1>5, <1>6, <1>7
  <2>3. /\ Len(tracked') \in Nat /\ Len(tracked') >= Len(tracked)
        /\ generation' \in Nat /\ generation' >= generation
    BY <1>3, <1>7, <2>1
  <2>4. \A b \in Addrs :
           \/ /\ reg'[b].id = reg[b].id /\ reg'[b].bgen = reg[b].bgen
              /\ reg'[b].mask = reg[b].mask
           \/ reg'[b].id \notin 1 .. Len(tracked)
    BY <1>6, <2>2
  <2>5. QED
    BY <1>3, <1>4, <2>3, <2>4, ToldKept, IdleIsOK DEF Alone
<1>10. QED
  BY <1>4, <1>8, <1>9, NoReset, IdleIsOK DEF Alone

LEMMA GameReleasesAlone ==
  ASSUME SoundInv, OneThread, Alone, GameReleases(Creator)
  PROVE  Alone'
<1> USE DEF runtimeVars, deviceVars, registryVars, logVars
<1>1. PICK a \in Addrs :
        /\ MayRelease(a) /\ heap[a].class \notin releaseHooked
        /\ Reap([heap EXCEPT ![a].refs = @ - 1], bound, Queried(Creator))
  BY DEF GameReleases
<1>2. /\ job[Creator].op = "idle" /\ job'[Creator].op = "idle" /\ UNCHANGED job
      /\ UNCHANGED << game, surfaceId, tracked, releaseHooked, faults, told, reg, generation >>
  BY DEF GameReleases, Idle
<1>3. Live(a) /\ heap[a] \in Object /\ heap[a].refs > 0
  BY <1>1, SpareIsHeld DEF MayRelease
<1>4. /\ \A b \in Addrs : b # a => Keeps(b)
      /\ \/ heap'[a] = Free
         \/ /\ Same(heap[a], heap'[a]) /\ heap'[a].released = heap[a].released
            /\ heap'[a].refs = heap[a].refs - 1
  <2>1. heap[a].refs >= 1
    BY <1>3 DEF Object
  <2>2. QED
    BY <1>1, <1>3, <2>1, LessReferred DEF SoundInv
<1>5. ExactInv'
  <2> SUFFICES ASSUME faults' = 0 PROVE EntriesOK' /\ CallOK' /\ SurfacesOK'
    BY DEF ExactInv
  <2>1. EntriesOK /\ SurfacesOK
    BY <1>2 DEF Alone, ExactInv
  <2>2. reg[a].id = 0 /\ ~(heap[a].managed /\ Traced /\ heap[a].class # "volume_texture")
    BY <1>1, <1>2, <1>3, <2>1 DEF EntriesOK, EntryOK, ObjectOK, At
  <2>3. EntryOK(a)' /\ ObjectOK(a)'
    <3>1. EntryOK(a)'
      BY <1>2, <2>2 DEF EntryOK
    <3>2. ObjectOK(a)'
      <4>1. CASE heap'[a] = Free
        BY <4>1 DEF ObjectOK, Live, Free
      <4>2. CASE Same(heap[a], heap'[a])
        <5>1. ~(heap'[a].managed /\ Traced /\ heap'[a].class # "volume_texture")
          BY <2>2, <4>2 DEF Same
        <5>2. Traced' = Traced
          BY <1>2 DEF Traced, opt
        <5>3. QED
          BY <5>1, <5>2 DEF ObjectOK
      <4>3. QED
        BY <1>4, <4>1, <4>2
    <3>3. QED
      BY <3>1, <3>2
  <2>4. EntriesOK'
    BY <1>2, <1>4, <2>1, <2>3, OthersExact DEF Ties
  <2>5. CallOK'
    BY <1>2 DEF CallOK
  <2>6. SurfacesOK'
    <3>1. ASSUME NEW s \in Surfaces, surfaceId'[s] # 0
          PROVE  owner'[s] # None /\ reg'[owner'[s]].id = surfaceId'[s]
      <4>1. owner[s] # None /\ reg[owner[s]].id = surfaceId[s] /\ owner[s] \in Addrs
            /\ surfaceId[s] # 0
        BY <1>2, <2>1, <3>1 DEF SurfacesOK, SoundInv, DeviceOK
      <4>2. Keeps(owner[s]) /\ ~At({"erase"}, owner[s])
        BY <1>2, <1>4, <2>2, <4>1 DEF At
      <4>3. owner'[s] = owner[s]
        BY <1>1, <2>1, <4>1, <4>2, ReapOwners, OwnerStays
      <4>4. QED
        BY <1>2, <4>1, <4>3
    <3>2. QED
      BY <3>1 DEF SurfacesOK
  <2>7. QED
    BY <2>4, <2>5, <2>6
<1>6. QED
  BY <1>2, <1>5, ToldSame, NoReset DEF Alone

LEMMA HookReleasesAlone ==
  ASSUME SoundInv, OneThread, Alone, HookReleases(Creator)
  PROVE  Alone'
<1> USE DEF runtimeVars, deviceVars, registryVars, logVars
<1>1. PICK a \in Addrs :
        /\ MayRelease(a) /\ heap[a].class \in releaseHooked
        /\ heap' = [heap EXCEPT ![a].released = @ + 1]
        /\ reg' = IF reg[a].id = 0 THEN reg ELSE [reg EXCEPT ![a].releases = @ + 1]
        /\ job' = [job EXCEPT ![Creator] = [op |-> "release", a |-> a, id |-> reg[a].id]]
  BY DEF HookReleases, Goes, Counted
<1>2. /\ job[Creator].op = "idle"
      /\ UNCHANGED << game, owner, surfaceId, tracked, releaseHooked, faults, told,
                      generation >>
  BY DEF HookReleases, Idle
<1>3. job'[Creator] = [op |-> "release", a |-> a, id |-> reg[a].id]
  BY <1>1, CreatorFacts, MovesBy
<1>4. Live(a) /\ heap[a] \in Object /\ heap[a].refs > 0
  BY <1>1, SpareIsHeld DEF MayRelease
<1>5. /\ heap'[a] = [heap[a] EXCEPT !.released = heap[a].released + 1]
      /\ \A b \in Addrs : b # a => heap'[b] = heap[b]
  BY <1>1, <1>4 DEF SoundInv, HeapOK
<1>6. /\ Same(heap[a], heap'[a]) /\ heap'[a].refs = heap[a].refs
      /\ heap'[a].released = heap[a].released + 1
  BY <1>4, <1>5 DEF Object, Same
<1>7. \A b \in Addrs : b # a => Keeps(b)
  BY <1>5 DEF Keeps, SoundInv, HeapOK, Same
<1>8. /\ \A b \in Addrs : b # a => reg'[b] = reg[b]
      /\ reg'[a].id = reg[a].id /\ reg'[a].kind = reg[a].kind
      /\ reg'[a].bgen = reg[a].bgen /\ reg'[a].mask = reg[a].mask
      /\ reg[a].id # 0 => reg'[a].releases = reg[a].releases + 1
  <2>1. DOMAIN reg = Addrs
    BY DEF SoundInv, RegistryOK
  <2>2. CASE reg[a].id = 0
    BY <1>1, <2>2
  <2>3. CASE reg[a].id # 0
    <3>1. reg[a] \in Entry
      BY <2>3, EntryIs
    <3>2. /\ reg'[a] = [reg[a] EXCEPT !.releases = reg[a].releases + 1]
          /\ \A b \in Addrs : b # a => reg'[b] = reg[b]
      BY <1>1, <2>1, <2>3
    <3>3. QED
      BY <3>1, <3>2 DEF Entry
  <2>4. QED
    BY <2>2, <2>3
<1>9. ExactInv'
  <2> SUFFICES ASSUME faults' = 0 PROVE EntriesOK' /\ CallOK' /\ SurfacesOK'
    BY DEF ExactInv
  <2>1. EntriesOK /\ SurfacesOK
    BY <1>2 DEF Alone, ExactInv
  <2>2. EntryOK(a)' /\ ObjectOK(a)'
    <3>1. EntryOK(a) /\ ObjectOK(a)
      BY <2>1 DEF EntriesOK
    <3>2. /\ Live(a)' /\ Traced' = Traced
          /\ ~At({"erase"}, a) /\ ~At({"identify", "register"}, a)
      BY <1>2, <1>4, <1>6 DEF Live, Same, Traced, opt, At
    <3>3. EntryOK(a)'
      BY <1>2, <1>6, <1>8, <3>1, <3>2 DEF EntryOK, Same
    <3>4. ASSUME heap'[a].managed, Traced, heap'[a].class # "volume_texture"
          PROVE  reg'[a].id # 0 /\ reg'[a].releases = heap'[a].released
      <4>1. reg[a].id # 0 /\ reg[a].releases = heap[a].released
        BY <1>4, <1>6, <3>1, <3>2, <3>4 DEF ObjectOK, Same
      <4>2. QED
        BY <1>6, <1>8, <4>1
    <3>5. ObjectOK(a)'
      BY <3>2, <3>4 DEF ObjectOK
    <3>6. QED
      BY <3>3, <3>5
  <2>3. EntriesOK'
    BY <1>2, <1>3, <1>7, <1>8, <2>1, <2>2, OthersExact DEF Ties
  <2>4. CallOK'
    BY <1>3, <1>8 DEF CallOK
  <2>5. SurfacesOK'
    <3>1. \A b \in Addrs : reg'[b].id = reg[b].id
      BY <1>8
    <3>2. ASSUME NEW s \in Surfaces, surfaceId'[s] # 0
          PROVE  owner'[s] # None /\ reg'[owner'[s]].id = surfaceId'[s]
      <4>1. owner[s] # None /\ reg[owner[s]].id = surfaceId[s] /\ owner[s] \in Addrs
        BY <1>2, <2>1, <3>2 DEF SurfacesOK, SoundInv, DeviceOK
      <4>2. QED
        BY <1>2, <3>1, <4>1
    <3>3. QED
      BY <3>2 DEF SurfacesOK
  <2>6. QED
    BY <2>3, <2>4, <2>5
<1>10. ToldOK'
  <2>1. /\ Len(tracked') \in Nat /\ Len(tracked') >= Len(tracked)
        /\ generation' \in Nat /\ generation' >= generation
    BY <1>2, GameFacts, Constants DEF SoundInv, CountsOK
  <2>2. \A b \in Addrs : /\ reg'[b].id = reg[b].id /\ reg'[b].bgen = reg[b].bgen
                         /\ reg'[b].mask = reg[b].mask
    BY <1>8
  <2>3. QED
    BY <1>2, <1>3, <2>1, <2>2, ToldKept DEF Alone
<1>11. QED
  BY <1>3, <1>9, <1>10, NoReset DEF Alone

LEMMA OriginalReleasesAlone ==
  ASSUME SoundInv, OneThread, Alone, OriginalReleases(Creator)
  PROVE  Alone'
<1> USE DEF runtimeVars, deviceVars, registryVars, logVars
<1>0. PICK j, a : j = job[Creator] /\ a = j.a
  OBVIOUS
<1>1. j.op = "release" /\ a \in Addrs
  BY <1>0, CreatorFacts, JobIs DEF OriginalReleases
<1>2. Live(a) /\ heap[a] \in Object /\ heap[a].refs >= 1
  <2>1. Holds(Creator)
    BY CreatorFacts, ThreadFacts
  <2>2. Live(a) /\ heap[a] \in Object
    BY <1>0, <1>1, <2>1, LiveIs DEF Holds, SoundInv
  <2>3. Creator \in Busy("release", a)
    BY <1>0, <1>1, Constants DEF Busy
  <2>4. PICK c : c = Cardinality(Busy("release", a))
    OBVIOUS
  <2>5. c \in Nat /\ c # 0 /\ c <= heap[a].refs
    BY <1>1, <2>2, <2>3, <2>4, BusyIsFinite, FS_EmptySet DEF SoundInv, HeldOK
  <2>6. QED
    BY <2>2, <2>5 DEF Object
<1>3. /\ Reap([heap EXCEPT ![a].refs = @ - 1], bound, Queried(Creator))
      /\ UNCHANGED << game, surfaceId, tracked, releaseHooked, faults, told, reg, generation >>
  BY <1>0 DEF OriginalReleases
<1>4. job'[Creator] = IF j.id # 0 /\ heap[a].refs = 1
                      THEN [op |-> "erase", a |-> a, id |-> j.id] ELSE Idle
  <2>1. PICK x : x = IF j.id # 0 /\ heap[a].refs = 1 /\ a \notin Queried(Creator)
                      THEN [op |-> "erase", a |-> a, id |-> j.id] ELSE Idle
    OBVIOUS
  <2>2. job' = [job EXCEPT ![Creator] = x]
    BY <1>0, <2>1 DEF OriginalReleases, Goes, LastReference
  <2>3. job'[Creator] = x
    BY <2>2, CreatorFacts, MovesBy
  <2>4. a \notin Queried(Creator)
    BY CreatorFacts
  <2>5. QED
    BY <2>1, <2>3, <2>4
<1>5. PICK k : k = job'[Creator]
  OBVIOUS
<1>6. /\ k.op \in {"erase", "idle"} /\ (k.op = "erase" <=> j.id # 0 /\ heap[a].refs = 1)
      /\ k.op = "erase" => k.a = a /\ k.id = j.id
  BY <1>4, <1>5, IdleIsOK
<1>7. /\ \A b \in Addrs : b # a => Keeps(b)
      /\ \/ heap'[a] = Free /\ heap[a].refs = 1
         \/ /\ Same(heap[a], heap'[a]) /\ heap'[a].released = heap[a].released
            /\ heap'[a].refs = heap[a].refs - 1
  BY <1>1, <1>2, <1>3, LessReferred DEF SoundInv
<1>8. heap[a].refs = 1 \/ (heap'[a].refs > 0 /\ Live(a)')
  <2>1. heap[a].refs # 1 => heap[a].refs - 1 > 0
    BY <1>2 DEF Object
  <2>2. QED
    BY <1>2, <1>7, <2>1 DEF Live, Same
<1>9. heap[a].refs = 1 => ~(Live(a)' /\ heap'[a].refs > 0) /\ (Live(a)' => heap'[a].refs = 0)
  BY <1>7 DEF Live, Free
<1>10. ExactInv'
  <2> SUFFICES ASSUME faults' = 0 PROVE EntriesOK' /\ CallOK' /\ SurfacesOK'
    BY DEF ExactInv
  <2>1. EntriesOK /\ SurfacesOK /\ j.id = reg[a].id
    BY <1>0, <1>1, <1>3 DEF Alone, ExactInv, CallOK
  <2>2. EntryOK(a) /\ ObjectOK(a)
        /\ ~At({"erase"}, a) /\ ~At({"identify", "register"}, a)
    BY <1>0, <1>1, <2>1 DEF EntriesOK, At
  <2>3. EntryOK(a)'
    <3>1. CASE heap[a].refs = 1 /\ j.id # 0
      BY <1>5, <1>6, <3>1 DEF EntryOK, At
    <3>2. CASE j.id = 0
      BY <1>3, <2>1, <3>2 DEF EntryOK
    <3>3. CASE heap[a].refs # 1
      <4>1. Same(heap[a], heap'[a]) /\ heap'[a].refs > 0 /\ Live(a)'
        BY <1>7, <1>8, <3>3
      <4>2. QED
        BY <1>3, <2>2, <4>1 DEF EntryOK, Same
    <3>4. QED
      BY <3>1, <3>2, <3>3
  <2>4. ObjectOK(a)'
    <3>1. CASE heap[a].refs = 1
      BY <1>9, <3>1 DEF ObjectOK
    <3>2. CASE heap[a].refs # 1
      <4>1. /\ Same(heap[a], heap'[a]) /\ heap'[a].released = heap[a].released
            /\ heap[a].refs > 0 /\ Traced' = Traced
        BY <1>2, <1>3, <1>7, <3>2 DEF Traced, opt, Object
      <4>2. QED
        BY <1>2, <1>3, <2>2, <4>1 DEF ObjectOK, Same
    <3>3. QED
      BY <3>1, <3>2
  <2>5. EntriesOK'
    BY <1>0, <1>1, <1>3, <1>5, <1>6, <1>7, <2>1, <2>3, <2>4, OthersExact DEF Ties
  <2>6. CallOK'
    BY <1>3, <1>5, <1>6, <1>9, <2>1 DEF CallOK
  <2>7. SurfacesOK'
    <3>1. ASSUME NEW s \in Surfaces, surfaceId'[s] # 0,
                 ~(k.op = "erase" /\ k.id = surfaceId'[s])
          PROVE  owner'[s] # None /\ reg'[owner'[s]].id = surfaceId'[s]
      <4>1. owner[s] # None /\ reg[owner[s]].id = surfaceId[s] /\ owner[s] \in Addrs
            /\ surfaceId[s] # 0
        BY <1>0, <1>1, <1>3, <2>1, <3>1 DEF SurfacesOK, SoundInv, DeviceOK
      <4>2. owner'[s] = owner[s] \/ heap'[owner[s]].n = 0
        BY <1>3, ReapOwners
      <4>3. CASE owner[s] = a
        <5>1. heap[a].refs # 1
          BY <1>3, <1>6, <2>1, <3>1, <4>1, <4>3
        <5>2. QED
          BY <1>3, <1>8, <4>1, <4>2, <4>3, <5>1 DEF Live
      <4>4. CASE owner[s] # a
        <5>1. Keeps(owner[s]) /\ ~At({"erase"}, owner[s])
          BY <1>0, <1>1, <1>7, <4>1, <4>4 DEF At
        <5>2. owner'[s] = owner[s]
          BY <2>1, <4>1, <4>2, <5>1, OwnerStays
        <5>3. QED
          BY <1>3, <4>1, <5>2
      <4>5. QED
        BY <4>3, <4>4
    <3>2. QED
      BY <1>5, <3>1 DEF SurfacesOK
  <2>8. QED
    BY <2>5, <2>6, <2>7
<1>11. ToldOK'
  BY <1>3, <1>5, <1>6, ToldSame DEF Alone
<1>12. QED
  BY <1>5, <1>6, <1>10, <1>11, NoReset DEF Alone

LEMMA ReleaseErasesAlone ==
  ASSUME SoundInv, OneThread, Alone, ReleaseErases(Creator)
  PROVE  Alone'
<1> USE DEF runtimeVars, deviceVars, registryVars, logVars
<1>0. PICK j, a : j = job[Creator] /\ a = j.a
  OBVIOUS
<1>1. j.op = "erase" /\ a \in Addrs
  BY <1>0, CreatorFacts, JobIs DEF ReleaseErases
<1>2. /\ reg' = [reg EXCEPT ![a] = NoEntry]
      /\ surfaceId' = [s \in Surfaces |-> IF surfaceId[s] = j.id THEN 0 ELSE surfaceId[s]]
      /\ job' = [job EXCEPT ![Creator] = Idle]
      /\ UNCHANGED << game, heap, owner, tracked, releaseHooked, faults, told, generation >>
  BY <1>0 DEF ReleaseErases, Erase, Goes
<1>3. job'[Creator] = Idle
  BY <1>2, CreatorFacts, MovesBy
<1>4. reg'[a].id = 0 /\ \A b \in Addrs : b # a => reg'[b] = reg[b]
  BY <1>1, <1>2 DEF SoundInv, RegistryOK, NoEntry
<1>5. ExactInv'
  <2> SUFFICES ASSUME faults' = 0 PROVE EntriesOK' /\ CallOK' /\ SurfacesOK'
    BY DEF ExactInv
  <2>1. EntriesOK /\ SurfacesOK /\ j.id = reg[a].id /\ (Live(a) => heap[a].refs = 0)
    BY <1>0, <1>1, <1>2 DEF Alone, ExactInv, CallOK
  <2>2. EntryOK(a)' /\ ObjectOK(a)'
    <3>1. EntryOK(a)'
      BY <1>4 DEF EntryOK
    <3>2. ~(Live(a)' /\ heap'[a].refs > 0)
      BY <1>2, <2>1 DEF Live
    <3>3. QED
      BY <3>1, <3>2 DEF ObjectOK
  <2>3. \A b \in Addrs : Keeps(b)
    BY <1>2, HeapSame DEF SoundInv
  <2>4. EntriesOK'
    BY <1>0, <1>1, <1>2, <1>3, <1>4, <2>1, <2>2, <2>3, OthersExact, IdleIsOK DEF Ties
  <2>5. CallOK'
    BY <1>3, IdleIsOK DEF CallOK
  <2>6. SurfacesOK'
    <3>1. ASSUME NEW s \in Surfaces, surfaceId'[s] # 0
          PROVE  owner'[s] # None /\ reg'[owner'[s]].id = surfaceId'[s]
      <4>1. surfaceId'[s] = surfaceId[s] /\ surfaceId[s] # j.id
        BY <1>2, <3>1
      <4>2. owner[s] # None /\ reg[owner[s]].id = surfaceId[s] /\ owner[s] \in Addrs
        BY <1>0, <1>1, <2>1, <3>1, <4>1 DEF SurfacesOK, SoundInv, DeviceOK
      <4>3. owner[s] # a
        BY <2>1, <4>1, <4>2
      <4>4. QED
        BY <1>2, <1>4, <4>1, <4>2, <4>3
    <3>2. QED
      BY <3>1 DEF SurfacesOK
  <2>7. QED
    BY <2>4, <2>5, <2>6
<1>6. ToldOK'
  <2>1. /\ Len(tracked') \in Nat /\ Len(tracked') >= Len(tracked)
        /\ generation' \in Nat /\ generation' >= generation
    BY <1>2, GameFacts, Constants DEF SoundInv, CountsOK
  <2>2. \A b \in Addrs :
           \/ /\ reg'[b].id = reg[b].id /\ reg'[b].bgen = reg[b].bgen
              /\ reg'[b].mask = reg[b].mask
           \/ reg'[b].id \notin 1 .. Len(tracked)
    BY <1>4
  <2>3. QED
    BY <1>2, <1>3, <2>1, <2>2, ToldKept, IdleIsOK DEF Alone
<1>7. QED
  BY <1>3, <1>5, <1>6, NoReset, IdleIsOK DEF Alone

LEMMA HookGetsSurfaceAlone ==
  ASSUME SoundInv, OneThread, Alone, HookGetsSurface(Creator)
  PROVE  Alone'
<1> USE DEF runtimeVars, deviceVars, registryVars, logVars
<1>1. PICK a \in Addrs, s \in Surfaces :
        /\ owner[s] = None /\ owner' = [owner EXCEPT ![s] = a]
        /\ surfaceId' = IF IdAt(a) = 0 THEN surfaceId
                        ELSE [surfaceId EXCEPT ![s] = IdAt(a)]
  BY DEF HookGetsSurface
<1>2. job[Creator].op = "idle" /\ job'[Creator].op = "idle"
      /\ UNCHANGED << job, heap, game, generation, tracked, faults, reg, releaseHooked, told >>
  BY DEF HookGetsSurface, Idle
<1>3. ExactInv'
  <2> SUFFICES ASSUME faults' = 0 PROVE EntriesOK' /\ CallOK' /\ SurfacesOK'
    BY DEF ExactInv
  <2>1. EntriesOK /\ SurfacesOK
    BY <1>2 DEF Alone, ExactInv
  <2>2. ASSUME NEW b \in Addrs PROVE EntryOK(b)' /\ ObjectOK(b)'
    <3>1. Live(b)' = Live(b) /\ Traced' = Traced /\ \A ops : At(ops, b)' = At(ops, b)
      BY <1>2 DEF Live, Traced, opt, At
    <3>2. QED
      BY <1>2, <2>1, <3>1 DEF EntriesOK, EntryOK, ObjectOK
  <2>3. EntriesOK'
    BY <2>2 DEF EntriesOK
  <2>4. CallOK'
    BY <1>2 DEF CallOK
  <2>5. SurfacesOK'
    <3>1. ASSUME NEW x \in Surfaces, surfaceId'[x] # 0
          PROVE  owner'[x] # None /\ reg'[owner'[x]].id = surfaceId'[x]
      <4>1. DOMAIN owner = Surfaces /\ DOMAIN surfaceId = Surfaces /\ None \notin Addrs
        BY ManagedAssumption DEF SoundInv, DeviceOK, RegistryOK
      <4>2. CASE x = s
        <5>1. surfaceId[s] = 0
          BY <1>1, <1>2, <2>1 DEF SurfacesOK
        <5>2. surfaceId'[s] = IdAt(a) /\ IdAt(a) # 0 /\ owner'[s] = a
          BY <1>1, <3>1, <4>1, <4>2, <5>1
        <5>3. IdAt(a) = reg[a].id
          BY <5>2 DEF IdAt
        <5>4. QED
          BY <1>2, <4>1, <4>2, <5>2, <5>3
      <4>3. CASE x # s
        <5>1. surfaceId'[x] = surfaceId[x] /\ owner'[x] = owner[x]
          BY <1>1, <4>1, <4>3
        <5>2. QED
          BY <1>2, <2>1, <3>1, <5>1 DEF SurfacesOK
      <4>4. QED
        BY <4>2, <4>3
    <3>2. QED
      BY <3>1 DEF SurfacesOK
  <2>6. QED
    BY <2>3, <2>4, <2>5
<1>4. QED
  BY <1>2, <1>3, ToldSame, NoReset DEF Alone

LEMMA HookCreatesAlone ==
  ASSUME SoundInv, OneThread, Alone, HookCreates(Creator)
  PROVE  Alone'
<1> USE DEF runtimeVars, deviceVars, registryVars, logVars
<1>1. /\ job[Creator].op = "idle"
      /\ UNCHANGED << game, owner, surfaceId, tracked, releaseHooked, faults, told, reg,
                      generation >>
  BY DEF HookCreates, Idle
<1>p. PICK r \in game.requests, a \in Addrs : \E hr : Creates(Creator, r, a, hr)
  BY CreatesIs
<1>q. PICK hr : Creates(Creator, r, a, hr)
  BY <1>p
<1>l. PICK l : l = Lockable(r.class, Made(r, hr))
  OBVIOUS
<1>2. /\ ~Live(a)
      /\ heap' = [heap EXCEPT ![a] =
           [n |-> Len(births) + 1, class |-> r.class,
            managed |-> r.pool = "managed", lockable |-> l,
            refs |-> 1, released |-> 0, content |-> 0]]
      /\ job' = [job EXCEPT ![Creator] =
           IF Traced /\ r.pool = "managed" /\ r.class # "volume_texture"
           THEN [op |-> "identify", a |-> a] ELSE Idle]
  BY <1>l, <1>q DEF Creates
<1> DEFINE object == [n |-> Len(births) + 1, class |-> r.class,
                      managed |-> r.pool = "managed", lockable |-> l,
                      refs |-> 1, released |-> 0, content |-> 0]
           asked == Traced /\ r.pool = "managed" /\ r.class # "volume_texture"
<1>3. job'[Creator] = IF asked THEN [op |-> "identify", a |-> a] ELSE Idle
  BY <1>2, CreatorFacts, MovesBy
<1>4. heap' = [heap EXCEPT ![a] = object]
  BY <1>2
<1>5. /\ object.class = r.class /\ object.managed = (r.pool = "managed")
      /\ object.released = 0
  OBVIOUS
<1> HIDE DEF object
<1>6. heap'[a] = object /\ \A b \in Addrs : b # a => heap'[b] = heap[b]
  BY <1>4 DEF SoundInv, HeapOK
<1>7. PICK k : k = job'[Creator]
  OBVIOUS
<1>8. /\ k.op \in {"identify", "idle"} /\ (k.op = "identify" => k.a = a)
      /\ asked => k.op = "identify"
  BY <1>3, <1>7, IdleIsOK
<1>9. ExactInv'
  <2> SUFFICES ASSUME faults' = 0 PROVE EntriesOK' /\ CallOK' /\ SurfacesOK'
    BY DEF ExactInv
  <2>1. EntriesOK /\ SurfacesOK
    BY <1>1 DEF Alone, ExactInv
  <2>2. reg[a].id = 0
    BY <1>1, <1>2, <2>1 DEF EntriesOK, EntryOK, At
  <2>3. EntryOK(a)'
    BY <1>1, <2>2 DEF EntryOK
  <2>4. ObjectOK(a)'
    <3>1. Traced' = Traced
      BY <1>1 DEF Traced, opt
    <3>2. heap'[a].managed /\ Traced' /\ heap'[a].class # "volume_texture"
            => At({"identify", "register"}, a)'
      BY <1>5, <1>6, <1>7, <1>8, <3>1 DEF At
    <3>3. QED
      BY <3>2 DEF ObjectOK
  <2>5. \A b \in Addrs : b # a => Keeps(b)
    BY <1>6 DEF Keeps, SoundInv, HeapOK, Same
  <2>6. EntriesOK'
    BY <1>1, <1>7, <1>8, <2>1, <2>3, <2>4, <2>5, OthersExact DEF Ties
  <2>7. CallOK'
    BY <1>1, <1>5, <1>6, <1>7, <1>8, <2>2 DEF CallOK
  <2>8. SurfacesOK'
    BY <1>1, <2>1 DEF SurfacesOK
  <2>9. QED
    BY <2>6, <2>7, <2>8
<1>10. QED
  BY <1>1, <1>7, <1>8, <1>9, ToldSame, NoReset DEF Alone

LEMMA InitAlone == Init => Alone
<1> SUFFICES ASSUME Init PROVE Alone
  OBVIOUS
<1>1. job[Creator] = Idle
  BY Constants DEF Init
<1>2. PICK j : j = job[Creator]
  OBVIOUS
<1>3. j.op = "idle"
  BY <1>1, <1>2, IdleIsOK
<1>4. EntriesOK /\ SurfacesOK
  BY DEF Init, EntriesOK, EntryOK, ObjectOK, SurfacesOK, NoEntry, Free, Live
<1>5. CallOK /\ PrintsOK
  BY <1>2, <1>3 DEF CallOK, PrintsOK
<1>6. ToldOK
  <2>1. told = {}
    BY DEF Init
  <2>2. QED
    BY <1>2, <1>3, <2>1 DEF ToldOK
<1>7. QED
  BY <1>4, <1>5, <1>6 DEF Alone, ExactInv

LEMMA StepAlone ==
  ASSUME SoundInv, OneThread, Alone, Step(Creator)
  PROVE  Alone'
<1>1. CASE \/ HookUnbinds(Creator) \/ HookDraws(Creator) \/ ScanGets(Creator)
           \/ ScanDrops(Creator) \/ ScanEnds(Creator) \/ HookLocks(Creator)
           \/ HookLocksSurface(Creator)
  BY <1>1, HookUnbindsPasses, HookDrawsPasses, ScanGetsPasses, ScanDropsPasses,
     ScanEndsPasses, LocksPass, PassesAlone
<1>2. CASE \/ GameAddRefs(Creator) \/ HookCreates(Creator) \/ TrackIdentifies(Creator)
           \/ TrackRegisters(Creator) \/ GameReleases(Creator) \/ HookReleases(Creator)
           \/ OriginalReleases(Creator) \/ ReleaseErases(Creator)
           \/ HookGetsSurface(Creator)
  BY <1>2, GameAddRefsAlone, HookCreatesAlone, TrackIdentifiesAlone, TrackRegistersAlone,
     GameReleasesAlone, HookReleasesAlone, OriginalReleasesAlone, ReleaseErasesAlone,
     HookGetsSurfaceAlone
<1>3. CASE \/ HookSets(Creator) \/ HookBinds(Creator) \/ ResetBegins(Creator)
           \/ ProbeReads(Creator) \/ OriginalResets(Creator) \/ ResetBumps(Creator)
  BY <1>3, HookSetsAlone, HookBindsAlone, ResetBeginsAlone, ProbeReadsAlone,
     OriginalResetsAlone, ResetBumpsAlone
<1>4. QED
  BY <1>1, <1>2, <1>3 DEF Step

----------------------------------------------------------------------------
(* What the log says.                                                      *)

\* Steps that log nothing of an object, and steps that report no binding.
LEMMA Speaks ==
  ASSUME NEW t, Step(t)
  PROVE  /\ UNCHANGED game
         /\ \/ lines' = {} \/ HookBinds(t) \/ ScanGets(t) \/ HookLocks(t)
            \/ HookLocksSurface(t) \/ ProbeReads(t)
         /\ HookBinds(t) \/ UNCHANGED repeated
<1> USE DEF Silent, logVars
<1>1. CASE \/ GameAddRefs(t) \/ HookCreates(t) \/ TrackIdentifies(t) \/ TrackRegisters(t)
           \/ GameReleases(t) \/ HookReleases(t) \/ OriginalReleases(t) \/ ReleaseErases(t)
  BY <1>1 DEF GameAddRefs, HookCreates, TrackIdentifies, TrackRegisters, GameReleases,
     HookReleases, OriginalReleases, ReleaseErases
<1>2. CASE \/ HookUnbinds(t) \/ HookSets(t) \/ HookBinds(t) \/ HookDraws(t) \/ ScanGets(t)
           \/ ScanDrops(t) \/ ScanEnds(t)
  BY <1>2 DEF HookUnbinds, HookSets, HookBinds, HookDraws, ScanGets, ScanDrops, ScanEnds
<1>3. CASE \/ HookLocks(t) \/ HookGetsSurface(t) \/ HookLocksSurface(t)
           \/ ResetBegins(t) \/ ProbeReads(t) \/ OriginalResets(t) \/ ResetBumps(t)
  BY <1>3 DEF HookLocks, HookGetsSurface, HookLocksSurface, ResetBegins, ProbeReads,
     OriginalResets, ResetBumps
<1>4. QED
  BY <1>1, <1>2, <1>3 DEF Step

\* A line of a binding hook, and of a draw scan, for any threads.
LEMMA BindSays ==
  ASSUME SoundInv, NEW t \in game.crew, HookBinds(t)
  PROVE  lines' = {} \/ \E s \in Slots, a \in Addrs :
           /\ StaleAt(a, s, job[t].gen)
           /\ lines' = {Line("bind", reg[a].id, heap[a].n, s, job[t].gen)}
<1>1. PICK j : j = job[t]
  OBVIOUS
<1>2. j.op = "take" /\ j.a \in Addrs
  <2>1. j.op = "take" /\ JobOK(j)
    BY <1>1, ThreadFacts DEF HookBinds
  <2>2. QED
    BY <2>1, JobIs
<1>3. PICK slot : slot = SlotOf(heap[j.a].class)
  OBVIOUS
<1>4. slot \in Slots
  BY <1>3, SlotOfIsSlot
<1>5. \/ lines' = {}
      \/ /\ StaleAt(j.a, slot, j.gen)
         /\ lines' = {Line("bind", reg[j.a].id, heap[j.a].n, slot, j.gen)}
  BY <1>1, <1>3 DEF HookBinds
<1>6. QED
  BY <1>1, <1>2, <1>4, <1>5

LEMMA DrawSays ==
  ASSUME SoundInv, NEW t \in game.crew, ScanGets(t)
  PROVE  lines' = {} \/ \E s \in Slots, a \in Addrs :
           /\ StaleAt(a, s, job[t].gen)
           /\ lines' = {Line("draw", reg[a].id, heap[a].n, s, job[t].gen)}
<1>1. PICK j : j = job[t]
  OBVIOUS
<1>2. j \in Scan
  BY <1>1, ThreadFacts, JobIs DEF ScanGets
<1>3. j.left \subseteq Slots
  BY <1>2 DEF Scan
<1>4. lines' = {} \/ \E s \in job[t].left :
        /\ bound[s] # None /\ StaleAt(bound[s], s, job[t].gen)
        /\ lines' = {Line("draw", reg[bound[s]].id, heap[bound[s]].n, s, job[t].gen)}
  BY ZenonT(60) DEF ScanGets, Silent
<1>5. \A s \in Slots : bound[s] # None => bound[s] \in Addrs
  BY DEF SoundInv, DeviceOK
<1>6. QED
  BY <1>1, <1>3, <1>4, <1>5

\* What is reported stale is older than the generation of the report.
LEMMA StaleSays ==
  ASSUME SoundInv, NEW a \in Addrs, NEW slot, NEW gen, gen \in Nat, StaleAt(a, slot, gen)
  PROVE  reg[a].id # 0 /\ births[tracked[reg[a].id]] < gen
<1>1. reg[a].id # 0 /\ ShouldTraceStale(reg[a].creation, gen)
  BY DEF StaleAt
<1>2. reg[a] # NoEntry /\ reg[a] \in Entry /\ reg[a].id \in 1 .. Len(tracked)
  BY <1>1, EntryIs
<1>3. reg[a].creation \in Nat /\ reg[a].creation < gen
  BY <1>1, <1>2, Constants DEF Entry, ShouldTraceStale
<1>4. births[tracked[reg[a].id]] <= reg[a].creation
  BY <1>2 DEF SoundInv, RegistryOK
<1>5. births[tracked[reg[a].id]] \in Nat
  <2>1. PICK k : k = tracked[reg[a].id]
    OBVIOUS
  <2>2. k \in 1 .. Len(births)
    BY <1>2, <2>1 DEF SoundInv, CountsOK
  <2>3. births \in Seq(1 .. MaxGeneration)
    BY DEF SoundInv, CountsOK
  <2>4. births[k] \in 1 .. MaxGeneration
    BY <2>2, <2>3, MemberOf
  <2>5. QED
    BY <2>1, <2>4, Constants
<1>6. QED
  BY <1>1, <1>3, <1>4, <1>5

LEMMA GenOf ==
  ASSUME SoundInv, NEW t \in game.crew, job[t].op \in {"take", "scan"}
  PROVE  job[t].gen \in Nat
<1>1. PICK j : j = job[t]
  OBVIOUS
<1>2. JobOK(j) /\ j.op \in {"take", "scan"}
  BY <1>1, ThreadFacts
<1>3. j.gen \in Nat
  BY <1>2, JobIs, Constants DEF Scan
<1>4. QED
  BY <1>1, <1>3

LEMMA StaleStep ==
  ASSUME SoundInv, NEW t \in game.crew, Step(t)
  PROVE  StaleIsOlder'
<1> SUFFICES ASSUME NEW l \in lines', l.what \in {"bind", "draw"}
             PROVE  births'[tracked'[l.id]] < l.gen
  BY DEF StaleIsOlder
<1> USE DEF runtimeVars, deviceVars, registryVars, logVars
<1>1. CASE HookBinds(t)
  <2>1. PICK s \in Slots, a \in Addrs :
           /\ StaleAt(a, s, job[t].gen)
           /\ l = Line("bind", reg[a].id, heap[a].n, s, job[t].gen)
    BY <1>1, BindSays
  <2>2. PICK gen : gen = job[t].gen
    OBVIOUS
  <2>3. gen \in Nat
    BY <1>1, <2>2, GenOf DEF HookBinds
  <2>4. UNCHANGED << births, tracked >>
    BY <1>1 DEF HookBinds
  <2>5. QED
    BY <2>1, <2>2, <2>3, <2>4, StaleSays DEF Line
<1>2. CASE ScanGets(t)
  <2>1. PICK s \in Slots, a \in Addrs :
           /\ StaleAt(a, s, job[t].gen)
           /\ l = Line("draw", reg[a].id, heap[a].n, s, job[t].gen)
    BY <1>2, DrawSays
  <2>2. PICK gen : gen = job[t].gen
    OBVIOUS
  <2>3. gen \in Nat
    BY <1>2, <2>2, GenOf DEF ScanGets
  <2>4. UNCHANGED << births, tracked >>
    BY <1>2 DEF ScanGets
  <2>5. QED
    BY <2>1, <2>2, <2>3, <2>4, StaleSays DEF Line
<1>3. CASE HookLocks(t) \/ HookLocksSurface(t)
  <2>1. l.what = "lock"
    BY <1>3 DEF HookLocks, HookLocksSurface, Line
  <2>2. QED
    BY <2>1
<1>4. CASE ProbeReads(t)
  <2>1. lines' = {} \/ \E id, ok : lines' \subseteq
          { Line("match", id[a], heap[a].n, "texture", generation) : a \in ok }
    BY <1>4 DEF ProbeReads, Silent
  <2>2. l.what = "match"
    BY <2>1 DEF Line
  <2>3. QED
    BY <2>2
<1>5. QED
  BY <1>1, <1>2, <1>3, <1>4, Speaks

\* A texture that is said to have kept its contents is a candidate whose
\* fingerprint was taken before this Reset.
LEMMA ProbeSays ==
  ASSUME SoundInv, OneThread, Alone, ProbeReads(Creator), NEW l \in lines'
  PROVE  \E a \in Candidates :
           /\ l.id = reg[a].id /\ l.n = heap[a].n
           /\ << heap[a].n, heap[a].content >> \in taken
<1>1. PICK j : j = job[Creator]
  OBVIOUS
<1>2. j.op = "probe"
  BY <1>1 DEF ProbeReads
<1>3. j.cand = Candidates /\ j.id = [a \in Candidates |-> reg[a].id] /\ opt.probe
  BY <1>1, <1>2 DEF Alone, PrintsOK
<1>4. PICK ok \in SUBSET job[Creator].cand : \/ lines' = {}
        \/ /\ job[Creator].after
           /\ lines' = { Line("match", job[Creator].id[a], heap[a].n, "texture", generation)
                         : a \in {c \in ok : before[job[Creator].id[c]] =
                                    [valid |-> TRUE, content |-> heap[c].content]} }
  BY Zenon DEF ProbeReads, Silent
<1>5. PICK a \in Candidates :
        /\ j.after /\ l = Line("match", j.id[a], heap[a].n, "texture", generation)
        /\ before[j.id[a]] = [valid |-> TRUE, content |-> heap[a].content]
  BY <1>1, <1>3, <1>4
<1>6. j.id[a] = reg[a].id
  BY <1>3
<1>7. PICK d : d = before[reg[a].id]
  OBVIOUS
<1>8. d.valid /\ d.content = heap[a].content
  BY <1>5, <1>6, <1>7
<1>9. << heap[a].n, d.content >> \in taken
  BY <1>1, <1>2, <1>3, <1>5, <1>7, <1>8 DEF Alone, PrintsOK
<1>10. l.id = reg[a].id /\ l.n = heap[a].n
  BY <1>5, <1>6 DEF Line
<1>11. QED
  BY <1>8, <1>9, <1>10

LEMMA EntryNames ==
  ASSUME SoundInv, Alone, faults = 0, NEW a \in Addrs, reg[a].id # 0,
         job[Creator].op # "erase"
  PROVE  tracked[reg[a].id] = heap[a].n
  BY DEF Alone, ExactInv, EntriesOK, EntryOK, At

\* Every line names the object it is about.
LEMMA NamesStep ==
  ASSUME SoundInv, OneThread, Alone, Step(Creator)
  PROVE  faults' = 0 => \A l \in lines' : tracked'[l.id] = l.n
<1> SUFFICES ASSUME faults' = 0, NEW l \in lines' PROVE tracked'[l.id] = l.n
  OBVIOUS
<1> USE DEF runtimeVars, deviceVars, registryVars, logVars
<1>0. Creator \in game.crew
  BY CreatorFacts
<1>1. CASE HookBinds(Creator)
  <2>1. PICK s \in Slots, a \in Addrs :
           /\ StaleAt(a, s, job[Creator].gen)
           /\ l = Line("bind", reg[a].id, heap[a].n, s, job[Creator].gen)
    BY <1>0, <1>1, BindSays
  <2>2. UNCHANGED << tracked, faults >> /\ job[Creator].op = "take"
    BY <1>1 DEF HookBinds
  <2>3. tracked[reg[a].id] = heap[a].n
    BY <2>1, <2>2, EntryNames DEF StaleAt
  <2>4. QED
    BY <2>1, <2>2, <2>3 DEF Line
<1>2. CASE ScanGets(Creator)
  <2>1. PICK s \in Slots, a \in Addrs :
           /\ StaleAt(a, s, job[Creator].gen)
           /\ l = Line("draw", reg[a].id, heap[a].n, s, job[Creator].gen)
    BY <1>0, <1>2, DrawSays
  <2>2. UNCHANGED << tracked, faults >> /\ job[Creator].op = "scan"
    BY <1>2 DEF ScanGets
  <2>3. tracked[reg[a].id] = heap[a].n
    BY <2>1, <2>2, EntryNames DEF StaleAt
  <2>4. QED
    BY <2>1, <2>2, <2>3 DEF Line
<1>3. CASE HookLocks(Creator)
  <2>1. PICK a \in Addrs :
           /\ IdAt(a) # 0
           /\ l = Line("lock", IdAt(a), heap[a].n, SlotOf(heap[a].class), 0)
    BY <1>3 DEF HookLocks
  <2>2. UNCHANGED << tracked, faults >> /\ job[Creator].op = "idle"
    BY <1>3 DEF HookLocks, Idle
  <2>3. IdAt(a) = reg[a].id
    BY <2>1 DEF IdAt
  <2>4. tracked[reg[a].id] = heap[a].n
    BY <2>1, <2>2, <2>3, EntryNames
  <2>5. QED
    BY <2>1, <2>2, <2>3, <2>4 DEF Line
<1>4. CASE HookLocksSurface(Creator)
  <2>1. PICK s \in Surfaces :
           /\ owner[s] # None /\ surfaceId[s] # 0
           /\ l = Line("lock", surfaceId[s], heap[owner[s]].n, "texture", 0)
    BY <1>4 DEF HookLocksSurface
  <2>2. UNCHANGED << tracked, faults >> /\ job[Creator].op = "idle"
    BY <1>4 DEF HookLocksSurface, Idle
  <2>3. reg[owner[s]].id = surfaceId[s] /\ owner[s] \in Addrs
    BY <2>1, <2>2 DEF Alone, ExactInv, SurfacesOK, SoundInv, DeviceOK
  <2>4. tracked[reg[owner[s]].id] = heap[owner[s]].n
    BY <2>1, <2>2, <2>3, EntryNames
  <2>5. QED
    BY <2>1, <2>2, <2>3, <2>4 DEF Line
<1>5. CASE ProbeReads(Creator)
  <2>1. PICK a \in Candidates : l.id = reg[a].id /\ l.n = heap[a].n
    BY <1>5, ProbeSays
  <2>2. UNCHANGED << tracked, faults >> /\ job[Creator].op = "probe"
    BY <1>5 DEF ProbeReads
  <2>3. a \in Addrs /\ reg[a].id # 0
    BY DEF Candidates
  <2>4. tracked[reg[a].id] = heap[a].n
    BY <2>2, <2>3, EntryNames
  <2>5. QED
    BY <2>1, <2>2, <2>4
<1>6. QED
  BY <1>1, <1>2, <1>3, <1>4, <1>5, Speaks

LEMMA AloneSame ==
  ASSUME Alone, UNCHANGED vars
  PROVE  Alone'
<1>1. UNCHANGED << game, heap, owner, generation, reg, surfaceId, releaseHooked, before,
                   tracked, faults, job, told, taken >>
  BY DEF vars, runtimeVars, deviceVars, registryVars, logVars
<1>2. PICK j : j = job[Creator]
  OBVIOUS
<1>3. job'[Creator] = j
  BY <1>1, <1>2
<1>4. /\ Traced' = Traced /\ opt' = opt /\ Candidates' = Candidates
      /\ \A a : Live(a)' = Live(a) /\ \A ops : At(ops, a)' = At(ops, a)
  BY <1>1, SameCandidates DEF Traced, opt, Live, At
<1>5. EntriesOK => EntriesOK'
  <2>1. ASSUME EntriesOK, NEW b \in Addrs PROVE EntryOK(b)' /\ ObjectOK(b)'
    BY <1>1, <1>4, <2>1 DEF EntriesOK, EntryOK, ObjectOK
  <2>2. QED
    BY <2>1 DEF EntriesOK
<1>6. CallOK => CallOK'
  BY <1>1, <1>2, <1>3, <1>4 DEF CallOK
<1>7. SurfacesOK => SurfacesOK'
  BY <1>1, <1>2, <1>3 DEF SurfacesOK
<1>8. ToldOK'
  BY <1>1, <1>2, <1>3 DEF Alone, ToldOK
<1>9. PrintsOK'
  BY <1>1, <1>2, <1>3, <1>4 DEF Alone, PrintsOK
<1>10. QED
  BY <1>1, <1>5, <1>6, <1>7, <1>8, <1>9 DEF Alone, ExactInv

\* The inductive invariant behind what the log says.
HeardInv == SoundInv /\ AloneInv /\ StaleLinesAreTrue

LEMMA InitHeard == Init => HeardInv
<1> SUFFICES ASSUME Init PROVE HeardInv
  OBVIOUS
<1>1. SoundInv /\ Alone
  BY InitSound, InitAlone
<1>2. lines = {} /\ ~repeated
  BY DEF Init
<1>3. StaleLinesAreTrue
  BY <1>2 DEF StaleLinesAreTrue, LinesNameTheirObject, ReportedOnce, StaleIsOlder
<1>4. QED
  BY <1>1, <1>3 DEF HeardInv, AloneInv, Alone

LEMMA HeardStep == HeardInv /\ [Next]_vars => HeardInv'
<1>1. ASSUME HeardInv, NEW t \in game.crew, Step(t) PROVE HeardInv'
  <2>1. SoundInv /\ SoundInv' /\ StaleIsOlder'
    BY <1>1, StepSound, StaleStep DEF HeardInv
  <2>2. OneThread' = OneThread
    BY <1>1, Speaks DEF OneThread
  <2>3. ASSUME OneThread
        PROVE  /\ Alone' /\ ~repeated'
               /\ faults' = 0 => \A l \in lines' : tracked'[l.id] = l.n
    <3>1. t = Creator
      BY <1>1, <2>1, <2>3, AloneIs
    <3>2. Alone /\ ~repeated
      BY <1>1, <2>3 DEF HeardInv, AloneInv, Alone, StaleLinesAreTrue, ReportedOnce
    <3>3. repeated' => repeated
      BY <1>1, <2>1, <2>3, <3>1, <3>2, Speaks, HookBindsTells DEF Alone
    <3>4. QED
      BY <1>1, <2>1, <2>3, <3>1, <3>2, <3>3, StepAlone, NamesStep
  <2>4. QED
    BY <2>1, <2>2, <2>3
    DEF HeardInv, AloneInv, Alone, StaleLinesAreTrue, LinesNameTheirObject, ReportedOnce
<1>2. ASSUME HeardInv, UNCHANGED vars PROVE HeardInv'
  <2>1. SoundInv'
    BY <1>2, SoundStep DEF HeardInv
  <2>2. OneThread' = OneThread /\ UNCHANGED << lines, tracked, faults, births, repeated >>
    BY <1>2 DEF OneThread, vars, registryVars, runtimeVars, logVars
  <2>3. AloneInv'
    BY <1>2, <2>2, AloneSame DEF HeardInv, AloneInv, Alone
  <2>4. StaleLinesAreTrue'
    BY <1>2, <2>2
    DEF HeardInv, StaleLinesAreTrue, LinesNameTheirObject, ReportedOnce, StaleIsOlder
  <2>5. QED
    BY <2>1, <2>3, <2>4 DEF HeardInv
<1>3. QED
  BY <1>1, <1>2 DEF Next

LEMMA HeardAlways == Spec => []HeardInv
  BY InitHeard, HeardStep, PTL DEF Spec

\* Between two calls of a game with one thread the map names exactly the
\* MANAGED objects the game holds, whatever the game did before and however
\* often the runtime gave an address out again.
THEOREM RegistryStaysExact == Spec => []RegistryIsExact
<1>1. ASSUME HeardInv PROVE RegistryIsExact
  <2> SUFFICES ASSUME OneThread, faults = 0, \A t \in Threads : job[t] = Idle
               PROVE  \A a \in Addrs :
                        /\ reg[a].id # 0 =>
                             Live(a) /\ heap[a].refs > 0 /\ tracked[reg[a].id] = heap[a].n
                        /\ Live(a) /\ heap[a].refs > 0 /\ heap[a].managed /\ Traced
                             /\ heap[a].class # "volume_texture"
                           => reg[a].id # 0 /\ reg[a].releases = heap[a].released
    BY DEF RegistryIsExact
  <2>1. EntriesOK
    BY <1>1 DEF HeardInv, AloneInv, ExactInv
  <2>2. \A ops, a : At(ops, a) => "idle" \in ops
    BY Constants, IdleIsOK DEF At
  <2>3. \A a \in Addrs : ~At({"erase"}, a) /\ ~At({"identify", "register"}, a)
    BY <2>2
  <2>4. QED
    BY <2>1, <2>3 DEF EntriesOK, EntryOK, ObjectOK
<1>2. QED
  BY <1>1, HeardAlways, PTL

\* What the log says of stale bindings is true: for any threads the resource is
\* older than the generation named; with one thread the line names the right
\* object, once for each resource, generation and kind of binding.
THEOREM StaleLinesStayTrue == Spec => []StaleLinesAreTrue
<1>1. HeardInv => StaleLinesAreTrue
  BY DEF HeardInv
<1>2. QED
  BY <1>1, HeardAlways, PTL

\* With one thread a texture said to have kept its contents over a Reset was
\* read before that Reset and held the same.
THEOREM MatchesStayTrue == Spec => MatchIsOfThisReset
<1>1. ASSUME HeardInv, [Next]_vars
      PROVE  [ OneThread => \A l \in lines' : l.what = "match" =>
                 \E a \in Addrs : heap[a].n = l.n
                                  /\ << l.n, heap[a].content >> \in taken ]_vars
  <2> SUFFICES ASSUME OneThread, NEW l \in lines', l.what = "match", ~ UNCHANGED vars
               PROVE  \E a \in Addrs : heap[a].n = l.n
                                       /\ << l.n, heap[a].content >> \in taken
    OBVIOUS
  <2>1. SoundInv /\ Alone
    BY <1>1 DEF HeardInv, AloneInv, Alone
  <2>2. Step(Creator) /\ Creator \in game.crew
    BY <1>1, <2>1, AloneIs DEF Next
  <2>3. ~HookBinds(Creator) /\ ~ScanGets(Creator)
    <3>1. HookBinds(Creator) => l.what = "bind"
      BY <2>1, <2>2, BindSays DEF Line
    <3>2. ScanGets(Creator) => l.what = "draw"
      BY <2>1, <2>2, DrawSays DEF Line
    <3>3. QED
      BY <3>1, <3>2
  <2>4. ~HookLocks(Creator) /\ ~HookLocksSurface(Creator)
    BY DEF HookLocks, HookLocksSurface, Line
  <2>5. ProbeReads(Creator)
    BY <2>2, <2>3, <2>4, Speaks
  <2>6. PICK a \in Candidates :
          l.n = heap[a].n /\ << heap[a].n, heap[a].content >> \in taken
    BY <2>1, <2>5, ProbeSays
  <2>7. QED
    BY <2>6 DEF Candidates
<1>2. QED
  BY <1>1, HeardAlways, PTL DEF Spec, MatchIsOfThisReset

----------------------------------------------------------------------------
(* Sums over a finite set.  MapThenSumSet recurs with a function on the    *)
(* subsets; that it exists, and that the order of the elements does not    *)
(* matter, is shown by least counterexamples among the subsets.            *)

SumOf(S) == MapThenSumSet(LAMBDA d : d.stale, S)
One(s) == CHOOSE x \in s : TRUE

\* g is the function MapThenSumSet recurs with, on the subsets of T.
Adds(g, T) ==
  g = [s \in SUBSET T |-> IF s = {} THEN 0 ELSE One(s).stale + g[s \ {One(s)}]]
Adder(T) == CHOOSE g : Adds(g, T)

LEMMA SumIsAdder ==
  ASSUME NEW T
  PROVE  SumOf(T) = Adder(T)[T]
  BY DEF SumOf, MapThenSumSet, MapThenFoldSet, One, Adds, Adder

LEMMA OneOf ==
  ASSUME NEW s, s # {}
  PROVE  One(s) \in s
  BY DEF One

LEMMA AddsAt ==
  ASSUME NEW g, NEW T, Adds(g, T), NEW s \in SUBSET T
  PROVE  g[s] = IF s = {} THEN 0 ELSE One(s).stale + g[s \ {One(s)}]
  BY Zenon DEF Adds

\* Some of the counterexamples among the subsets of a finite set are least.
LEMMA LeastSubset ==
  ASSUME NEW S, IsFiniteSet(S), NEW B, B \subseteq SUBSET S, B # {}
  PROVE  \E T \in B : \A U \in B : U \subseteq T => U = T
<1>1. IsWellFoundedOn(StrictSubsetOrdering(S), SUBSET S)
  BY FS_StrictSubsetOrderingWellFounded, FS_FiniteSubsetsOfFinite
<1>2. PICK T \in B : \A U \in B : ~ (<<U, T>> \in StrictSubsetOrdering(S))
  BY <1>1, WFMin
<1>3. \A U \in B : U \subseteq T /\ U # T => <<U, T>> \in StrictSubsetOrdering(S)
  BY DEF StrictSubsetOrdering
<1>4. \A U \in B : U \subseteq T => U = T
  BY <1>2, <1>3
<1>5. QED
  BY <1>4

\* Two such functions agree where both are defined.
LEMMA AddersAgree ==
  ASSUME NEW g, NEW h, NEW T, NEW U, Adds(g, T), Adds(h, U),
         NEW V, V \subseteq T, V \subseteq U, IsFiniteSet(V)
  PROVE  g[V] = h[V]
<1> DEFINE Bad == {W \in SUBSET V : g[W] # h[W]}
<1> SUFFICES ASSUME Bad # {} PROVE FALSE
  OBVIOUS
<1>0. Bad \subseteq SUBSET V
  OBVIOUS
<1>1. PICK W \in Bad : \A X \in Bad : X \subseteq W => X = W
  <2> HIDE DEF Bad
  <2>1. QED
    BY <1>0, LeastSubset
<1>2. /\ g[W] = IF W = {} THEN 0 ELSE One(W).stale + g[W \ {One(W)}]
      /\ h[W] = IF W = {} THEN 0 ELSE One(W).stale + h[W \ {One(W)}]
  BY <1>1, AddsAt
<1>3. W # {}
  BY <1>1, <1>2
<1>4. W \ {One(W)} \in SUBSET V /\ W \ {One(W)} # W
  BY <1>1, <1>3, OneOf
<1>5. g[W \ {One(W)}] = h[W \ {One(W)}]
  BY <1>1, <1>4
<1>6. QED
  BY <1>1, <1>2, <1>5

\* Such a function exists for every finite set.
LEMMA AdderAdds ==
  ASSUME NEW S, IsFiniteSet(S)
  PROVE  Adds(Adder(S), S)
<1> DEFINE Bad == {T \in SUBSET S : ~ \E g : Adds(g, T)}
<1>1. ASSUME Bad # {} PROVE FALSE
  <2>0. Bad \subseteq SUBSET S
    OBVIOUS
  <2>1. PICK T \in Bad : \A X \in Bad : X \subseteq T => X = T
    <3> HIDE DEF Bad
    <3>1. QED
      BY <1>1, <2>0, LeastSubset
  <2>2. \A X \in SUBSET T : X # T => Adds(Adder(X), X)
    BY <2>1 DEF Adder
  <2> DEFINE Rest(s) == s \ {One(s)}
             g == [s \in SUBSET T |->
                     IF s = {} THEN 0
                     ELSE One(s).stale + Adder(T \ {One(s)})[Rest(s)]]
  <2>3. \A s \in SUBSET T : s # {} =>
          /\ One(s) \in s /\ Rest(s) \in SUBSET T /\ T \ {One(s)} # T
          /\ Rest(s) \subseteq T \ {One(s)} /\ T \ {One(s)} \in SUBSET T
    BY OneOf
  <2>4. ASSUME NEW s \in SUBSET T, s # {}
        PROVE  g[Rest(s)] = Adder(T \ {One(s)})[Rest(s)]
    <3> DEFINE r == Rest(s)
    <3>0. /\ r \in SUBSET T /\ T \ {One(s)} \in SUBSET T /\ T \ {One(s)} # T
          /\ r \subseteq T \ {One(s)}
      BY <2>3, <2>4
    <3> HIDE DEF r
    <3>1. Adds(Adder(T \ {One(s)}), T \ {One(s)})
      BY <2>2, <3>0
    <3>2. Adder(T \ {One(s)})[r] =
            IF r = {} THEN 0 ELSE One(r).stale + Adder(T \ {One(s)})[Rest(r)]
      BY <3>0, <3>1, AddsAt
    <3>3. g[r] = IF r = {} THEN 0 ELSE One(r).stale + Adder(T \ {One(r)})[Rest(r)]
      BY <3>0
    <3>4. CASE r = {}
      BY <3>2, <3>3, <3>4 DEF r
    <3>5. CASE r # {}
      <4>1. /\ T \ {One(r)} \in SUBSET T /\ T \ {One(r)} # T
            /\ Rest(r) \subseteq T \ {One(r)} /\ Rest(r) \subseteq T \ {One(s)}
        BY <2>3, <3>0, <3>5
      <4>2. Adds(Adder(T \ {One(r)}), T \ {One(r)})
        BY <2>2, <4>1
      <4>3. IsFiniteSet(Rest(r))
        BY <2>1, <4>1, FS_Subset
      <4>4. Adder(T \ {One(r)})[Rest(r)] = Adder(T \ {One(s)})[Rest(r)]
        BY <3>1, <4>1, <4>2, <4>3, AddersAgree
      <4>5. QED
        BY <3>2, <3>3, <3>5, <4>4 DEF r
    <3>6. QED
      BY <3>4, <3>5
  <2>5. Adds(g, T)
    <3> HIDE DEF Rest
    <3>1. \A s \in SUBSET T :
            g[s] = IF s = {} THEN 0 ELSE One(s).stale + g[Rest(s)]
      BY <2>4
    <3>2. g = [s \in SUBSET T |-> IF s = {} THEN 0 ELSE One(s).stale + g[Rest(s)]]
      BY <3>1
    <3>3. QED
      BY <3>2, Zenon DEF Adds, Rest
  <2>6. QED
    BY <2>1, <2>5
<1>2. \E g : Adds(g, S)
  BY <1>1
<1>3. QED
  BY <1>2 DEF Adder

\* The sum of a finite set, by the element MapThenSumSet takes first.
LEMMA SumTakesOne ==
  ASSUME NEW S, IsFiniteSet(S)
  PROVE  SumOf(S) = IF S = {} THEN 0 ELSE One(S).stale + SumOf(S \ {One(S)})
<1>1. Adds(Adder(S), S)
  BY AdderAdds
<1>2. Adder(S)[S] = IF S = {} THEN 0 ELSE One(S).stale + Adder(S)[S \ {One(S)}]
  BY <1>1, AddsAt
<1>3. ASSUME S # {} PROVE Adder(S)[S \ {One(S)}] = Adder(S \ {One(S)})[S \ {One(S)}]
  <2>1. S \ {One(S)} \in SUBSET S
    OBVIOUS
  <2>2. IsFiniteSet(S \ {One(S)})
    BY <2>1, FS_Subset
  <2>3. Adds(Adder(S \ {One(S)}), S \ {One(S)})
    BY <2>2, AdderAdds
  <2>4. QED
    BY <1>1, <2>1, <2>2, <2>3, AddersAgree
<1>4. QED
  BY <1>2, <1>3, SumIsAdder

\* Sums of natural numbers are natural numbers, and any element may be taken
\* first.
LEMMA SumTakesAny ==
  ASSUME NEW S, IsFiniteSet(S), \A d \in S : d.stale \in Nat
  PROVE  /\ SumOf(S) \in Nat
         /\ \A d \in S : SumOf(S) = d.stale + SumOf(S \ {d})
<1> DEFINE Good(T) == /\ SumOf(T) \in Nat
                      /\ \A d \in T : SumOf(T) = d.stale + SumOf(T \ {d})
           Bad == {T \in SUBSET S : ~ Good(T)}
<1>1. ASSUME Bad # {} PROVE FALSE
  <2>0. Bad \subseteq SUBSET S
    OBVIOUS
  <2>1. PICK T \in Bad : \A X \in Bad : X \subseteq T => X = T
    <3> HIDE DEF Bad
    <3>1. QED
      BY <1>1, <2>0, LeastSubset
  <2>2. /\ \A X \in SUBSET T : IsFiniteSet(X)
        /\ \A X \in SUBSET T : X # T => Good(X)
        /\ \A d \in T : d.stale \in Nat
    BY <2>1, FS_Subset
  <2> HIDE DEF Bad
  <2>3. \A X \in SUBSET T : X # {} =>
          One(X) \in X /\ SumOf(X) = One(X).stale + SumOf(X \ {One(X)})
    BY <2>2, SumTakesOne, OneOf
  <2>4. CASE T = {}
    <3>1. SumOf(T) = 0
      BY <2>2, <2>4, SumTakesOne
    <3>2. QED
      BY <2>1, <2>4, <3>1 DEF Bad
  <2>5. CASE T # {}
    <3> DEFINE x == One(T)
    <3>1. x \in T /\ SumOf(T) = x.stale + SumOf(T \ {x})
      BY <2>3, <2>5
    <3> HIDE DEF x
    <3>2. Good(T \ {x}) /\ x.stale \in Nat
      BY <2>2, <3>1
    <3>3. SumOf(T) \in Nat
      BY <3>1, <3>2
    <3>4. ASSUME NEW d \in T, d # x PROVE SumOf(T) = d.stale + SumOf(T \ {d})
      <4>1. SumOf(T \ {x}) = d.stale + SumOf((T \ {x}) \ {d})
        BY <3>2, <3>4
      <4>2. Good(T \ {d}) /\ d.stale \in Nat /\ Good((T \ {x}) \ {d})
        <5>1. T \ {d} # T /\ (T \ {x}) \ {d} # T
          BY <3>4
        <5>2. QED
          BY <2>2, <5>1
      <4>3. SumOf(T \ {d}) = x.stale + SumOf((T \ {d}) \ {x})
        BY <3>1, <3>4, <4>2
      <4>4. (T \ {d}) \ {x} = (T \ {x}) \ {d}
        OBVIOUS
      <4>5. SumOf((T \ {x}) \ {d}) \in Nat
        BY <4>2
      <4>6. \A a, b, c \in Nat : a + (b + c) = b + (a + c)
        OBVIOUS
      <4>7. SumOf(T) = x.stale + (d.stale + SumOf((T \ {x}) \ {d}))
        BY <3>1, <4>1
      <4>8. SumOf(T \ {d}) = x.stale + SumOf((T \ {x}) \ {d})
        BY <4>3, <4>4
      <4>9. QED
        BY <3>2, <4>2, <4>5, <4>6, <4>7, <4>8
    <3>5. QED
      BY <2>1, <3>1, <3>3, <3>4 DEF Bad
  <2>6. QED
    BY <2>4, <2>5
<1>2. Good(S)
  BY <1>1
<1>3. QED
  BY <1>2

\* One record more, and its count is added.
LEMMA SumGrows ==
  ASSUME NEW S, IsFiniteSet(S), \A d \in S : d.stale \in Nat,
         NEW d, d \notin S, d.stale \in Nat
  PROVE  SumOf(S \cup {d}) = SumOf(S) + d.stale
<1>1. IsFiniteSet(S \cup {d}) /\ (S \cup {d}) \ {d} = S
  BY FS_AddElement
<1>2. SumOf(S \cup {d}) = d.stale + SumOf((S \cup {d}) \ {d})
  BY <1>1, SumTakesAny
<1>3. SumOf(S) \in Nat
  BY SumTakesAny
<1>4. SumOf(S \cup {d}) = d.stale + SumOf(S)
  BY <1>1, <1>2
<1>5. \A a, b \in Nat : a + b = b + a
  OBVIOUS
<1>6. QED
  BY <1>3, <1>4, <1>5

LEMMA SumOfNone == SumOf({}) = 0
  BY SumTakesOne, FS_EmptySet

----------------------------------------------------------------------------
(* The counters of the draw scans.                                         *)

\* A scan in progress, and the ticket it was given.
Scanning(j) == j.op \in {"scan", "drop"}
Ticket(j) == IF j.op = "drop" THEN j.next ELSE j

\* A ticket given before the counters were `now`.
Given(now, gen, sample) ==
  gen <= now.gen /\ (gen = now.gen => sample <= now.samples)

\* The scans the counters of this generation are the sum of.
Current == { d \in scans : d.gen = scan.gen /\ d.ended = scan.gen }

\* No two scans have the same ticket.
TotalsInv ==
  /\ IsFiniteSet(scans) /\ scan.gen <= generation
  /\ \A d \in scans :
       d.stale \in Nat /\ d.gen \in Nat /\ d.sample \in Nat /\ Given(scan, d.gen, d.sample)
  /\ \A t \in Threads : Scanning(job[t]) =>
       /\ Given(scan, Ticket(job[t]).gen, Ticket(job[t]).sample)
       /\ \A d \in scans :
            d.gen = Ticket(job[t]).gen => d.sample # Ticket(job[t]).sample
  /\ \A t, u \in Threads :
       /\ Scanning(job[t]) /\ Scanning(job[u]) /\ t # u
       /\ Ticket(job[t]).gen = Ticket(job[u]).gen
       => Ticket(job[t]).sample # Ticket(job[u]).sample
  /\ TotalsAreOwn

LEMMA TotalsIs ==
  /\ TotalsAreOwn <=> scan.stale = SumOf(Current)
  /\ TotalsAreOwn' <=> scan'.stale = SumOf(Current')
<1>1. TotalsAreOwn <=> scan.stale = SumOf(Current)
  BY DEF TotalsAreOwn, SumOf, Current
<1>2. TotalsAreOwn' <=> scan'.stale = SumOf(Current')
  BY DEF TotalsAreOwn, SumOf, Current, MapThenSumSet, MapThenFoldSet
<1>3. QED
  BY <1>1, <1>2

LEMMA TicketFacts ==
  ASSUME SoundInv, NEW t \in Threads, Scanning(job[t])
  PROVE  /\ Ticket(job[t]) \in Scan
         /\ Ticket(job[t]).gen \in Nat /\ Ticket(job[t]).sample \in Nat
         /\ Ticket(job[t]).stale \in Nat
<1>1. JobOK(job[t])
  BY DEF SoundInv, JobsOK
<1>2. Ticket(job[t]) \in Scan
  BY <1>1 DEF JobOK, Scanning, Ticket, Scan
<1>3. QED
  BY <1>2, Constants DEF Scan

LEMMA ScanFacts ==
  ASSUME SoundInv
  PROVE  /\ scan \in [gen : 0 .. MaxGeneration, samples : 0 .. SampleLimit, stale : Nat]
         /\ scan.gen \in Nat /\ scan.samples \in Nat /\ scan.stale \in Nat
         /\ generation \in Nat
<1>1. scan \in [gen : 0 .. MaxGeneration, samples : 0 .. SampleLimit, stale : Nat]
  BY DEF SoundInv, DeviceOK
<1>2. QED
  BY <1>1, Constants, GameFacts DEF SoundInv

\* A step that takes no ticket and ends no scan.
LEMMA TotalsKept ==
  ASSUME SoundInv, TotalsInv, NEW t \in Threads, Moves(t), UNCHANGED << scan, scans >>,
         generation' \in {generation, generation + 1},
         Scanning(job[t]') =>
           /\ Scanning(job[t])
           /\ Ticket(job[t]').gen = Ticket(job[t]).gen
           /\ Ticket(job[t]').sample = Ticket(job[t]).sample
  PROVE  TotalsInv'
<1>1. \A u \in Threads : Scanning(job'[u]) =>
         /\ Scanning(job[u])
         /\ Ticket(job'[u]).gen = Ticket(job[u]).gen
         /\ Ticket(job'[u]).sample = Ticket(job[u]).sample
  BY DEF Moves
<1>2. scan.gen <= generation'
  BY ScanFacts DEF TotalsInv
<1>3. TotalsAreOwn'
  BY TotalsIs DEF TotalsInv, Current
<1>4. \A d \in scans : d.stale \in Nat /\ d.gen \in Nat /\ d.sample \in Nat
                           /\ Given(scan', d.gen, d.sample)
  BY DEF TotalsInv, Given
<1>5. \A u \in Threads : Scanning(job'[u]) =>
       /\ Given(scan', Ticket(job'[u]).gen, Ticket(job'[u]).sample)
       /\ \A d \in scans : d.gen = Ticket(job'[u]).gen => d.sample # Ticket(job'[u]).sample
  BY <1>1 DEF TotalsInv, Given
<1>6. \A u, v \in Threads :
       Scanning(job'[u]) /\ Scanning(job'[v]) /\ u # v
         /\ Ticket(job'[u]).gen = Ticket(job'[v]).gen
         => Ticket(job'[u]).sample # Ticket(job'[v]).sample
  BY <1>1 DEF TotalsInv
<1>7. QED
  BY <1>2, <1>3, <1>4, <1>5, <1>6 DEF TotalsInv

\* What a step does to the job of its thread, the scans apart.
LEMMA OthersScanNothing ==
  ASSUME NEW t, Step(t),
         ~ HookDraws(t), ~ ScanGets(t), ~ ScanDrops(t), ~ ScanEnds(t)
  PROVE  /\ UNCHANGED << scan, scans >> /\ generation' \in {generation, generation + 1}
         /\ UNCHANGED job \/ \E k : job' = [job EXCEPT ![t] = k] /\ ~ Scanning(k)
<1> USE DEF Goes, Idle, deviceVars, registryVars, logVars, runtimeVars
<1>1. UNCHANGED << scan, scans >> /\ generation' \in {generation, generation + 1}
  <2>1. CASE \/ GameAddRefs(t) \/ HookCreates(t) \/ TrackIdentifies(t) \/ TrackRegisters(t)
             \/ GameReleases(t) \/ HookReleases(t) \/ OriginalReleases(t) \/ ReleaseErases(t)
    BY <2>1 DEF GameAddRefs, HookCreates, TrackIdentifies, TrackRegisters, GameReleases,
       HookReleases, OriginalReleases, ReleaseErases
  <2>2. CASE \/ HookUnbinds(t) \/ HookSets(t) \/ HookBinds(t) \/ HookLocks(t)
             \/ HookGetsSurface(t) \/ HookLocksSurface(t)
    BY <2>2 DEF HookUnbinds, HookSets, HookBinds, HookLocks, HookGetsSurface,
       HookLocksSurface
  <2>3. CASE ResetBegins(t) \/ ProbeReads(t) \/ OriginalResets(t) \/ ResetBumps(t)
    BY <2>3 DEF ResetBegins, ProbeReads, OriginalResets, ResetBumps
  <2>4. QED
    BY <2>1, <2>2, <2>3 DEF Step
<1>2. UNCHANGED job \/ \E k : job' = [job EXCEPT ![t] = k] /\ ~ Scanning(k)
  <2>1. CASE GameAddRefs(t) \/ GameReleases(t) \/ HookUnbinds(t) \/ HookLocks(t)
             \/ HookGetsSurface(t) \/ HookLocksSurface(t)
    BY <2>1 DEF GameAddRefs, GameReleases, HookUnbinds, HookLocks, HookGetsSurface,
       HookLocksSurface
  <2>2. CASE HookCreates(t)
    <3>1. PICK r \in game.requests, a \in Addrs : \E hr : Creates(t, r, a, hr)
      BY <2>2, CreatesIs
    <3>2. job' = [job EXCEPT ![t] =
             IF Traced /\ r.pool = "managed" /\ r.class # "volume_texture"
             THEN [op |-> "identify", a |-> a] ELSE Idle]
      BY <3>1 DEF Creates
    <3>3. ~ Scanning(IF Traced /\ r.pool = "managed" /\ r.class # "volume_texture"
                     THEN [op |-> "identify", a |-> a] ELSE Idle)
      BY DEF Scanning
    <3>4. QED
      BY <3>2, <3>3
  <2>3. CASE HookReleases(t)
    <3>1. \E a, id : job' = [job EXCEPT ![t] = [op |-> "release", a |-> a, id |-> id]]
      BY <2>3, ZenonT(60) DEF HookReleases
    <3>2. PICK a : \E id : job' = [job EXCEPT ![t] = [op |-> "release", a |-> a, id |-> id]]
      BY <3>1
    <3>3. PICK id : job' = [job EXCEPT ![t] = [op |-> "release", a |-> a, id |-> id]]
      BY <3>2
    <3>4. ~ Scanning([op |-> "release", a |-> a, id |-> id])
      BY DEF Scanning
    <3>5. QED
      BY <3>3, <3>4, Zenon
  <2>4. CASE HookSets(t)
    BY <2>4 DEF HookSets, Scanning
  <2>5. CASE OriginalReleases(t)
    <3>1. PICK k :
            /\ k = IF job[t].id # 0 /\ heap[job[t].a].refs = 1 /\ job[t].a \notin Queried(t)
                   THEN [op |-> "erase", a |-> job[t].a, id |-> job[t].id] ELSE Idle
            /\ job' = [job EXCEPT ![t] = k]
      BY <2>5, ZenonT(60) DEF OriginalReleases, LastReference
    <3>2. ~ Scanning(k)
      BY <3>1 DEF Scanning
    <3>3. QED
      BY <3>1, <3>2, Zenon
  <2>6. CASE TrackIdentifies(t) \/ TrackRegisters(t) \/ ReleaseErases(t) \/ HookBinds(t)
    BY <2>6 DEF TrackIdentifies, TrackRegisters, ReleaseErases, HookBinds, Scanning
  <2>7. CASE ResetBegins(t)
    <3>1. PICK k : /\ k = IF opt.probe THEN Probing(FALSE) ELSE [op |-> "reset"]
                   /\ job' = [job EXCEPT ![t] = k]
      BY <2>7, ZenonT(60) DEF ResetBegins
    <3>2. ~ Scanning(k)
      BY <3>1 DEF Probing, Scanning
    <3>3. QED
      BY <3>1, <3>2, Zenon
  <2>8. CASE ProbeReads(t)
    BY <2>8 DEF ProbeReads, Scanning
  <2>9. CASE OriginalResets(t)
    BY <2>9 DEF OriginalResets, Scanning
  <2>10. CASE ResetBumps(t)
    <3>1. PICK k : /\ k = IF opt.probe THEN Probing(TRUE) ELSE Idle
                   /\ job' = [job EXCEPT ![t] = k]
      BY <2>10, ZenonT(60) DEF ResetBumps
    <3>2. ~ Scanning(k)
      BY <3>1 DEF Probing, Scanning
    <3>3. QED
      BY <3>1, <3>2, Zenon
  <2>11. QED
    BY <2>1, <2>2, <2>3, <2>4, <2>5, <2>6, <2>7, <2>8, <2>9, <2>10 DEF Step
<1>3. QED
  BY <1>1, <1>2

LEMMA OthersTotal ==
  ASSUME SoundInv, TotalsInv, NEW t \in game.crew, Step(t),
         ~ HookDraws(t), ~ ScanGets(t), ~ ScanDrops(t), ~ ScanEnds(t)
  PROVE  TotalsInv'
<1>1. t \in Threads /\ JobsOK
  BY ThreadFacts DEF SoundInv
<1>2. /\ UNCHANGED << scan, scans >> /\ generation' \in {generation, generation + 1}
      /\ UNCHANGED job \/ \E k : job' = [job EXCEPT ![t] = k] /\ ~ Scanning(k)
  BY OthersScanNothing
<1>3. CASE UNCHANGED job
  BY <1>1, <1>2, <1>3, NoMove, TotalsKept
<1>4. CASE \E k : job' = [job EXCEPT ![t] = k] /\ ~ Scanning(k)
  <2>1. Moves(t) /\ ~ Scanning(job'[t])
    BY <1>1, <1>4, MovesBy
  <2>2. QED
    BY <1>1, <1>2, <2>1, TotalsKept
<1>5. QED
  BY <1>2, <1>3, <1>4

\* A scan that goes on keeps its ticket, whether or not it holds a reference.
LEMMA ScanGetsTotal ==
  ASSUME SoundInv, TotalsInv, NEW t \in game.crew, ScanGets(t)
  PROVE  TotalsInv'
<1>1. t \in Threads /\ JobsOK
  BY ThreadFacts DEF SoundInv
<1>2. UNCHANGED << scan, scans, generation >> /\ job[t].op = "scan"
  BY DEF ScanGets, deviceVars, logVars
<1>0. PICK j : j = job[t]
  OBVIOUS
<1>3. PICK s \in job[t].left : \E k :
        /\ job' = [job EXCEPT ![t] = k]
        /\ \/ k = [job[t] EXCEPT !.left = @ \ {s}]
           \/ k = [op |-> "drop", a |-> bound[s],
                   next |-> [job[t] EXCEPT !.left = @ \ {s}]]
           \/ k = [op |-> "drop", a |-> bound[s],
                   next |-> [[job[t] EXCEPT !.left = @ \ {s}] EXCEPT !.stale = @ + 1]]
  BY ZenonT(60) DEF ScanGets, Goes
<1>4. PICK k :
        /\ job' = [job EXCEPT ![t] = k]
        /\ \/ k = [j EXCEPT !.left = @ \ {s}]
           \/ k = [op |-> "drop", a |-> bound[s], next |-> [j EXCEPT !.left = @ \ {s}]]
           \/ k = [op |-> "drop", a |-> bound[s],
                   next |-> [[j EXCEPT !.left = @ \ {s}] EXCEPT !.stale = @ + 1]]
  BY <1>0, <1>3
<1>5. Scanning(j) /\ Ticket(j) = j /\ j \in Scan
  BY <1>0, <1>1, <1>2, TicketFacts DEF Scanning, Ticket
<1>6. /\ Scanning(k)
      /\ Ticket(k).gen = j.gen /\ Ticket(k).sample = j.sample
  <2> DEFINE next == [j EXCEPT !.left = @ \ {s}]
             more == [next EXCEPT !.stale = @ + 1]
  <2>1. next.op = "scan" /\ next.gen = j.gen /\ next.sample = j.sample
        /\ DOMAIN next = {"op", "gen", "sample", "stale", "left"}
    BY <1>5 DEF Scan
  <2>2. more.op = "scan" /\ more.gen = j.gen /\ more.sample = j.sample
    <3> HIDE DEF next
    <3>1. QED
      BY <2>1
  <2>3. \/ k = next
        \/ k.op = "drop" /\ k.next \in {next, more}
    <3> HIDE DEF more
    <3>1. k = next \/ (\E n \in {next, more} : k = [op |-> "drop", a |-> bound[s], next |-> n])
      BY <1>4, Zenon DEF more
    <3> HIDE DEF next
    <3>2. QED
      BY <3>1
  <2> HIDE DEF next, more
  <2>4. QED
    BY <2>1, <2>2, <2>3 DEF Scanning, Ticket
<1>7. Moves(t) /\ job'[t] = k
  BY <1>1, <1>4, MovesBy
<1>8. QED
  BY <1>0, <1>1, <1>2, <1>5, <1>6, <1>7, TotalsKept

LEMMA ScanDropsTotal ==
  ASSUME SoundInv, TotalsInv, NEW t \in game.crew, ScanDrops(t)
  PROVE  TotalsInv'
<1>1. t \in Threads /\ JobsOK
  BY ThreadFacts DEF SoundInv
<1>2. /\ UNCHANGED << scan, scans, generation >> /\ job[t].op = "drop"
      /\ job' = [job EXCEPT ![t] = job[t].next]
  BY DEF ScanDrops, Goes, deviceVars, logVars
<1>3. Scanning(job[t]) /\ Ticket(job[t]) = job[t].next /\ job[t].next \in Scan
  BY <1>1, <1>2, TicketFacts DEF Scanning, Ticket
<1>4. Moves(t) /\ job'[t] = job[t].next
  BY <1>1, <1>2, MovesBy
<1>5. Scanning(job[t].next) /\ Ticket(job[t].next) = job[t].next
  BY <1>3 DEF Scanning, Ticket, Scan
<1>6. QED
  BY <1>1, <1>2, <1>3, <1>4, <1>5, TotalsKept

LEMMA HookDrawsTotal ==
  ASSUME SoundInv, TotalsInv, NEW t \in game.crew, HookDraws(t)
  PROVE  TotalsInv'
<1> USE DEF runtimeVars, deviceVars, registryVars, logVars
<1> DEFINE current == IF scan.gen = generation THEN scan
                      ELSE [gen |-> generation, samples |-> 0, stale |-> 0]
           ticket == [op |-> "scan", gen |-> generation,
                      sample |-> current.samples + 1, stale |-> 0, left |-> Slots]
<1>1. t \in Threads /\ JobsOK /\ scan.gen <= generation
  BY ThreadFacts DEF SoundInv, TotalsInv
<1>2. PICK sampled \in BOOLEAN :
        /\ scan' = IF sampled THEN [current EXCEPT !.samples = @ + 1] ELSE current
        /\ job' = [job EXCEPT ![t] = IF sampled THEN ticket ELSE Idle]
        /\ UNCHANGED << scans, generation >>
  BY DEF HookDraws, Goes, ShouldSample
<1>3. /\ current.gen = generation /\ current.samples \in Nat /\ current.stale \in Nat
      /\ current = scan \/ (scan.gen < generation /\ current.samples = 0 /\ current.stale = 0)
      /\ current \in [gen : Nat, samples : Nat, stale : Nat]
      /\ current = scan => scan.gen = generation
  BY <1>1, ScanFacts
<1>4. /\ ~ Scanning(Idle)
      /\ Ticket(ticket).gen = generation /\ Ticket(ticket).sample = current.samples + 1
  BY DEF Scanning, Ticket, Idle
<1> HIDE DEF current
<1>5. /\ scan'.gen = generation /\ scan'.stale = current.stale
      /\ scan'.samples = IF sampled THEN current.samples + 1 ELSE current.samples
  BY <1>2, <1>3
<1> HIDE DEF ticket
<1>6. Moves(t) /\ job'[t] = IF sampled THEN ticket ELSE Idle
  BY <1>1, <1>2, MovesBy
\* A ticket given before is given still, and is not the new one.
<1>7. ASSUME NEW gen \in Nat, NEW sample \in Nat, Given(scan, gen, sample)
      PROVE  /\ Given(scan', gen, sample)
             /\ gen = generation => sample < current.samples + 1
  BY <1>1, <1>3, <1>5, <1>7, ScanFacts DEF Given
<1>8. Given(scan', generation, current.samples + 1) \/ ~ sampled
  BY <1>3, <1>5, ScanFacts DEF Given
<1>9. TotalsAreOwn'
  <2>1. CASE current = scan
    <3>1. scan'.gen = scan.gen /\ scan'.stale = scan.stale
      BY <1>3, <1>5, <2>1
    <3>2. Current' = Current
      BY <1>2, <3>1 DEF Current
    <3>3. QED
      BY <3>1, <3>2, TotalsIs DEF TotalsInv
  <2>2. CASE scan.gen < generation /\ current.stale = 0
    <3>1. \A d \in scans : d.gen # generation
      BY <1>1, <2>2, ScanFacts DEF TotalsInv, Given
    <3>2. Current' = {}
      BY <1>2, <1>5, <3>1 DEF Current
    <3>3. QED
      BY <1>5, <2>2, <3>2, TotalsIs, SumOfNone
  <2>3. QED
    BY <1>3, <2>1, <2>2
<1>10. \A d \in scans' : d.stale \in Nat /\ d.gen \in Nat /\ d.sample \in Nat
                          /\ Given(scan', d.gen, d.sample)
  BY <1>2, <1>7 DEF TotalsInv
<1>11. ASSUME NEW u \in Threads, Scanning(job'[u]), u # t
       PROVE  /\ job'[u] = job[u] /\ Scanning(job[u])
              /\ Ticket(job[u]).gen \in Nat /\ Ticket(job[u]).sample \in Nat
              /\ Given(scan, Ticket(job[u]).gen, Ticket(job[u]).sample)
  BY <1>6, <1>11, TicketFacts DEF Moves, TotalsInv
<1>12. ASSUME NEW u \in Threads, Scanning(job'[u])
       PROVE  /\ Given(scan', Ticket(job'[u]).gen, Ticket(job'[u]).sample)
              /\ \A d \in scans' :
                   d.gen = Ticket(job'[u]).gen => d.sample # Ticket(job'[u]).sample
  <2>1. CASE u = t
    <3>1. sampled /\ job'[u] = ticket
      BY <1>4, <1>6, <1>12, <2>1
    <3>2. \A d \in scans' : d.gen = generation => d.sample # current.samples + 1
      BY <1>2, <1>3, <1>7 DEF TotalsInv
    <3>3. QED
      BY <1>4, <1>8, <3>1, <3>2
  <2>2. CASE u # t
    BY <1>2, <1>7, <1>11, <1>12, <2>2 DEF TotalsInv
  <2>3. QED
    BY <2>1, <2>2
<1>13. ASSUME NEW u \in Threads, NEW v \in Threads, u # v,
              Scanning(job'[u]), Scanning(job'[v]),
              Ticket(job'[u]).gen = Ticket(job'[v]).gen
       PROVE  Ticket(job'[u]).sample # Ticket(job'[v]).sample
  <2>1. ASSUME NEW w \in Threads, Scanning(job'[w]), w # t,
               Scanning(job'[t]), Ticket(job'[w]).gen = Ticket(job'[t]).gen
        PROVE  Ticket(job'[w]).sample # Ticket(job'[t]).sample
    <3>1. sampled /\ job'[t] = ticket
      BY <1>4, <1>6, <2>1
    <3>2. Ticket(job'[w]).sample < current.samples + 1 /\ Ticket(job'[w]).sample \in Nat
      BY <1>4, <1>7, <1>11, <2>1, <3>1
    <3>3. QED
      BY <1>3, <1>4, <3>1, <3>2
  <2>2. CASE u # t /\ v # t
    <3>1. /\ job'[u] = job[u] /\ job'[v] = job[v]
          /\ Scanning(job[u]) /\ Scanning(job[v])
      BY <1>11, <1>13, <2>2
    <3>2. QED
      BY <1>13, <3>1 DEF TotalsInv
  <2>3. QED
    BY <1>13, <2>1, <2>2
<1>14. IsFiniteSet(scans') /\ scan'.gen <= generation'
  BY <1>2, <1>5, ScanFacts DEF TotalsInv
<1>15. QED
  BY <1>9, <1>10, <1>12, <1>13, <1>14 DEF TotalsInv

\* The record of a scan is a new one; it counts, now and in the sum, if no Reset
\* came between the ticket and the end.
LEMMA ScanEndsTotal ==
  ASSUME SoundInv, TotalsInv, NEW t \in game.crew, ScanEnds(t)
  PROVE  TotalsInv'
<1> USE DEF runtimeVars, deviceVars, registryVars, logVars
<1>0. PICK j : j = job[t]
  OBVIOUS
<1>1. t \in Threads /\ JobsOK
  BY ThreadFacts DEF SoundInv
<1>2. j \in Scan /\ Scanning(j) /\ Ticket(j) = j
      /\ j.gen \in Nat /\ j.sample \in Nat /\ j.stale \in Nat
  BY <1>0, <1>1, TicketFacts DEF ScanEnds, Scanning, Ticket
<1> DEFINE d == [gen |-> j.gen, sample |-> j.sample, stale |-> j.stale,
                 ended |-> generation]
<1>3. /\ scan' = IF j.gen = generation THEN [scan EXCEPT !.stale = @ + j.stale] ELSE scan
      /\ scans' = scans \cup {d}
      /\ job' = [job EXCEPT ![t] = Idle] /\ UNCHANGED generation
  BY <1>0 DEF ScanEnds, CountsFor, Goes
<1>4. d.gen = j.gen /\ d.sample = j.sample /\ d.stale = j.stale /\ d.ended = generation
  OBVIOUS
<1> HIDE DEF d
<1>5. /\ scan'.gen = scan.gen /\ scan'.samples = scan.samples
      /\ scan'.stale = IF j.gen = generation THEN scan.stale + j.stale ELSE scan.stale
  BY <1>2, <1>3, ScanFacts
<1>6. /\ Given(scan, j.gen, j.sample)
      /\ \A e \in scans : e.gen = j.gen => e.sample # j.sample
  BY <1>0, <1>1, <1>2 DEF TotalsInv
<1>7. d \notin scans
  BY <1>4, <1>6
<1>8. Moves(t) /\ job'[t] = Idle /\ ~ Scanning(Idle)
  BY <1>1, <1>3, MovesBy DEF Scanning, Idle
<1>9. IsFiniteSet(scans') /\ scan'.gen <= generation'
  BY <1>3, <1>5, FS_AddElement DEF TotalsInv
<1>10. TotalsAreOwn'
  <2>1. scan.stale = SumOf(Current)
    BY TotalsIs DEF TotalsInv
  <2>2. CASE j.gen = generation
    <3>1. scan.gen = generation
      BY <1>2, <1>6, <2>2, ScanFacts DEF Given, TotalsInv
    <3>2. Current' = Current \cup {d}
      BY <1>3, <1>4, <1>5, <2>2, <3>1 DEF Current
    <3>3. /\ IsFiniteSet(Current) /\ \A e \in Current : e.stale \in Nat
          /\ d \notin Current /\ d.stale \in Nat
      <4>1. Current \in SUBSET scans
        BY DEF Current
      <4>2. IsFiniteSet(Current)
        BY <4>1, FS_Subset DEF TotalsInv
      <4>3. QED
        BY <1>2, <1>4, <1>7, <4>1, <4>2 DEF TotalsInv
    <3>4. SumOf(Current') = SumOf(Current) + d.stale
      BY <3>2, <3>3, SumGrows
    <3>5. QED
      BY <1>4, <1>5, <2>1, <2>2, <3>4, TotalsIs
  <2>3. CASE j.gen # generation
    <3>1. Current' = Current
      BY <1>3, <1>4, <1>5, <2>3 DEF Current
    <3>2. QED
      BY <1>5, <2>1, <2>3, <3>1, TotalsIs
  <2>4. QED
    BY <2>2, <2>3
<1>11. \A gen, sample : Given(scan', gen, sample) <=> Given(scan, gen, sample)
  BY <1>5 DEF Given
<1>12. \A e \in scans' : e.stale \in Nat /\ e.gen \in Nat /\ e.sample \in Nat
                          /\ Given(scan', e.gen, e.sample)
  BY <1>2, <1>3, <1>4, <1>6, <1>11 DEF TotalsInv
<1>13. ASSUME NEW u \in Threads, Scanning(job'[u])
       PROVE  /\ u # t /\ job'[u] = job[u]
              /\ Given(scan', Ticket(job'[u]).gen, Ticket(job'[u]).sample)
              /\ \A e \in scans' :
                   e.gen = Ticket(job'[u]).gen => e.sample # Ticket(job'[u]).sample
  <2>1. u # t /\ job'[u] = job[u] /\ Scanning(job[u])
    BY <1>8, <1>13 DEF Moves
  <2>2. /\ Given(scan, Ticket(job[u]).gen, Ticket(job[u]).sample)
        /\ \A e \in scans : e.gen = Ticket(job[u]).gen => e.sample # Ticket(job[u]).sample
        /\ j.gen = Ticket(job[u]).gen => j.sample # Ticket(job[u]).sample
    BY <1>0, <1>1, <1>2, <2>1 DEF TotalsInv
  <2>3. QED
    BY <1>3, <1>4, <1>11, <2>1, <2>2
<1>14. \A u, v \in Threads :
        Scanning(job'[u]) /\ Scanning(job'[v]) /\ u # v
          /\ Ticket(job'[u]).gen = Ticket(job'[v]).gen
          => Ticket(job'[u]).sample # Ticket(job'[v]).sample
  BY <1>13 DEF TotalsInv
<1>15. QED
  BY <1>9, <1>10, <1>12, <1>13, <1>14 DEF TotalsInv

LEMMA TotalsInit == Init => TotalsInv
<1> SUFFICES ASSUME Init PROVE TotalsInv
  OBVIOUS
<1>1. scans = {} /\ scan = [gen |-> 0, samples |-> 0, stale |-> 0] /\ generation = 1
      /\ \A t \in Threads : ~ Scanning(job[t])
  BY DEF Init, Scanning, Idle
<1>2. TotalsAreOwn
  <2>1. Current = {}
    BY <1>1 DEF Current
  <2>2. QED
    BY <1>1, <2>1, TotalsIs, SumOfNone
<1>3. QED
  BY <1>1, <1>2, FS_EmptySet DEF TotalsInv

LEMMA TotalsStep == SoundInv /\ TotalsInv /\ [Next]_vars => TotalsInv'
<1>1. ASSUME SoundInv, TotalsInv, NEW t \in game.crew, Step(t) PROVE TotalsInv'
  BY <1>1, HookDrawsTotal, ScanGetsTotal, ScanDropsTotal, ScanEndsTotal, OthersTotal
<1>2. ASSUME SoundInv, TotalsInv, UNCHANGED vars PROVE TotalsInv'
  <2>1. UNCHANGED << scan, scans, generation, job >>
    BY <1>2 DEF vars, deviceVars, logVars
  <2>2. Creator \in Threads /\ Moves(Creator) /\ job'[Creator] = job[Creator]
    BY <1>2, <2>1, Constants, NoMove DEF SoundInv
  <2>3. QED
    BY <1>2, <2>1, <2>2, TotalsKept
<1>3. QED
  BY <1>1, <1>2 DEF Next

\* The counters of a generation are the sum of that generation's own scans, for
\* any threads and however Resets fall between a scan's ticket and its end: no
\* two scans have the same ticket, and a ticket of the present generation is one
\* the counters have given.
THEOREM TotalsStayOwn == Spec => []TotalsAreOwn
<1>1. TotalsInv => TotalsAreOwn
  BY DEF TotalsInv
<1>2. QED
  BY <1>1, SoundAlways, TotalsInit, TotalsStep, PTL DEF Spec
=============================================================================
