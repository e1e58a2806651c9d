-------------------------- MODULE ManagedResources --------------------------
(***************************************************************************)
(* The observer's tracing of D3DPOOL_MANAGED resources                     *)
(* (src/d3d9_real_observer_probe/proxy.cpp): the hooks on the creation,    *)
(* Release, Lock, GetSurfaceLevel, SetTexture / SetStreamSource /          *)
(* SetIndices, draw and Reset calls of one device.  g_managed_resources is *)
(* keyed by ADDRESS and guarded by a mutex of its own; the device's        *)
(* generation is under g_state_mutex.  A section under a mutex is a step,  *)
(* and so is a call into the runtime, which is made without them.          *)
(***************************************************************************)
EXTENDS ManagedCompat, FiniteSetsExt, Integers, Sequences

CONSTANTS
  Threads, Creator,     \* the game's threads; the one that may Reset
  Addrs, Surfaces,      \* addresses of resources, of their surfaces
  None,
  Games,                \* the games played, see GameOK
  SampleLimit,          \* kManagedDrawStateSampleLimit
  MaxRefs, MaxObjects, MaxGeneration   \* bounds

Setting == [ex : BOOLEAN, census : BOOLEAN, semantic : BOOLEAN,
            fallback : BOOLEAN, probe : BOOLEAN]
Request == [class : Classes, usage : Usages, pool : Pools, shared : BOOLEAN,
            shape : BOOLEAN]   \* shape: the sizes seen in the game's startup

\* A game: the switches of its environment, the threads that call the device,
\* the creation calls they make, the addresses the runtime hands out to it, and
\* how many objects it creates, generations it lives through and refusals of
\* VirtualProtect it meets.
GameOK(g) ==
  /\ g.opt \in Setting /\ g.requests \subseteq Request
  /\ g.crew \subseteq Threads /\ Creator \in g.crew
  /\ g.memory \subseteq Addrs \cup Surfaces
  /\ g.objects \in 1 .. MaxObjects /\ g.generations \in 1 .. MaxGeneration
  /\ g.faults \in Nat

ASSUME ManagedAssumption ==
  /\ Creator \in Threads /\ IsFiniteSet(Threads)
  /\ Addrs \cap Surfaces = {} /\ None \notin Addrs \cup Surfaces
  /\ \A g \in Games : GameOK(g)
  /\ SampleLimit \in Nat /\ MaxObjects \in Nat
  /\ MaxRefs \in Nat \ {0} /\ MaxGeneration \in Nat \ {0}

VARIABLES
  game,       \* the game that is played
  \* the runtime (external)
  heap,       \* what lives at each address
  births,     \* history: the generation in which each object was made
  bound,      \* the device's bindings
  owner,      \* the resource each surface belongs to
  \* DeviceState: resource_generation and the managed_draw_scan_* counters
  generation,
  scan,
  \* g_managed_resources, g_managed_surfaces, the next id, the classes whose
  \* Release is hooked, the fingerprints taken before a Reset
  reg, surfaceId, nextId, releaseHooked, before,
  tracked,    \* history: the object each id was given to
  faults,     \* refusals of VirtualProtect so far
  job,        \* what each thread is doing
  \* history
  lines,      \* the lines a step logs: stale bindings, locks, verdicts
  told,       \* the stale bindings reported so far
  repeated,   \* one of them was reported again
  scans,      \* the draw scans that ended
  taken       \* the valid fingerprints of the Reset in progress

runtimeVars == << heap, births, bound, owner >>
deviceVars == << generation, scan >>
registryVars == << reg, surfaceId, nextId, releaseHooked, before, tracked, faults >>
logVars == << told, repeated, scans, taken >>
vars == << game, runtimeVars, deviceVars, registryVars, job, lines, logVars >>

Slots == {"texture", "stream", "indices"}
SlotOf(class) ==
  CASE class = "vertex_buffer" -> "stream"
    [] class = "index_buffer" -> "indices"
    [] OTHER -> "texture"

opt == game.opt
Traced == opt.census \/ opt.semantic      \* managed_resource_trace_requested
Idle == [op |-> "idle"]
Free == [n |-> 0]
NoEntry == [id |-> 0]
NoFingerprint == [valid |-> FALSE, content |-> 0]
Goes(t, j) == job' = [job EXCEPT ![t] = j]
Silent == lines' = {}

Init ==
  /\ game \in Games
  /\ heap = [a \in Addrs |-> Free] /\ births = << >>
  /\ bound = [s \in Slots |-> None] /\ owner = [s \in Surfaces |-> None]
  /\ generation = 1 /\ scan = [gen |-> 0, samples |-> 0, stale |-> 0]
  /\ reg = [a \in Addrs |-> NoEntry] /\ surfaceId = [s \in Surfaces |-> 0]
  /\ nextId = 1 /\ releaseHooked = {} /\ tracked = << >> /\ faults = 0
  /\ before = [i \in 1 .. MaxObjects |-> NoFingerprint]
  /\ job = [t \in Threads |-> Idle]
  /\ lines = {} /\ told = {} /\ repeated = FALSE /\ scans = {} /\ taken = {}

----------------------------------------------------------------------------
(* The runtime.  `refs` are the references the game holds; a query of the  *)
(* observer holds one more for a moment.  A bound object without           *)
(* references lives until it is unbound.                                   *)

Live(a) == heap[a].n # 0

\* Threads with a call of the game in progress on a: creating it, giving a
\* reference up, binding it.
Busy(op, a) == { t \in Threads : job[t].op = op /\ job[t].a = a }
Creating(a) == Busy("identify", a) \cup Busy("register", a) # {}

\* References no release in progress has given up.
Spare(a) == heap[a].refs - Cardinality(Busy("release", a))

\* The game may call a: a creation of it has returned and it holds it.
Usable(a) == Live(a) /\ ~Creating(a) /\ Spare(a) > 0

\* Addresses a query of a thread other than t holds a reference to.
Queried(t) ==
  UNION { IF job[u].op = "drop" THEN {job[u].a}
          ELSE IF job[u].op = "probe" THEN job[u].cand ELSE {}
          : u \in Threads \ {t} }

\* The runtime frees what nobody refers to in references `h` and bindings
\* `b` any more; `kept` are addresses somebody else refers to.
Reap(h, b, kept) ==
  LET rest == [a \in Addrs |->
        IF /\ h[a].n # 0 /\ h[a].refs = 0
           /\ a \notin kept \cup { b[s] : s \in Slots }
        THEN Free ELSE h[a]] IN
  /\ heap' = rest
  /\ bound' = b
  /\ owner' = [s \in Surfaces |->
       IF owner[s] # None /\ rest[owner[s]].n = 0 THEN None ELSE owner[s]]

\* The game takes another reference; AddRef is not hooked.
GameAddRefs(t) ==
  /\ job[t] = Idle
  /\ \E a \in Addrs :
       /\ Usable(a) /\ heap[a].refs + heap[a].released < MaxRefs
       /\ heap' = [heap EXCEPT ![a].refs = @ + 1]
  /\ Silent
  /\ UNCHANGED << game, births, bound, owner, deviceVars, registryVars, job,
                  logVars >>

----------------------------------------------------------------------------
(* Creation: hook_create_texture, _volume_texture, _cube_texture,          *)
(* _vertex_buffer, _index_buffer.                                          *)

\* What a call may return: D3D9Ex has no MANAGED pool.
Answers(pool) == IF opt.ex /\ pool = "managed" THEN {"invalidcall"} ELSE Results

\* The older fallback: the exact resources of the startup, DEFAULT as asked.
Fallback(r, hr) ==
  [retry |-> /\ opt.fallback /\ r.shape /\ Adaptable(r.class, r.usage)
             /\ Refused(r.pool, r.shared, hr),
   usage |-> r.usage, pool |-> "default"]

\* The fallback before the adaptation: a bug in the order of the two.
RetryFallbackFirst(r, hr) ==
  LET plan == Plan(r.class, r.usage, r.pool, r.shared, hr) IN
  IF ~Fallback(r, hr).retry /\ opt.semantic THEN plan ELSE Fallback(r, hr)

\* The second attempt a hook makes, if any.
Retry(r, hr) ==
  LET plan == Plan(r.class, r.usage, r.pool, r.shared, hr) IN
  IF opt.semantic /\ plan.retry THEN plan ELSE Fallback(r, hr)

\* A texture of the DEFAULT pool can be locked only when it is dynamic.
Lockable(class, m) ==
  class \in Buffers \/ m.pool # "default" \/ "dynamic" \in m.usage

\* A creation that fails changes nothing.
HookCreates(t) ==
  /\ job[t] = Idle /\ Len(births) < game.objects
  /\ \E r \in game.requests, a \in {b \in Addrs \cap game.memory : ~Live(b)} :
     \E hr \in Answers(r.pool) :
       LET again == hr # "ok"
           made == IF again THEN Retry(r, hr)
                   ELSE [retry |-> FALSE, usage |-> r.usage, pool |-> r.pool] IN
       /\ again => made.retry /\ "ok" \in Answers(made.pool)
       /\ heap' = [heap EXCEPT ![a] =
            [n |-> Len(births) + 1, class |-> r.class,
             managed |-> r.pool = "managed",
             lockable |-> Lockable(r.class, made),
             refs |-> 1, released |-> 0, content |-> 0]]
       /\ births' = Append(births, generation)
       /\ Goes(t, IF Traced /\ r.pool = "managed" /\ r.class # "volume_texture"
                  THEN [op |-> "identify", a |-> a] ELSE Idle)
  /\ Silent
  /\ UNCHANGED << game, bound, owner, deviceVars, registryVars, logVars >>

\* track_managed_resource: the identity, under g_state_mutex ...
TrackIdentifies(t) ==
  /\ job[t].op = "identify"
  /\ Goes(t, [op |-> "register", a |-> job[t].a, gen |-> generation])
  /\ Silent
  /\ UNCHANGED << game, runtimeVars, deviceVars, registryVars, logVars >>

\* ... then the entry, under the other mutex, and the hook on Release, which
\* VirtualProtect may refuse.
TrackRegisters(t) ==
  LET a == job[t].a IN
  /\ job[t].op = "register"
  /\ reg' = [reg EXCEPT ![a] =
       [id |-> nextId, kind |-> heap[a].class, creation |-> job[t].gen,
        releases |-> 0, bgen |-> 0, mask |-> {}]]
  /\ nextId' = nextId + 1 /\ tracked' = Append(tracked, heap[a].n)
  /\ \/ releaseHooked' = releaseHooked \cup {heap[a].class} /\ UNCHANGED faults
     \/ /\ faults < game.faults /\ heap[a].class \notin releaseHooked
        /\ faults' = faults + 1 /\ UNCHANGED releaseHooked
  /\ Goes(t, Idle)
  /\ Silent
  /\ UNCHANGED << game, runtimeVars, deviceVars, surfaceId, before, logVars >>

----------------------------------------------------------------------------
(* hook_managed_resource_release.                                          *)

\* The game gives a reference up; never the last one under a running call.
MayRelease(a) == Usable(a) /\ (Spare(a) > 1 \/ Busy("take", a) = {})

\* A Release the hook is not on.
GameReleases(t) ==
  /\ job[t] = Idle
  /\ \E a \in Addrs :
       /\ MayRelease(a) /\ heap[a].class \notin releaseHooked
       /\ Reap([heap EXCEPT ![a].refs = @ - 1], bound, Queried(t))
  /\ Silent
  /\ UNCHANGED << game, births, deviceVars, registryVars, job, logVars >>

\* The call is counted in a copy of the entry: a bug that loses the count.
CountedInACopy(a) == reg

\* One more call at the entry of a, if there is one.
Counted(a) ==
  IF reg[a].id = 0 THEN reg ELSE [reg EXCEPT ![a].releases = @ + 1]

\* The hook, up to the call of the original: the entry at the address.
HookReleases(t) ==
  /\ job[t] = Idle
  /\ \E a \in Addrs :
       /\ MayRelease(a) /\ heap[a].class \in releaseHooked
       /\ heap' = [heap EXCEPT ![a].released = @ + 1]
       /\ reg' = Counted(a)
       /\ Goes(t, [op |-> "release", a |-> a, id |-> reg[a].id])
  /\ Silent
  /\ UNCHANGED << game, births, bound, owner, deviceVars, surfaceId, nextId,
                  releaseHooked, before, tracked, faults, logVars >>

\* Any Release erases the entry: a bug that forgets what the game still holds.
AnyReference(a, t) == TRUE

\* The original returns zero: t gives up the only reference to a.
LastReference(a, t) == heap[a].refs = 1 /\ a \notin Queried(t)

\* The original, and whether the entry is to go with the object.
OriginalReleases(t) ==
  LET a == job[t].a IN
  /\ job[t].op = "release"
  /\ Reap([heap EXCEPT ![a].refs = @ - 1], bound, Queried(t))
  /\ Goes(t, IF job[t].id # 0 /\ LastReference(a, t)
             THEN [op |-> "erase", a |-> a, id |-> job[t].id] ELSE Idle)
  /\ Silent
  /\ UNCHANGED << game, births, deviceVars, registryVars, logVars >>

\* The surface records outlive their resource: a bug in the erasure.
EraseKeepingSurfaces(a, id) ==
  /\ reg' = [reg EXCEPT ![a] = NoEntry]
  /\ UNCHANGED surfaceId

\* The entry outlives its object: a bug that misnames the next one there.
EraseSurfacesOnly(a, id) ==
  /\ surfaceId' = [s \in Surfaces |-> IF surfaceId[s] = id THEN 0 ELSE surfaceId[s]]
  /\ UNCHANGED reg

\* The erasure: by address, and the surfaces by the id noted before.
Erase(a, id) ==
  /\ reg' = [reg EXCEPT ![a] = NoEntry]
  /\ surfaceId' = [s \in Surfaces |-> IF surfaceId[s] = id THEN 0 ELSE surfaceId[s]]

ReleaseErases(t) ==
  /\ job[t].op = "erase"
  /\ Erase(job[t].a, job[t].id)
  /\ Goes(t, Idle)
  /\ Silent
  /\ UNCHANGED << game, runtimeVars, deviceVars, nextId, releaseHooked, before,
                  tracked, faults, logVars >>

----------------------------------------------------------------------------
(* hook_set_texture, hook_set_stream_source, hook_set_indices.             *)

Line(what, id, n, slot, gen) ==
  [what |-> what, id |-> id, n |-> n, slot |-> slot, gen |-> gen]

\* A null resource: nothing to observe.
HookUnbinds(t) ==
  /\ job[t] = Idle
  /\ \E s \in Slots :
       /\ bound[s] # None
       /\ Reap(heap, [bound EXCEPT ![s] = None], Queried(t))
  /\ Silent
  /\ UNCHANGED << game, births, deviceVars, registryVars, job, logVars >>

\* take_stale_managed_binding_observation: the generation, under
\* g_state_mutex ...
HookSets(t) ==
  /\ job[t] = Idle
  /\ \E a \in Addrs :
       Usable(a) /\ Goes(t, [op |-> "take", a |-> a, gen |-> generation])
  /\ Silent
  /\ UNCHANGED << game, runtimeVars, deviceVars, registryVars, logVars >>

\* The entry at a, older than `gen` and of a kind the slot takes.
StaleAt(a, slot, gen) ==
  /\ Traced /\ reg[a].id # 0
  /\ SlotOf(reg[a].kind) = slot
  /\ ShouldTraceStale(reg[a].creation, gen)

\* Nothing is noted about what was reported: a bug that repeats the lines.
NotedNever(e, slot, gen) == e

\* The bits of the kinds of binding reported in a generation.
Noted(e, slot, gen) ==
  [e EXCEPT !.bgen = gen,
            !.mask = IF e.bgen = gen THEN @ \cup {slot} ELSE {slot}]

\* ... then the entry, under the other mutex, the original and the line.
HookBinds(t) ==
  LET a == job[t].a
      gen == job[t].gen
      slot == SlotOf(heap[a].class)
      stale == StaleAt(a, slot, gen)
                 /\ ~(reg[a].bgen = gen /\ slot \in reg[a].mask)
      line == Line("bind", reg[a].id, heap[a].n, slot, gen) IN
  /\ job[t].op = "take"
  /\ reg' = IF stale THEN [reg EXCEPT ![a] = Noted(@, slot, gen)] ELSE reg
  /\ lines' = IF stale THEN {line} ELSE {}
  /\ told' = IF stale THEN told \cup {<< line.id, slot, gen >>} ELSE told
  /\ repeated' = (repeated \/ (stale /\ << line.id, slot, gen >> \in told))
  /\ Reap(heap, [bound EXCEPT ![slot] = a], Queried(t))
  /\ Goes(t, Idle)
  /\ UNCHANGED << game, births, deviceVars, surfaceId, nextId, releaseHooked,
                  before, tracked, faults, scans, taken >>

----------------------------------------------------------------------------
(* observe_managed_draw_state, in hook_draw_primitive and                  *)
(* hook_draw_indexed_primitive.                                            *)

\* acquire_managed_draw_scan_ticket
HookDraws(t) ==
  LET current == IF scan.gen = generation THEN scan
                 ELSE [gen |-> generation, samples |-> 0, stale |-> 0]
      sampled == ShouldSample(generation, current.samples, SampleLimit) IN
  /\ job[t] = Idle /\ Traced
  /\ scan' = IF sampled THEN [current EXCEPT !.samples = @ + 1] ELSE current
  /\ Goes(t, IF sampled
             THEN [op |-> "scan", gen |-> generation,
                   sample |-> current.samples + 1, stale |-> 0, left |-> Slots]
             ELSE Idle)
  /\ Silent
  /\ UNCHANGED << game, runtimeVars, generation, registryVars, logVars >>

\* One binding, read with a reference; the read may fail.
ScanGets(t) ==
  /\ job[t].op = "scan"
  /\ \E s \in job[t].left :
       LET a == bound[s]
           next == [job[t] EXCEPT !.left = @ \ {s}]
           stale == a # None /\ StaleAt(a, s, job[t].gen) IN
       \/ Goes(t, next) /\ Silent
       \/ /\ a # None
          /\ Goes(t, [op |-> "drop", a |-> a,
                      next |-> IF stale THEN [next EXCEPT !.stale = @ + 1]
                               ELSE next])
          /\ lines' = IF ~stale THEN {}
                      ELSE {Line("draw", reg[a].id, heap[a].n, s, job[t].gen)}
  /\ UNCHANGED << game, runtimeVars, deviceVars, registryVars, logVars >>

\* release_managed_draw_query_reference: the hook lets it pass unobserved.
ScanDrops(t) ==
  /\ job[t].op = "drop"
  /\ Reap(heap, bound, Queried(t))
  /\ Goes(t, job[t].next)
  /\ Silent
  /\ UNCHANGED << game, births, deviceVars, registryVars, logVars >>

\* The generation is not compared: a bug that mixes two generations.
CountsForAny(ticket) == TRUE

\* finish_managed_draw_scan_sample: only the ticket's generation is added to.
CountsFor(ticket) == ticket.gen = generation

ScanEnds(t) ==
  /\ job[t].op = "scan" /\ job[t].left = {}
  /\ scan' = IF CountsFor(job[t])
             THEN [scan EXCEPT !.stale = @ + job[t].stale] ELSE scan
  /\ scans' = scans \cup {[gen |-> job[t].gen, sample |-> job[t].sample,
                           stale |-> job[t].stale, ended |-> generation]}
  /\ Goes(t, Idle)
  /\ Silent
  /\ UNCHANGED << game, runtimeVars, generation, registryVars, told, repeated,
                  taken >>

----------------------------------------------------------------------------
(* The hooks on Lock and Unlock and on the surfaces of textures.           *)

\* managed_resource_id: the entry at the address, if it is of the kind.
IdAt(a) == IF Traced /\ reg[a].id # 0 /\ reg[a].kind = heap[a].class
           THEN reg[a].id ELSE 0

\* Contents matter to the probe only.
Contents == IF opt.probe THEN 0 .. 1 ELSE {0}

\* The game locks, writes and unlocks.
HookLocks(t) ==
  /\ job[t] = Idle
  /\ \E a \in Addrs, content \in Contents :
       /\ Usable(a) /\ heap[a].lockable
       /\ heap' = [heap EXCEPT ![a].content = content]
       /\ lines' = IF IdAt(a) = 0 THEN {}
                   ELSE {Line("lock", IdAt(a), heap[a].n, SlotOf(heap[a].class), 0)}
  /\ UNCHANGED << game, births, bound, owner, deviceVars, registryVars, job,
                  logVars >>

\* hook_texture_get_surface_level, hook_cube_texture_get_cube_map_surface
HookGetsSurface(t) ==
  /\ job[t] = Idle
  /\ \E a \in Addrs, s \in Surfaces \cap game.memory :
       /\ Usable(a) /\ heap[a].class \in Textures /\ owner[s] = None
       /\ owner' = [owner EXCEPT ![s] = a]
       /\ surfaceId' = IF IdAt(a) = 0 THEN surfaceId
                       ELSE [surfaceId EXCEPT ![s] = IdAt(a)]
  /\ Silent
  /\ UNCHANGED << game, heap, births, bound, deviceVars, reg, nextId,
                  releaseHooked, before, tracked, faults, job, logVars >>

\* hook_surface_lock_rect, hook_surface_unlock_rect
HookLocksSurface(t) ==
  /\ job[t] = Idle
  /\ \E s \in Surfaces :
       /\ owner[s] # None /\ Usable(owner[s]) /\ surfaceId[s] # 0
       /\ lines' = {Line("lock", surfaceId[s], heap[owner[s]].n, "texture", 0)}
  /\ UNCHANGED << game, runtimeVars, deviceVars, registryVars, job, logVars >>

----------------------------------------------------------------------------
(* hook_reset, with probe_managed_texture_content_across_reset around it.  *)

\* The textures of the map, each with a reference more.  An entry whose
\* object is gone has nothing to refer to: see RegistryIsExact.
Candidates == { a \in Addrs : Traced /\ reg[a].id # 0
                                /\ reg[a].kind = "texture2d" /\ Live(a) }

Probing(after) ==
  [op |-> "probe", after |-> after, cand |-> Candidates,
   id |-> [a \in Candidates |-> reg[a].id]]

ResetBegins(t) ==
  /\ t = Creator /\ job[t] = Idle /\ generation < game.generations
  /\ taken' = {}
  /\ Goes(t, IF opt.probe THEN Probing(FALSE) ELSE [op |-> "reset"])
  /\ Silent
  /\ UNCHANGED << game, runtimeVars, deviceVars, registryVars, told, repeated,
                  scans >>

\* A texture that could not be read keeps its older fingerprint: a bug.
StoredIfValid(id, valid, content) ==
  IF valid THEN [valid |-> TRUE, content |-> content] ELSE before[id]

Stored(id, valid, content) ==
  IF valid THEN [valid |-> TRUE, content |-> content] ELSE NoFingerprint

\* The fingerprints, by id; `ok` are the textures that could be read.
ProbeReads(t) ==
  LET cand == job[t].cand
      id == job[t].id IN
  /\ job[t].op = "probe"
  /\ \E ok \in SUBSET {a \in cand : heap[a].lockable} :
       \/ /\ ~job[t].after
          /\ before' = [i \in DOMAIN before |->
               IF \A a \in cand : id[a] # i THEN before[i]
               ELSE LET a == CHOOSE c \in cand : id[c] = i
                    IN Stored(i, a \in ok, heap[a].content)]
          /\ taken' = { << heap[a].n, heap[a].content >> : a \in ok }
          /\ Goes(t, [op |-> "reset"]) /\ Silent
       \/ /\ job[t].after
          /\ lines' =
               { Line("match", id[a], heap[a].n, "texture", generation)
                 : a \in {c \in ok : before[id[c]] =
                            [valid |-> TRUE, content |-> heap[c].content]} }
          /\ Goes(t, Idle)
          /\ UNCHANGED << before, taken >>
  /\ Reap(heap, bound, Queried(t))
  /\ UNCHANGED << game, births, deviceVars, reg, surfaceId, nextId,
                  releaseHooked, tracked, faults, told, repeated, scans >>

\* The original fails, or unbinds everything and may lose contents.
OriginalResets(t) ==
  /\ job[t].op = "reset"
  /\ \/ Goes(t, Idle) /\ UNCHANGED runtimeVars
     \/ /\ \E lost \in SUBSET {a \in Addrs : Live(a) /\ opt.probe} :
             Reap([a \in Addrs |-> IF a \in lost THEN [heap[a] EXCEPT !.content = 1 - @]
                                   ELSE heap[a]],
                  [s \in Slots |-> None], Queried(t))
        /\ Goes(t, [op |-> "bump"])
        /\ UNCHANGED births
  /\ Silent
  /\ UNCHANGED << game, deviceVars, registryVars, logVars >>

ResetBumps(t) ==
  /\ job[t].op = "bump"
  /\ generation' = generation + 1
  /\ Goes(t, IF opt.probe THEN Probing(TRUE) ELSE Idle)
  /\ Silent
  /\ UNCHANGED << game, runtimeVars, scan, registryVars, logVars >>

----------------------------------------------------------------------------
Step(t) ==
  \/ GameAddRefs(t) \/ HookCreates(t) \/ TrackIdentifies(t) \/ TrackRegisters(t)
  \/ GameReleases(t) \/ HookReleases(t) \/ OriginalReleases(t) \/ ReleaseErases(t)
  \/ HookUnbinds(t) \/ HookSets(t) \/ HookBinds(t)
  \/ HookDraws(t) \/ ScanGets(t) \/ ScanDrops(t) \/ ScanEnds(t)
  \/ HookLocks(t) \/ HookGetsSurface(t) \/ HookLocksSurface(t)
  \/ ResetBegins(t) \/ ProbeReads(t) \/ OriginalResets(t) \/ ResetBumps(t)

Next == \E t \in game.crew : Step(t)

Spec == Init /\ [][Next]_vars

----------------------------------------------------------------------------
(* Properties.                                                             *)

Object ==
  [n : 1 .. MaxObjects, class : Classes, managed : BOOLEAN,
   lockable : BOOLEAN, refs : 0 .. MaxRefs, released : Nat, content : 0 .. 1]
Entry ==
  [id : 1 .. MaxObjects, kind : Classes \ {"volume_texture"},
   creation : 1 .. MaxGeneration, releases : Nat,
   bgen : 0 .. MaxGeneration, mask : SUBSET Slots]
Scan ==
  [op : {"scan"}, gen : 2 .. MaxGeneration, sample : 1 .. SampleLimit,
   stale : 0 .. 3, left : SUBSET Slots]

\* What a thread may be doing.
JobOK(j) ==
  \/ j \in [op : {"idle", "reset", "bump"}]
  \/ j \in [op : {"identify"}, a : Addrs]
  \/ j \in [op : {"register", "take"}, a : Addrs, gen : 1 .. MaxGeneration]
  \/ j \in [op : {"release", "erase"}, a : Addrs, id : 0 .. MaxObjects]
  \/ j \in Scan
  \/ j \in [op : {"drop"}, a : Addrs, next : Scan]
  \/ /\ j.op = "probe" /\ j.after \in BOOLEAN /\ j.cand \subseteq Addrs
     /\ j.id \in [j.cand -> 1 .. MaxObjects]

\* Every variable stays in its range: ids are given out one for each object,
\* a ticket is never above the sample limit, a Reset is the creator's alone.
ManagedTypeOK ==
  /\ GameOK(game)
  /\ \A a \in Addrs : heap[a] = Free \/ heap[a] \in Object
  /\ births \in Seq(1 .. MaxGeneration) /\ Len(births) <= MaxObjects
  /\ bound \in [Slots -> Addrs \cup {None}]
  /\ owner \in [Surfaces -> Addrs \cup {None}]
  /\ generation \in 1 .. MaxGeneration
  /\ scan \in [gen : 0 .. MaxGeneration, samples : 0 .. SampleLimit, stale : Nat]
  /\ \A a \in Addrs : reg[a] = NoEntry \/ reg[a] \in Entry
  /\ surfaceId \in [Surfaces -> 0 .. MaxObjects]
  /\ nextId = Len(tracked) + 1 /\ Len(tracked) <= Len(births)
  /\ \A i \in DOMAIN tracked : tracked[i] \in DOMAIN births
  /\ \A t \in Threads :
       /\ JobOK(job[t])
       /\ job[t].op \in {"reset", "bump", "probe"} => t = Creator

\* Every object the game asked for as MANAGED can be locked when the semantic
\* adaptation is on, whichever pool it ended in (hook_create_*): the resources
\* of the game's startup are filled through Lock.
AdaptedIsLockable ==
  opt.semantic => \A a \in Addrs :
    Live(a) /\ heap[a].managed /\ heap[a].class # "volume_texture"
      => heap[a].lockable

\* The counters of a generation are the sum of the scans of that generation
\* that ended in it (acquire_, finish_managed_draw_scan_sample), whichever
\* Resets and other draws ran between a scan's ticket and its end.
TotalsAreOwn ==
  scan.stale = MapThenSumSet(LAMBDA d : d.stale,
                 { d \in scans : d.gen = scan.gen /\ d.ended = scan.gen })

\* A resource reported stale was made in an older generation than the report
\* names, whatever happened between the reading of the generation and of the
\* entry (take_stale_..., lookup_stale_..., track_managed_resource).
StaleIsOlder ==
  \A l \in lines : l.what \in {"bind", "draw"} => births[tracked[l.id]] < l.gen

\* No two hooks ever run together.
OneThread == Cardinality(game.crew) = 1

\* With the hooks called one at a time, the map names exactly the MANAGED
\* objects the game holds: no entry outlives its object to be taken for the
\* next one at the address (hook_managed_resource_release).
RegistryIsExact ==
  OneThread /\ faults = 0 /\ (\A t \in Threads : job[t] = Idle) =>
    \A a \in Addrs :
      /\ reg[a].id # 0 =>
           Live(a) /\ heap[a].refs > 0 /\ tracked[reg[a].id] = heap[a].n
      /\ Live(a) /\ heap[a].refs > 0 /\ heap[a].managed /\ Traced
           /\ heap[a].class # "volume_texture"
         => reg[a].id # 0 /\ reg[a].releases = heap[a].released

\* With the hooks called one at a time, every line of the log names the object
\* it is about, a surface's by the id of its texture (managed_surface_trace).
LinesNameTheirObject ==
  OneThread /\ faults = 0 => \A l \in lines : tracked[l.id] = l.n

\* With the hooks called one at a time, a stale binding is reported once for
\* each resource, generation and kind of binding (binding_mask).
ReportedOnce == OneThread => ~repeated

\* What the log says of stale bindings: the right object, once, and that it is
\* older than the generation it is bound in.
StaleLinesAreTrue == LinesNameTheirObject /\ ReportedOnce /\ StaleIsOlder

\* With the hooks called one at a time, a texture is said to have kept its
\* contents over a Reset only if it was read before THAT Reset and held the
\* same.  (A second thread may put another texture at an address in between.)
MatchIsOfThisReset ==
  [][ OneThread => \A l \in lines' : l.what = "match" =>
        \E a \in Addrs : heap[a].n = l.n /\ << l.n, heap[a].content >> \in taken ]_vars
=============================================================================
