# LTR Bridge: TLA+ models, checks and proofs

LTR Bridge moves rendered frames out of an old x86 Direct3D 9 game into a
modern x64 process and back. The repository is a set of experiments ("probes")
around that path. This directory holds TLA+ modules for the parts of it that
are concurrent: processes, GPU queues, shared fences, bootstrap handles and the
hooks of the observer. Source paths below are relative to the repository root.

## 1. The system

### Components

| Component | Source | State | Operations | Modelled in |
|---|---|---|---|---|
| Shared protocol | `src/d3d9_real_bridge_probe/protocol.h`, `completion.h` | none (pure) | `ready_value`, `done_value`, `reuse_done_value`, `fence_reached`, `pressure_requirement_satisfied`, `classify_completion` | `BridgeProtocol` |
| Bridge client (x86) | `d3d9_real_bridge_probe/client.cpp` | `Client::Impl`: process handle, fences, transport slots, `submitted`, `backpressure_checks`, `active/finished/passed/cancellation_requested` | `Start`, `QuerySubmitStatus`, `TrySubmit`, `Poll`, `Cancel`, `Shutdown`, destructor | `BridgeBootstrap` (Start), `BridgeRing` (the rest), `BridgeSession` (both) |
| Bridge sink (x64) | `d3d9_real_bridge_sink/main.cpp` | shared textures, done fence, rollback list, loop index, D3D12 queue | `run_multiframe` | `BridgeBootstrap` (to publication), `BridgeRing` (the loop and after), `BridgeSession` (one process) |
| Bootstrap handles | `owned_handles.h`, sink 317-394 | open handles in the parent | duplicate, publish, adopt, roll back, close | `BridgeBootstrap` |
| Synthetic producer | `d3d9_real_bridge_probe/producer.cpp` | next frame, last progress, exit code | submit loop, timeouts, report | `ProducerProbe` |
| Observer proxy | `d3d9_real_observer_probe/proxy.cpp` | device registry, generations, `RealBridgeRuntime`, managed-resource table | vtable hooks: Present, Reset, Release, Create*, Draw*, Lock/Unlock | `ObserverDevice` (registry, sessions, generations on several threads), `BridgeRing` (what Capture does to a source surface), `DeviceHooks` and `TableHooks` (the hooks themselves), `ManagedResources` |
| Temporal provenance | `temporal_provenance.h` | frame indices, samples taken | tickets, results of Present and Reset | `TemporalProvenance` (pure operators), `ObserverDevice` (their callers) |
| Managed adaptation | `managed_compat.h` | none (pure) | plan of a substitution, sampling rules | `ManagedCompat` (pure operators), `ManagedResources` (their callers) |
| Temporal contract | `src/temporal/temporal_frame.h`, `temporal_sequence.h` | none (pure) | validity, history reuse, joins | `TemporalContract` |
| x86/x64 bridge probe | `x86_x64_bridge_probe/consumer.cpp`, `producer.cpp` | generations, per-eye histories, fences, control pipe | host and client loops, negatives | `DualArchPlan`, `DualArch` |
| Harness | `harness/main.cpp` | size, scenario, counters, pending reset, previous frame | messages, `Render`, self test | `TemporalHarness` |
| Other probes | `optical_flow`, `xess_native_aa_probe`, `openxr_runtime_probe`, `dgvoodoo_addon_probe`, `d3d9ex_*`, `d3d10_d3d11_relay_probe`, `d3d9_d3d11_share_probe` | - | sequential scripts of API calls, image metrics | not modelled |

### How the parts of the bridge interact

    driver --fills source[f % 2]--> client --CopyResource, Signal(ready = f+1)--> D3D11 queue
                                      ^                                             |
                                      | done fence, process handle                  v ready fence
    sink  --waits ready, ExecuteCommandLists, Signal(done = f+1)--> D3D12 queue --> done fence

The client launches the sink; the sink creates the two shared textures and the
done fence, duplicates the three handles into the client's process and
publishes their values through a pipe. From then on the processes share two
textures, two fences and each other's process handle; there is no other
message. Everything a process asks of its GPU happens later, in order, on the
queue of that GPU.

### How the parts of the observer interact

    threads of the game
      Present --lookup-or-create--> g_devices[device].multiframe --Capture--> relays, Client --> sink
      Reset   --move out----------> (same slot) --Shutdown--> real Reset --> generation + 1
      Release --real Release = 0--> erase the entry --Shutdown
      Draw, Present --ticket------> g_devices[device].temporal_provenance

The hooks meet in two places: the registry, whose every access is a short
section under `g_state_mutex`, and the runtime of a session, which has a mutex
of its own, held while it waits for the GPU or for the sink, and which a
`shared_ptr` in a hook's frame keeps alive after it has left the registry.
Nothing is held over a call of the real `Present`, `Reset` or `Release`.

The hooks themselves are state as well. A device has a table of its own, which
`BeginStateBlock` of Direct3D overwrites with the library's; surfaces, textures
and buffers share tables, whose slots one thread rewrites while others call
through them. The originals are globals of the process.

### How the parts of the x86/x64 probe interact

    host (x64, D3D12)                                client (x86, D3D11)
      creates textures, launches ---inherited handles---> opens, names the ready fence
      queue: wait ready, dispatch, signal done <--------> context: draw, signal ready,
                                                          wait done, copy to staging; Map
      generation 0 done: release, replace ---pipe-------> release, read, open the new one
      waits for the client's exit code <----------------- exit code

In three of the renderer modes the client draws on a second device, Direct3D
9Ex or 10.1, whose queue is ordered with the D3D11 context by nothing but an
event query the CPU waits for.

### What is hard

- Two GPUs share two slots. Nothing but a fence value read on the CPU keeps a
  write of the one apart from a read of the other (`client.cpp:376`).
- The source surface of a slot is reused without waiting for the copy that
  reads it: the order is inferred from a fence of the other process
  (`proxy.cpp:1855`).
- A removed device reports `UINT64_MAX` for every fence.
- Either process may die at any point; the client kills the sink at any point.
- The end of the child races `Cancel`, `Shutdown` and the timeouts.
- A hook looks up a session, unlocks, and uses it: another hook may meanwhile
  have taken it out of the registry and shut it down (`proxy.cpp:4185`), or be
  about to reset the device under a session made in between (`proxy.cpp:3626`).
- Whether a draw or a Present belongs to the generation and to the frame it is
  recorded under is decided before the real call and booked after it.
- A handle duplicated into another process belongs to nobody until somebody
  over there knows its value.
- One global names "the" table of the device, of which there may be two, or
  none any more (`proxy.cpp:654`).
- A slot that is hooked before its original is recorded loses calls
  (`proxy.cpp:2692`, `2711`, `1941`).
- The registry of managed resources is keyed by address, and addresses are
  reused; a draw is described after its ticket has been taken
  (`proxy.cpp:2070`, `2448`).
- A resource of the old generation may be released while a queue still names
  it (`consumer.cpp:732`); a host that dies may wake the fence of a frame it
  never finished (`producer.cpp:722`).
- Temporal history may be reused only for the very next frame of the same
  scene, through resizes, manual resets and wrapping counters
  (`temporal_frame.h:152`, `harness/main.cpp:887`).

`PROJECT.json` lists each hazard at its line with the properties that cover it.

## 2. Modules

| Module | Models | Notes |
|---|---|---|
| `BridgeProtocol` | `protocol.h`, `completion.h` | Constants `Frames`, `RingDepth`, `Sentinel` with the assumptions the code enforces (`Client::Start` refuses fewer frames than slots). `Sentinel` is larger than any signalled value, as `UINT64_MAX` is. |
| `FrameRelay` | nothing in the code: the abstract promise | Frames go in one by one, at most `Depth` are inside, each arrives once, in order, unaltered; at most one verdict, "pass" only when all have arrived. |
| `BridgeRing` | one session after `Start` has returned true | See below. |
| `BridgeBootstrap` | `Client::Start`, `read_bootstrap`, the sink up to its publication | Ends where `BridgeRing` begins. |
| `BridgeSession` | the two together | `handedOver` says whether `Start` has returned true to its caller; until then the sink is where `bootPc` says, from then on where `sinkPc` says. A sink that has failed or died since its publication enters the ring leaving or gone (`StartReturnsTrue`). |
| `ProducerProbe` | `producer.cpp` `wmain` | Composes its own program counter with the actions of `BridgeRing`. `patient` chooses, once for a run, whether its timeouts are too long to expire. |
| `TemporalProvenance` | `temporal_provenance.h` | Pure operators on a record; no variables. The limits (4 and 32 in the code) are constants. |
| `ObserverDevice` | the hooks of `proxy.cpp` on one device, `RealBridgeRuntime` | See below. |
| `DeviceHooks` | the table hooks of devices over `BeginStateBlock` | See below. |
| `TableHooks` | hooks in tables shared by all resources of a class, with several threads | See below. |
| `ManagedCompat` | `managed_compat.h` | Pure operators; also the sampling and reporting rules. |
| `ManagedResources` | the hooks on managed resources, bindings, draws and Reset | See below. |
| `TemporalContract` | `temporal_frame.h` | Pure operators over integers of width `U32Max`, `U64Max`, reduced where the code's unsigned types wrap. |
| `TemporalHarness` | `Render`, the window procedure and the self test of `harness/main.cpp` | Uses `TemporalContract`. |
| `DualArchPlan` | what one run of the x86/x64 probe is asked to do | Pure operators: options, expected exit codes, slots, fence values, pixels, the commands of a frame. |
| `DualArch` | both processes, three GPU queues, the control pipe | Uses `DualArchPlan`. See below. |
| `BridgeRingProofs`, `BridgeBootstrapProofs`, `ObserverDeviceProofs`, `DeviceHooksProofs`, `TableHooksProofs`, `TemporalProofs`, `DualArchProofs`, `ManagedResourcesProofs` | theorems | `BridgeRingProofs` also has those about `ProducerProbe`, `BridgeBootstrapProofs` those about `BridgeSession`. |
| `MC*` | instances for TLC | |

### BridgeRing: state and actions

Client variables are the fields of `Client::Impl` (`submitted`, `pressured` for
`backpressure_checks > 0`, `cancelRequested`, `verdict` for `finished` and the
classification, `phase` for `active` and the steps of `Shutdown`). `turn` is the
position of the driver between `QuerySubmitStatus` and `TrySubmit`. One action
per operation; `FinishIfExited`, which several operations call, is an operator
on `verdict`. `Shutdown` is four steps (`Finish`, `Recheck`, `Terminate`,
`Reap`), because the child can move between its two zero waits and during its
wait of 1000 ms. A `TrySubmit` whose source texture has the wrong format is
`QuerySubmitStatus` followed by `Shutdown`.

A GPU queue is a pair of counters. D3D11: `issued` copies enqueued, `copied`
executed, `ready` signalled. D3D12: `queued` lists, `consumed`, `done`. A copy
reads `source[slot]` and a list reads `transport[slot]` when it EXECUTES, which
is what makes an overwritten slot visible in `delivered`.

The sink's `sinkPc` follows `run_multiframe`: `setup` (ready fence, queue,
stall), `await`, `arm`, `waiting` (the three stages of
`wait_for_producer_ready`), `record`, `signal`, `final`, `leaving`, `exited`.
Each failure return has an outcome of its own; a test of the exit code only
tells 0, 90 and other.

Faults (`Faults`): death of either process, removal of either device, a failing
API call of the sink, a failing `Signal` of the client, the sink's final wait
exceeding ten seconds, a child that takes longer than one second to die. With a
removed device, its own process reads the sentinel from every fence; the other
process may or may not.

### BridgeBootstrap: state and actions

`remote` is the set of handles open in the parent that came from the sink,
`tracked` the sink's `parent_handles`, `message` the pipe's content, `held` the
client's `OwnedBootstrapHandles`. `startPc` follows `Client::Start` with
`read_bootstrap` in two steps per iteration (`peek`, `liveness`), since the
child can write and exit in between. `readEnd` and `writeEnd` decide what the
other side's pipe calls return.

### ObserverDevice: state and actions

`entry`, `prov` and `multiframe` are the fields of the `DeviceState` registered
for the device (`entry.id = 0`: none), `nextId` is `g_next_device_id`. `heap`
holds the runtimes by address; `device` is the real device, as the game knows
it. Each thread has a `pc` inside the hook it is executing and `held`, the
hook's local `shared_ptr`. A section under `g_state_mutex` is one action. The
mutex of a runtime is not a variable: a thread inside `Capture` owns it
(`Locked`), and `Shutdown`, which is one action, waits for it. Likewise the
reference count: `Return` frees a runtime when the returning hook held the last
reference, and a freed address may be used again.

| Code | Actions |
|---|---|
| `hook_create_device` | `Create` |
| `hook_device_release` | `Release`, `ReleaseShutsDown` |
| `hook_reset` | `ResetBegins`, `ResetShutsDown`, `RealResetSucceeds/Fails`, `ResetCommits` |
| `hook_present` | `PresentBegins`, `Lookup`, `Capture`, `PresentTakesTicket`, `RealPresentSucceeds/Fails`, `PresentResult` |
| `RealBridgeRuntime::Capture` | `CaptureLocks`, `CreatesRelays`, `StartsClient`, `UsesRelays`, `CaptureReturns`, `CaptureDisables`, `CaptureCompletes` |
| `observe_temporal_provenance_draw` | `Draw` |

The client is whatever its answers may be: every result of `Start`,
`QuerySubmitStatus` and `TrySubmit` is possible at every call. What a session
does with frames is `BridgeRing`'s subject; here a runtime has relays or not
and an active client or not. `present_count`, samples, summaries, logging and
`view_id` are left out: nothing here depends on them.

Two rules of Direct3D are assumed. Only the thread that made a device resets
it and finally releases it (`Creator`), and a program does not release a device
another thread is using. One device exists at a time. `MaxDevices`,
`MaxResets` and `MaxPresents` bound the calls of the game, in the guards of the
actions that begin them.

### DeviceHooks: state and actions

`hooked` is the content of each device's table: which of its slots hold a hook.
`known` are the slots whose `g_real_...` is set, `noted` is
`g_device_vtable_address`, `canonical` says whether the slot of the library's
own table is hooked. `wanted` remembers what a device's creation had hooked,
`stray` whether the table of a destroyed device was written. The actions are
`CreateDevice` (the whole of `hook_create_device`: the chained observer slots,
the others one by one, the canonical slot, the noting of the table),
`ReleaseDevice`, `HookBeginStateBlock` (the real call, which copies the
library's table over the device's, then both rehooking functions and the
report) and `BlockWipesHooks`, the same call where its slot is not hooked. Each
call of `VirtualProtect` may be refused, `MaxRefusals` times in a behaviour.
`several` remembers whether the game ever held two devices together.

`ObservedDeathIsSeen` is about the hooks a table holds at one time: Present or
EndScene only together with Release and Reset. It does not say that every death
is seen. Where `BeginStateBlock` is not hooked, a state block empties the table
(`BlockWipesHooks`), and a device released after that stays in the registry of
`ObserverDevice`, where no state block is modelled.

### TableHooks: state and actions

`hooked` and `recorded` are the slots of the shared tables and the map of their
originals; `mutex` is `g_managed_resource_mutex`. An installation takes the
mutex, writes one slot per step, rolls back on a refusal, records and leaves.
A call of the game (`GameCalls`) enters a hook if it finds one in the slot and
then looks the original up (`HookLooksUp`), which the installer may delay; a
hook that finds none gives the call up (`lost`). `VirtualProtect` refuses up to
`MaxRefusals` times, the roll-back's own calls included. The use traces go through
`patch_vtable`, which takes no lock: `TraceProtects`, `TraceTests`,
`TraceReads`, `TraceWrites`.

### ManagedResources: state and actions

`heap`, `bound` and `owner` are the runtime: what lives at an address, what is
bound, to which texture a surface belongs. `reg` and `surfaceId` are
`g_managed_resources` and `g_managed_surfaces`, `generation` and `scan` the
fields of the `DeviceState`, `before` the fingerprints taken before a Reset. A
thread's `job` is its position inside a hook: a section under a mutex is a step
and so is a call into the runtime. An address may be used again as soon as the
runtime has given its object up, whether or not the registry has noticed.

| Code | Actions |
|---|---|
| `hook_create_texture` and its siblings | `HookCreates`, then `TrackIdentifies`, `TrackRegisters` |
| `hook_managed_resource_release` | `HookReleases`, `OriginalReleases`, `ReleaseErases` |
| `hook_set_texture`, `hook_set_stream_source`, `hook_set_indices` | `HookSets`, `HookUnbinds`, `HookBinds` |
| draw hooks, `observe_managed_draw_state` | `HookDraws`, `ScanGets`, `ScanDrops`, `ScanEnds` |
| `hook_texture_lock_rect`, `hook_surface_lock_rect`, `hook_texture_get_surface_level` | `HookLocks`, `HookLocksSurface`, `HookGetsSurface` |
| `hook_reset`, `probe_managed_texture_content_across_reset` | `ResetBegins`, `ProbeReads`, `OriginalResets`, `ResetBumps` |

`GameAddRefs` and `GameReleases` are the game's; `MayRelease` and `Usable` are
what Direct3D demands of it: no call on an object it holds no reference to.
Content is one of two values. Only what can be told apart of a creation call is
kept (`Request`). `game` is chosen at the start and fixes the switches of the
environment (`Setting`), the threads, the creation calls, the addresses the
runtime hands out, and how many objects, generations and refusals there are: one
run checks games of several shapes.

### TemporalHarness: state and actions

`counters` are the frame index and the generations, `pendingReset`,
`previousValid`, `previousTime` and `last` the globals of the same names. A
frame is the pair of scenes its motion vectors join (`motion`); `Render` is the
whole function, `OnSize`, `OnManualReset` and `OnScenario` are messages, any
number of which (`OnMessage`) arrive between two frames. `CheckBegins`,
`RenderReset`, `CheckReset`, `RenderSteady`, `CheckSteady` are the steps of
`RunScenarioCheck`, with the readback of the validity surface reduced to the
frame it was read from (`SurfacesOfFrame`).

### DualArch: state and actions

`o` are the options of the run, every combination the host's `parse` accepts;
`patient` says that in this run no wait times out before its event and nothing
fails.
`hpc` and `cpc` follow the two `wmain`; `recorded`, `dispatched` and
`dispatching` are the host's queue, `cq` and `lq` the commands not yet executed
by the client's D3D11 context and by its second device. A pixel is the frame it
was drawn from, an eye marker and whether it has been inverted; `tex` is the
content of the textures, written when a command EXECUTES. Each wait of the host
has a second action, its timeout (`HostGivesUp...`). A process may end at any
point (`HostFails`, `ClientFails`: a failing call, with the code the source
returns there, or a kill); its fences may wake their waiters, with a value
larger than any other, before its process object is signalled (`HostIsGone`).

| Code | Actions |
|---|---|
| `consumer.cpp` `wmain`, in order | `HostLaunches`, `HostOpensFences`, `HostTerminatesItself`, `HostRecords`, `HostReleasesGeneration`, `HostReplaces`, `HostCannotReplace`, `HostKillsClient`, `HostRemovesDevice`, `HostResolves`, `HostJudges` |
| `producer.cpp` `wmain`, in order | `ClientStarts`, `ClientPublishes`, `ClientProbes`, `ClientSeesStall`, `ClientSeesDone`, `ClientSeesHostLoss`, `ClientChecksHost`, `ClientDrawsRelay`, `ClientSubmits`, `ClientReuses`, `ClientValidates`, `ClientReleasesGeneration`, `ClientReads`, `ClientReadFails`, `ClientReports` |
| the queues | `HostGpuStarts`, `HostGpuFinishes`, `ClientGpu`, `LegacyGpu` |

The failing calls of setup are represented by one code where several are told
apart by nothing. So are those of the frames: 13 stands for 27 as well, a failing
or disjoint timestamp query of the renderer-copy mode (`producer.cpp:1024`,
`1472`). What the host does after it has judged the client's exit code, reading
and printing its timestamps, can only turn 0 into 32 or 33
(`consumer.cpp:972`, `977`) and is left out.

## 3. Runs

| Run | Instance | Shows |
|---|---|---|
| `session` | 4 frames, 2 slots, every fault of the bootstrap and of the ring, fairness | ownership of the handles, an all-or-nothing `Start`, safe slots, true verdicts, the refinement of `FrameRelay`; everything that must end does |
| `producer` | 3 frames, 2 slots, every fault, a patient and an impatient producer, fairness | exit 0 is earned; both processes always end; with patience every session passes unless something failed |
| `producer_timeout` | 3 frames, the sink may crash | violated: see finding 1 |
| `bootstrap_leak` | no fault but the deadline | violated: see finding 2 |
| `observer_threads` | 2 threads, 3 runtimes, 1 device, 1 Reset, 3 Presents, 2 sampled frames and 2 samples | no session outside the registry, no disturbed capture, a registry that agrees with the device, records with distinct identities within the limits |
| `observer_single` | 1 thread, 2 runtimes, 2 devices, 2 Resets, 3 Presents | relays and sinks never live across a Reset; sessions and frame counts are current |
| `observer_race` | 2 threads, 3 runtimes, 2 devices, 2 Resets, 3 Presents | violated: see finding 3 |
| `device_hooks` | 2 devices at a time, 7 settings, 2 refusals | no hook without its original, none on Present or EndScene without those on Release and Reset, a report that says what the tables hold, what a state block may cost at most |
| `table_hooks` | 3 threads, 2 surface tables, 1 release table, 2 refusals | no call is lost until a refusal, a table is hooked with its map entry or not at all until the second, no trace hook lacks its original |
| `managed` | 5 kinds of game, up to 2 threads, 2 addresses, 2 objects, 2 references to an object and 3 generations | the registry names exactly the objects the game holds, with their releases counted, stale bindings are told rightly and once, no count crosses a generation, adapted resources can be locked, fingerprints are compared across one Reset |
| `dual` | every run of the options, 2 frames per generation, 2 faults anywhere or none and patience, fairness | shared textures are safe, detectors are exact, what the exit codes claim is true, both processes end (or the client stays in Map), and undisturbed runs end as their driver expects |
| `harness` | 2 scenarios, sides 0 to 2, counters up to 2 and 3 | valid frames, no vectors or history across a scene or a size, a self test that passes |

Properties that say one thing together are checked as one and explained part by
part where they are defined:

- `HandlesAreOwned`: a message that was read is closed, a handle not yet published
  is on the rollback list, a leak has one of two causes.
- `FramesStayIntact`: the source outlives its copy, the slot holds its frame.
- `VerdictIsTrue`: pass is earned, success is not downgraded, cancelled was asked for.
- `SessionEnds`: `Start` returns, a `Shutdown` completes, a sink does not outlive its parent.
- `TicketsAreSound`: Presents and draws are distinct and bounded.
- `GenerationIsCurrent`: frame counts and sessions are those of this generation.
- `StateBlocksRestore`: what is hooked again, and that no freed table is written.
- `StaleLinesAreTrue`: the right object, once, and older than its generation.
- `TexturesAreSafe`: exclusive access, settled relays, no release under a queue, a bounded ring.
- `ClaimsAreEarned`: exit 0, the pass of a negative, and that a woken fence is no completion.
- `ProcessesEnd`: the host always ends, a lost host is noticed, the client stays only in Map.
- `FramesAreTrue`: valid metadata, vectors within one scenario and size.

Bounds. The ring depth is the code's own, 2. Four frames use each slot twice;
the reuse rule of a slot depends only on the previous use, and the proofs below
remove the bound for every safety property. Three frames are enough for the
producer: a first use of both slots and one reuse. `Sentinel = 99` is above all
fence values. The bootstrap has no parameter: three handles are what the
message has. The observer's races are between pairs of hooks: two threads, one
of which is the creator, meet in all of them, and three runtimes are enough for
each thread to hold one of its own while a new one is registered. One device and
one Reset give two generations to confuse; the second device and the second
Reset, which reuse the registry's entry, are in `observer_single` and, with two
threads, in `observer_race`. With both provenance limits at 2 and three Presents
the limits are reached and passed. The proofs remove these bounds as well.

`DeviceHooks` needs two devices to tell them apart and refuses
`VirtualProtect` twice: a slot and its restoration. `TableHooks` has an
installer, a caller and one more installer; the proofs remove the number. The
games of `ManagedResources`: the adaptation with two addresses, so that one is
reused while the other is bound; every combination of switches and every kind
of creation on one address; the content probe over two Resets; two threads, once
over a reused address with a refusal and once over two Resets, so that a scan
can outlive both. `SampleLimit` is 2 instead of 8 so that it is
reached. `MaxRefs` is 2: one Release leaves a reference and must keep the entry,
with one more call counted, the next is the last and must erase it; with two
threads both may be under way at once. With 1 `GameAddRefs` would never be
enabled and no Release would leave anything. The sides and counters of the harness are small so that zero, the
largest value and the wrap occur; the theorems hold for every width. `DualArch`
has its own two generations; two frames in each use a ring of two twice and give
the second stereo pair a history. Two faults let both processes fail.

`Next` of several modules is one quantifier over threads, so that TLC counts all
actions as one. The runs have therefore been read with `-coverage` as well: every
expression of every next-state relation is reached by a passing run, but for
`LookupMisses` of `ObserverDevice`, the code's branch for a device without an entry: a live
device never is (`Lookup` would take it then).

Deadlock is checked in `device_hooks` and `table_hooks`, whose threads always
have a call to make. Elsewhere a state without a successor is an end the
system has: a released client and an exited sink with idle queues, a game that
stops calling, two processes that have ended. Where something must not stop
short of that, a liveness property says so (`SessionEnds`, `EverythingStops`,
`HealthySessionPasses`, `ProcessesEnd`, `RunsEndAsIntended`).

### Fairness

- A thread that can run does: `Shutdown`'s remaining steps, the sink's steps,
  the producer's steps. `WaitForSingleObject(process, 1000)` returns because the
  child ends or the second passes.
- A GPU makes progress while its process lives, or its device is removed:
  Windows resets a GPU that does not (timeout detection and recovery). GPU work
  whose process has ended is not assumed to run.
- A removed device wakes, for certain, only the waits of its own process.
- A timeout whose condition persists eventually expires (the producer's
  submission timeout and its ten-second wait, the bootstrap deadline).
- In `DualArch` each process moves until it ends: every wait of the host is
  bounded, so it returns with its event or by its timeout, and either is an
  action of the same fairness condition. Each queue executes what it holds. A
  failing call, a kill and the wake-up of a dead host's fence are never forced,
  and the client's Map has no bound.
- Where `patient` holds, in `DualArch` and in `ProducerProbe`, timeouts do not
  expire: limits of seconds are long against a frame. `RunsEndAsIntended` and
  `HealthySessionPasses` are about those runs, the other liveness properties of
  the two modules about the others.
- `ObserverDevice` has no fairness and no liveness property: a sink that hangs
  makes every later capture a skip, by design, and a hook's waits are bounded
  inside the calls that are single steps here.
- Nothing is assumed of the driver of `BridgeRing`, of the sink's progress during
  the bootstrap, or of any fault.

## 4. Proofs

The theorems on the bridge hold for every `Frames`, `RingDepth`, `Sentinel`,
`ValidatePattern` and `Faults` that satisfy the named assumptions; the others
for every value of the constants of their modules.

`BridgeRingProofs`. None of the safety properties is inductive: that the slot of
the next frame is free follows from where every stage of the pipeline is. The
strengthening `RingInv` orders the counters,

    done <= consumed <= queued <= ready <= copied <= issued <= done + RingDepth,

ties the sink's position to them (`SinkPosition`: a frame is recorded only when
its ready value has been seen), ties the driver's position to them
(`ClientPosition`: an admission implies room), and says that a slot holds the
frame still to be read from it (`TransportHeld`). `SlotsDiffer` is the arithmetic
of the reuse rule: two frames less than `RingDepth` apart have different slots.
From it: `TypeCorrect`, `SlotsAreExclusive`, `FramesAreIntact`, `ReleaseStopsSink`
and two parts of `VerdictsAreTrue`. Its third part, `SuccessIsKept`, needs in
addition that a verdict, an outcome once judged, and a removal are final
(`VerdictSteps`, `OutcomeSteps`, `RemovalIsFinal`). `BridgeImplementsRelay` maps
`TrySubmitSucceeds` to `Send`, `ListExecutes` to `Receive`, the steps that set the
verdict to `Judge`, and everything else to a stutter.

Of `ProducerProbe`, in the same module: every step of the producer is a step of
the ring, or the end of its process after `wmain` (`ProbeStepsAreRingSteps`), so `RingInv` holds of
it. `ExitZeroIsSound` adds that a pass, once said, and pressure, once seen, are
not taken back. `ProbeDrivesRing` states the implementation as such, for the
parent that may exit at any time.

`BridgeBootstrapProofs`. `BootInv` says who owns the handles at each stage
(`HandlePosition`) and what `Start` has opened (`StartPosition`); from it
`OwnershipIsClear` and `StartIsAtomic`. The same module proves the whole session:
`SessionInv` joins `BootInv` and `RingInv` with where the two meet, that the ring
is at its beginning until `Start` has handed over. `HandOverInv` is the step in
between: `Start` does not look at the sink again, and each of the ends the sink
may have come to by then is a place where `RingInv` can begin. A step of a session
is a step of one part that leaves the other alone (`SessionSteps`), so what is
proved of the parts holds of the whole: `SessionOwnsHandles`, `SessionIsSound`,
`SessionImplementsRelay`.

`ObserverDeviceProofs` holds for every set of threads and of runtimes, every
limit and every bound on the calls. Two invariants carry it, and they share
only the types.

- `RuntimeInv`. `NoSessionOutsideRegistry` is not inductive: a Present that
  still holds a session may enter `Capture` after it has been shut down. What
  keeps it from starting is that a runtime whose flags are still open is the
  registered one, or its `Shutdown` is still to come (`OpenIsRegistered`), that
  relays and a client imply open flags (`RelaysAreOpen`), and that inside
  `Capture` flags can only be changed by the one thread that is there
  (`CaptureIsOpen`, `OneInCapture`). From it `SessionsAreRegistered` and
  `CapturesAreUndisturbed`.
- `ResetIsAlone`, assuming `Threads = {Creator}`: between the removal of the
  runtime and the real Reset nobody registers another. With `RuntimeInv` it
  gives `ResetIsClean`. Without the assumption TLC refutes it (finding 3).
- `TicketInv`. Every ticket lies behind the present moment, and those of this
  very moment are remembered by the provenance state (`PresentsRemembered`,
  `DrawsRemembered`); a Reset clears that memory and is safe only because it
  also starts a new generation. The limits follow from an alignment: within a
  generation, `source - frame` is the same for all tickets (`PresentsAligned`,
  `DrawsAligned`), and `frame` is below the limit.

- `RegistryInv`. The registry is behind the device by the calls that are still
  in their hooks: `Uncounted` Presents, and at most one Reset, whose hook only the
  creator is in. From it `RegistryAgrees`; with one thread, and `SessionInv`,
  `GenerationsAreCurrent`.

`DeviceHooksProofs`, for every set of devices and switches and any number of
refusals. What a chain of `&&` hooks is a prefix of its slots
(`ChainBeginsWithRelease`: Present and EndScene come after Release and Reset) or, when nothing is refused, all of them
(`ChainIsWhole`). `BlockLeaves` and `CreateLeaves` say what a state block and a
creation leave of the tables; `TablesInv` adds that originals are never
forgotten, that a new device gets nothing a rehook could not bring back
(`GroupsWanted`), and that the noted table is the only device's while there is
only one (`OneDevice`).

`TableHooksProofs`, for every set of threads and tables. Only the thread in the
mutex is writing slots; outside the mutex what is hooked is what the map
records, as long as at most one refusal has been met, so that no roll-back was
refused (`TablesArePaired`). A call inside a hook therefore finds its entry as
soon as it gets the mutex, as long as none has (`NoCallIsLost`: between the write and the
roll-back of a refused installation a call may enter a hook that is then
withdrawn). For the use traces, each step of `patch_vtable` knows what the ones
before it have set (`TracesCallThrough`).

`TemporalProofs`. `SubrectIsExact`: the checks of `HasValidSubrect`, in
arithmetic of any width, accept exactly the rectangles inside the extent, because
each subtraction comes after the comparison that keeps it from wrapping.
`ReuseIsNewer`: where history may be reused the counter did not wrap.
`JoinIsMutual`: two comparisons with the first input are enough for three. The
invariant of the harness ties `previousScene` and `previousValid` to the last
frame; `FramesAreWhatTheySay` and `HistoryIsTrue` follow. `HarnessIsTyped` gives
the ranges of the counters. `SelfTestAlwaysPasses`: the second frame of a
scenario must continue the history of the first, which a frame after the largest
index could not, since 0 is not newer. But a scenario is two frames, so the index
is even between scenarios (`SelfInv`), and the largest is odd (`U64Max % 2 = 1`,
the theorem's assumption, true of 2^64 - 1): the wrap falls between two scenarios,
where a reset is due anyway, for any list of scenarios.

`DualArchProofs`, for every number of frames in a generation, every set of runs
the command line allows and any number of faults. `TexturesAreSafe` says that no
queue uses a texture another is writing, and nothing but the fences keeps them
apart; so `DualInv` has to know what every command still queued is and what
every fence value means.

- `HostPosition`, `HostHolds`, `ClientPosition`, `ClientHolds`: how far each
  process is, as counters, and which generation's textures it has open: a new
  one opens its second generation only after the frames of the first.
- `QueueForm`, `RelayForm`: the client's queue is the end of a fixed program.
  The command with `k` behind it is `Program(k)`, so its head is known from the
  length alone (`HeadOfQueue`), also when two submissions of a ring are queued.
- `FencesTell`: a fence value of a frame is reached exactly when its side has
  come to that frame (`Signalled`, `dispatched`); values grow along a timeline,
  timelines are disjoint (`FenceFacts`). `InOrder`: therefore
  `completed <= dispatched <= Signalled`.
- `Contents`: the shared texture of a frame holds the payload until the host's
  queue has run and the result from then on, the host's history is of the last
  frame of each eye, and a read-back is one of the two. Two frames in flight
  are in different slots (`SlotFacts`, `InFlightSlots`).
- `CodesTell`: how an exit code was come by.

From it `DualTypeCorrect`, `TexturesStaySafe`, `ClaimsStayEarned`,
`DetectorsStayExact` and the action property `AcceptedStaysCurrent`: what the
comparison passes is the frame that is due, where the four samples of the scene
mode cannot tell frames apart only because the fences already have
(`ResultIsJudged`, `AcceptedIsWanted`). `DetectorsAreExact` is needed in the
invariant itself: that nothing was rejected is what makes exit 0 deserved.

`ManagedResourcesProofs`, for every set of threads, addresses and surfaces, every
game and every bound. Three invariants carry it.

- `SoundInv`, for any threads: ids are given out one for each object, and there
  is room for those of the creations in progress (`CountsOK`); an entry of the
  map is no older than its object and no two entries share an id (`RegistryOK`);
  the object a call in progress was made on is there, with the references that
  will be given up (`HeldOK`). From it `ManagedTypeCorrect`, `AdaptedStaysLockable`
  and the part of `StaleLinesStayTrue` that holds for any threads.
- `AloneInv`, for one thread: while no hook on Release was refused, each entry
  names the object at its address or is about to be erased, and each managed
  object has its entry with its releases counted (`ExactInv`); what was told of an
  entry is in its mask (`ToldOK`); the fingerprints taken before a Reset are those
  of the ids being probed (`PrintsOK`). From it `RegistryStaysExact`,
  `StaleLinesStayTrue` and `MatchesStayTrue`. The last needs
  the one thread: with two, TLC puts another texture at an address between the
  two readings.
- `TotalsInv`: no two scans have the same ticket, a ticket of the present
  generation is one the counters have given, and the counters are the sum. From
  it `TotalsStayOwn`, for any threads. The sum is over a set. The library's
  induction theorems cannot be instantiated here, but the subsets of a finite
  set are well founded (`FS_StrictSubsetOrderingWellFounded`, `WFMin`), so what
  `MapThenSumSet` computes is proved by least counterexamples: that the function
  it recurs with exists (`AdderAdds`) and that any element may be taken first
  (`SumTakesAny`).

Assumed throughout: the named ASSUMEs of the modules and the two rules of
Direct3D above, which are guards of `ObserverDevice`. That of `TemporalHarness`
says that `None`, which stands for "no previous frame", is none of the values it
is compared with.

Only model-checked: the liveness properties, `SessionEnds`, `EverythingStops`,
`HealthySessionPasses`, `ProcessesEnd` and `RunsEndAsIntended`. They rest on
fairness and on ENABLED, which are out of the prover's reach. Every invariant and
every action property of a passing run is stated by a theorem.

## 5. Findings

1. **A verdict can be lost** (`client.cpp:444`, run `producer_timeout`). `Shutdown`
   asks twice whether the child has exited. A child that exits between the two
   is not terminated and not classified: its handle is closed, `finished` stays
   false, no RESULT line is written. `docs/internal/AUDIT_2026-09-30.md:89` says
   that the completion is classified.
2. **The client's own kill can leak handles** (`client.cpp:313`, run
   `bootstrap_leak`). At the bootstrap deadline `Start` terminates the sink; one
   stopped between `DuplicateHandle` and the end of its publication or rollback
   leaves handles open in the parent. `LeakIsExplained`, which is proved, says
   that an interrupted sink and an unread message are the only ways to leak:
   the second happens when the sink publishes and exits, or the deadline
   passes, after the client's last peek.
3. **A session can live across a Reset** (`proxy.cpp:3626`, run
   `observer_race`). `hook_reset` takes the runtime out of the registry and lets
   go of the mutex before the real Reset. A Present on another thread in
   between finds no runtime, makes one of the old generation, and its
   default-pool relays and its sink exist while the device is reset, which a
   default-pool resource makes fail. `docs/D3D9.md:63` says that all of them
   are torn down before. With one render thread it holds (`observer_single`,
   `ResetIsClean`).
Two more places where the code does less than `docs/internal/CODEX_HANDOFF.md:631`
says, that the full hook set is restored after each refresh; `EveryBlockRestores`
and `NoStrayWrite` are stated for what is left.

- The vertex-buffer hook is put back into the table noted last, that of the device
  created last (`proxy.cpp:654`). With two devices alive, a state block of the
  older one leaves its `CreateVertexBuffer` slot native, and once the noted
  device is gone its freed table is written.
- With `LTR_D3D9_BEGIN_STATE_BLOCK_VB_REHOOK` and the index-buffer fallback alone,
  `BeginStateBlock` is hooked, but the address the rehooking needs is never set
  (`proxy.cpp:4557`): the first state block removes the `CreateVertexBuffer`
  hook for good.

Of the use traces the model shows, without a document that says otherwise, that
two threads in `patch_vtable` may record the hook as its own original; and of
`TableHooks` that a second refusal, of the roll-back, leaves `LockRect` hooked
without a map entry. The properties are stated for what the code does ensure.

## 6. Plan

1. Done: protocol, ring, producer, bootstrap, the session of both, their proofs.
2. Done: `ObserverDevice` with `TemporalProvenance`, their proofs.
3. Done: `TemporalContract`, `TemporalHarness`, their proofs.
4. Done: `ManagedCompat`, `ManagedResources`, their proofs.
5. Done: `DeviceHooks`, `TableHooks`, their proofs.
6. Done: `DualArchPlan`, `DualArch`, their proofs.
7. Left: lemmas that the operators of `ManagedCompat` and `TemporalContract`
   satisfy their documented rules for every input, where they are now used only
   through the invariants.

Hazards no property covers:

- A draw record describes device state that is read after its ticket was taken
  (`proxy.cpp:2555`); a concurrent SetTexture or Reset may change it in between.
  The records claim nothing about it.
- The observer has no timeout for backpressure (`proxy.cpp:1810`): a sink that
  hangs makes every later capture a skip, by design.
- `IsNewerSourceFrame` (`temporal_frame.h:259`) has no caller outside its unit test;
  how it relates to the reuse of history is the theorem `ReuseIsNewer`.

Not modelled:

- the feasibility probes (`d3d9_d3d11_share_probe`, `d3d10_d3d11_relay_probe`,
  `xess_native_aa_probe`, `optical_flow`, `openxr_runtime_probe`,
  `dgvoodoo_addon_probe`, `d3d9ex_*`): one thread that makes API calls in a
  line, ends at the first that fails, and measures images;
- of the observer: the shader, state and census logging, the breakpoints on
  addresses of one build of the game, and the shared-relay test, which is one
  such line of calls;
- the one-shot path of the sink, superseded by `run_multiframe`;
- the rasteriser, the Halton numbers and the image metrics of the harness.
