--------------------------- MODULE ObserverDevice ---------------------------
(***************************************************************************)
(* The observer's hooks on a Direct3D 9 device                             *)
(* (src/d3d9_real_observer_probe/proxy.cpp): CreateDevice, the final       *)
(* Release, Reset, Present and the draws, called by several threads of the *)
(* game.  The hooks share the registry g_devices, under g_state_mutex, and *)
(* through it a RealBridgeRuntime, which has a mutex of its own and is     *)
(* kept alive by shared_ptr.  A section under g_state_mutex is one step; a *)
(* section under a runtime's mutex is several, for it waits for the GPU    *)
(* and for a child process.                                                *)
(*                                                                         *)
(* One device exists at a time.  Direct3D lets only the thread that made a *)
(* device reset and finally release it (Creator), and a program must not   *)
(* release a device that another thread is using.                          *)
(***************************************************************************)
EXTENDS TemporalProvenance, Sequences

CONSTANTS
  Threads, Creator,       \* threads of the game; the one that owns the device
  Runtimes,               \* addresses of RealBridgeRuntime objects
  None,                   \* the null pointer
  MultiframeRequested,    \* LTR_D3D9_TEST_MULTIFRAME
  ProvenanceRequested,    \* LTR_D3D9_TEMPORAL_PROVENANCE
  MaxDevices, MaxResets, MaxPresents   \* bounds of the game's calls

ASSUME ObserverAssumption ==
  /\ Creator \in Threads
  /\ None \notin Runtimes
  /\ MultiframeRequested \in BOOLEAN /\ ProvenanceRequested \in BOOLEAN
  /\ MaxDevices \in Nat /\ MaxResets \in Nat /\ MaxPresents \in Nat

VARIABLES
  device,    \* the real device: live, its successful Resets and Presents
  \* g_devices, g_next_device_id
  entry,     \* the device's DeviceState: id (0: not registered), generation
  prov,      \* DeviceState::temporal_provenance
  multiframe,\* DeviceState::multiframe: a runtime or None
  nextId,
  \* the runtimes
  heap,
  \* the threads
  pc,
  held,      \* the hook's local shared_ptr: a runtime or None
  \* history: the tickets handed out, in order; each becomes a log line
  drawTickets,
  presentTickets

registryVars == <<entry, prov, multiframe, nextId>>
ticketVars == <<drawTickets, presentTickets>>
vars == <<device, registryVars, heap, pc, held, ticketVars>>

DeviceState ==
  [live : BOOLEAN, resets : Nat, presents : Nat, sinceReset : Nat]

NoDevice == [live |-> FALSE, resets |-> 0, presents |-> 0, sinceReset |-> 0]

Registration == [id : Nat, generation : Nat]

Unregistered == [id |-> 0, generation |-> 0]

Capturing == {"locked", "starting", "submitting"}

PCs == Capturing \cup
  {"idle", "lookup", "capture", "ticket", "present", "result",
   "shutdown", "reset", "commit"}

RuntimeState ==
  [generation : Nat, attempted : BOOLEAN, disabled : BOOLEAN,
   completed : BOOLEAN,   \* completion_logged
   relays : BOOLEAN,      \* relay9, completion_query9, d3d11, relay11
   child : BOOLEAN]       \* the client is active: it has a sink

FreshRuntime(generation) ==
  [generation |-> generation, attempted |-> FALSE, disabled |-> FALSE,
   completed |-> FALSE, relays |-> FALSE, child |-> FALSE]

\* Memory that holds no runtime.
Freed == [FreshRuntime(0) EXCEPT !.disabled = TRUE]

Init ==
  /\ device = NoDevice
  /\ entry = Unregistered
  /\ prov = FreshProvenance
  /\ multiframe = None
  /\ nextId = 1
  /\ heap = [r \in Runtimes |-> Freed]
  /\ pc = [t \in Threads |-> "idle"]
  /\ held = [t \in Threads |-> None]
  /\ drawTickets = <<>>
  /\ presentTickets = <<>>
-----------------------------------------------------------------------------
(* Runtimes: the mutex and the reference count follow from the threads.    *)

Referenced(r) == multiframe = r \/ \E t \in Threads : held[t] = r

\* (mutant) Capture does not take the mutex.
NeverLocked(r) == FALSE

\* A thread is inside Capture of r, hence owns its mutex.
Locked(r) == \E t \in Threads : pc[t] \in Capturing /\ held[t] = r

\* Some thread has taken r out of the registry and will call Shutdown.
BeingShutDown(r) == \E t \in Threads : pc[t] = "shutdown" /\ held[t] = r

\* What releasing the relays and Client::Shutdown leave of a runtime.
TornDown(runtime) == [runtime EXCEPT !.relays = FALSE, !.child = FALSE]

Goto(t, label) == pc' = [pc EXCEPT ![t] = label]

\* The hook of t returns: its shared_ptr goes, and with the last one the
\* runtime, whose destructor ends the client and releases the relays.
Return(t) ==
  /\ Goto(t, "idle")
  /\ held' = [held EXCEPT ![t] = None]
  /\ heap' = [r \in Runtimes |->
                IF /\ held[t] = r /\ multiframe' # r
                   /\ \A u \in Threads \ {t} : held[u] # r
                THEN Freed ELSE heap[r]]
-----------------------------------------------------------------------------
(* hook_create_device.  emplace keeps an entry that is there already.      *)

Create(t) ==
  /\ t = Creator /\ pc[t] = "idle" /\ ~device.live
  /\ nextId <= MaxDevices
  /\ device' = [NoDevice EXCEPT !.live = TRUE]
  /\ nextId' = nextId + 1
  /\ entry' = IF entry.id = 0 THEN [id |-> nextId, generation |-> 1] ELSE entry
  /\ prov' = IF entry.id = 0 THEN FreshProvenance ELSE prov
  /\ UNCHANGED <<multiframe, heap, pc, held, ticketVars>>

\* hook_device_release, when the real Release has returned 0.  The erasure
\* follows at once: no other thread is in a call, and only t creates.
Release(t) ==
  /\ t = Creator /\ device.live
  /\ \A u \in Threads : pc[u] = "idle"
  /\ device' = NoDevice
  /\ entry' = Unregistered
  /\ prov' = FreshProvenance
  /\ multiframe' = None
  /\ held' = [held EXCEPT ![t] = multiframe]
  /\ IF multiframe = None THEN pc' = pc ELSE Goto(t, "shutdown")
  /\ UNCHANGED <<nextId, heap, ticketVars>>
-----------------------------------------------------------------------------
(* hook_reset                                                              *)

\* (mutant) the runtime stays registered while the device is reset.
ResetBeginsKeepingRuntime(t) ==
  /\ t = Creator /\ pc[t] = "idle" /\ device.live /\ device.resets < MaxResets
  /\ Goto(t, "reset")
  /\ UNCHANGED <<device, registryVars, heap, held, ticketVars>>

\* The runtime is moved out of the registry.
ResetBegins(t) ==
  /\ t = Creator /\ pc[t] = "idle" /\ device.live /\ device.resets < MaxResets
  /\ held' = [held EXCEPT ![t] = multiframe]
  /\ multiframe' = None
  /\ Goto(t, IF multiframe = None THEN "reset" ELSE "shutdown")
  /\ UNCHANGED <<device, entry, prov, nextId, heap, ticketVars>>

\* (mutant) Shutdown has nothing to do for a runtime that was never used.
ShutdownOfAttempted(runtime) ==
  IF runtime.completed \/ ~runtime.attempted
  THEN runtime ELSE [TornDown(runtime) EXCEPT !.disabled = TRUE]

\* The effect of RealBridgeRuntime::Shutdown.
ShutdownOf(runtime) ==
  IF runtime.completed
  THEN runtime ELSE [TornDown(runtime) EXCEPT !.disabled = TRUE]

\* RealBridgeRuntime::Shutdown, on behalf of hook_reset.
ResetShutsDown(t) ==
  /\ pc[t] = "shutdown" /\ device.live
  /\ ~Locked(held[t])
  /\ heap' = [heap EXCEPT ![held[t]] = ShutdownOf(@)]
  /\ Goto(t, "reset")
  /\ UNCHANGED <<device, registryVars, held, ticketVars>>

\* The same, on behalf of hook_device_release, which then returns: nobody
\* else can hold the runtime any more.
ReleaseShutsDown(t) ==
  /\ pc[t] = "shutdown" /\ ~device.live
  /\ ~Locked(held[t])
  /\ UNCHANGED <<device, registryVars, ticketVars>>
  /\ Return(t)

\* (mutant) the result of the real Reset is not looked at.
RealResetUnchecked(t) ==
  /\ pc[t] = "reset"
  /\ \/ device' = [device EXCEPT !.resets = @ + 1, !.sinceReset = 0]
     \/ device' = device
  /\ Goto(t, "commit")
  /\ UNCHANGED <<registryVars, heap, held, ticketVars>>

RealResetSucceeds(t) ==
  /\ pc[t] = "reset"
  /\ device' = [device EXCEPT !.resets = @ + 1, !.sinceReset = 0]
  /\ Goto(t, "commit")
  /\ UNCHANGED <<registryVars, heap, held, ticketVars>>

RealResetFails(t) ==
  /\ pc[t] = "reset"
  /\ UNCHANGED <<device, registryVars, ticketVars>>
  /\ Return(t)

RealReset(t) == RealResetSucceeds(t) \/ RealResetFails(t)

\* (mutant) the samples restart, the generation does not advance.
ResetCommitsSameGeneration(t) ==
  /\ pc[t] = "commit"
  /\ prov' = IF entry.id = 0 THEN prov ELSE OnReset(prov)
  /\ UNCHANGED <<device, entry, multiframe, nextId, ticketVars>>
  /\ Return(t)

ResetCommits(t) ==
  /\ pc[t] = "commit"
  /\ entry' = IF entry.id = 0 THEN entry
              ELSE [entry EXCEPT !.generation = @ + 1]
  /\ prov' = IF entry.id = 0 THEN prov ELSE OnReset(prov)
  /\ UNCHANGED <<device, multiframe, nextId, ticketVars>>
  /\ Return(t)
-----------------------------------------------------------------------------
(* hook_present: the multiframe part                                       *)

PresentBegins(t) ==
  /\ pc[t] = "idle" /\ device.live /\ device.presents < MaxPresents
  /\ Goto(t, IF MultiframeRequested THEN "lookup" ELSE "ticket")
  /\ UNCHANGED <<device, registryVars, heap, held, ticketVars>>

\* There is no entry.  This cannot be: the device is live, and registered.
LookupMisses(t) ==
  /\ pc[t] = "lookup"
  /\ Goto(t, "ticket")
  /\ UNCHANGED <<device, registryVars, heap, held, ticketVars>>

LookupFinds(t) ==
  /\ pc[t] = "lookup"
  /\ IF multiframe = None
     THEN \E r \in Runtimes :
            /\ ~Referenced(r)
            /\ heap' = [heap EXCEPT ![r] = FreshRuntime(entry.generation)]
            /\ multiframe' = r
     ELSE UNCHANGED <<heap, multiframe>>
  /\ held' = [held EXCEPT ![t] = multiframe']
  /\ Goto(t, "capture")
  /\ UNCHANGED <<device, entry, prov, nextId, ticketVars>>

Lookup(t) == IF entry.id = 0 THEN LookupMisses(t) ELSE LookupFinds(t)

\* Capture takes the mutex and looks at the flags.
CaptureLocks(t) ==
  /\ pc[t] = "capture" /\ ~Locked(held[t])
  /\ Goto(t, IF heap[held[t]].disabled \/ heap[held[t]].completed
             THEN "ticket" ELSE "locked")
  /\ UNCHANGED <<device, registryVars, heap, held, ticketVars>>

\* Capture leaves the runtime as it is: no render target, backpressure, all
\* frames submitted but not done, a copy that failed, a frame submitted.
CaptureReturns(t) ==
  /\ \/ pc[t] = "locked"
     \/ pc[t] = "submitting"
  /\ Goto(t, "ticket")
  /\ UNCHANGED <<device, registryVars, heap, held, ticketVars>>

\* Initialize: the relays.
CreatesRelays(t) ==
  /\ pc[t] = "locked" /\ ~heap[held[t]].attempted
  /\ heap' = [heap EXCEPT ![held[t]].attempted = TRUE, ![held[t]].relays = TRUE]
  /\ Goto(t, "starting")
  /\ UNCHANGED <<device, registryVars, held, ticketVars>>

\* Initialize: Client::Start.
StartsClient(t) ==
  /\ pc[t] = "starting"
  /\ heap' = [heap EXCEPT ![held[t]].child = TRUE]
  /\ Goto(t, "submitting")
  /\ UNCHANGED <<device, registryVars, held, ticketVars>>

\* A runtime that is initialized already, with the same source.
UsesRelays(t) ==
  /\ pc[t] = "locked" /\ heap[held[t]].attempted
  /\ Goto(t, "submitting")
  /\ UNCHANGED <<device, registryVars, heap, held, ticketVars>>

\* Disable: Initialize failed, the source changed, the transport failed.
CaptureDisables(t) ==
  /\ pc[t] \in Capturing
  /\ heap' = [heap EXCEPT ![held[t]] =
                [TornDown(@) EXCEPT !.attempted = TRUE, !.disabled = TRUE]]
  /\ Goto(t, "ticket")
  /\ UNCHANGED <<device, registryVars, held, ticketVars>>

\* QuerySubmitStatus says that every frame is done.
CaptureCompletes(t) ==
  /\ pc[t] = "submitting"
  /\ heap' = [heap EXCEPT ![held[t]] = [TornDown(@) EXCEPT !.completed = TRUE]]
  /\ Goto(t, "ticket")
  /\ UNCHANGED <<device, registryVars, held, ticketVars>>

Capture(t) ==
  \/ CaptureLocks(t) \/ CaptureReturns(t) \/ CreatesRelays(t) \/ StartsClient(t)
  \/ UsesRelays(t) \/ CaptureDisables(t) \/ CaptureCompletes(t)
-----------------------------------------------------------------------------
(* hook_present: provenance and the real Present                           *)

PresentTickets == [device : Nat, generation : Nat, source : Nat, frame : Nat]

PresentTicket ==
  [device |-> entry.id, generation |-> entry.generation,
   source |-> prov.source, frame |-> prov.frame]

PresentTakesTicket(t) ==
  /\ pc[t] = "ticket"
  /\ IF ProvenanceRequested /\ entry.id # 0
     THEN /\ prov' = AfterPresent(prov, entry.generation)
          /\ presentTickets' =
               IF PresentIsSampled(prov, entry.generation)
               THEN Append(presentTickets, PresentTicket) ELSE presentTickets
     ELSE UNCHANGED <<prov, presentTickets>>
  /\ Goto(t, "present")
  /\ UNCHANGED <<device, entry, multiframe, nextId, heap, held, drawTickets>>

RealPresentSucceeds(t) ==
  /\ pc[t] = "present"
  /\ device' = [device EXCEPT !.presents = @ + 1, !.sinceReset = @ + 1]
  /\ Goto(t, "result")
  /\ UNCHANGED <<registryVars, heap, held, ticketVars>>

RealPresentFails(t) ==
  /\ pc[t] = "present"
  /\ UNCHANGED <<device, registryVars, ticketVars>>
  /\ Return(t)

PresentResult(t) ==
  /\ pc[t] = "result"
  /\ prov' = IF entry.id = 0 THEN prov ELSE OnPresented(prov)
  /\ UNCHANGED <<device, entry, multiframe, nextId, ticketVars>>
  /\ Return(t)

Present(t) ==
  \/ Lookup(t) \/ Capture(t) \/ PresentTakesTicket(t)
  \/ RealPresentSucceeds(t) \/ RealPresentFails(t) \/ PresentResult(t)
-----------------------------------------------------------------------------
(* observe_temporal_provenance_draw.  What it reads of the device after it *)
(* has its ticket changes nothing here.                                    *)

DrawTickets ==
  [device : Nat, generation : Nat, source : Nat, frame : Nat, sample : Nat]

DrawTicket ==
  [device |-> entry.id, generation |-> entry.generation, source |-> prov.source,
   frame |-> prov.frame, sample |-> Taken(prov, entry.generation) + 1]

Draw(t) ==
  /\ pc[t] = "idle" /\ device.live
  /\ ProvenanceRequested /\ entry.id # 0
  /\ prov' = AfterDraw(prov, entry.generation)
  /\ drawTickets' = IF DrawIsSampled(prov, entry.generation)
                    THEN Append(drawTickets, DrawTicket) ELSE drawTickets
  /\ UNCHANGED <<device, entry, multiframe, nextId, heap, pc, held, presentTickets>>
-----------------------------------------------------------------------------
ResetHook(t) ==
  ResetBegins(t) \/ ResetShutsDown(t) \/ RealReset(t) \/ ResetCommits(t)

Calls(t) == Create(t) \/ Release(t) \/ ResetBegins(t) \/ PresentBegins(t) \/ Draw(t)

Continues(t) ==
  \/ ResetShutsDown(t) \/ ReleaseShutsDown(t) \/ RealReset(t) \/ ResetCommits(t)
  \/ Present(t)

Next == \E t \in Threads : Calls(t) \/ Continues(t)

Spec == Init /\ [][Next]_vars
-----------------------------------------------------------------------------
\* Every variable has its type, and a hook that is about to use its runtime
\* has one.
TypeOK ==
  /\ device \in DeviceState
  /\ entry \in Registration
  /\ prov \in ProvenanceState
  /\ multiframe \in Runtimes \cup {None}
  /\ nextId \in Nat
  /\ heap \in [Runtimes -> RuntimeState]
  /\ pc \in [Threads -> PCs]
  /\ held \in [Threads -> Runtimes \cup {None}]
  /\ \A t \in Threads :
       pc[t] \in Capturing \cup {"capture", "shutdown"} => held[t] # None
  /\ drawTickets \in Seq(DrawTickets)
  /\ presentTickets \in Seq(PresentTickets)

\* Whoever takes a runtime out of the registry shuts it down, and a Present
\* that still has a reference to it, from before, does not bring it to life
\* again: relays and a sink exist only in the registered runtime, or in one
\* whose Shutdown is about to run.
NoSessionOutsideRegistry ==
  \A r \in Runtimes : heap[r].relays \/ heap[r].child =>
    multiframe = r \/ BeingShutDown(r)

\* A relay is made, used and released by one thread at a time, and a thread
\* that is inside Capture never has its runtime torn down under it.
CaptureIsUndisturbed ==
  \A t \in Threads : pc[t] \in {"starting", "submitting"} =>
    heap[held[t]].relays /\ ~heap[held[t]].disabled /\ ~heap[held[t]].completed

\* No Present record is written twice for one (device, generation, source
\* frame), however Presents fail, are retried, race each other or a Reset.
PresentsAreDistinct ==
  \A i, j \in 1 .. Len(presentTickets) : i < j =>
    \/ presentTickets[i].device # presentTickets[j].device
    \/ presentTickets[i].generation # presentTickets[j].generation
    \/ presentTickets[i].source # presentTickets[j].source

\* Nor does a draw record share its identity with another one.
DrawsAreDistinct ==
  \A i, j \in 1 .. Len(drawTickets) : i < j =>
    \/ drawTickets[i].device # drawTickets[j].device
    \/ drawTickets[i].generation # drawTickets[j].generation
    \/ drawTickets[i].source # drawTickets[j].source
    \/ drawTickets[i].sample # drawTickets[j].sample

\* "at most 32 successful samples per source frame for at most four
\* successful-Present frames per resource generation"
\* (REAL_TEMPORAL_PROVENANCE_EXPERIMENT.md): a sample has a number up to the
\* limit, and no FrameLimit + 1 frames of one generation are sampled: their
\* source indices are less than FrameLimit apart.
SamplesAreBounded ==
  /\ \A i \in 1 .. Len(drawTickets) : drawTickets[i].sample \in 1 .. SampleLimit
  /\ \A i, j \in 1 .. Len(drawTickets) :
       /\ drawTickets[i].device = drawTickets[j].device
       /\ drawTickets[i].generation = drawTickets[j].generation
       => drawTickets[j].source - drawTickets[i].source < FrameLimit
  /\ \A i, j \in 1 .. Len(presentTickets) :
       /\ presentTickets[i].device = presentTickets[j].device
       /\ presentTickets[i].generation = presentTickets[j].generation
       => presentTickets[j].source - presentTickets[i].source < FrameLimit

\* What the records of a session are worth: each names its own draw or Present,
\* and there are no more of them than was announced.
TicketsAreSound == PresentsAreDistinct /\ DrawsAreDistinct /\ SamplesAreBounded

\* Between calls the registry agrees with the device: no successful Present or
\* Reset was lost or counted twice.
RegistryIsTrue ==
  device.live /\ (\A t \in Threads : pc[t] = "idle") =>
    /\ entry.id = nextId - 1
    /\ entry.generation = device.resets + 1
    /\ prov.source = device.presents

\* In a game with one render thread, the frames of a generation are counted
\* from its Reset.  (With two, a Present that succeeded before a Reset may be
\* counted after it.)
FrameIsTrue ==
  device.live /\ (\A t \in Threads : pc[t] = "idle") =>
    prov.frame = device.sinceReset

\* "Reset tears down the child and all default-pool transport resources before
\* calling the game reset" (D3D9.md): no real Reset runs while a session has
\* relays or a sink.
NoRelayAcrossReset ==
  \A t \in Threads : pc[t] = "reset" =>
    \A r \in Runtimes : ~heap[r].relays /\ ~heap[r].child

\* The session in use belongs to the device's present generation.
SessionIsCurrent ==
  \A t \in Threads : pc[t] \in Capturing =>
    heap[held[t]].generation = device.resets + 1

\* In a game with one render thread, both.
GenerationIsCurrent == FrameIsTrue /\ SessionIsCurrent
-----------------------------------------------------------------------------
(* What the proofs need beside the properties.                             *)

\* Capture would use the runtime.
Open(r) == ~heap[r].disabled /\ ~heap[r].completed

\* Once the device is gone only the thread that released it is in a hook.
ReleaseIsLast ==
  ~device.live =>
    /\ multiframe = None
    /\ \A t \in Threads : pc[t] = "idle" \/ (t = Creator /\ pc[t] = "shutdown")

IdleHoldsNothing == \A t \in Threads : pc[t] = "idle" => held[t] = None

\* The mutex and the flags of a runtime protect it.
OpenIsRegistered ==
  \A r \in Runtimes : Open(r) => multiframe = r \/ BeingShutDown(r)

RelaysAreOpen ==
  \A r \in Runtimes : heap[r].relays \/ heap[r].child => Open(r)

AttemptedHasRelays ==
  \A r \in Runtimes : Open(r) /\ heap[r].attempted => heap[r].relays

CaptureIsOpen == \A t \in Threads : pc[t] \in Capturing => Open(held[t])

StartedHasRelays ==
  \A t \in Threads : pc[t] \in {"starting", "submitting"} => heap[held[t]].relays

OneInCapture ==
  \A t, u \in Threads :
    pc[t] \in Capturing /\ pc[u] \in Capturing /\ held[t] = held[u] => t = u

RuntimeInv ==
  /\ ReleaseIsLast /\ IdleHoldsNothing
  /\ OpenIsRegistered /\ RelaysAreOpen /\ AttemptedHasRelays
  /\ CaptureIsOpen /\ StartedHasRelays /\ OneInCapture

\* In a game with one thread nobody registers a runtime during a Reset.
ResetIsAlone ==
  \A t \in Threads : pc[t] \in {"shutdown", "reset"} => multiframe = None

\* A ticket was issued for a moment that has passed, or for the present one.
Behind(ticket) ==
  /\ 0 < ticket.device /\ ticket.device < nextId
  /\ ticket.frame < FrameLimit
  /\ ticket.device = entry.id =>
       /\ ticket.generation <= entry.generation
       /\ ticket.generation = entry.generation =>
            /\ ticket.source <= prov.source
            /\ ticket.source - ticket.frame = prov.source - prov.frame

\* What the provenance state remembers of the tickets of the present moment.
OfThisFrame(ticket) ==
  /\ ticket.device = entry.id
  /\ ticket.generation = entry.generation
  /\ ticket.source = prov.source

PresentsRemembered ==
  \A i \in 1 .. Len(presentTickets) : OfThisFrame(presentTickets[i]) =>
    /\ prov.presentSampled
    /\ prov.presentGen = entry.generation
    /\ prov.presentSource = prov.source

DrawsRemembered ==
  \A i \in 1 .. Len(drawTickets) : OfThisFrame(drawTickets[i]) =>
    drawTickets[i].sample <= Taken(prov, entry.generation)

PresentsBehind == \A i \in 1 .. Len(presentTickets) : Behind(presentTickets[i])

DrawsBehind ==
  \A i \in 1 .. Len(drawTickets) :
    Behind(drawTickets[i]) /\ drawTickets[i].sample \in 1 .. SampleLimit

\* Within one generation, source and generation-local frame advance together.
SameOffset(a, b) ==
  a.device = b.device /\ a.generation = b.generation =>
    a.source - a.frame = b.source - b.frame

PresentsAligned ==
  \A i, j \in 1 .. Len(presentTickets) :
    SameOffset(presentTickets[i], presentTickets[j])

DrawsAligned ==
  \A i, j \in 1 .. Len(drawTickets) : SameOffset(drawTickets[i], drawTickets[j])

TicketInv ==
  /\ entry.id < nextId /\ nextId > 0
  /\ PresentsBehind /\ PresentsRemembered /\ PresentsAligned /\ PresentsAreDistinct
  /\ DrawsBehind /\ DrawsRemembered /\ DrawsAligned /\ DrawsAreDistinct
=============================================================================
