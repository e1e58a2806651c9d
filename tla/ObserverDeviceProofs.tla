------------------------ MODULE ObserverDeviceProofs ------------------------
(***************************************************************************)
(* What holds of the observer's hooks for every set of threads and every   *)
(* bound on the game's calls.                                              *)
(***************************************************************************)
EXTENDS ObserverDevice, FiniteSetTheorems, TLAPS

\* The operations on provenance stay inside their type.
LEMMA ProvenanceTyped ==
  ASSUME NEW p \in ProvenanceState, NEW generation \in Nat
  PROVE  /\ FreshProvenance \in ProvenanceState
         /\ AfterDraw(p, generation) \in ProvenanceState
         /\ AfterPresent(p, generation) \in ProvenanceState
         /\ OnPresented(p) \in ProvenanceState
         /\ OnReset(p) \in ProvenanceState
         /\ Taken(p, generation) \in Nat
<1>1. FreshProvenance \in ProvenanceState
  BY DEF FreshProvenance, ProvenanceState
<1>2. Taken(p, generation) \in Nat
  BY DEF Taken, ProvenanceState
<1>3. AfterDraw(p, generation) \in ProvenanceState
  <2>1. ASSUME NEW n \in Nat
        PROVE  [p EXCEPT !.sampledGen = generation, !.sampledSource = p.source,
                         !.taken = n] \in ProvenanceState
    BY DEF ProvenanceState
  <2>2. Taken(p, generation) + 1 \in Nat
    BY <1>2
  <2>3. CASE DrawsAreSampled(p, generation) /\ DrawIsSampled(p, generation)
    BY <2>1, <2>2, <2>3 DEF AfterDraw
  <2>4. CASE DrawsAreSampled(p, generation) /\ ~DrawIsSampled(p, generation)
    BY <2>1, <1>2, <2>4 DEF AfterDraw
  <2> QED
    BY <2>3, <2>4 DEF AfterDraw
<1>4. AfterPresent(p, generation) \in ProvenanceState
  BY DEF AfterPresent, ProvenanceState
<1>5. OnPresented(p) \in ProvenanceState
  <2>1. p.source + 1 \in Nat /\ p.frame + 1 \in Nat
    BY DEF ProvenanceState
  <2>2. ASSUME NEW m \in Nat, NEW n \in Nat
        PROVE  [p EXCEPT !.source = m, !.frame = n, !.sampledSource = m,
                         !.taken = 0] \in ProvenanceState
    BY DEF ProvenanceState
  <2> QED
    BY <2>1, <2>2 DEF OnPresented
<1>6. OnReset(p) \in ProvenanceState
  BY <1>1 DEF OnReset, ProvenanceState
<1> QED
  BY <1>1, <1>2, <1>3, <1>4, <1>5, <1>6

\* The values a runtime can take are of its type.
LEMMA RuntimeTyped ==
  ASSUME NEW runtime \in RuntimeState, NEW generation \in Nat
  PROVE  /\ FreshRuntime(generation) \in RuntimeState
         /\ Freed \in RuntimeState
         /\ ShutdownOf(runtime) \in RuntimeState
         /\ [TornDown(runtime) EXCEPT !.attempted = TRUE, !.disabled = TRUE]
              \in RuntimeState
         /\ [TornDown(runtime) EXCEPT !.completed = TRUE] \in RuntimeState
  BY DEF FreshRuntime, Freed, ShutdownOf, TornDown, RuntimeState

\* A hook that returns leaves every variable it touches in its type.
LEMMA ReturnTyped ==
  ASSUME TypeOK, NEW t \in Threads, Return(t)
  PROVE  /\ pc' \in [Threads -> PCs]
         /\ held' \in [Threads -> Runtimes \cup {None}]
         /\ heap' \in [Runtimes -> RuntimeState]
         /\ \A u \in Threads :
              pc'[u] \in Capturing \cup {"capture", "shutdown"} => held'[u] # None
<1>1. Freed \in RuntimeState
  BY DEF Freed, FreshRuntime, RuntimeState
<1>2. pc' \in [Threads -> PCs] /\ held' \in [Threads -> Runtimes \cup {None}]
  BY DEF Return, Goto, TypeOK, PCs
<1>3. heap' \in [Runtimes -> RuntimeState]
  BY <1>1 DEF Return, TypeOK
<1>4. \A u \in Threads :
        pc'[u] \in Capturing \cup {"capture", "shutdown"} => held'[u] # None
  BY DEF Return, Goto, TypeOK, Capturing
<1> QED
  BY <1>2, <1>3, <1>4

\* Every variable has its type and no hook uses a null runtime.
THEOREM TypeCorrect == Spec => []TypeOK
<1>1. Init => TypeOK
  <2> SUFFICES ASSUME Init PROVE TypeOK
    OBVIOUS
  <2>1. Freed \in RuntimeState
    BY DEF Freed, FreshRuntime, RuntimeState
  <2>2. prov \in ProvenanceState
    BY DEF Init, FreshProvenance, ProvenanceState
  <2>3. device \in DeviceState /\ entry \in Registration
    BY DEF Init, NoDevice, DeviceState, Unregistered, Registration
  <2> QED
    BY <2>1, <2>2, <2>3 DEF Init, TypeOK, PCs, Capturing
<1>2. TypeOK /\ [Next]_vars => TypeOK'
  <2> SUFFICES ASSUME TypeOK, [Next]_vars PROVE TypeOK'
    OBVIOUS
  <2> USE ObserverAssumption DEF registryVars, ticketVars
  <2> DEFINE Here == /\ pc' \in [Threads -> PCs]
                     /\ held' \in [Threads -> Runtimes \cup {None}]
                     /\ heap' \in [Runtimes -> RuntimeState]
                     /\ \A u \in Threads :
                          pc'[u] \in Capturing \cup {"capture", "shutdown"}
                            => held'[u] # None
  <2>1. ASSUME NEW t \in Threads, Create(t) PROVE TypeOK'
    <3>1. prov' \in ProvenanceState
      BY <2>1 DEF Create, TypeOK, FreshProvenance, ProvenanceState
    <3>2. entry' \in Registration
      BY <2>1 DEF Create, TypeOK, Registration
    <3>3. device' \in DeviceState
      BY <2>1 DEF Create, NoDevice, DeviceState
    <3> QED
      BY <2>1, <3>1, <3>2, <3>3 DEF Create, TypeOK
  <2>2. ASSUME NEW t \in Threads, Release(t) PROVE TypeOK'
    <3>1. prov' \in ProvenanceState
      BY <2>2 DEF Release, FreshProvenance, ProvenanceState
    <3>2. device' \in DeviceState /\ entry' \in Registration
      BY <2>2 DEF Release, NoDevice, DeviceState, Unregistered, Registration
    <3> QED
      BY <2>2, <3>1, <3>2 DEF Release, TypeOK, Goto, PCs, Capturing
  <2>3. ASSUME NEW t \in Threads, ResetBegins(t) PROVE TypeOK'
    BY <2>3 DEF ResetBegins, TypeOK, Goto, PCs, Capturing
  <2>4. ASSUME NEW t \in Threads, ResetShutsDown(t) PROVE TypeOK'
    <3>1. held[t] \in Runtimes
      BY <2>4 DEF ResetShutsDown, TypeOK
    <3>2. heap' \in [Runtimes -> RuntimeState]
      BY <2>4, <3>1, RuntimeTyped DEF ResetShutsDown, TypeOK
    <3> QED
      BY <2>4, <3>2 DEF ResetShutsDown, TypeOK, Goto, PCs, Capturing
  <2>5. ASSUME NEW t \in Threads, ReleaseShutsDown(t) PROVE TypeOK'
    <3>1. Here
      BY <2>5, ReturnTyped DEF ReleaseShutsDown
    <3> QED
      BY <2>5, <3>1 DEF ReleaseShutsDown, TypeOK
  <2>6. ASSUME NEW t \in Threads, RealResetSucceeds(t) PROVE TypeOK'
    <3>1. device' \in DeviceState
      <4>1. device.resets + 1 \in Nat
        BY DEF TypeOK, DeviceState
      <4>2. ASSUME NEW n \in Nat
            PROVE  [device EXCEPT !.resets = n, !.sinceReset = 0] \in DeviceState
        BY DEF TypeOK, DeviceState
      <4> QED
        BY <2>6, <4>1, <4>2 DEF RealResetSucceeds
    <3> QED
      BY <2>6, <3>1 DEF RealResetSucceeds, TypeOK, Goto, PCs, Capturing
  <2>7. ASSUME NEW t \in Threads, RealResetFails(t) PROVE TypeOK'
    <3>1. Here
      BY <2>7, ReturnTyped DEF RealResetFails
    <3> QED
      BY <2>7, <3>1 DEF RealResetFails, TypeOK
  <2>8. ASSUME NEW t \in Threads, ResetCommits(t) PROVE TypeOK'
    <3>1. Here
      BY <2>8, ReturnTyped DEF ResetCommits
    <3>2. prov' \in ProvenanceState
      BY <2>8, ProvenanceTyped DEF ResetCommits, TypeOK
    <3>3. entry' \in Registration
      BY <2>8 DEF ResetCommits, TypeOK, Registration
    <3> QED
      BY <2>8, <3>1, <3>2, <3>3 DEF ResetCommits, TypeOK
  <2>9. ASSUME NEW t \in Threads, PresentBegins(t) PROVE TypeOK'
    BY <2>9 DEF PresentBegins, TypeOK, Goto, PCs, Capturing
  <2>10. ASSUME NEW t \in Threads, LookupMisses(t) PROVE TypeOK'
    BY <2>10 DEF LookupMisses, TypeOK, Goto, PCs, Capturing
  <2>11. ASSUME NEW t \in Threads, LookupFinds(t) PROVE TypeOK'
    <3>1. FreshRuntime(entry.generation) \in RuntimeState
      BY DEF TypeOK, FreshRuntime, RuntimeState, Registration
    <3>2. multiframe' \in Runtimes /\ heap' \in [Runtimes -> RuntimeState]
      BY <2>11, <3>1 DEF LookupFinds, TypeOK
    <3> QED
      BY <2>11, <3>2 DEF LookupFinds, TypeOK, Goto, PCs, Capturing
  <2>12. ASSUME NEW t \in Threads, Capture(t) PROVE TypeOK'
    <3>1. held[t] \in Runtimes /\ heap[held[t]] \in RuntimeState
      BY <2>12 DEF TypeOK, Capture, CaptureLocks, CaptureReturns, CreatesRelays,
         StartsClient, UsesRelays, CaptureDisables, CaptureCompletes, Capturing
    <3>2. heap' \in [Runtimes -> RuntimeState]
      <4>1. CASE CreatesRelays(t) \/ StartsClient(t)
        <5>1. /\ [heap[held[t]] EXCEPT !.attempted = TRUE, !.relays = TRUE]
                   \in RuntimeState
              /\ [heap[held[t]] EXCEPT !.child = TRUE] \in RuntimeState
          BY <3>1 DEF RuntimeState
        <5>2. \E v \in RuntimeState : heap' = [heap EXCEPT ![held[t]] = v]
          BY <3>1, <4>1, <5>1 DEF TypeOK, CreatesRelays, StartsClient
        <5> QED
          BY <3>1, <5>2 DEF TypeOK
      <4>2. CASE CaptureDisables(t) \/ CaptureCompletes(t)
        <5>1. \E v \in RuntimeState : heap' = [heap EXCEPT ![held[t]] = v]
          BY <3>1, <4>2, RuntimeTyped DEF CaptureDisables, CaptureCompletes
        <5> QED
          BY <3>1, <5>1 DEF TypeOK
      <4> QED
        BY <2>12, <4>1, <4>2
           DEF TypeOK, Capture, CaptureLocks, CaptureReturns, UsesRelays
    <3>3. /\ pc' \in [Threads -> PCs]
          /\ \A u \in Threads \ {t} : pc'[u] = pc[u]
          /\ UNCHANGED <<device, registryVars, held, ticketVars>>
      BY <2>12 DEF TypeOK, Capture, CaptureLocks, CaptureReturns, CreatesRelays,
         StartsClient, UsesRelays, CaptureDisables, CaptureCompletes, Goto,
         PCs, Capturing
    <3> QED
      BY <3>1, <3>2, <3>3 DEF TypeOK
  <2>13. ASSUME NEW t \in Threads, PresentTakesTicket(t) PROVE TypeOK'
    <3>1. prov' \in ProvenanceState
      <4>1. entry.generation \in Nat
        BY DEF TypeOK, Registration
      <4>2. prov \in ProvenanceState
        BY DEF TypeOK
      <4>3. AfterPresent(prov, entry.generation) \in ProvenanceState
        BY <4>1, <4>2, ProvenanceTyped
      <4> QED
        BY <2>13, <4>2, <4>3 DEF PresentTakesTicket
    <3>2. PresentTicket \in PresentTickets
      BY DEF PresentTicket, PresentTickets, Registration, TypeOK, ProvenanceState
    <3>3. presentTickets' \in Seq(PresentTickets)
      <4>1. presentTickets \in Seq(PresentTickets)
        BY DEF TypeOK
      <4>2. Append(presentTickets, PresentTicket) \in Seq(PresentTickets)
        BY <3>2, <4>1
      <4> QED
        BY <2>13, <4>1, <4>2 DEF PresentTakesTicket
    <3> QED
      BY <2>13, <3>1, <3>3 DEF PresentTakesTicket, TypeOK, Goto, PCs, Capturing
  <2>14. ASSUME NEW t \in Threads, RealPresentSucceeds(t) PROVE TypeOK'
    <3>1. device' \in DeviceState
      <4>1. device.presents + 1 \in Nat /\ device.sinceReset + 1 \in Nat
        BY DEF TypeOK, DeviceState
      <4>2. ASSUME NEW m \in Nat, NEW n \in Nat
            PROVE  [device EXCEPT !.presents = m, !.sinceReset = n] \in DeviceState
        BY DEF TypeOK, DeviceState
      <4> QED
        BY <2>14, <4>1, <4>2 DEF RealPresentSucceeds
    <3> QED
      BY <2>14, <3>1 DEF RealPresentSucceeds, TypeOK, Goto, PCs, Capturing
  <2>15. ASSUME NEW t \in Threads, RealPresentFails(t) PROVE TypeOK'
    <3>1. Here
      BY <2>15, ReturnTyped DEF RealPresentFails
    <3> QED
      BY <2>15, <3>1 DEF RealPresentFails, TypeOK
  <2>16. ASSUME NEW t \in Threads, PresentResult(t) PROVE TypeOK'
    <3>1. Here
      BY <2>16, ReturnTyped DEF PresentResult
    <3>2. prov' \in ProvenanceState
      BY <2>16, ProvenanceTyped DEF PresentResult, TypeOK
    <3> QED
      BY <2>16, <3>1, <3>2 DEF PresentResult, TypeOK
  <2>17. ASSUME NEW t \in Threads, Draw(t) PROVE TypeOK'
    <3>1. prov' \in ProvenanceState /\ Taken(prov, entry.generation) \in Nat
      <4>1. entry.generation \in Nat
        BY DEF TypeOK, Registration
      <4> QED
        BY <2>17, <4>1, ProvenanceTyped DEF Draw, TypeOK
    <3>2. DrawTicket \in DrawTickets
      <4>1. /\ entry.id \in Nat /\ entry.generation \in Nat
            /\ prov.source \in Nat /\ prov.frame \in Nat
        BY DEF Registration, TypeOK, ProvenanceState
      <4>2. Taken(prov, entry.generation) + 1 \in Nat
        BY <3>1
      <4> QED
        BY <4>1, <4>2 DEF DrawTickets, DrawTicket
    <3>3. drawTickets' \in Seq(DrawTickets)
      <4>1. drawTickets \in Seq(DrawTickets)
        BY DEF TypeOK
      <4>2. Append(drawTickets, DrawTicket) \in Seq(DrawTickets)
        BY <3>2, <4>1
      <4> QED
        BY <2>17, <4>1, <4>2 DEF Draw
    <3> QED
      BY <2>17, <3>1, <3>3 DEF Draw, TypeOK
  <2>18. CASE UNCHANGED vars
    BY <2>18 DEF vars, TypeOK
  <2> QED
    BY <2>1, <2>2, <2>3, <2>4, <2>5, <2>6, <2>7, <2>8, <2>9, <2>10, <2>11, <2>12,
       <2>13, <2>14, <2>15, <2>16, <2>17, <2>18
       DEF Next, Calls, Continues, RealReset, Present, Lookup
<1> QED
  BY <1>1, <1>2, PTL DEF Spec
-----------------------------------------------------------------------------
(* The runtimes                                                            *)

\* A hook that returns outside Capture, having shut down what it took out of
\* the registry, leaves the runtimes consistent.
LEMMA ReturnKeepsRuntimes ==
  ASSUME TypeOK, RuntimeInv, NEW t \in Threads, Return(t),
         pc[t] \notin Capturing, pc[t] = "shutdown" => ~device.live,
         UNCHANGED <<device, multiframe>>
  PROVE  RuntimeInv'
<1> USE ObserverAssumption DEF RuntimeInv
<1>1. /\ \A u \in Threads : pc'[u] = IF u = t THEN "idle" ELSE pc[u]
      /\ \A u \in Threads : held'[u] = IF u = t THEN None ELSE held[u]
      /\ \A r \in Runtimes : heap'[r] = heap[r] \/ heap'[r] = Freed
      /\ \A r \in Runtimes : multiframe = r => heap'[r] = heap[r]
      /\ \A r \in Runtimes : \A u \in Threads \ {t} :
           held[u] = r => heap'[r] = heap[r]
  BY DEF Return, TypeOK, Goto
<1>2. Freed.disabled /\ ~Freed.relays /\ ~Freed.child
  BY DEF Freed, FreshRuntime
<1>3. \A r \in Runtimes : Open(r)' => Open(r) /\ heap'[r] = heap[r]
  BY <1>1, <1>2 DEF Open
<1>4. \A u \in Threads : pc'[u] \in Capturing =>
        /\ u # t /\ pc'[u] = pc[u] /\ held'[u] = held[u] /\ held[u] \in Runtimes
        /\ heap'[held[u]] = heap[held[u]]
  <2> SUFFICES ASSUME NEW u \in Threads, pc'[u] \in Capturing
               PROVE  /\ u # t /\ pc'[u] = pc[u] /\ held'[u] = held[u]
                      /\ held[u] \in Runtimes /\ heap'[held[u]] = heap[held[u]]
    OBVIOUS
  <2>1. u # t
    BY <1>1 DEF Capturing
  <2>2. pc'[u] = pc[u] /\ held'[u] = held[u]
    BY <1>1, <2>1
  <2>3. held[u] \in Runtimes
    BY <2>2 DEF TypeOK
  <2> QED
    BY <1>1, <2>1, <2>2, <2>3
<1>5. ReleaseIsLast'
  BY <1>1 DEF ReleaseIsLast
<1>6. IdleHoldsNothing'
  BY <1>1 DEF IdleHoldsNothing
<1>7. OpenIsRegistered'
  <2> SUFFICES ASSUME NEW r \in Runtimes, Open(r)', multiframe # r
               PROVE  BeingShutDown(r)'
    BY DEF OpenIsRegistered
  <2>1. PICK u \in Threads : pc[u] = "shutdown" /\ held[u] = r
    BY <1>3 DEF OpenIsRegistered, BeingShutDown
  <2>2. u # t
    <3> SUFFICES ASSUME u = t PROVE FALSE
      OBVIOUS
    <3>1. \A v \in Threads \ {t} : held[v] # r
      <4>1. ~device.live
        BY <2>1
      <4>2. \A v \in Threads \ {t} : pc[v] = "idle"
        BY <2>1, <4>1 DEF ReleaseIsLast
      <4> QED
        BY <4>2 DEF IdleHoldsNothing
    <3>2. heap'[r] = Freed
      BY <2>1, <3>1 DEF Return
    <3> QED
      BY <3>2, <1>2 DEF Open
  <2> QED
    BY <1>1, <2>1, <2>2 DEF BeingShutDown
<1>8. RelaysAreOpen'
  BY <1>1, <1>2 DEF RelaysAreOpen, Open
<1>9. AttemptedHasRelays'
  BY <1>3 DEF AttemptedHasRelays
<1>10. CaptureIsOpen'
  BY <1>4 DEF CaptureIsOpen, Open
<1>11. StartedHasRelays'
  BY <1>4 DEF StartedHasRelays, Capturing
<1>12. OneInCapture'
  BY <1>4 DEF OneInCapture
<1> QED
  BY <1>5, <1>6, <1>7, <1>8, <1>9, <1>10, <1>11, <1>12

\* Where a thread goes matters only when it enters or leaves Capture, the
\* wait for Shutdown, or the game.
LEMMA GotoKeepsRuntimes ==
  ASSUME TypeOK, RuntimeInv, NEW t \in Threads, NEW label \in PCs, Goto(t, label),
         pc[t] # "idle" \/ device.live, pc[t] # "shutdown",
         label \notin {"idle", "shutdown"} \cup Capturing,
         UNCHANGED <<device.live, multiframe, heap, held>>
  PROVE  RuntimeInv'
<1> USE DEF RuntimeInv
<1>1. \A u \in Threads : pc'[u] = IF u = t THEN label ELSE pc[u]
  BY DEF TypeOK, Goto
<1>2. \A r \in Runtimes : BeingShutDown(r) => BeingShutDown(r)'
  BY <1>1 DEF BeingShutDown
<1>3. ReleaseIsLast'
  BY <1>1 DEF ReleaseIsLast
<1>4. IdleHoldsNothing'
  BY <1>1 DEF IdleHoldsNothing
<1>5. OpenIsRegistered' /\ RelaysAreOpen' /\ AttemptedHasRelays'
  BY <1>2 DEF OpenIsRegistered, RelaysAreOpen, AttemptedHasRelays, Open
<1>6. CaptureIsOpen'
  BY <1>1 DEF CaptureIsOpen, Open
<1>7. StartedHasRelays'
  BY <1>1 DEF StartedHasRelays, Capturing
<1>8. OneInCapture'
  BY <1>1 DEF OneInCapture
<1> QED
  BY <1>3, <1>4, <1>5, <1>6, <1>7, <1>8

\* A thread that finds the mutex free is alone in Capture.
LEMMA LockKeepsRuntimes ==
  ASSUME TypeOK, RuntimeInv, NEW t \in Threads, CaptureLocks(t)
  PROVE  RuntimeInv'
<1> USE DEF RuntimeInv, CaptureLocks, registryVars
<1>1. CASE heap[held[t]].disabled \/ heap[held[t]].completed
  BY <1>1, GotoKeepsRuntimes DEF PCs, Capturing
<1>2. CASE Open(held[t])
  <2>1. \A u \in Threads : pc'[u] = IF u = t THEN "locked" ELSE pc[u]
    BY <1>2 DEF TypeOK, Goto, Open
  <2>2. \A u \in Threads : pc[u] \in Capturing => held[u] # held[t]
    BY DEF Locked
  <2>3. \A r \in Runtimes : BeingShutDown(r) => BeingShutDown(r)'
    BY <2>1 DEF BeingShutDown
  <2>4. ReleaseIsLast'
    BY <2>1 DEF ReleaseIsLast
  <2>5. IdleHoldsNothing'
    BY <2>1 DEF IdleHoldsNothing
  <2>6. OpenIsRegistered' /\ RelaysAreOpen' /\ AttemptedHasRelays'
    BY <2>3 DEF OpenIsRegistered, RelaysAreOpen, AttemptedHasRelays, Open
  <2>7. CaptureIsOpen'
    BY <1>2, <2>1 DEF CaptureIsOpen, Open
  <2>8. StartedHasRelays'
    BY <2>1 DEF StartedHasRelays
  <2>9. OneInCapture'
    BY <2>1, <2>2 DEF OneInCapture
  <2> QED
    BY <2>4, <2>5, <2>6, <2>7, <2>8, <2>9
<1> QED
  BY <1>1, <1>2 DEF Open

\* A step inside Capture changes the runtime of its thread and no other, and
\* either keeps it open with its relays or closes it without them.
LEMMA CaptureStepKeepsRuntimes ==
  ASSUME TypeOK, RuntimeInv, NEW t \in Threads,
         pc[t] \in Capturing, NEW label \in {"starting", "submitting", "ticket"},
         Goto(t, label), UNCHANGED <<device, multiframe, held>>,
         \A r \in Runtimes \ {held[t]} : heap'[r] = heap[r],
         IF label = "ticket" THEN ~heap'[held[t]].relays /\ ~heap'[held[t]].child
                                  /\ ~Open(held[t])'
                             ELSE heap'[held[t]].relays /\ Open(held[t])'
  PROVE  RuntimeInv'
<1> USE DEF RuntimeInv
<1>1. /\ \A u \in Threads : pc'[u] = IF u = t THEN label ELSE pc[u]
      /\ label \in Capturing \/ label = "ticket"
      /\ held[t] \in Runtimes /\ held' = held
  BY DEF TypeOK, Goto, Capturing
<1>2. \A u \in Threads \ {t} : pc[u] \in Capturing =>
        held[u] \in Runtimes \ {held[t]}
  BY DEF OneInCapture, TypeOK
<1>3. \A r \in Runtimes : BeingShutDown(r) => BeingShutDown(r)'
  BY <1>1 DEF BeingShutDown, Capturing
<1>4. ReleaseIsLast'
  BY <1>1 DEF ReleaseIsLast, Capturing
<1>5. IdleHoldsNothing'
  BY <1>1 DEF IdleHoldsNothing
<1>6. Open(held[t])
  BY DEF CaptureIsOpen
<1>7. \A r \in Runtimes \ {held[t]} : Open(r)' <=> Open(r)
  BY DEF Open
<1>8. OpenIsRegistered'
  BY <1>3, <1>6, <1>7 DEF OpenIsRegistered
<1>9. RelaysAreOpen'
  <2> SUFFICES ASSUME NEW r \in Runtimes, heap'[r].relays \/ heap'[r].child
               PROVE  Open(r)'
    BY DEF RelaysAreOpen
  <2>1. CASE r = held[t]
    BY <1>1, <2>1
  <2>2. CASE r # held[t]
    BY <1>7, <2>2 DEF RelaysAreOpen
  <2> QED
    BY <2>1, <2>2
<1>10. AttemptedHasRelays'
  <2> SUFFICES ASSUME NEW r \in Runtimes, Open(r)', heap'[r].attempted
               PROVE  heap'[r].relays
    BY DEF AttemptedHasRelays
  <2>1. CASE r = held[t]
    BY <1>1, <2>1
  <2>2. CASE r # held[t]
    BY <1>7, <2>2 DEF AttemptedHasRelays
  <2> QED
    BY <2>1, <2>2
<1>11. CaptureIsOpen'
  <2> SUFFICES ASSUME NEW u \in Threads, pc'[u] \in Capturing PROVE Open(held[u])'
    BY DEF CaptureIsOpen
  <2>1. CASE u = t
    BY <1>1, <2>1 DEF Capturing
  <2>2. CASE u # t
    <3>1. held[u] \in Runtimes \ {held[t]} /\ Open(held[u])
      BY <1>1, <1>2, <2>2 DEF CaptureIsOpen
    <3> QED
      BY <1>1, <3>1 DEF Open
  <2> QED
    BY <2>1, <2>2
<1>12. StartedHasRelays'
  <2> SUFFICES ASSUME NEW u \in Threads, pc'[u] \in {"starting", "submitting"}
               PROVE  heap'[held[u]].relays
    BY <1>1 DEF StartedHasRelays
  <2>1. CASE u = t
    BY <1>1, <2>1
  <2>2. CASE u # t
    <3>1. pc[u] = pc'[u] /\ held[u] \in Runtimes \ {held[t]}
      BY <1>1, <1>2, <2>2 DEF Capturing
    <3> QED
      BY <3>1 DEF StartedHasRelays
  <2> QED
    BY <2>1, <2>2
<1>13. OneInCapture'
  BY <1>1, <1>2 DEF OneInCapture
<1> QED
  BY <1>4, <1>5, <1>8, <1>9, <1>10, <1>11, <1>12, <1>13

\* Every step of Capture.
LEMMA CaptureKeepsRuntimes ==
  ASSUME TypeOK, RuntimeInv, NEW t \in Threads, Capture(t)
  PROVE  RuntimeInv'
<1> USE DEF registryVars
<1>1. CASE CaptureReturns(t)
  BY <1>1, GotoKeepsRuntimes DEF CaptureReturns, PCs, Capturing
<1>2. CASE CaptureLocks(t)
  BY <1>2, LockKeepsRuntimes
<1>3. ASSUME \/ CreatesRelays(t) \/ StartsClient(t) \/ UsesRelays(t)
             \/ CaptureDisables(t) \/ CaptureCompletes(t)
      PROVE  RuntimeInv'
  <2>1. pc[t] \in Capturing
    BY <1>3 DEF CreatesRelays, StartsClient, UsesRelays, CaptureDisables,
                CaptureCompletes, Capturing
  <2>2. held[t] \in Runtimes /\ heap[held[t]] \in RuntimeState
    BY <2>1 DEF TypeOK
  <2>3. Open(held[t])
    BY <2>1 DEF RuntimeInv, CaptureIsOpen
  <2>4. CASE CreatesRelays(t)
    <3>1. heap'[held[t]].relays /\ Open(held[t])'
      BY <2>2, <2>3, <2>4 DEF CreatesRelays, Open, TypeOK, RuntimeState
    <3>2. /\ \A r \in Runtimes \ {held[t]} : heap'[r] = heap[r]
          /\ Goto(t, "starting") /\ UNCHANGED <<device, multiframe, held>>
      BY <2>2, <2>4 DEF CreatesRelays, TypeOK
    <3> QED
      BY <2>1, <3>1, <3>2, CaptureStepKeepsRuntimes
  <2>5. CASE StartsClient(t)
    <3>1. heap[held[t]].relays
      BY <2>5 DEF StartsClient, RuntimeInv, StartedHasRelays
    <3>2. heap'[held[t]].relays /\ Open(held[t])'
      BY <2>2, <2>3, <2>5, <3>1 DEF StartsClient, Open, TypeOK, RuntimeState
    <3>3. /\ \A r \in Runtimes \ {held[t]} : heap'[r] = heap[r]
          /\ Goto(t, "submitting") /\ UNCHANGED <<device, multiframe, held>>
      BY <2>2, <2>5 DEF StartsClient, TypeOK
    <3> QED
      BY <2>1, <3>2, <3>3, CaptureStepKeepsRuntimes
  <2>6. CASE UsesRelays(t)
    <3>1. heap'[held[t]].relays /\ Open(held[t])'
      BY <2>2, <2>3, <2>6 DEF UsesRelays, Open, RuntimeInv, AttemptedHasRelays
    <3>2. /\ \A r \in Runtimes \ {held[t]} : heap'[r] = heap[r]
          /\ Goto(t, "submitting") /\ UNCHANGED <<device, multiframe, held>>
      BY <2>6 DEF UsesRelays
    <3> QED
      BY <2>1, <3>1, <3>2, CaptureStepKeepsRuntimes
  <2>7. CASE CaptureDisables(t)
    <3>1. ~heap'[held[t]].relays /\ ~heap'[held[t]].child /\ ~Open(held[t])'
      BY <2>2, <2>7 DEF CaptureDisables, TornDown, Open, TypeOK, RuntimeState
    <3>2. /\ \A r \in Runtimes \ {held[t]} : heap'[r] = heap[r]
          /\ Goto(t, "ticket") /\ UNCHANGED <<device, multiframe, held>>
      BY <2>2, <2>7 DEF CaptureDisables, TypeOK
    <3> QED
      BY <2>1, <3>1, <3>2, CaptureStepKeepsRuntimes
  <2>8. CASE CaptureCompletes(t)
    <3>1. ~heap'[held[t]].relays /\ ~heap'[held[t]].child /\ ~Open(held[t])'
      BY <2>2, <2>8 DEF CaptureCompletes, TornDown, Open, TypeOK, RuntimeState
    <3>2. /\ \A r \in Runtimes \ {held[t]} : heap'[r] = heap[r]
          /\ Goto(t, "ticket") /\ UNCHANGED <<device, multiframe, held>>
      BY <2>2, <2>8 DEF CaptureCompletes, TypeOK
    <3> QED
      BY <2>1, <3>1, <3>2, CaptureStepKeepsRuntimes
  <2> QED
    BY <1>3, <2>4, <2>5, <2>6, <2>7, <2>8
<1> QED
  BY <1>1, <1>2, <1>3 DEF Capture

\* Taking the runtime out of the registry passes the duty to shut it down to
\* the thread that took it.
LEMMA TakingKeepsRuntimes ==
  ASSUME TypeOK, RuntimeInv, NEW t \in Threads, Release(t) \/ ResetBegins(t)
  PROVE  RuntimeInv'
<1> USE ObserverAssumption DEF RuntimeInv
<1>1. /\ t = Creator /\ pc[t] = "idle" /\ device.live
      /\ \A u \in Threads : held'[u] = IF u = t THEN multiframe ELSE held[u]
      /\ multiframe' = None /\ UNCHANGED heap
  BY DEF Release, ResetBegins, TypeOK
<1>2. /\ \A u \in Threads \ {t} : pc'[u] = pc[u]
      /\ pc'[t] \in {"idle", "shutdown", "reset"}
      /\ pc'[t] = "shutdown" \/ multiframe = None
      /\ pc'[t] = "idle" => multiframe = None
  BY <1>1 DEF Release, ResetBegins, Goto, TypeOK
<1>3. ReleaseIsLast'
  <2>1. CASE Release(t)
    BY <1>1, <1>2, <2>1 DEF ReleaseIsLast, Release, Goto, TypeOK
  <2>2. CASE ResetBegins(t)
    BY <1>1, <2>2 DEF ReleaseIsLast, ResetBegins
  <2> QED
    BY <2>1, <2>2
<1>4. \A r \in Runtimes : multiframe = r \/ BeingShutDown(r) => BeingShutDown(r)'
  BY <1>1, <1>2 DEF BeingShutDown
<1>5. \A u \in Threads : pc'[u] \in Capturing =>
        u # t /\ pc[u] = pc'[u] /\ held'[u] = held[u]
  BY <1>1, <1>2 DEF Capturing
<1>6. IdleHoldsNothing'
  BY <1>1, <1>2 DEF IdleHoldsNothing
<1>7. OpenIsRegistered' /\ RelaysAreOpen' /\ AttemptedHasRelays'
  BY <1>1, <1>4 DEF OpenIsRegistered, RelaysAreOpen, AttemptedHasRelays, Open
<1>8. CaptureIsOpen'
  BY <1>1, <1>5 DEF CaptureIsOpen, Open
<1>9. StartedHasRelays'
  BY <1>1, <1>5 DEF StartedHasRelays, Capturing
<1>10. OneInCapture'
  BY <1>5 DEF OneInCapture
<1> QED
  BY <1>3, <1>6, <1>7, <1>8, <1>9, <1>10

\* A new runtime is made where no thread has one, and is registered at once.
LEMMA LookupKeepsRuntimes ==
  ASSUME TypeOK, RuntimeInv, NEW t \in Threads, LookupFinds(t)
  PROVE  RuntimeInv'
<1> USE ObserverAssumption DEF RuntimeInv
<1>1. /\ pc[t] = "lookup" /\ device' = device /\ device.live
      /\ \A u \in Threads : pc'[u] = IF u = t THEN "capture" ELSE pc[u]
      /\ \A u \in Threads : held'[u] = IF u = t THEN multiframe' ELSE held[u]
  <2>1. pc[t] = "lookup" /\ device' = device
    BY DEF LookupFinds
  <2>2. device.live
    BY <2>1 DEF ReleaseIsLast
  <2> QED
    BY <2>1, <2>2 DEF LookupFinds, TypeOK, Goto
<1>2. PICK r \in Runtimes :
        /\ multiframe' = r
        /\ \A s \in Runtimes \ {r} : heap'[s] = heap[s]
        /\ \/ multiframe = r /\ heap' = heap
           \/ /\ multiframe = None /\ ~Referenced(r)
              /\ heap'[r] = FreshRuntime(entry.generation)
  <2>1. CASE multiframe = None
    BY <2>1 DEF LookupFinds, TypeOK
  <2>2. CASE multiframe # None
    BY <2>2 DEF LookupFinds, TypeOK
  <2> QED
    BY <2>1, <2>2
<1>3. \A u \in Threads : pc'[u] \in Capturing =>
        /\ u # t /\ pc[u] = pc'[u] /\ held'[u] = held[u]
        /\ held[u] \in Runtimes /\ heap'[held[u]] = heap[held[u]]
  <2> SUFFICES ASSUME NEW u \in Threads, pc'[u] \in Capturing
               PROVE  /\ u # t /\ pc[u] = pc'[u] /\ held'[u] = held[u]
                      /\ held[u] \in Runtimes /\ heap'[held[u]] = heap[held[u]]
    OBVIOUS
  <2>1. u # t /\ pc[u] = pc'[u] /\ held'[u] = held[u]
    BY <1>1 DEF Capturing
  <2>2. held[u] \in Runtimes
    BY <2>1 DEF TypeOK
  <2> QED
    BY <1>2, <2>1, <2>2 DEF Referenced
<1>4. \A s \in Runtimes \ {r} : Open(s)' <=> Open(s)
  BY <1>2 DEF Open
<1>5. \A s \in Runtimes : BeingShutDown(s) => BeingShutDown(s)'
  BY <1>1 DEF BeingShutDown
<1>6. ReleaseIsLast'
  BY <1>1 DEF ReleaseIsLast
<1>7. IdleHoldsNothing'
  BY <1>1 DEF IdleHoldsNothing
<1>8. OpenIsRegistered'
  <2> SUFFICES ASSUME NEW s \in Runtimes, Open(s)', s # r PROVE BeingShutDown(s)'
    BY <1>2 DEF OpenIsRegistered
  <2>1. multiframe # s
    BY <1>2
  <2> QED
    BY <1>4, <1>5, <2>1 DEF OpenIsRegistered
<1>9. FreshRuntime(entry.generation).relays = FALSE
      /\ FreshRuntime(entry.generation).child = FALSE
      /\ FreshRuntime(entry.generation).attempted = FALSE
  BY DEF FreshRuntime
<1>10. RelaysAreOpen'
  BY <1>2, <1>4, <1>9 DEF RelaysAreOpen, Open
<1>11. AttemptedHasRelays'
  BY <1>2, <1>4, <1>9 DEF AttemptedHasRelays, Open
<1>12. CaptureIsOpen'
  BY <1>3 DEF CaptureIsOpen, Open
<1>13. StartedHasRelays'
  BY <1>3 DEF StartedHasRelays, Capturing
<1>14. OneInCapture'
  BY <1>3 DEF OneInCapture
<1> QED
  BY <1>6, <1>7, <1>8, <1>10, <1>11, <1>12, <1>13, <1>14

\* Shutdown runs while no thread is inside Capture of the runtime, and leaves
\* it closed.
LEMMA ShutdownKeepsRuntimes ==
  ASSUME TypeOK, RuntimeInv, NEW t \in Threads, ResetShutsDown(t)
  PROVE  RuntimeInv'
<1> USE DEF RuntimeInv
<1>1. /\ pc[t] = "shutdown" /\ device' = device /\ device.live
      /\ held' = held /\ multiframe' = multiframe
      /\ held[t] \in Runtimes /\ heap[held[t]] \in RuntimeState
      /\ \A u \in Threads : pc'[u] = IF u = t THEN "reset" ELSE pc[u]
  BY DEF ResetShutsDown, registryVars, TypeOK, Goto
<1>2. /\ \A r \in Runtimes \ {held[t]} : heap'[r] = heap[r]
      /\ heap'[held[t]] = ShutdownOf(heap[held[t]])
  BY <1>1 DEF ResetShutsDown, TypeOK
<1>3. ~Open(held[t])' /\ ~heap'[held[t]].relays /\ ~heap'[held[t]].child
  <2>1. CASE heap[held[t]].completed
    BY <1>1, <1>2, <2>1 DEF ShutdownOf, RelaysAreOpen, Open
  <2>2. CASE ~heap[held[t]].completed
    BY <1>1, <1>2, <2>2 DEF ShutdownOf, TornDown, Open, RuntimeState
  <2> QED
    BY <2>1, <2>2
<1>4. \A u \in Threads : pc'[u] \in Capturing =>
        /\ u # t /\ pc[u] = pc'[u]
        /\ held[u] \in Runtimes \ {held[t]}
  BY <1>1 DEF ResetShutsDown, Locked, Capturing, TypeOK
<1>5. \A r \in Runtimes : Open(r)' => Open(r) /\ heap'[r] = heap[r] /\ r # held[t]
  BY <1>1, <1>2, <1>3 DEF Open
<1>6. \A r \in Runtimes \ {held[t]} : BeingShutDown(r) => BeingShutDown(r)'
  BY <1>1 DEF BeingShutDown
<1>7. ReleaseIsLast'
  BY <1>1 DEF ReleaseIsLast
<1>8. IdleHoldsNothing'
  BY <1>1 DEF IdleHoldsNothing
<1>9. OpenIsRegistered'
  BY <1>1, <1>5, <1>6 DEF OpenIsRegistered
<1>10. RelaysAreOpen'
  BY <1>2, <1>3 DEF RelaysAreOpen, Open
<1>11. AttemptedHasRelays'
  BY <1>5 DEF AttemptedHasRelays
<1>12. CaptureIsOpen'
  BY <1>1, <1>2, <1>4 DEF CaptureIsOpen, Open
<1>13. StartedHasRelays'
  BY <1>1, <1>2, <1>4 DEF StartedHasRelays, Capturing
<1>14. OneInCapture'
  BY <1>1, <1>4 DEF OneInCapture
<1> QED
  BY <1>7, <1>8, <1>9, <1>10, <1>11, <1>12, <1>13, <1>14

\* RuntimeInv is inductive.
LEMMA RuntimesStep == TypeOK /\ RuntimeInv /\ [Next]_vars => RuntimeInv'
<1> SUFFICES ASSUME TypeOK, RuntimeInv, [Next]_vars PROVE RuntimeInv'
  OBVIOUS
<1> USE DEF registryVars, ticketVars
<1>1. ASSUME UNCHANGED <<multiframe, heap, pc, held>>, device' = device \/ device'.live
      PROVE  RuntimeInv'
  BY <1>1 DEF RuntimeInv, ReleaseIsLast, IdleHoldsNothing, OpenIsRegistered,
     RelaysAreOpen, AttemptedHasRelays, CaptureIsOpen, StartedHasRelays,
     OneInCapture, Open, BeingShutDown
<1>2. ASSUME NEW t \in Threads, Create(t) \/ Draw(t) PROVE RuntimeInv'
  BY <1>1, <1>2 DEF Create, Draw, NoDevice
<1>3. ASSUME NEW t \in Threads, Release(t) \/ ResetBegins(t) PROVE RuntimeInv'
  BY <1>3, TakingKeepsRuntimes
<1>4. ASSUME NEW t \in Threads, ResetShutsDown(t) PROVE RuntimeInv'
  BY <1>4, ShutdownKeepsRuntimes
<1>5. ASSUME NEW t \in Threads,
             \/ ReleaseShutsDown(t) \/ RealResetFails(t) \/ ResetCommits(t)
             \/ RealPresentFails(t) \/ PresentResult(t)
      PROVE  RuntimeInv'
  <2>1. /\ Return(t) /\ UNCHANGED <<device, multiframe>>
        /\ pc[t] \notin Capturing
        /\ pc[t] = "shutdown" => ~device.live
    BY <1>5 DEF ReleaseShutsDown, RealResetFails, ResetCommits, RealPresentFails,
                PresentResult, Capturing
  <2> QED
    BY <2>1, ReturnKeepsRuntimes
<1>6. ASSUME NEW t \in Threads, PresentBegins(t) PROVE RuntimeInv'
  <2>1. PICK label \in {"lookup", "ticket"} : Goto(t, label)
    BY <1>6 DEF PresentBegins
  <2> QED
    BY <1>6, <2>1, GotoKeepsRuntimes DEF PresentBegins, PCs, Capturing
<1>7. ASSUME NEW t \in Threads, LookupFinds(t) PROVE RuntimeInv'
  BY <1>7, LookupKeepsRuntimes
<1>8. ASSUME NEW t \in Threads, Capture(t) PROVE RuntimeInv'
  BY <1>8, CaptureKeepsRuntimes
<1>9. ASSUME NEW t \in Threads, LookupMisses(t) PROVE RuntimeInv'
  BY <1>9, GotoKeepsRuntimes DEF LookupMisses, PCs, Capturing
<1>10. ASSUME NEW t \in Threads, PresentTakesTicket(t) PROVE RuntimeInv'
  BY <1>10, GotoKeepsRuntimes DEF PresentTakesTicket, PCs, Capturing
<1>11. ASSUME NEW t \in Threads, RealPresentSucceeds(t) PROVE RuntimeInv'
  <2>1. device'.live = device.live
    BY <1>11 DEF RealPresentSucceeds, TypeOK, DeviceState
  <2> QED
    BY <1>11, <2>1, GotoKeepsRuntimes DEF RealPresentSucceeds, PCs, Capturing
<1>12. ASSUME NEW t \in Threads, RealResetSucceeds(t) PROVE RuntimeInv'
  <2>1. device'.live = device.live
    BY <1>12 DEF RealResetSucceeds, TypeOK, DeviceState
  <2> QED
    BY <1>12, <2>1, GotoKeepsRuntimes DEF RealResetSucceeds, PCs, Capturing
<1>13. CASE UNCHANGED vars
  BY <1>1, <1>13 DEF vars
<1> QED
  BY <1>2, <1>3, <1>4, <1>5, <1>6, <1>7, <1>8, <1>9, <1>10, <1>11, <1>12, <1>13
     DEF Next, Calls, Continues, RealReset, Present, Lookup

\* No runtime is open before the first device.
LEMMA RuntimesInit == Init => RuntimeInv
<1> SUFFICES ASSUME Init PROVE RuntimeInv
  OBVIOUS
<1> USE DEF Init
<1>1. Freed.disabled /\ ~Freed.relays /\ ~Freed.child
  BY DEF Freed, FreshRuntime
<1> QED
  BY <1>1 DEF RuntimeInv, ReleaseIsLast, IdleHoldsNothing, OpenIsRegistered,
     RelaysAreOpen, AttemptedHasRelays, CaptureIsOpen, StartedHasRelays,
     OneInCapture, Open, Capturing

\* The flags and the mutex of a runtime protect it at all times.
THEOREM RuntimesAreConsistent == Spec => []RuntimeInv
<1>1. Spec => []TypeOK
  BY TypeCorrect
<1> QED
  BY <1>1, RuntimesInit, RuntimesStep, PTL DEF Spec

\* Relays and sinks exist only in the registered runtime, or in one about to be
\* shut down.
THEOREM SessionsAreRegistered == Spec => []NoSessionOutsideRegistry
<1>1. RuntimeInv => NoSessionOutsideRegistry
  BY DEF RuntimeInv, RelaysAreOpen, OpenIsRegistered, NoSessionOutsideRegistry
<1> QED
  BY <1>1, RuntimesAreConsistent, PTL

\* No thread has its runtime torn down while it is inside Capture.
THEOREM CapturesAreUndisturbed == Spec => []CaptureIsUndisturbed
<1>1. RuntimeInv => CaptureIsUndisturbed
  BY DEF RuntimeInv, CaptureIsOpen, StartedHasRelays, Open, Capturing,
         CaptureIsUndisturbed
<1> QED
  BY <1>1, RuntimesAreConsistent, PTL

\* With a single thread, ResetIsAlone is inductive.
LEMMA ResetIsAloneStep ==
  ASSUME Threads = {Creator}, TypeOK, ResetIsAlone, [Next]_vars
  PROVE  ResetIsAlone'
<1> USE DEF ResetIsAlone, TypeOK, Goto, Return, registryVars, ticketVars
<1>1. CASE UNCHANGED vars
  BY <1>1 DEF vars
<1>2. ASSUME NEW t \in Threads,
             Create(t) \/ Release(t) \/ ResetBegins(t) \/ PresentBegins(t) \/ Draw(t)
      PROVE  ResetIsAlone'
  BY <1>2 DEF Create, Release, ResetBegins, PresentBegins, Draw
<1>3. ASSUME NEW t \in Threads,
             \/ ResetShutsDown(t) \/ ReleaseShutsDown(t) \/ RealReset(t)
             \/ ResetCommits(t)
      PROVE  ResetIsAlone'
  BY <1>3 DEF ResetShutsDown, ReleaseShutsDown, RealReset, RealResetSucceeds,
     RealResetFails, ResetCommits
<1>4. ASSUME NEW t \in Threads, Capture(t) PROVE ResetIsAlone'
  BY <1>4 DEF Capture, CaptureLocks, CaptureReturns, CreatesRelays, StartsClient,
     UsesRelays, CaptureDisables, CaptureCompletes
<1>5. ASSUME NEW t \in Threads,
             \/ LookupMisses(t) \/ LookupFinds(t) \/ PresentTakesTicket(t)
             \/ RealPresentSucceeds(t) \/ RealPresentFails(t) \/ PresentResult(t)
      PROVE  ResetIsAlone'
  BY <1>5 DEF LookupMisses, LookupFinds, PresentTakesTicket, RealPresentSucceeds,
     RealPresentFails, PresentResult
<1> QED
  BY <1>1, <1>2, <1>3, <1>4, <1>5 DEF Next, Calls, Continues, Present, Lookup

\* In a game with one thread, no session has relays or a sink while the real
\* Reset runs.
THEOREM ResetIsClean ==
  ASSUME Threads = {Creator}
  PROVE  Spec => []NoRelayAcrossReset
<1>1. Init => ResetIsAlone
  BY DEF Init, ResetIsAlone
<1>2. TypeOK /\ ResetIsAlone /\ [Next]_vars => ResetIsAlone'
  BY ResetIsAloneStep
<1>3. RuntimeInv /\ ResetIsAlone => NoRelayAcrossReset
  <2> SUFFICES ASSUME RuntimeInv, ResetIsAlone,
                      NEW t \in Threads, pc[t] = "reset", NEW r \in Runtimes
               PROVE  ~heap[r].relays /\ ~heap[r].child
    BY DEF NoRelayAcrossReset
  <2>1. multiframe = None /\ ~BeingShutDown(r)
    BY DEF ResetIsAlone, BeingShutDown
  <2> QED
    BY <2>1, ObserverAssumption DEF RuntimeInv, RelaysAreOpen, OpenIsRegistered
<1> QED
  BY <1>1, <1>2, <1>3, TypeCorrect, RuntimesAreConsistent, PTL DEF Spec
-----------------------------------------------------------------------------
(* The tickets                                                             *)

\* How the operations on provenance move its counters.
LEMMA ProvenanceMoves ==
  ASSUME NEW p \in ProvenanceState, NEW generation \in Nat
  PROVE  /\ AfterDraw(p, generation).source = p.source
         /\ AfterDraw(p, generation).frame = p.frame
         /\ AfterDraw(p, generation).presentSampled = p.presentSampled
         /\ AfterDraw(p, generation).presentGen = p.presentGen
         /\ AfterDraw(p, generation).presentSource = p.presentSource
         /\ Taken(AfterDraw(p, generation), generation)
              = IF DrawIsSampled(p, generation) THEN Taken(p, generation) + 1
                ELSE Taken(p, generation)
         /\ AfterPresent(p, generation).source = p.source
         /\ AfterPresent(p, generation).frame = p.frame
         /\ Taken(AfterPresent(p, generation), generation) = Taken(p, generation)
         /\ PresentIsSampled(p, generation) =>
              /\ AfterPresent(p, generation).presentSampled
              /\ AfterPresent(p, generation).presentGen = generation
              /\ AfterPresent(p, generation).presentSource = p.source
         /\ ~PresentIsSampled(p, generation) => AfterPresent(p, generation) = p
         /\ OnPresented(p).source = p.source + 1
         /\ OnPresented(p).frame = p.frame + 1
         /\ OnReset(p).source = p.source
<1>1. /\ AfterDraw(p, generation).source = p.source
      /\ AfterDraw(p, generation).frame = p.frame
      /\ AfterDraw(p, generation).presentSampled = p.presentSampled
      /\ AfterDraw(p, generation).presentGen = p.presentGen
      /\ AfterDraw(p, generation).presentSource = p.presentSource
  BY DEF AfterDraw, ProvenanceState
<1>2. Taken(AfterDraw(p, generation), generation)
        = IF DrawIsSampled(p, generation) THEN Taken(p, generation) + 1
          ELSE Taken(p, generation)
  <2> DEFINE q == AfterDraw(p, generation)
             n == IF DrawIsSampled(p, generation) THEN Taken(p, generation) + 1
                  ELSE Taken(p, generation)
  <2>1. CASE DrawsAreSampled(p, generation)
    <3>1. q.source = p.source /\ q.sampledSource = p.source
          /\ q.sampledGen = generation /\ q.taken = n
      BY <2>1 DEF AfterDraw, ProvenanceState
    <3> HIDE DEF q, n
    <3>2. Taken(q, generation) = n
      BY <3>1 DEF Taken
    <3> QED
      BY <3>2 DEF q, n
  <2>2. CASE ~DrawsAreSampled(p, generation)
    BY <2>2 DEF AfterDraw, DrawIsSampled
  <2> QED
    BY <2>1, <2>2
<1>3. /\ AfterPresent(p, generation).source = p.source
      /\ AfterPresent(p, generation).frame = p.frame
      /\ Taken(AfterPresent(p, generation), generation) = Taken(p, generation)
  BY DEF AfterPresent, ProvenanceState, Taken
<1>4. PresentIsSampled(p, generation) =>
        /\ AfterPresent(p, generation).presentSampled
        /\ AfterPresent(p, generation).presentGen = generation
        /\ AfterPresent(p, generation).presentSource = p.source
  BY DEF AfterPresent, ProvenanceState
<1>5. ~PresentIsSampled(p, generation) => AfterPresent(p, generation) = p
  BY DEF AfterPresent
<1>6. OnPresented(p).source = p.source + 1 /\ OnPresented(p).frame = p.frame + 1
  BY DEF OnPresented, ProvenanceState
<1>7. OnReset(p).source = p.source
  BY DEF OnReset, FreshProvenance
<1> QED
  BY <1>1, <1>2, <1>3, <1>4, <1>5, <1>6, <1>7

\* Appending adds one element and changes no other.
LEMMA AppendFacts ==
  ASSUME NEW S, NEW s \in Seq(S), NEW x \in S
  PROVE  /\ Len(Append(s, x)) = Len(s) + 1 /\ Len(s) \in Nat
         /\ \A i \in 1 .. Len(s) : Append(s, x)[i] = s[i] /\ s[i] \in S
         /\ Append(s, x)[Len(s) + 1] = x
         /\ \A i \in 1 .. Len(Append(s, x)) : i \in 1 .. Len(s) \/ i = Len(s) + 1
  OBVIOUS

\* The fields of the tickets, and of what they are compared with, are numbers.
LEMMA TicketsTyped ==
  ASSUME TypeOK
  PROVE  /\ entry.id \in Nat /\ entry.generation \in Nat /\ nextId \in Nat
         /\ prov.source \in Nat /\ prov.frame \in Nat
         /\ Taken(prov, entry.generation) \in Nat
         /\ \A i \in 1 .. Len(presentTickets) : presentTickets[i] \in PresentTickets
         /\ \A i \in 1 .. Len(drawTickets) : drawTickets[i] \in DrawTickets
<1>1. entry.id \in Nat /\ entry.generation \in Nat /\ nextId \in Nat
  BY DEF TypeOK, Registration
<1>2. prov \in ProvenanceState
  BY DEF TypeOK
<1>3. prov.source \in Nat /\ prov.frame \in Nat
  BY <1>2 DEF ProvenanceState
<1>4. Taken(prov, entry.generation) \in Nat
  BY <1>1, <1>2, ProvenanceTyped
<1>5. presentTickets \in Seq(PresentTickets) /\ drawTickets \in Seq(DrawTickets)
  BY DEF TypeOK
<1>6. \A i \in 1 .. Len(presentTickets) : presentTickets[i] \in PresentTickets
  BY <1>5
<1>7. \A i \in 1 .. Len(drawTickets) : drawTickets[i] \in DrawTickets
  BY <1>5
<1> QED
  BY <1>1, <1>3, <1>4, <1>6, <1>7

\* When time moves on - a device, a generation or a frame later - every ticket
\* is behind and none is of the present frame.
LEMMA AdvanceKeepsTickets ==
  ASSUME TypeOK, TypeOK', TicketInv, UNCHANGED ticketVars,
         nextId' \in {nextId, nextId + 1}, entry'.id < nextId',
         \/ entry'.id = 0 \/ entry'.id = nextId
         \/ /\ entry'.id = entry.id
            /\ \/ entry'.generation = entry.generation + 1
               \/ /\ entry'.generation = entry.generation
                  /\ prov'.source = prov.source + 1
                  /\ prov'.frame = prov.frame + 1
  PROVE  TicketInv'
<1> USE DEF ticketVars
<1>1. /\ entry.id \in Nat /\ entry.generation \in Nat /\ nextId \in Nat
      /\ prov.source \in Nat /\ prov.frame \in Nat
      /\ \A i \in 1 .. Len(presentTickets) : presentTickets[i] \in PresentTickets
      /\ \A i \in 1 .. Len(drawTickets) : drawTickets[i] \in DrawTickets
  BY TicketsTyped
<1>2. \A ticket \in PresentTickets \cup DrawTickets :
        /\ ticket.device \in Nat /\ ticket.generation \in Nat
        /\ ticket.source \in Nat /\ ticket.frame \in Nat
  BY DEF PresentTickets, DrawTickets
<1>3. entry'.id \in Nat /\ entry'.generation \in Nat
  BY DEF TypeOK, Registration
<1>4. ASSUME NEW ticket \in PresentTickets \cup DrawTickets, Behind(ticket)
      PROVE  Behind(ticket)' /\ ~OfThisFrame(ticket)'
  <2>1. /\ ticket.device \in Nat /\ ticket.generation \in Nat
        /\ ticket.source \in Nat /\ ticket.frame \in Nat
    BY <1>2
  <2>2. /\ 0 < ticket.device /\ ticket.device < nextId /\ ticket.device < nextId'
        /\ ticket.frame < FrameLimit
    BY <1>1, <1>4, <2>1 DEF Behind
  <2>3. CASE entry'.id # entry.id \/ entry'.generation # entry.generation
    <3>1. ~ (ticket.device = entry'.id /\ ticket.generation >= entry'.generation)
      <4>1. CASE entry'.id = 0 \/ entry'.id = nextId
        BY <1>1, <2>1, <2>2, <4>1
      <4>2. CASE /\ entry'.id = entry.id
                 /\ entry'.generation = entry.generation + 1
        BY <1>1, <1>4, <2>1, <4>2 DEF Behind
      <4> QED
        BY <2>3, <4>1, <4>2
    <3>2. ticket.device = entry'.id =>
            /\ ticket.generation <= entry'.generation
            /\ ticket.generation # entry'.generation
      BY <1>3, <2>1, <3>1
    <3> QED
      BY <2>2, <3>2 DEF Behind, OfThisFrame
  <2>4. CASE entry'.id = entry.id /\ entry'.generation = entry.generation
    <3>1. CASE ticket.device = entry.id
      <4>1. prov'.source = prov.source + 1 /\ prov'.frame = prov.frame + 1
        <5>1. entry.id # 0 /\ entry.id # nextId
          BY <1>1, <2>1, <2>2, <3>1
        <5>2. entry.generation # entry.generation + 1
          BY <1>1
        <5> QED
          BY <2>4, <5>1, <5>2
      <4>2. ticket.generation <= entry.generation
        BY <1>4, <3>1 DEF Behind
      <4>3. ticket.generation = entry.generation =>
              /\ ticket.source <= prov'.source /\ ticket.source # prov'.source
              /\ ticket.source - ticket.frame = prov'.source - prov'.frame
        BY <1>1, <1>4, <2>1, <3>1, <4>1 DEF Behind
      <4> QED
        BY <2>2, <2>4, <3>1, <4>2, <4>3 DEF Behind, OfThisFrame
    <3>2. CASE ticket.device # entry.id
      BY <2>2, <2>4, <3>2 DEF Behind, OfThisFrame
    <3> QED
      BY <3>1, <3>2
  <2> QED
    BY <2>3, <2>4
<1>5. PresentsBehind' /\ PresentsRemembered'
  BY <1>1, <1>4 DEF TicketInv, PresentsBehind, PresentsRemembered
<1>6. DrawsBehind' /\ DrawsRemembered'
  BY <1>1, <1>4 DEF TicketInv, DrawsBehind, DrawsRemembered
<1>7. /\ PresentsAligned' /\ PresentsAreDistinct'
      /\ DrawsAligned' /\ DrawsAreDistinct'
  BY DEF TicketInv, PresentsAligned, PresentsAreDistinct, DrawsAligned,
         DrawsAreDistinct, SameOffset
<1>8. entry'.id < nextId' /\ nextId' > 0
  BY <1>1 DEF TicketInv
<1> QED
  BY <1>5, <1>6, <1>7, <1>8 DEF TicketInv

\* A Present that gets a ticket gets a new one.
LEMMA PresentKeepsTickets ==
  ASSUME TypeOK, TypeOK', TicketInv, NEW t \in Threads, PresentTakesTicket(t)
  PROVE  TicketInv'
<1> USE DEF TicketInv
<1>1. /\ entry.id \in Nat /\ entry.generation \in Nat
      /\ prov.source \in Nat /\ prov.frame \in Nat
      /\ presentTickets \in Seq(PresentTickets) /\ prov \in ProvenanceState
      /\ \A i \in 1 .. Len(presentTickets) : presentTickets[i] \in PresentTickets
  BY TicketsTyped DEF TypeOK
<1>2. UNCHANGED <<entry, nextId, drawTickets>>
  BY DEF PresentTakesTicket
<1>3. CASE UNCHANGED <<prov, presentTickets>>
  BY <1>2, <1>3 DEF PresentsBehind, PresentsRemembered, PresentsAligned,
     PresentsAreDistinct, DrawsBehind, DrawsRemembered, DrawsAligned,
     DrawsAreDistinct, Behind, OfThisFrame, SameOffset
<1>4. CASE /\ entry.id # 0 /\ PresentIsSampled(prov, entry.generation)
           /\ prov' = AfterPresent(prov, entry.generation)
           /\ presentTickets' = Append(presentTickets, PresentTicket)
  <2>1. /\ prov'.source = prov.source /\ prov'.frame = prov.frame
        /\ prov'.presentSampled /\ prov'.presentGen = entry.generation
        /\ prov'.presentSource = prov.source
        /\ Taken(prov', entry.generation) = Taken(prov, entry.generation)
    BY <1>1, <1>4, ProvenanceMoves
  <2>2. /\ PresentTicket \in PresentTickets
        /\ PresentTicket.device = entry.id
        /\ PresentTicket.generation = entry.generation
        /\ PresentTicket.source = prov.source /\ PresentTicket.frame = prov.frame
    BY <1>1 DEF PresentTicket, PresentTickets
  <2>3. prov.frame < FrameLimit
    BY <1>4 DEF PresentIsSampled, GenerationIsSampled
  <2> DEFINE n == Len(presentTickets)
  <2>4. /\ Len(presentTickets') = n + 1 /\ n \in Nat
        /\ \A i \in 1 .. n : presentTickets'[i] = presentTickets[i]
        /\ presentTickets'[n + 1] = PresentTicket
        /\ \A i \in 1 .. Len(presentTickets') : i \in 1 .. n \/ i = n + 1
    BY <1>1, <1>4, <2>2, AppendFacts
  <2> HIDE DEF n
  <2>5. \A ticket : Behind(ticket)' <=> Behind(ticket)
    BY <1>2, <2>1 DEF Behind
  <2>6. Behind(PresentTicket)
    BY <1>1, <1>4, <2>2, <2>3 DEF Behind
  <2>7. PresentsBehind'
    BY <2>4, <2>5, <2>6 DEF PresentsBehind, n
  <2>8. PresentsRemembered'
    BY <1>2, <2>1 DEF PresentsRemembered
  <2>9. \A i \in 1 .. n : SameOffset(presentTickets[i], PresentTicket)
                         /\ SameOffset(PresentTicket, presentTickets[i])
    BY <2>2 DEF PresentsBehind, Behind, SameOffset, n
  <2>10. SameOffset(PresentTicket, PresentTicket)
    BY DEF SameOffset
  <2>11. PresentsAligned'
    <3> SUFFICES ASSUME NEW i \in 1 .. Len(presentTickets'),
                        NEW j \in 1 .. Len(presentTickets')
                 PROVE  SameOffset(presentTickets'[i], presentTickets'[j])
      BY DEF PresentsAligned, SameOffset
    <3>1. CASE i \in 1 .. n /\ j \in 1 .. n
      BY <2>4, <3>1 DEF PresentsAligned, n
    <3>2. CASE i \in 1 .. n /\ j = n + 1
      BY <2>4, <2>9, <3>2
    <3>3. CASE i = n + 1 /\ j \in 1 .. n
      BY <2>4, <2>9, <3>3
    <3>4. CASE i = n + 1 /\ j = n + 1
      BY <2>4, <2>10, <3>4
    <3> QED
      BY <2>4, <3>1, <3>2, <3>3, <3>4
  <2>12. \A i \in 1 .. n : ~OfThisFrame(presentTickets[i])
    BY <1>4 DEF PresentsRemembered, PresentIsSampled, n
  <2>13. PresentsAreDistinct'
    <3> SUFFICES ASSUME NEW i \in 1 .. Len(presentTickets'),
                        NEW j \in 1 .. Len(presentTickets'), i < j
                 PROVE  \/ presentTickets'[i].device # presentTickets'[j].device
                        \/ presentTickets'[i].generation
                             # presentTickets'[j].generation
                        \/ presentTickets'[i].source # presentTickets'[j].source
      BY DEF PresentsAreDistinct
    <3>1. i \in 1 .. n
      BY <2>4
    <3>2. CASE j \in 1 .. n
      BY <2>4, <3>1, <3>2 DEF PresentsAreDistinct, n
    <3>3. CASE j = n + 1
      BY <2>2, <2>4, <2>12, <3>1, <3>3 DEF OfThisFrame
    <3> QED
      BY <2>4, <3>2, <3>3
  <2>14. DrawsBehind' /\ DrawsAligned' /\ DrawsAreDistinct'
    BY <1>2, <2>5 DEF DrawsBehind, DrawsAligned, DrawsAreDistinct, SameOffset
  <2>15. DrawsRemembered'
    BY <1>2, <2>1 DEF DrawsRemembered, OfThisFrame
  <2> QED
    BY <1>2, <2>7, <2>8, <2>11, <2>13, <2>14, <2>15
<1>5. CASE /\ ~PresentIsSampled(prov, entry.generation)
           /\ prov' = AfterPresent(prov, entry.generation)
           /\ presentTickets' = presentTickets
  <2>1. prov' = prov
    BY <1>1, <1>5, ProvenanceMoves
  <2> QED
    BY <1>3, <1>5, <2>1
<1> QED
  BY <1>3, <1>4, <1>5 DEF PresentTakesTicket

\* A draw that gets a ticket gets a new one, within the limit.
LEMMA DrawKeepsTickets ==
  ASSUME TypeOK, TypeOK', TicketInv, NEW t \in Threads, Draw(t)
  PROVE  TicketInv'
<1> USE DEF TicketInv
<1>1. /\ entry.id \in Nat /\ entry.generation \in Nat
      /\ prov.source \in Nat /\ prov.frame \in Nat
      /\ Taken(prov, entry.generation) \in Nat
      /\ drawTickets \in Seq(DrawTickets) /\ prov \in ProvenanceState
      /\ \A i \in 1 .. Len(drawTickets) : drawTickets[i] \in DrawTickets
  BY TicketsTyped DEF TypeOK
<1>2. /\ UNCHANGED <<entry, nextId, presentTickets>>
      /\ entry.id # 0 /\ prov' = AfterDraw(prov, entry.generation)
  BY DEF Draw
<1>3. /\ prov'.source = prov.source /\ prov'.frame = prov.frame
      /\ prov'.presentSampled = prov.presentSampled
      /\ prov'.presentGen = prov.presentGen
      /\ prov'.presentSource = prov.presentSource
      /\ Taken(prov', entry.generation) =
           IF DrawIsSampled(prov, entry.generation)
           THEN Taken(prov, entry.generation) + 1 ELSE Taken(prov, entry.generation)
  BY <1>1, <1>2, ProvenanceMoves
<1>4. \A ticket : (Behind(ticket)' <=> Behind(ticket))
                  /\ (OfThisFrame(ticket)' <=> OfThisFrame(ticket))
  BY <1>2, <1>3 DEF Behind, OfThisFrame
<1>5. PresentsBehind' /\ PresentsAligned' /\ PresentsAreDistinct'
  BY <1>2, <1>4 DEF PresentsBehind, PresentsAligned, PresentsAreDistinct, SameOffset
<1>6. PresentsRemembered'
  BY <1>2, <1>3, <1>4 DEF PresentsRemembered
<1>7. CASE drawTickets' = drawTickets /\ ~DrawIsSampled(prov, entry.generation)
  <2>1. DrawsBehind' /\ DrawsAligned' /\ DrawsAreDistinct'
    BY <1>4, <1>7 DEF DrawsBehind, DrawsAligned, DrawsAreDistinct, SameOffset
  <2>2. DrawsRemembered'
    BY <1>2, <1>3, <1>4, <1>7 DEF DrawsRemembered
  <2> QED
    BY <1>2, <1>5, <1>6, <2>1, <2>2
<1>8. CASE /\ DrawIsSampled(prov, entry.generation)
           /\ drawTickets' = Append(drawTickets, DrawTicket)
  <2> DEFINE n == Len(drawTickets)
             taken == Taken(prov, entry.generation)
  <2>1. taken + 1 \in Nat
    BY <1>1
  <2>2. /\ DrawTicket \in DrawTickets
        /\ DrawTicket.device = entry.id
        /\ DrawTicket.generation = entry.generation
        /\ DrawTicket.source = prov.source /\ DrawTicket.frame = prov.frame
        /\ DrawTicket.sample = taken + 1
    BY <1>1, <2>1 DEF DrawTicket, DrawTickets
  <2>3. /\ Len(drawTickets') = n + 1 /\ n \in Nat
        /\ \A i \in 1 .. n : drawTickets'[i] = drawTickets[i]
        /\ drawTickets'[n + 1] = DrawTicket
        /\ \A i \in 1 .. Len(drawTickets') : i \in 1 .. n \/ i = n + 1
    BY <1>1, <1>8, <2>2, AppendFacts
  <2>4. \A i \in 1 .. n : drawTickets[i].sample \in Nat
    BY <1>1 DEF DrawTickets
  <2> HIDE DEF n
  <2>5. prov.frame < FrameLimit /\ taken < SampleLimit
    BY <1>8 DEF DrawIsSampled, DrawsAreSampled, GenerationIsSampled
  <2>6. taken + 1 \in 1 .. SampleLimit
    BY <1>1, <2>5, LimitAssumption
  <2> HIDE DEF taken
  <2>7. Behind(DrawTicket)
    BY <1>1, <1>2, <2>2, <2>5 DEF Behind
  <2>8. DrawsBehind'
    BY <1>4, <2>2, <2>3, <2>6, <2>7 DEF DrawsBehind, n
  <2>9. \A i \in 1 .. n : SameOffset(drawTickets[i], DrawTicket)
                         /\ SameOffset(DrawTicket, drawTickets[i])
    BY <2>2 DEF DrawsBehind, Behind, SameOffset, n
  <2>10. SameOffset(DrawTicket, DrawTicket)
    BY DEF SameOffset
  <2>11. DrawsAligned'
    <3> SUFFICES ASSUME NEW i \in 1 .. Len(drawTickets'),
                        NEW j \in 1 .. Len(drawTickets')
                 PROVE  SameOffset(drawTickets'[i], drawTickets'[j])
      BY DEF DrawsAligned, SameOffset
    <3>1. CASE i \in 1 .. n /\ j \in 1 .. n
      BY <2>3, <3>1 DEF DrawsAligned, n
    <3>2. CASE i \in 1 .. n /\ j = n + 1
      BY <2>3, <2>9, <3>2
    <3>3. CASE i = n + 1 /\ j \in 1 .. n
      BY <2>3, <2>9, <3>3
    <3>4. CASE i = n + 1 /\ j = n + 1
      BY <2>3, <2>10, <3>4
    <3> QED
      BY <2>3, <3>1, <3>2, <3>3, <3>4
  <2>12. \A i \in 1 .. n : OfThisFrame(drawTickets[i]) => drawTickets[i].sample <= taken
    BY DEF DrawsRemembered, n, taken
  <2>13. taken \in Nat /\ Taken(prov, entry.generation)' = taken + 1
    BY <1>1, <1>2, <1>3, <1>8 DEF taken
  <2>14. DrawsRemembered'
    <3> SUFFICES ASSUME NEW i \in 1 .. Len(drawTickets'),
                        OfThisFrame(drawTickets[i])'
                 PROVE  drawTickets'[i].sample <= taken + 1
      BY <2>13 DEF DrawsRemembered
    <3>1. CASE i \in 1 .. n
      <4>1. drawTickets'[i].sample <= taken
        BY <1>4, <2>3, <2>12, <3>1 DEF OfThisFrame
      <4>2. drawTickets'[i].sample \in Nat
        BY <2>3, <2>4, <3>1
      <4> QED
        BY <2>13, <4>1, <4>2
    <3>2. CASE i = n + 1
      BY <2>2, <2>3, <2>13, <3>2
    <3> QED
      BY <2>3, <3>1, <3>2
  <2>15. DrawsAreDistinct'
    <3> SUFFICES ASSUME NEW i \in 1 .. Len(drawTickets'),
                        NEW j \in 1 .. Len(drawTickets'), i < j
                 PROVE  \/ drawTickets'[i].device # drawTickets'[j].device
                        \/ drawTickets'[i].generation # drawTickets'[j].generation
                        \/ drawTickets'[i].source # drawTickets'[j].source
                        \/ drawTickets'[i].sample # drawTickets'[j].sample
      BY DEF DrawsAreDistinct
    <3>1. i \in 1 .. n
      BY <2>3
    <3>2. CASE j \in 1 .. n
      BY <2>3, <3>1, <3>2 DEF DrawsAreDistinct, n
    <3>3. CASE j = n + 1
      <4>1. drawTickets'[j] = DrawTicket /\ drawTickets'[i] = drawTickets[i]
        BY <2>3, <3>1, <3>3
      <4>2. CASE OfThisFrame(drawTickets[i])
        <5>1. drawTickets[i].sample <= taken /\ drawTickets[i].sample \in Nat
          BY <2>4, <2>12, <3>1, <4>2
        <5>2. drawTickets[i].sample # taken + 1
          BY <2>13, <5>1
        <5> QED
          BY <2>2, <4>1, <5>2
      <4>3. CASE ~OfThisFrame(drawTickets[i])
        BY <2>2, <4>1, <4>3 DEF OfThisFrame
      <4> QED
        BY <4>2, <4>3
    <3> QED
      BY <2>3, <3>2, <3>3
  <2> QED
    BY <1>2, <1>5, <1>6, <2>8, <2>11, <2>14, <2>15
<1> QED
  BY <1>7, <1>8 DEF Draw

\* TicketInv is inductive.
LEMMA TicketsStep == TypeOK /\ TypeOK' /\ TicketInv /\ [Next]_vars => TicketInv'
<1> SUFFICES ASSUME TypeOK, TypeOK', TicketInv, [Next]_vars PROVE TicketInv'
  OBVIOUS
<1> USE DEF registryVars
<1>1. ASSUME UNCHANGED <<entry, prov, nextId, ticketVars>> PROVE TicketInv'
  BY <1>1 DEF ticketVars, TicketInv, PresentsBehind, PresentsRemembered,
     PresentsAligned, PresentsAreDistinct, DrawsBehind, DrawsRemembered,
     DrawsAligned, DrawsAreDistinct, Behind, OfThisFrame, SameOffset
<1>2. /\ entry.id \in Nat /\ entry.generation \in Nat /\ nextId \in Nat
      /\ prov \in ProvenanceState /\ entry \in Registration
      /\ entry.id < nextId /\ nextId > 0
  BY TicketsTyped DEF TypeOK, TicketInv
<1>3. ASSUME NEW t \in Threads, Create(t) PROVE TicketInv'
  <2>1. CASE entry.id = 0
    <3>1. entry'.id = nextId /\ nextId' = nextId + 1 /\ UNCHANGED ticketVars
      BY <1>3, <2>1 DEF Create
    <3> QED
      BY <1>2, <3>1, AdvanceKeepsTickets
  <2>2. CASE entry.id # 0
    <3>1. UNCHANGED <<entry, prov, ticketVars>> /\ nextId' = nextId + 1
      BY <1>3, <2>2 DEF Create
    <3>2. /\ entry'.id < nextId' /\ nextId' > 0
      BY <1>2, <3>1
    <3>3. PresentsBehind' /\ DrawsBehind'
      <4>1. \A i \in 1 .. Len(presentTickets) : presentTickets[i].device \in Nat
        BY TicketsTyped DEF PresentTickets
      <4>2. \A i \in 1 .. Len(drawTickets) : drawTickets[i].device \in Nat
        BY TicketsTyped DEF DrawTickets
      <4> QED
        BY <1>2, <3>1, <4>1, <4>2
           DEF TicketInv, PresentsBehind, DrawsBehind, Behind, ticketVars
    <3>4. /\ PresentsRemembered' /\ PresentsAligned' /\ PresentsAreDistinct'
          /\ DrawsRemembered' /\ DrawsAligned' /\ DrawsAreDistinct'
      BY <3>1 DEF TicketInv, ticketVars, PresentsRemembered, PresentsAligned,
         PresentsAreDistinct, DrawsRemembered, DrawsAligned, DrawsAreDistinct,
         OfThisFrame, SameOffset
    <3> QED
      BY <3>2, <3>3, <3>4 DEF TicketInv
  <2> QED
    BY <2>1, <2>2
<1>4. ASSUME NEW t \in Threads, Release(t) PROVE TicketInv'
  <2>1. entry'.id = 0 /\ nextId' = nextId /\ UNCHANGED ticketVars
    BY <1>4 DEF Release, Unregistered
  <2> QED
    BY <1>2, <2>1, AdvanceKeepsTickets
<1>5. ASSUME NEW t \in Threads, ResetCommits(t) PROVE TicketInv'
  <2>1. CASE entry.id = 0
    BY <1>1, <1>5, <2>1 DEF ResetCommits
  <2>2. CASE entry.id # 0
    <3>1. /\ entry'.id = entry.id /\ entry'.generation = entry.generation + 1
          /\ nextId' = nextId /\ UNCHANGED ticketVars
      BY <1>2, <1>5, <2>2 DEF ResetCommits, Registration
    <3> QED
      BY <1>2, <3>1, AdvanceKeepsTickets
  <2> QED
    BY <2>1, <2>2
<1>6. ASSUME NEW t \in Threads, PresentResult(t) PROVE TicketInv'
  <2>1. CASE entry.id = 0
    BY <1>1, <1>6, <2>1 DEF PresentResult
  <2>2. CASE entry.id # 0
    <3>1. prov' = OnPresented(prov) /\ UNCHANGED <<entry, nextId, ticketVars>>
      BY <1>6, <2>2 DEF PresentResult
    <3>2. prov'.source = prov.source + 1 /\ prov'.frame = prov.frame + 1
      BY <1>2, <3>1, ProvenanceMoves
    <3> QED
      BY <1>2, <3>1, <3>2, AdvanceKeepsTickets
  <2> QED
    BY <2>1, <2>2
<1>7. ASSUME NEW t \in Threads, PresentTakesTicket(t) PROVE TicketInv'
  BY <1>7, PresentKeepsTickets
<1>8. ASSUME NEW t \in Threads, Draw(t) PROVE TicketInv'
  BY <1>8, DrawKeepsTickets
<1>9. ASSUME NEW t \in Threads,
             \/ ResetBegins(t) \/ PresentBegins(t) \/ ResetShutsDown(t)
             \/ ReleaseShutsDown(t) \/ RealReset(t) \/ LookupMisses(t)
             \/ LookupFinds(t) \/ RealPresentSucceeds(t) \/ RealPresentFails(t)
      PROVE  TicketInv'
  BY <1>1, <1>9 DEF ResetBegins, PresentBegins, ResetShutsDown, ReleaseShutsDown,
     RealReset, RealResetSucceeds, RealResetFails, LookupMisses, LookupFinds,
     RealPresentSucceeds, RealPresentFails
<1>10. ASSUME NEW t \in Threads, Capture(t) PROVE TicketInv'
  BY <1>1, <1>10 DEF Capture, CaptureLocks, CaptureReturns, CreatesRelays,
     StartsClient, UsesRelays, CaptureDisables, CaptureCompletes
<1>11. CASE UNCHANGED vars
  BY <1>1, <1>11 DEF vars
<1> QED
  BY <1>3, <1>4, <1>5, <1>6, <1>7, <1>8, <1>9, <1>10, <1>11
     DEF Next, Calls, Continues, Present, Lookup

\* Every ticket is behind the registry, and distinct from the others.
THEOREM TicketsAreConsistent == Spec => []TicketInv
<1>1. Init => TicketInv
  BY DEF Init, Unregistered, TicketInv, PresentsBehind, PresentsRemembered,
     PresentsAligned, PresentsAreDistinct, DrawsBehind, DrawsRemembered,
     DrawsAligned, DrawsAreDistinct
<1> QED
  BY <1>1, TypeCorrect, TicketsStep, PTL DEF Spec

\* No two Present records have the same device, generation and source frame.
THEOREM PresentTicketsDiffer == Spec => []PresentsAreDistinct
<1>1. TicketInv => PresentsAreDistinct
  BY DEF TicketInv
<1> QED
  BY <1>1, TicketsAreConsistent, PTL

\* No two draw records have the same identity.
THEOREM DrawTicketsDiffer == Spec => []DrawsAreDistinct
<1>1. TicketInv => DrawsAreDistinct
  BY DEF TicketInv
<1> QED
  BY <1>1, TicketsAreConsistent, PTL

\* The samples of a frame and the sampled frames of a generation are bounded.
THEOREM TicketsAreBounded == Spec => []SamplesAreBounded
<1>1. ASSUME NEW a, NEW b,
             a.frame \in Nat, b.frame \in Nat, a.source \in Int, b.source \in Int,
             Behind(a), Behind(b), SameOffset(a, b),
             a.device = b.device, a.generation = b.generation
      PROVE  b.source - a.source < FrameLimit
  BY <1>1, LimitAssumption DEF Behind, SameOffset
<1>2. TypeOK /\ TicketInv => SamplesAreBounded
  <2> SUFFICES ASSUME TypeOK, TicketInv PROVE SamplesAreBounded
    OBVIOUS
  <2>1. \A i \in 1 .. Len(drawTickets) :
          /\ drawTickets[i].frame \in Nat /\ drawTickets[i].source \in Int
          /\ Behind(drawTickets[i]) /\ drawTickets[i].sample \in 1 .. SampleLimit
    BY TicketsTyped DEF DrawTickets, TicketInv, DrawsBehind
  <2>2. \A i \in 1 .. Len(presentTickets) :
          /\ presentTickets[i].frame \in Nat /\ presentTickets[i].source \in Int
          /\ Behind(presentTickets[i])
    BY TicketsTyped DEF PresentTickets, TicketInv, PresentsBehind
  <2>3. /\ \A i, j \in 1 .. Len(drawTickets) :
             SameOffset(drawTickets[i], drawTickets[j])
        /\ \A i, j \in 1 .. Len(presentTickets) :
             SameOffset(presentTickets[i], presentTickets[j])
    BY DEF TicketInv, DrawsAligned, PresentsAligned
  <2> QED
    BY <1>1, <2>1, <2>2, <2>3 DEF SamplesAreBounded
<1> QED
  BY <1>2, TypeCorrect, TicketsAreConsistent, PTL

\* Provenance records have an identity of their own each, and stay within the
\* limits.
THEOREM RecordsAreSound == Spec => []TicketsAreSound
<1>1. PresentsAreDistinct /\ DrawsAreDistinct /\ SamplesAreBounded => TicketsAreSound
  BY DEF TicketsAreSound
<1> QED
  BY <1>1, PresentTicketsDiffer, DrawTicketsDiffer, TicketsAreBounded, PTL
-----------------------------------------------------------------------------
(* The registry                                                            *)

\* Threads whose Present has succeeded and is not yet counted.
Uncounted == {t \in Threads : pc[t] = "result"}

\* The generation is one behind while a successful Reset is not yet counted.
ResetsCounted ==
  entry.generation + (IF pc[Creator] = "commit" THEN 1 ELSE 0) = device.resets + 1

RegistryInv ==
  /\ \A t \in Threads : pc[t] \in {"shutdown", "reset", "commit"} => t = Creator
  /\ IsFiniteSet(Uncounted)
  /\ nextId > 0
  /\ device.live =>
       /\ entry.id = nextId - 1 /\ entry.id # 0
       /\ ResetsCounted
       /\ device.presents = prov.source + Cardinality(Uncounted)
  /\ ~device.live => entry = Unregistered

\* A step that leaves the registry and the device alone, and no thread at the
\* result of a Present or at the commit of a Reset that was not there before.
LEMMA ElsewhereKeepsRegistry ==
  ASSUME TypeOK, RegistryInv, NEW t \in Threads,
         UNCHANGED <<device, entry, nextId>>, prov'.source = prov.source,
         \A u \in Threads \ {t} : pc'[u] = pc[u],
         pc[t] \notin {"result", "commit"}, pc'[t] \notin {"result", "commit"},
         pc'[t] \in {"shutdown", "reset"} => t = Creator
  PROVE  RegistryInv'
<1>1. Uncounted' = Uncounted
  BY DEF Uncounted
<1>2. pc'[Creator] = "commit" <=> pc[Creator] = "commit"
  BY ObserverAssumption
<1> QED
  BY <1>1, <1>2 DEF RegistryInv, ResetsCounted

\* A hook that returns, or goes on, moves no other thread.
LEMMA ReturnMovesOne ==
  ASSUME TypeOK, NEW t \in Threads, Return(t)
  PROVE  pc'[t] = "idle" /\ \A u \in Threads \ {t} : pc'[u] = pc[u]
  BY DEF Return, Goto, TypeOK

LEMMA GotoMovesOne ==
  ASSUME TypeOK, NEW t \in Threads, NEW label, Goto(t, label)
  PROVE  pc'[t] = label /\ \A u \in Threads \ {t} : pc'[u] = pc[u]
  BY DEF Goto, TypeOK

LEMMA RegistryStep ==
  TypeOK /\ RuntimeInv /\ RegistryInv /\ [Next]_vars => RegistryInv'
<1> SUFFICES ASSUME TypeOK, RuntimeInv, RegistryInv, [Next]_vars
             PROVE  RegistryInv'
  OBVIOUS
<1> USE DEF registryVars
<1>a. /\ device \in DeviceState /\ entry \in Registration
      /\ prov \in ProvenanceState /\ nextId \in Nat /\ pc \in [Threads -> PCs]
      /\ entry.generation \in Nat /\ entry.id \in Nat
      /\ prov.source \in Nat /\ device.resets \in Nat /\ device.presents \in Nat
  BY DEF TypeOK, DeviceState, Registration, ProvenanceState
<1>b. ~device.live => \A t \in Threads : pc[t] \in {"idle", "shutdown"}
  BY DEF RuntimeInv, ReleaseIsLast
<1>c. IsFiniteSet(Uncounted) /\ Cardinality(Uncounted) \in Nat
  BY FS_CardinalityType DEF RegistryInv
<1>1. ASSUME NEW t \in Threads, Create(t) PROVE RegistryInv'
  <2>1. ~device.live /\ entry = Unregistered /\ nextId' = nextId + 1 /\ pc' = pc
        /\ entry' = [id |-> nextId, generation |-> 1] /\ prov' = FreshProvenance
        /\ device' = [NoDevice EXCEPT !.live = TRUE]
    BY <1>1 DEF Create, RegistryInv, Unregistered
  <2>2. Uncounted = {} /\ Uncounted' = {} /\ pc'[Creator] # "commit"
    BY <1>b, <2>1, ObserverAssumption DEF Uncounted
  <2>3. Cardinality(Uncounted') = 0 /\ IsFiniteSet(Uncounted')
    BY <2>2, FS_EmptySet
  <2>4. device'.presents = 0 /\ device'.resets = 0 /\ prov'.source = 0 /\ device'.live
    BY <2>1 DEF NoDevice, FreshProvenance
  <2>5. Cardinality(Uncounted)' = 0 /\ IsFiniteSet(Uncounted)'
    BY <2>3
  <2> QED
    BY <1>a, <2>1, <2>2, <2>4, <2>5 DEF RegistryInv, ResetsCounted
<1>2. ASSUME NEW t \in Threads, Release(t) PROVE RegistryInv'
  <2>1. /\ device' = NoDevice /\ entry' = Unregistered /\ nextId' = nextId
        /\ t = Creator /\ \A u \in Threads : pc[u] = "idle"
        /\ pc' = pc \/ Goto(t, "shutdown")
    BY <1>2 DEF Release
  <2>2. \A u \in Threads : pc'[u] = "idle" \/ (u = Creator /\ pc'[u] = "shutdown")
    BY <2>1, GotoMovesOne
  <2>3. Uncounted' = {}
    BY <2>2 DEF Uncounted
  <2>4. IsFiniteSet(Uncounted)'
    BY <2>3, FS_EmptySet
  <2> QED
    BY <2>1, <2>2, <2>4 DEF RegistryInv, NoDevice
<1>3. ASSUME NEW t \in Threads,
             ResetBegins(t) \/ PresentBegins(t) \/ ResetShutsDown(t) \/
             LookupMisses(t) \/ LookupFinds(t) \/ Capture(t)
      PROVE  RegistryInv'
  <2>1. /\ UNCHANGED <<device, entry, prov, nextId>>
        /\ pc[t] \notin {"result", "commit"}
        /\ \E label \in PCs \ {"result", "commit"} :
             /\ Goto(t, label)
             /\ label \in {"shutdown", "reset"} => t = Creator
    BY <1>3 DEF ResetBegins, PresentBegins, ResetShutsDown, LookupMisses, LookupFinds,
       Capture, CaptureLocks, CaptureReturns, CreatesRelays, StartsClient, UsesRelays,
       CaptureDisables, CaptureCompletes, Capturing, PCs, RegistryInv
  <2> QED
    BY <2>1, GotoMovesOne, ElsewhereKeepsRegistry
<1>4. ASSUME NEW t \in Threads,
             ReleaseShutsDown(t) \/ RealResetFails(t) \/ RealPresentFails(t)
      PROVE  RegistryInv'
  <2>1. /\ UNCHANGED <<device, entry, prov, nextId>> /\ Return(t)
        /\ pc[t] \notin {"result", "commit"}
    BY <1>4 DEF ReleaseShutsDown, RealResetFails, RealPresentFails
  <2> QED
    BY <2>1, ReturnMovesOne, ElsewhereKeepsRegistry
<1>5. ASSUME NEW t \in Threads, PresentTakesTicket(t) PROVE RegistryInv'
  <2>1. /\ UNCHANGED <<device, entry, nextId>> /\ Goto(t, "present")
        /\ pc[t] = "ticket" /\ prov'.source = prov.source
    BY <1>5, <1>a, ProvenanceMoves DEF PresentTakesTicket
  <2> QED
    BY <2>1, GotoMovesOne, ElsewhereKeepsRegistry
<1>6. ASSUME NEW t \in Threads, Draw(t) PROVE RegistryInv'
  <2>1. /\ UNCHANGED <<device, entry, nextId, pc>> /\ prov'.source = prov.source
        /\ pc[t] = "idle"
    BY <1>6, <1>a, ProvenanceMoves DEF Draw
  <2> QED
    BY <2>1, ElsewhereKeepsRegistry
<1>7. ASSUME NEW t \in Threads, RealResetSucceeds(t) PROVE RegistryInv'
  <2>1. /\ pc[t] = "reset" /\ t = Creator /\ device.live /\ device'.live
        /\ device'.resets = device.resets + 1 /\ device'.presents = device.presents
        /\ UNCHANGED <<entry, prov, nextId>>
        /\ pc'[t] = "commit" /\ \A u \in Threads \ {t} : pc'[u] = pc[u]
    BY <1>7, <1>a, <1>b, GotoMovesOne DEF RealResetSucceeds, RegistryInv, DeviceState
  <2>2. Uncounted' = Uncounted
    BY <2>1 DEF Uncounted
  <2> QED
    BY <1>a, <2>1, <2>2 DEF RegistryInv, ResetsCounted
<1>8. ASSUME NEW t \in Threads, ResetCommits(t) PROVE RegistryInv'
  <2>1. pc[t] = "commit" /\ t = Creator /\ device.live /\ entry.id # 0
    BY <1>8, <1>b DEF ResetCommits, RegistryInv
  <2>2. /\ entry' = [entry EXCEPT !.generation = @ + 1] /\ prov' = OnReset(prov)
        /\ UNCHANGED <<device, nextId>> /\ Return(t)
    BY <1>8, <2>1 DEF ResetCommits
  <2>3. entry'.id = entry.id /\ entry'.generation = entry.generation + 1
        /\ prov'.source = prov.source
    BY <1>a, <2>2, ProvenanceMoves DEF Registration
  <2>4. pc'[t] = "idle" /\ \A u \in Threads \ {t} : pc'[u] = pc[u]
    BY <2>2, ReturnMovesOne
  <2>5. Uncounted' = Uncounted
    BY <2>1, <2>4 DEF Uncounted
  <2> QED
    BY <1>a, <2>1, <2>2, <2>3, <2>4, <2>5 DEF RegistryInv, ResetsCounted
<1>9. ASSUME NEW t \in Threads, RealPresentSucceeds(t) PROVE RegistryInv'
  <2>1. /\ pc[t] = "present" /\ device.live /\ device'.live
        /\ device'.presents = device.presents + 1 /\ device'.resets = device.resets
        /\ UNCHANGED <<entry, prov, nextId>>
        /\ pc'[t] = "result" /\ \A u \in Threads \ {t} : pc'[u] = pc[u]
    BY <1>9, <1>a, <1>b, GotoMovesOne DEF RealPresentSucceeds, DeviceState
  <2>2. Uncounted' = Uncounted \cup {t} /\ t \notin Uncounted
    BY <2>1 DEF Uncounted
  <2>3. /\ IsFiniteSet(Uncounted \cup {t})
        /\ Cardinality(Uncounted \cup {t}) = Cardinality(Uncounted) + 1
    BY <1>c, <2>2, FS_AddElement
  <2>4. pc'[Creator] = "commit" <=> pc[Creator] = "commit"
    BY <2>1, ObserverAssumption
  <2>5. /\ IsFiniteSet(Uncounted)' /\ Cardinality(Uncounted)' = Cardinality(Uncounted) + 1
    BY <2>2, <2>3
  <2> QED
    BY <1>a, <1>c, <2>1, <2>4, <2>5 DEF RegistryInv, ResetsCounted
<1>10. ASSUME NEW t \in Threads, PresentResult(t) PROVE RegistryInv'
  <2>1. pc[t] = "result" /\ device.live /\ entry.id # 0
    BY <1>10, <1>b DEF PresentResult, RegistryInv
  <2>2. /\ prov' = OnPresented(prov) /\ Return(t) /\ UNCHANGED <<device, entry, nextId>>
    BY <1>10, <2>1 DEF PresentResult
  <2>3. prov'.source = prov.source + 1
    BY <1>a, <2>2, ProvenanceMoves
  <2>4. pc'[t] = "idle" /\ \A u \in Threads \ {t} : pc'[u] = pc[u]
    BY <2>2, ReturnMovesOne
  <2>5. Uncounted' = Uncounted \ {t} /\ t \in Uncounted
    BY <2>1, <2>4 DEF Uncounted
  <2>6. /\ IsFiniteSet(Uncounted \ {t})
        /\ Cardinality(Uncounted \ {t}) = Cardinality(Uncounted) - 1
    BY <1>c, <2>5, FS_RemoveElement
  <2>7. pc'[Creator] = "commit" <=> pc[Creator] = "commit"
    BY <2>1, <2>4, ObserverAssumption
  <2>8. /\ IsFiniteSet(Uncounted)' /\ Cardinality(Uncounted)' = Cardinality(Uncounted) - 1
    BY <2>5, <2>6
  <2> QED
    BY <1>a, <1>c, <2>1, <2>2, <2>3, <2>4, <2>7, <2>8 DEF RegistryInv, ResetsCounted
<1>11. CASE UNCHANGED vars
  BY <1>11 DEF vars, RegistryInv, ResetsCounted, Uncounted
<1> QED
  BY <1>1, <1>2, <1>3, <1>4, <1>5, <1>6, <1>7, <1>8, <1>9, <1>10, <1>11
     DEF Next, Calls, Continues, RealReset, Present, Lookup

LEMMA RegistryInit == Init => RegistryInv
<1> SUFFICES ASSUME Init PROVE RegistryInv
  OBVIOUS
<1>1. Uncounted = {}
  BY DEF Init, Uncounted
<1> QED
  BY <1>1, FS_EmptySet DEF Init, RegistryInv, NoDevice

\* The counts of the registry are behind those of the device by exactly the
\* calls still inside their hooks.
THEOREM RegistryIsConsistent == Spec => []RegistryInv
  BY TypeCorrect, RuntimesAreConsistent, RegistryInit, RegistryStep, PTL DEF Spec

\* Between calls the registry agrees with the device, for any number of threads.
THEOREM RegistryAgrees == Spec => []RegistryIsTrue
<1>1. TypeOK /\ RegistryInv => RegistryIsTrue
  <2> SUFFICES ASSUME TypeOK, RegistryInv, device.live,
                      \A t \in Threads : pc[t] = "idle"
               PROVE  /\ entry.id = nextId - 1
                      /\ entry.generation = device.resets + 1
                      /\ prov.source = device.presents
    BY DEF RegistryIsTrue
  <2>1. Uncounted = {}
    BY DEF Uncounted
  <2>2. Cardinality(Uncounted) = 0
    BY <2>1, FS_EmptySet
  <2>3. /\ entry.generation \in Nat /\ prov.source \in Nat /\ device.resets \in Nat
        /\ pc[Creator] # "commit"
    BY ObserverAssumption DEF TypeOK, DeviceState, Registration, ProvenanceState
  <2> QED
    BY <2>2, <2>3 DEF RegistryInv, ResetsCounted
<1> QED
  BY <1>1, TypeCorrect, RegistryIsConsistent, PTL

\* With a single thread, what is in use is what the registry names, and the
\* frames are counted from the last Reset.
SessionInv ==
  /\ multiframe # None => heap[multiframe].generation = entry.generation
  /\ \A t \in Threads :
       /\ pc[t] \in Capturing \cup {"capture"} =>
            held[t] = multiframe /\ multiframe # None
       /\ pc[t] \in {"shutdown", "reset", "commit"} => multiframe = None
  /\ device.live =>
       device.sinceReset =
         IF pc[Creator] = "commit" THEN 0
         ELSE prov.frame + (IF pc[Creator] = "result" THEN 1 ELSE 0)

LEMMA SessionStep ==
  ASSUME Threads = {Creator},
         TypeOK, RuntimeInv, RegistryInv, SessionInv, [Next]_vars
  PROVE  SessionInv'
<1> USE DEF registryVars
<1>a. /\ device \in DeviceState /\ entry \in Registration
      /\ prov \in ProvenanceState /\ pc \in [Threads -> PCs]
      /\ heap \in [Runtimes -> RuntimeState] /\ held \in [Threads -> Runtimes \cup {None}]
      /\ multiframe \in Runtimes \cup {None} /\ None \notin Runtimes
      /\ prov.frame \in Nat /\ device.sinceReset \in Nat /\ entry.generation \in Nat
  BY ObserverAssumption DEF TypeOK, DeviceState, Registration, ProvenanceState
<1>b. ~device.live => pc[Creator] \in {"idle", "shutdown"} /\ multiframe = None
  BY ObserverAssumption DEF RuntimeInv, ReleaseIsLast
<1>r. ASSUME Return(Creator)
      PROVE  /\ pc'[Creator] = "idle"
             /\ \A r \in Runtimes : multiframe' = r => heap'[r] = heap[r]
  BY <1>r, <1>a DEF Return, Goto
<1>1. CASE Create(Creator)
  <2>1. ~device.live /\ pc' = pc /\ UNCHANGED <<multiframe, heap, held>>
        /\ pc[Creator] = "idle" /\ prov' = FreshProvenance
        /\ device' = [NoDevice EXCEPT !.live = TRUE]
    BY <1>1 DEF Create, RegistryInv, Unregistered
  <2>2. device'.sinceReset = 0 /\ prov'.frame = 0
    BY <2>1 DEF NoDevice, FreshProvenance
  <2> QED
    BY <1>b, <2>1, <2>2 DEF SessionInv, Capturing
<1>2. CASE Release(Creator)
  <2>1. /\ ~device'.live /\ multiframe' = None /\ pc[Creator] = "idle"
        /\ pc'[Creator] \in {"idle", "shutdown"}
    BY <1>2, <1>a DEF Release, NoDevice, Goto
  <2> QED
    BY <2>1 DEF SessionInv, Capturing
<1>3. CASE ResetBegins(Creator)
  <2>1. /\ multiframe' = None /\ pc[Creator] = "idle" /\ UNCHANGED <<device, entry, prov>>
        /\ pc'[Creator] \in {"reset", "shutdown"}
    BY <1>3, <1>a DEF ResetBegins, Goto
  <2> QED
    BY <2>1 DEF SessionInv, Capturing
<1>4. CASE ResetShutsDown(Creator) \/ RealResetSucceeds(Creator)
  <2>1. pc[Creator] \in {"shutdown", "reset"} /\ multiframe = None
    BY <1>4 DEF SessionInv, ResetShutsDown, RealResetSucceeds
  <2>2. CASE ResetShutsDown(Creator)
    <3>1. pc'[Creator] = "reset" /\ UNCHANGED <<device, entry, prov, multiframe>>
      BY <2>2, <1>a DEF ResetShutsDown, Goto
    <3> QED
      BY <2>1, <3>1 DEF SessionInv, Capturing
  <2>3. CASE RealResetSucceeds(Creator)
    <3>1. pc'[Creator] = "commit" /\ device'.sinceReset = 0
          /\ UNCHANGED <<entry, prov, multiframe>>
      BY <2>3, <1>a DEF RealResetSucceeds, Goto, DeviceState
    <3> QED
      BY <2>1, <3>1 DEF SessionInv, Capturing
  <2> QED
    BY <1>4, <2>2, <2>3
<1>5. CASE ReleaseShutsDown(Creator) \/ RealResetFails(Creator)
  <2>1. /\ multiframe = None /\ UNCHANGED <<device, entry, prov, multiframe>>
        /\ Return(Creator) /\ pc[Creator] \in {"shutdown", "reset"}
    BY <1>5 DEF SessionInv, ReleaseShutsDown, RealResetFails
  <2> QED
    BY <1>r, <2>1 DEF SessionInv, Capturing
<1>6. CASE ResetCommits(Creator)
  <2>1. /\ pc[Creator] = "commit" /\ multiframe = None /\ device.live /\ entry.id # 0
        /\ UNCHANGED <<device, multiframe>> /\ Return(Creator)
    BY <1>6, <1>b DEF SessionInv, RegistryInv, ResetCommits
  <2>2. prov' = OnReset(prov) /\ prov'.frame = 0
    BY <1>6, <2>1 DEF ResetCommits, OnReset, FreshProvenance
  <2> QED
    BY <1>r, <2>1, <2>2 DEF SessionInv, Capturing
<1>7. CASE PresentBegins(Creator) \/ LookupMisses(Creator)
  <2>1. /\ pc[Creator] \in {"idle", "lookup"} /\ pc'[Creator] \in {"lookup", "ticket"}
        /\ UNCHANGED <<device, entry, prov, multiframe, heap>>
    BY <1>7, <1>a DEF PresentBegins, LookupMisses, Goto
  <2> QED
    BY <2>1 DEF SessionInv, Capturing
<1>8. CASE LookupFinds(Creator)
  <2>1. /\ pc[Creator] = "lookup" /\ pc'[Creator] = "capture"
        /\ held'[Creator] = multiframe' /\ UNCHANGED <<device, entry, prov>>
    BY <1>8, <1>a DEF LookupFinds, Goto
  <2>2. multiframe' # None /\ heap'[multiframe'].generation = entry.generation
    <3>1. CASE multiframe = None
      <4>1. PICK r \in Runtimes :
              /\ heap' = [heap EXCEPT ![r] = FreshRuntime(entry.generation)]
              /\ multiframe' = r
        BY <1>8, <3>1 DEF LookupFinds
      <4> QED
        BY <4>1, <1>a DEF FreshRuntime
    <3>2. CASE multiframe # None
      BY <1>8, <3>2 DEF LookupFinds, SessionInv
    <3> QED
      BY <3>1, <3>2
  <2> QED
    BY <2>1, <2>2 DEF SessionInv, Capturing
<1>9. CASE Capture(Creator)
  <2>1. /\ pc[Creator] \in Capturing \cup {"capture"}
        /\ pc'[Creator] \in Capturing \cup {"ticket"}
        /\ UNCHANGED <<device, entry, prov, multiframe, held>>
    BY <1>9, <1>a DEF Capture, CaptureLocks, CaptureReturns, CreatesRelays, StartsClient,
       UsesRelays, CaptureDisables, CaptureCompletes, Capturing, Goto
  <2>2. held[Creator] = multiframe /\ multiframe \in Runtimes
        /\ heap[multiframe] \in RuntimeState
    BY <2>1, <1>a DEF SessionInv
  <2>3. heap'[multiframe].generation = heap[multiframe].generation
    <3> DEFINE old == heap[multiframe]
    <3>1. CASE CreatesRelays(Creator)
      <4>1. heap' = [heap EXCEPT ![multiframe] =
                       [old EXCEPT !.attempted = TRUE, !.relays = TRUE]]
        BY <3>1, <2>2, <1>a DEF CreatesRelays
      <4> QED
        BY <4>1, <2>2, <1>a DEF RuntimeState
    <3>2. CASE StartsClient(Creator)
      <4>1. heap' = [heap EXCEPT ![multiframe] = [old EXCEPT !.child = TRUE]]
        BY <3>2, <2>2, <1>a DEF StartsClient
      <4> QED
        BY <4>1, <2>2, <1>a DEF RuntimeState
    <3>3. CASE CaptureDisables(Creator)
      <4>1. heap' = [heap EXCEPT ![multiframe] =
                       [TornDown(old) EXCEPT !.attempted = TRUE, !.disabled = TRUE]]
        BY <3>3, <2>2, <1>a DEF CaptureDisables
      <4>2. [TornDown(old) EXCEPT !.attempted = TRUE, !.disabled = TRUE].generation
              = old.generation
        BY <2>2 DEF TornDown, RuntimeState
      <4> QED
        BY <4>1, <4>2, <2>2, <1>a
    <3>4. CASE CaptureCompletes(Creator)
      <4>1. heap' = [heap EXCEPT ![multiframe] = [TornDown(old) EXCEPT !.completed = TRUE]]
        BY <3>4, <2>2, <1>a DEF CaptureCompletes
      <4>2. [TornDown(old) EXCEPT !.completed = TRUE].generation = old.generation
        BY <2>2 DEF TornDown, RuntimeState
      <4> QED
        BY <4>1, <4>2, <2>2, <1>a
    <3>5. CASE UNCHANGED heap
      BY <3>5
    <3> QED
      BY <1>9, <3>1, <3>2, <3>3, <3>4, <3>5 DEF Capture, CaptureLocks, CaptureReturns,
         UsesRelays
  <2> QED
    BY <2>1, <2>2, <2>3 DEF SessionInv, Capturing
<1>10. CASE PresentTakesTicket(Creator) \/ Draw(Creator)
  <2>1. /\ pc[Creator] \in {"ticket", "idle"} /\ pc'[Creator] \in {"present", "idle"}
        /\ UNCHANGED <<device, entry, multiframe, heap>> /\ prov'.frame = prov.frame
    BY <1>10, <1>a, ProvenanceMoves DEF PresentTakesTicket, Draw, Goto
  <2> QED
    BY <2>1 DEF SessionInv, Capturing
<1>11. CASE RealPresentSucceeds(Creator)
  <2>1. /\ pc[Creator] = "present" /\ pc'[Creator] = "result" /\ device.live
        /\ device'.sinceReset = device.sinceReset + 1
        /\ UNCHANGED <<entry, prov, multiframe, heap>>
    BY <1>11, <1>a, <1>b DEF RealPresentSucceeds, Goto, DeviceState
  <2> QED
    BY <1>a, <2>1 DEF SessionInv, Capturing
<1>12. CASE RealPresentFails(Creator)
  <2>1. /\ pc[Creator] = "present" /\ Return(Creator)
        /\ UNCHANGED <<device, entry, prov, multiframe>>
    BY <1>12 DEF RealPresentFails
  <2> QED
    BY <1>a, <1>r, <2>1 DEF SessionInv, Capturing
<1>13. CASE PresentResult(Creator)
  <2>1. /\ pc[Creator] = "result" /\ device.live /\ entry.id # 0 /\ Return(Creator)
        /\ UNCHANGED <<device, entry, multiframe>>
    BY <1>13, <1>b DEF RegistryInv, PresentResult
  <2>2. prov' = OnPresented(prov) /\ prov'.frame = prov.frame + 1
    BY <1>13, <2>1, <1>a, ProvenanceMoves DEF PresentResult
  <2> QED
    BY <1>a, <1>r, <2>1, <2>2 DEF SessionInv, Capturing
<1>14. CASE UNCHANGED vars
  BY <1>14 DEF vars, SessionInv
<1>15. Next => Calls(Creator) \/ Continues(Creator)
  BY DEF Next
<1> QED
  BY <1>1, <1>2, <1>3, <1>4, <1>5, <1>6, <1>7, <1>8, <1>9, <1>10, <1>11, <1>12, <1>13,
     <1>14, <1>15 DEF Calls, Continues, RealReset, Present, Lookup

\* In a game with one thread the session in use and the frame count are those of
\* the present generation.
THEOREM GenerationsAreCurrent ==
  ASSUME Threads = {Creator}
  PROVE  Spec => []GenerationIsCurrent
<1>1. Init => SessionInv
  BY ObserverAssumption DEF Init, SessionInv, Capturing, NoDevice
<1>2. TypeOK /\ RuntimeInv /\ RegistryInv /\ SessionInv /\ [Next]_vars => SessionInv'
  BY SessionStep
<1>3. TypeOK /\ RuntimeInv /\ RegistryInv /\ SessionInv => GenerationIsCurrent
  <2> SUFFICES ASSUME TypeOK, RuntimeInv, RegistryInv, SessionInv
               PROVE  FrameIsTrue /\ SessionIsCurrent
    BY DEF GenerationIsCurrent
  <2>1. prov.frame \in Nat /\ entry.generation \in Nat
    BY DEF TypeOK, ProvenanceState, Registration
  <2>2. FrameIsTrue
    BY <2>1 DEF FrameIsTrue, SessionInv
  <2>3. ASSUME NEW t \in Threads, pc[t] \in Capturing
        PROVE  heap[held[t]].generation = device.resets + 1
    <3>1. t = Creator /\ pc[Creator] # "commit" /\ device.live
      BY <2>3 DEF Capturing, RuntimeInv, ReleaseIsLast
    <3>2. heap[held[t]].generation = entry.generation
      BY <2>3 DEF SessionInv
    <3> QED
      BY <2>1, <3>1, <3>2 DEF RegistryInv, ResetsCounted
  <2> QED
    BY <2>2, <2>3 DEF SessionIsCurrent
<1> QED
  BY <1>1, <1>2, <1>3, TypeCorrect, RuntimesAreConsistent, RegistryIsConsistent, PTL DEF Spec
=============================================================================
