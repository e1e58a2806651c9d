-------------------------- MODULE BridgeRingProofs --------------------------
(***************************************************************************)
(* Proofs about BridgeRing, for every number of frames, every ring depth   *)
(* and every set of faults; at the end about ProducerProbe, the driver     *)
(* that is modelled as well.                                               *)
(***************************************************************************)
EXTENDS ProducerProbe, TLAPS

\* A frame's slot is one of the ring's slots.
LEMMA SlotInRange ==
  ASSUME NEW f \in Nat
  PROVE  SlotOf(f) \in Slot
  BY ProtocolAssumption, SMT DEF SlotOf, Slot

\* Two frames less than a ring apart never share a slot: the arithmetic the
\* reuse rule of protocol.h rests on.
LEMMA SlotsDiffer ==
  ASSUME NEW a \in Nat, NEW b \in Nat, a < b, b < a + RingDepth
  PROVE  SlotOf(a) # SlotOf(b)
<1> SUFFICES ASSUME a % RingDepth = b % RingDepth
             PROVE  FALSE
  BY DEF SlotOf
<1> DEFINE qa == a \div RingDepth
           qb == b \div RingDepth
<1>1. RingDepth \in Nat /\ RingDepth > 0
  BY ProtocolAssumption
<1>2. /\ qa \in Int /\ qb \in Int
      /\ a = RingDepth * qa + (a % RingDepth)
      /\ b = RingDepth * qb + (b % RingDepth)
  BY <1>1, SMT
<1>3. a % RingDepth \in Int
  BY <1>1, SMT
<1> HIDE DEF qa, qb
<1>4. b - a = RingDepth * (qb - qa)
  BY <1>1, <1>2, <1>3, SMT
<1>5. qb - qa > 0
  <2>1. CASE qb - qa <= 0
    <3>1. RingDepth * (qb - qa) <= 0
      BY <2>1, <1>1, <1>2, SMT
    <3>2. QED
      BY <3>1, <1>4, SMT
  <2>2. QED
    BY <2>1, <1>2, SMT
<1>6. RingDepth * (qb - qa) >= RingDepth
  BY <1>5, <1>1, <1>2, SMT
<1>7. QED
  BY <1>6, <1>4, <1>1, SMT
-----------------------------------------------------------------------------
(* The inductive invariant.                                                *)

\* A session starts with nothing submitted and an empty ring.
LEMMA RingInvInit == Init => RingInv
<1> SUFFICES ASSUME Init PROVE RingInv
  OBVIOUS
<1> USE ProtocolAssumption DEF Init
<1>1. TypeOK
  <2>1. /\ source \in [Slot -> Frame \cup {NoFrame}]
        /\ transport \in [Slot -> Frame \cup {NoFrame}]
        /\ delivered \in [Frame -> Frame \cup {NoFrame}]
    OBVIOUS
  <2>2. /\ parentAlive \in BOOLEAN /\ pressured \in BOOLEAN
        /\ cancelRequested \in BOOLEAN
        /\ removed11 \in BOOLEAN /\ removed12 \in BOOLEAN
    OBVIOUS
  <2>3. /\ phase \in Phases /\ turn \in {"idle", "admitted", "prepared"}
        /\ verdict \in Verdicts \cup {"none"}
        /\ sinkPc \in SinkPcs /\ outcome \in Outcomes
    BY DEF Phases, ShutdownPhases, SinkPcs, Outcomes
  <2>4. 0 \in 0 .. Frames
    OBVIOUS
  <2>5. QED
    BY <2>1, <2>2, <2>3, <2>4
    DEF TypeOK, ClientTypeOK, Gpu11TypeOK, SinkTypeOK, Gpu12TypeOK
<1>2. Pipeline /\ SinkPosition /\ ClientPosition
  BY DEF Pipeline, SinkPosition, ClientPosition
<1>3. SourceStable /\ TransportHeld /\ DeliveredIntact
  BY DEF SourceStable, TransportHeld, DeliveredIntact, MayBeWritten
<1>4. PassIsEarned /\ CancelledIsRequested /\ NoUnsupervisedSink
  BY DEF PassIsEarned, CancelledIsRequested, NoUnsupervisedSink
<1>5. QED
  BY <1>1, <1>2, <1>3, <1>4 DEF RingInv

\* An admission implies there is room in the ring: the done fence has passed
\* the previous use of the slot, and the value read was not the sentinel.
LEMMA AdmissionMeansRoom ==
  ASSUME RingInv, ClientIdle,
         NEW completedDone \in DoneSeenByClient,
         Availability(completedDone) = "submitted"
  PROVE  /\ phase = "active"
         /\ verdict = "none"
         /\ submitted < Frames
         /\ submitted < done + RingDepth
<1> USE ProtocolAssumption
<1>1. /\ verdict = "none"
      /\ phase # "released"
      /\ submitted < Frames
      /\ \/ ReuseDoneValue(submitted) = 0
         \/ FenceReached(completedDone, ReuseDoneValue(submitted))
  BY DEF Availability, RingInv, TypeOK, ClientTypeOK, Verdicts, Completion,
         ClassifyCompletion
<1>2. phase = "active"
  BY <1>1 DEF ClientIdle
<1>3. completedDone = done \/ completedDone = Sentinel
  BY DEF DoneSeenByClient
<1>4. submitted < done + RingDepth
  BY <1>1, <1>3
  DEF ReuseDoneValue, DoneValue, FenceReached, RingInv, TypeOK, ClientTypeOK,
      Gpu12TypeOK
<1>5. QED
  BY <1>1, <1>2, <1>4

\* FinishIfExited never spoils the invariants about the verdict: the only way
\* to "pass" is exit code 0, and to "cancelled" exit code 90 on request.
LEMMA FinishIsSound ==
  ASSUME RingInv, NEW completedDone, FinishIfExited(completedDone)
  PROVE  /\ verdict' \in Verdicts \cup {"none"}
         /\ verdict' # "none" => sinkPc = "exited"
         /\ verdict' = "pass" => outcome = "ok"
         /\ verdict' = "cancelled" => cancelRequested /\ outcome = "killed"
         /\ verdict # "none" => verdict' = verdict
<1> USE DEF RingInv, TypeOK, ClientTypeOK, SinkTypeOK, ClientPosition,
            PassIsEarned, CancelledIsRequested
<1>1. CASE verdict = "none" /\ phase # "released" /\ sinkPc = "exited"
  <2>1. verdict' = Completion(completedDone)
    BY <1>1 DEF FinishIfExited
  <2>2. outcome \in Outcomes
    OBVIOUS
  <2>3. ExitCode[outcome] = 0 => outcome = "ok"
    BY <2>2 DEF ExitCode, Outcomes, CancelledChildExitCode
  <2>4. ExitCode[outcome] = CancelledChildExitCode => outcome = "killed"
    BY <2>2 DEF ExitCode, Outcomes, CancelledChildExitCode
  <2>5. QED
    BY <1>1, <2>1, <2>3, <2>4 DEF Completion, ClassifyCompletion, Verdicts
<1>2. CASE ~(verdict = "none" /\ phase # "released" /\ sinkPc = "exited")
  BY <1>2 DEF FinishIfExited
<1>3. QED
  BY <1>1, <1>2
-----------------------------------------------------------------------------
(* A call of the driver touches neither GPU timeline nor the sink.         *)

\* The parts of the invariant that only speak of the GPUs and the sink survive a
\* call that changes neither.
LEMMA CallKeepsTheRest ==
  ASSUME RingInv, UNCHANGED <<gpu11Vars, sinkVars, gpu12Vars>>
  PROVE  /\ Gpu11TypeOK' /\ SinkTypeOK' /\ Gpu12TypeOK'
         /\ SinkPosition' /\ TransportHeld' /\ DeliveredIntact'
<1> USE DEF RingInv, TypeOK, gpu11Vars, sinkVars, gpu12Vars
<1>1. Gpu11TypeOK' /\ SinkTypeOK' /\ Gpu12TypeOK'
  BY DEF Gpu11TypeOK, SinkTypeOK, Gpu12TypeOK
<1>2. SinkPosition' /\ TransportHeld' /\ DeliveredIntact'
  BY DEF SinkPosition, TransportHeld, DeliveredIntact
<1>3. QED
  BY <1>1, <1>2

\* Calls that only judge a child that has exited and change the driver's turn.
LEMMA JudgingKeepsInv ==
  ASSUME RingInv, ClientIdle,
         UNCHANGED <<gpu11Vars, sinkVars, gpu12Vars>>,
         UNCHANGED <<parentAlive, phase, submitted, issued, cancelRequested>>,
         NEW completedDone, FinishIfExited(completedDone),
         pressured' \in BOOLEAN,
         turn' \in {"idle", "admitted", "prepared"},
         turn' # "idle" =>
           phase = "active" /\ submitted < Frames /\ submitted < done + RingDepth,
         turn' = "prepared" => turn = "prepared"
  PROVE  RingInv'
<1> USE CallKeepsTheRest, FinishIsSound DEF RingInv
<1>1. TypeOK'
  BY DEF TypeOK, ClientTypeOK
<1>2. Pipeline' /\ SourceStable'
  BY DEF Pipeline, SourceStable, MayBeWritten, gpu11Vars, sinkVars, gpu12Vars
<1>3. ClientPosition'
  BY DEF ClientPosition, gpu11Vars, sinkVars, gpu12Vars
<1>4. PassIsEarned'
  <2>1. SUFFICES ASSUME verdict' = "pass"
                 PROVE  /\ outcome = "ok"
                        /\ done = Frames
                        /\ \A f \in Frame : delivered[f] = f
    BY DEF PassIsEarned, sinkVars, gpu12Vars
  <2>2. outcome = "ok" /\ done = Frames
    BY <2>1 DEF SinkPosition
  <2>3. consumed = Frames
    BY <2>2, ProtocolAssumption DEF Pipeline, TypeOK, Gpu12TypeOK
  <2>4. QED
    BY <2>2, <2>3 DEF DeliveredIntact, Frame
<1>5. CancelledIsRequested'
  BY DEF CancelledIsRequested, sinkVars
<1>6. NoUnsupervisedSink'
  BY DEF NoUnsupervisedSink, sinkVars
<1>7. QED
  BY <1>1, <1>2, <1>3, <1>4, <1>5, <1>6

\* QuerySubmitStatus admits a frame only when its slot is free.
LEMMA QueryInv ==
  ASSUME RingInv, NEW status \in SubmitStatus, QuerySubmitStatus(status)
  PROVE  RingInv'
<1>1. PICK completedDone \in DoneSeenByClient :
        status = Availability(completedDone) /\ FinishIfExited(completedDone)
  BY DEF QuerySubmitStatus
<1>2. turn' # "idle" =>
        phase = "active" /\ submitted < Frames /\ submitted < done + RingDepth
  BY <1>1, AdmissionMeansRoom DEF QuerySubmitStatus
<1>3. pressured' \in BOOLEAN
  BY DEF QuerySubmitStatus, RingInv, TypeOK, ClientTypeOK
<1>4. QED
  BY <1>1, <1>2, <1>3, JudgingKeepsInv DEF QuerySubmitStatus

\* A refused TrySubmit only judges and counts.
LEMMA RefusedInv ==
  ASSUME RingInv, NEW status \in SubmitStatus, TrySubmitRefused(status)
  PROVE  RingInv'
<1>1. PICK completedDone \in DoneSeenByClient : FinishIfExited(completedDone)
  BY DEF TrySubmitRefused
<1>2. pressured' \in BOOLEAN
  BY DEF TrySubmitRefused, RingInv, TypeOK, ClientTypeOK
<1>3. QED
  BY <1>1, <1>2, JudgingKeepsInv DEF TrySubmitRefused

\* Poll only judges.
LEMMA PollInv ==
  ASSUME RingInv, Poll
  PROVE  RingInv'
<1>1. PICK completedDone \in DoneSeenByClient : FinishIfExited(completedDone)
  BY DEF Poll
<1>2. /\ pressured' \in BOOLEAN
      /\ turn' \in {"idle", "admitted", "prepared"}
  BY DEF Poll, RingInv, TypeOK, ClientTypeOK
<1>3. QED
  BY <1>1, <1>2, JudgingKeepsInv DEF Poll, RingInv, ClientPosition

\* The copies that may still be pending read other slots than the one the
\* driver is about to render into.
LEMMA PrepareInv ==
  ASSUME RingInv, PrepareSource
  PROVE  RingInv'
<1> USE ProtocolAssumption DEF RingInv, TypeOK
<1>1. /\ phase = "active" /\ issued = submitted
      /\ submitted \in Nat /\ submitted < Frames
      /\ submitted < done + RingDepth
      /\ source' = [source EXCEPT ![SlotOf(submitted)] = submitted]
  BY DEF PrepareSource, ClientPosition, ClientTypeOK
<1>2. SlotOf(submitted) \in Slot
  BY <1>1, SlotInRange
<1>3. source' \in [Slot -> Frame \cup {NoFrame}]
  <2>1. submitted \in Frame
    BY <1>1 DEF Frame
  <2>2. source \in [Slot -> Frame \cup {NoFrame}]
    BY DEF Gpu11TypeOK
  <2>3. QED
    BY <1>1, <2>1, <2>2
<1>4. TypeOK'
  BY <1>3
  DEF PrepareSource, ClientTypeOK, Gpu11TypeOK, SinkTypeOK, Gpu12TypeOK,
      sinkVars, gpu12Vars
<1>5. Pipeline' /\ SinkPosition' /\ TransportHeld' /\ DeliveredIntact'
  BY DEF PrepareSource, Pipeline, SinkPosition, TransportHeld, DeliveredIntact,
         sinkVars, gpu12Vars
<1>6. source'[SlotOf(submitted)] = submitted
  BY <1>1, <1>2 DEF Gpu11TypeOK
<1>7. ClientPosition'
  BY <1>1, <1>6 DEF PrepareSource, ClientPosition, sinkVars, gpu12Vars
<1>8. SourceStable'
  <2>1. SUFFICES ASSUME NEW f \in copied .. issued - 1
                 PROVE  source'[SlotOf(f)] = f
    BY DEF SourceStable, MayBeWritten, PrepareSource
  <2>2. f \in Nat /\ f < submitted /\ submitted < f + RingDepth
    BY <1>1 DEF Pipeline, Gpu11TypeOK, Gpu12TypeOK, SinkTypeOK
  <2>3. SlotOf(f) # SlotOf(submitted) /\ SlotOf(f) \in Slot
    BY <1>1, <2>2, SlotsDiffer, SlotInRange
  <2>4. source[SlotOf(f)] = f
    BY DEF SourceStable, MayBeWritten
  <2>5. QED
    BY <1>1, <2>3, <2>4 DEF Gpu11TypeOK
<1>9. PassIsEarned' /\ CancelledIsRequested' /\ NoUnsupervisedSink'
  BY DEF PrepareSource, PassIsEarned, CancelledIsRequested, NoUnsupervisedSink,
         sinkVars, gpu12Vars
<1>10. QED
  BY <1>4, <1>5, <1>7, <1>8, <1>9

\* TrySubmit enqueues the copy of a frame that the ring has room for.
LEMMA SubmitInv ==
  ASSUME RingInv, TrySubmitSucceeds \/ TrySubmitFails
  PROVE  RingInv'
<1> USE ProtocolAssumption DEF RingInv
<1>1. TrySubmitAdmitted
  BY DEF TrySubmitSucceeds, TrySubmitFails
<1>2. PICK completedDone \in DoneSeenByClient :
        Availability(completedDone) = "submitted"
  BY <1>1 DEF TrySubmitAdmitted
<1>3. /\ phase = "active" /\ verdict = "none" /\ issued = submitted
      /\ submitted < Frames /\ submitted < done + RingDepth
      /\ source[SlotOf(submitted)] = submitted
  BY <1>1, <1>2, AdmissionMeansRoom DEF TrySubmitAdmitted, ClientPosition
<1>4. /\ issued' = issued + 1 /\ turn' = "idle" /\ verdict' = verdict
      /\ \/ submitted' = submitted + 1 /\ phase' = phase
         \/ submitted' = submitted /\ phase' = "finish"
      /\ UNCHANGED <<parentAlive, pressured, cancelRequested>>
      /\ UNCHANGED <<gpu11Vars, sinkVars, gpu12Vars>>
  BY DEF TrySubmitSucceeds, TrySubmitFails, TrySubmitAdmitted
<1>5. TypeOK'
  BY <1>3, <1>4, CallKeepsTheRest
  DEF TypeOK, ClientTypeOK, Phases, ShutdownPhases
<1>6. Pipeline'
  BY <1>3, <1>4
  DEF Pipeline, TypeOK, ClientTypeOK, Gpu11TypeOK, Gpu12TypeOK,
      gpu11Vars, sinkVars, gpu12Vars
<1>7. ClientPosition'
  BY <1>3, <1>4 DEF ClientPosition, TypeOK, ClientTypeOK, gpu11Vars, sinkVars, gpu12Vars
<1>8. SourceStable'
  <2>1. SUFFICES ASSUME NEW f \in copied .. issued
                 PROVE  source[SlotOf(f)] = f
    BY <1>4 DEF SourceStable, MayBeWritten, gpu11Vars, TypeOK, ClientTypeOK
  <2>2. f \in copied .. issued - 1 \/ f = issued
    BY DEF TypeOK, ClientTypeOK, Gpu11TypeOK
  <2>3. QED
    BY <2>2, <1>3 DEF SourceStable, MayBeWritten
<1>9. PassIsEarned' /\ CancelledIsRequested' /\ NoUnsupervisedSink'
  BY <1>3, <1>4
  DEF PassIsEarned, CancelledIsRequested, NoUnsupervisedSink, sinkVars, gpu12Vars
<1>10. QED
  BY <1>4, <1>5, <1>6, <1>7, <1>8, <1>9, CallKeepsTheRest
-----------------------------------------------------------------------------
(* The other steps of the parent.                                          *)

\* Steps that move the client or its driver and neither submit nor disturb the
\* rest of the system.
LEMMA ControlKeepsInv ==
  ASSUME RingInv,
         UNCHANGED <<gpu11Vars, sinkVars, gpu12Vars, submitted, issued>>,
         ClientTypeOK', ClientPosition', NoUnsupervisedSink',
         verdict' = "pass" => outcome = "ok",
         verdict' = "cancelled" => cancelRequested' /\ outcome = "killed"
  PROVE  RingInv'
<1> USE DEF RingInv
<1>1. /\ Gpu11TypeOK' /\ SinkTypeOK' /\ Gpu12TypeOK'
      /\ SinkPosition' /\ TransportHeld' /\ DeliveredIntact'
  BY CallKeepsTheRest
<1>2. Pipeline' /\ SourceStable'
  BY DEF Pipeline, SourceStable, MayBeWritten, gpu11Vars, sinkVars, gpu12Vars
<1>3. PassIsEarned'
  <2>1. SUFFICES ASSUME verdict' = "pass"
                 PROVE  /\ outcome = "ok"
                        /\ done = Frames
                        /\ \A f \in Frame : delivered[f] = f
    BY DEF PassIsEarned, sinkVars, gpu12Vars
  <2>2. outcome = "ok" /\ done = Frames
    BY <2>1 DEF SinkPosition
  <2>3. consumed = Frames
    BY <2>2, ProtocolAssumption DEF Pipeline, TypeOK, Gpu12TypeOK
  <2>4. QED
    BY <2>2, <2>3 DEF DeliveredIntact, Frame
<1>4. CancelledIsRequested'
  BY DEF CancelledIsRequested, sinkVars
<1>5. QED
  BY <1>1, <1>2, <1>3, <1>4 DEF TypeOK

\* Skipping a frame gives up the admission and nothing else.
LEMMA AbandonInv ==
  ASSUME RingInv, AbandonSource
  PROVE  RingInv'
<1> USE DEF RingInv, TypeOK, AbandonSource
<1>1. ClientTypeOK'
  BY DEF ClientTypeOK
<1>2. ClientPosition' /\ NoUnsupervisedSink'
  BY DEF ClientPosition, NoUnsupervisedSink, gpu11Vars, sinkVars, gpu12Vars
<1>3. QED
  BY <1>1, <1>2, ControlKeepsInv DEF PassIsEarned, CancelledIsRequested

\* Shutdown and Cancel start the teardown of the client only.
LEMMA ShutdownCallInv ==
  ASSUME RingInv, Shutdown \/ Cancel
  PROVE  RingInv'
<1> USE DEF RingInv, TypeOK
<1>1. /\ UNCHANGED <<gpu11Vars, sinkVars, gpu12Vars>>
      /\ UNCHANGED <<parentAlive, submitted, issued, pressured, verdict>>
      /\ turn' = "idle"
      /\ phase' = "finish" \/ (phase = "released" /\ phase' = phase)
      /\ cancelRequested' = TRUE \/ cancelRequested' = cancelRequested
  BY DEF Shutdown, Cancel, ClientIdle
<1>2. ClientTypeOK'
  BY <1>1 DEF ClientTypeOK, Phases, ShutdownPhases
<1>3. ClientPosition' /\ NoUnsupervisedSink'
  BY <1>1 DEF ClientPosition, NoUnsupervisedSink, gpu11Vars, sinkVars, gpu12Vars
<1>4. cancelRequested => cancelRequested'
  BY <1>1
<1>5. verdict' = "cancelled" => cancelRequested' /\ outcome = "killed"
  BY <1>1, <1>4 DEF CancelledIsRequested
<1>6. QED
  BY <1>1, <1>2, <1>3, <1>5, ControlKeepsInv DEF PassIsEarned

\* The first judgement of Shutdown: a child that has exited is released at once.
LEMMA ShutdownFinishInv ==
  ASSUME RingInv, ShutdownFinish
  PROVE  RingInv'
<1> USE DEF RingInv, TypeOK
<1>1. PICK completedDone \in DoneSeenByClient : FinishIfExited(completedDone)
  BY DEF ShutdownFinish
<1>2. /\ verdict' \in Verdicts \cup {"none"}
      /\ verdict' # "none" => sinkPc = "exited"
      /\ verdict' = "pass" => outcome = "ok"
      /\ verdict' = "cancelled" => cancelRequested /\ outcome = "killed"
  BY <1>1, FinishIsSound
<1>3. /\ UNCHANGED <<gpu11Vars, sinkVars, gpu12Vars>>
      /\ UNCHANGED <<parentAlive, turn, submitted, issued, pressured,
                     cancelRequested>>
      /\ phase = "finish"
      /\ phase' = IF verdict' # "none" THEN "released" ELSE "recheck"
  BY DEF ShutdownFinish, ShutdownStep
<1>4. ClientTypeOK'
  BY <1>2, <1>3 DEF ClientTypeOK, Phases, ShutdownPhases
<1>5. ClientPosition' /\ NoUnsupervisedSink'
  BY <1>2, <1>3
  DEF ClientPosition, NoUnsupervisedSink, gpu11Vars, sinkVars, gpu12Vars
<1>6. QED
  BY <1>2, <1>3, <1>4, <1>5, ControlKeepsInv

\* The second look of Shutdown: a child seen to be gone is released unjudged.
LEMMA ShutdownRecheckInv ==
  ASSUME RingInv, ShutdownRecheck
  PROVE  RingInv'
<1> USE DEF RingInv, TypeOK, ShutdownRecheck, ShutdownStep
<1>1. ClientTypeOK'
  BY DEF ClientTypeOK, Phases, ShutdownPhases
<1>2. ClientPosition' /\ NoUnsupervisedSink'
  BY DEF ClientPosition, NoUnsupervisedSink, gpu11Vars, sinkVars, gpu12Vars
<1>3. QED
  BY <1>1, <1>2, ControlKeepsInv DEF PassIsEarned, CancelledIsRequested

\* The last judgement of Shutdown follows a TerminateProcess.
LEMMA ShutdownReapInv ==
  ASSUME RingInv, ShutdownReap
  PROVE  RingInv'
<1> USE DEF RingInv, TypeOK
<1>1. PICK completedDone \in DoneSeenByClient : FinishIfExited(completedDone)
  BY DEF ShutdownReap
<1>2. /\ verdict' \in Verdicts \cup {"none"}
      /\ verdict' # "none" => sinkPc = "exited"
      /\ verdict' = "pass" => outcome = "ok"
      /\ verdict' = "cancelled" => cancelRequested /\ outcome = "killed"
  BY <1>1, FinishIsSound
<1>3. /\ UNCHANGED <<gpu11Vars, sinkVars, gpu12Vars>>
      /\ UNCHANGED <<parentAlive, turn, submitted, issued, pressured,
                     cancelRequested>>
      /\ phase = "reap" /\ phase' = "released"
  BY DEF ShutdownReap, ShutdownStep
<1>4. ClientTypeOK'
  BY <1>2, <1>3 DEF ClientTypeOK, Phases
<1>5. ClientPosition' /\ NoUnsupervisedSink'
  BY <1>2, <1>3
  DEF ClientPosition, NoUnsupervisedSink, gpu11Vars, sinkVars, gpu12Vars
<1>6. QED
  BY <1>2, <1>3, <1>4, <1>5, ControlKeepsInv

\* The death of the parent changes nothing the invariant speaks of.
LEMMA ParentExitsInv ==
  ASSUME RingInv, ParentExits
  PROVE  RingInv'
<1> USE DEF RingInv, TypeOK, ParentExits
<1>1. ClientTypeOK'
  BY DEF ClientTypeOK
<1>2. ClientPosition' /\ NoUnsupervisedSink'
  BY DEF ClientPosition, NoUnsupervisedSink, gpu11Vars, sinkVars, gpu12Vars
<1>3. QED
  BY <1>1, <1>2, ControlKeepsInv DEF PassIsEarned, CancelledIsRequested
-----------------------------------------------------------------------------
(* The steps of the sink, and its end by the client's hand or its own.     *)

\* The sink moves on without touching anybody else's state.  A sink that can
\* still move has not been judged yet.
LEMMA SinkKeepsInv ==
  ASSUME RingInv, UNCHANGED <<clientVars, gpu11Vars, gpu12Vars>>,
         SinkTypeOK', SinkPosition', Pipeline',
         sinkPc # "exited",
         sinkPc = "leaving" => sinkPc' \in {"leaving", "exited"}
  PROVE  RingInv'
<1> USE DEF RingInv, TypeOK
<1>1. ClientTypeOK' /\ Gpu11TypeOK' /\ Gpu12TypeOK'
  BY DEF ClientTypeOK, Gpu11TypeOK, Gpu12TypeOK, clientVars, gpu11Vars, gpu12Vars
<1>2. SourceStable' /\ TransportHeld' /\ DeliveredIntact'
  BY DEF SourceStable, TransportHeld, DeliveredIntact, MayBeWritten, clientVars,
         gpu11Vars, gpu12Vars
<1>3. verdict' = "none"
  BY DEF ClientPosition, clientVars
<1>4. ClientPosition' /\ NoUnsupervisedSink'
  BY <1>3 DEF ClientPosition, NoUnsupervisedSink, clientVars, gpu11Vars, gpu12Vars
<1>5. PassIsEarned' /\ CancelledIsRequested'
  BY <1>3 DEF PassIsEarned, CancelledIsRequested
<1>6. QED
  BY <1>1, <1>2, <1>4, <1>5

\* Steps that only move the sink's program counter.
LEMMA SinkMovesInv ==
  ASSUME RingInv,
         \/ SinkMoves("setup", "await") /\ SinkStays
         \/ SinkMoves("await", "arm") /\ SinkStays
         \/ SinkMoves("arm", "waiting") /\ SinkStays
         \/ SinkMoves("leaving", "exited") /\ SinkStays
  PROVE  RingInv'
<1> USE DEF RingInv, TypeOK, SinkMoves, SinkStays
<1>1. SinkTypeOK'
  BY DEF SinkTypeOK, SinkPcs
<1>2. SinkPosition' /\ Pipeline'
  BY DEF SinkPosition, Pipeline, clientVars, gpu11Vars, gpu12Vars
<1>3. QED
  BY <1>1, <1>2, SinkKeepsInv

\* A return from run_multiframe that does not claim success.
LEMMA SinkGivesUpInv ==
  ASSUME RingInv,
         NEW from \in SinkPcs \ {"leaving", "exited"},
         NEW result \in Outcomes \ {"ok"},
         SinkReturns(from, result)
  PROVE  RingInv'
<1> USE DEF RingInv, TypeOK, SinkReturns, SinkMoves
<1>1. SinkTypeOK'
  BY DEF SinkTypeOK, SinkPcs
<1>2. SinkPosition' /\ Pipeline'
  BY DEF SinkPosition, Pipeline, clientVars, gpu11Vars, gpu12Vars
<1>3. QED
  BY <1>1, <1>2, SinkKeepsInv

\* The sink passes its wait only for a frame whose ready value is signalled:
\* the sentinel does not count.
LEMMA SinkFrameReadyInv ==
  ASSUME RingInv, SinkFrameReady
  PROVE  RingInv'
<1> USE DEF RingInv, TypeOK, SinkFrameReady, SinkMoves, SinkStays
<1>1. doneQueued < ready
  BY ProtocolAssumption
  DEF ProducerIsReady, ReadySeenBySink, FenceReached, ReadyValue, SinkTypeOK,
      Gpu11TypeOK
<1>2. SinkTypeOK'
  BY DEF SinkTypeOK, SinkPcs
<1>3. SinkPosition' /\ Pipeline'
  BY <1>1 DEF SinkPosition, Pipeline, clientVars, gpu11Vars, gpu12Vars
<1>4. QED
  BY <1>2, <1>3, SinkKeepsInv

\* The sink queues a list only for a frame whose ready value it has seen.
LEMMA SinkRecordsInv ==
  ASSUME RingInv, SinkRecords
  PROVE  RingInv'
<1> USE DEF RingInv, TypeOK
<1>1. CASE SinkMoves("record", "signal") /\ queued' = queued + 1
           /\ UNCHANGED <<outcome, doneQueued>>
  <2> USE <1>1 DEF SinkMoves
  <2>1. SinkTypeOK'
    BY ProtocolAssumption DEF SinkTypeOK, SinkPcs, SinkPosition
  <2>2. SinkPosition'
    BY DEF SinkPosition, gpu11Vars, gpu12Vars
  <2>3. Pipeline'
    BY DEF SinkPosition, Pipeline, SinkTypeOK, Gpu11TypeOK, Gpu12TypeOK,
           clientVars, gpu11Vars, gpu12Vars
  <2>4. QED
    BY <2>1, <2>2, <2>3, SinkKeepsInv
<1>2. CASE SinkReturns("record", "record_failed")
  BY <1>2, SinkGivesUpInv DEF SinkPcs, Outcomes
<1>3. QED
  BY <1>1, <1>2 DEF SinkRecords

\* The sink signals done for the list it has just queued.
LEMMA SinkSignalsInv ==
  ASSUME RingInv, SinkSignals
  PROVE  RingInv'
<1> USE DEF RingInv, TypeOK
<1>1. CASE SinkMoves("signal", IF doneQueued + 1 < Frames THEN "await" ELSE "final")
           /\ doneQueued' = doneQueued + 1 /\ UNCHANGED <<outcome, queued>>
  <2> USE <1>1, ProtocolAssumption DEF SinkMoves
  <2>1. queued = doneQueued + 1
    BY DEF SinkPosition
  <2>2. SinkTypeOK'
    BY <2>1 DEF SinkTypeOK, SinkPcs
  <2>3. SinkPosition'
    BY <2>1 DEF SinkPosition, SinkTypeOK, gpu11Vars, gpu12Vars
  <2>4. Pipeline'
    BY <2>1 DEF Pipeline, SinkTypeOK, Gpu12TypeOK, clientVars, gpu11Vars, gpu12Vars
  <2>5. QED
    BY <2>2, <2>3, <2>4, SinkKeepsInv
<1>2. CASE SinkReturns("signal", "signal_failed")
  BY <1>2, SinkGivesUpInv DEF SinkPcs, Outcomes
<1>3. QED
  BY <1>1, <1>2 DEF SinkSignals

\* The sink returns 0 only with the done fence at the last frame's value.
LEMMA SinkFinishesInv ==
  ASSUME RingInv, SinkFinishes
  PROVE  RingInv'
<1> USE DEF RingInv, TypeOK
<1>1. CASE FenceReached(DoneSeenBySink, DoneValue(Frames - 1))
           /\ SinkReturns("final", "ok")
  <2> USE <1>1 DEF SinkReturns, SinkMoves
  <2>1. done = Frames
    BY ProtocolAssumption DEF FenceReached, DoneSeenBySink, DoneValue, Gpu12TypeOK
  <2>2. SinkTypeOK'
    BY DEF SinkTypeOK, SinkPcs, Outcomes
  <2>3. SinkPosition' /\ Pipeline'
    BY <2>1 DEF SinkPosition, Pipeline, clientVars, gpu11Vars, gpu12Vars
  <2>4. QED
    BY <2>2, <2>3, SinkKeepsInv
<1>2. CASE \/ SinkReturns("final", "validation_failed")
           \/ SinkReturns("final", "completion_failed")
  BY <1>2, SinkGivesUpInv DEF SinkPcs, Outcomes
<1>3. QED
  BY <1>1, <1>2 DEF SinkFinishes

\* Every step of the sink process.
LEMMA SinkStepInv ==
  ASSUME RingInv, SinkStep
  PROVE  RingInv'
<1>1. CASE SinkSetup
  BY <1>1, SinkMovesInv, SinkGivesUpInv DEF SinkSetup, SinkPcs, Outcomes
<1>2. CASE SinkChecksParent
  BY <1>2, SinkMovesInv, SinkGivesUpInv DEF SinkChecksParent, SinkPcs, Outcomes
<1>3. CASE SinkArmsWait
  BY <1>3, SinkMovesInv, SinkGivesUpInv DEF SinkArmsWait, SinkPcs, Outcomes
<1>4. CASE SinkLosesParent \/ SinkWaitFails
  BY <1>4, SinkGivesUpInv DEF SinkLosesParent, SinkWaitFails, SinkPcs, Outcomes
<1>5. CASE SinkLeaves
  BY <1>5, SinkMovesInv DEF SinkLeaves
<1>6. QED
  BY <1>1, <1>2, <1>3, <1>4, <1>5, SinkFrameReadyInv, SinkRecordsInv,
     SinkSignalsInv, SinkFinishesInv
  DEF SinkStep, SinkProceeds

\* A crash of the sink claims no success.
LEMMA SinkCrashesInv ==
  ASSUME RingInv, SinkCrashes
  PROVE  RingInv'
<1> USE DEF RingInv, TypeOK, SinkCrashes
<1>1. SinkTypeOK'
  BY DEF SinkTypeOK, SinkPcs, Outcomes
<1>2. SinkPosition' /\ Pipeline'
  BY DEF SinkPosition, Pipeline, clientVars, gpu11Vars, gpu12Vars
<1>3. QED
  BY <1>1, <1>2, SinkKeepsInv

\* TerminateProcess: a child already judged has exited, and stays as it is.
LEMMA ShutdownTerminateInv ==
  ASSUME RingInv, ShutdownTerminate
  PROVE  RingInv'
<1> USE DEF RingInv, TypeOK
<1>1. /\ UNCHANGED <<gpu11Vars, gpu12Vars>>
      /\ UNCHANGED <<parentAlive, turn, submitted, issued, pressured,
                     cancelRequested, verdict, queued, doneQueued>>
      /\ phase = "terminate" /\ phase' = "reap"
      /\ \/ sinkPc = "exited" /\ sinkPc' = sinkPc /\ outcome' = outcome
         \/ /\ sinkPc # "exited" /\ sinkPc' = "leaving"
            /\ \/ outcome' = "killed"
               \/ sinkPc = "leaving" /\ outcome' = outcome
  BY DEF ShutdownTerminate, ShutdownStep
<1>2. ClientTypeOK' /\ SinkTypeOK'
  BY <1>1 DEF ClientTypeOK, SinkTypeOK, Phases, ShutdownPhases, SinkPcs, Outcomes
<1>3. Gpu11TypeOK' /\ Gpu12TypeOK'
  BY <1>1 DEF Gpu11TypeOK, Gpu12TypeOK, gpu11Vars, gpu12Vars
<1>4. Pipeline' /\ SourceStable' /\ TransportHeld' /\ DeliveredIntact'
  BY <1>1
  DEF Pipeline, SourceStable, TransportHeld, DeliveredIntact, MayBeWritten,
      gpu11Vars, gpu12Vars
<1>5. SinkPosition'
  BY <1>1 DEF SinkPosition, gpu11Vars, gpu12Vars
<1>6. ClientPosition' /\ NoUnsupervisedSink'
  BY <1>1 DEF ClientPosition, NoUnsupervisedSink, gpu11Vars, gpu12Vars
<1>7. PassIsEarned' /\ CancelledIsRequested'
  BY <1>1 DEF PassIsEarned, CancelledIsRequested, ClientPosition, gpu12Vars
<1>8. QED
  BY <1>2, <1>3, <1>4, <1>5, <1>6, <1>7
-----------------------------------------------------------------------------
(* The two GPU timelines.                                                  *)

\* A D3D11 copy overwrites a slot whose previous frame the sink has consumed.
LEMMA CopyExecutesInv ==
  ASSUME RingInv, CopyExecutes
  PROVE  RingInv'
<1> USE ProtocolAssumption DEF RingInv, TypeOK
<1>1. /\ copied \in Nat /\ copied < issued /\ copied = ready
      /\ copied' = copied + 1 /\ ready' = ready
      /\ transport' = [transport EXCEPT ![SlotOf(copied)] = source[SlotOf(copied)]]
      /\ UNCHANGED <<removed11, source, clientVars, sinkVars, gpu12Vars>>
  BY DEF CopyExecutes, Gpu11TypeOK
<1>2. SlotOf(copied) \in Slot
  BY <1>1, SlotInRange
<1>3. source[SlotOf(copied)] = copied
  BY <1>1 DEF SourceStable, MayBeWritten, ClientTypeOK
<1>4. Gpu11TypeOK'
  <2>1. /\ source \in [Slot -> Frame \cup {NoFrame}]
        /\ transport \in [Slot -> Frame \cup {NoFrame}]
    BY DEF Gpu11TypeOK
  <2>2. source[SlotOf(copied)] \in Frame \cup {NoFrame}
    BY <1>2, <2>1
  <2>3. transport' \in [Slot -> Frame \cup {NoFrame}]
    BY <1>1, <2>1, <2>2
  <2>4. copied' \in 0 .. Frames
    BY <1>1 DEF ClientTypeOK
  <2>5. QED
    BY <1>1, <2>1, <2>3, <2>4 DEF Gpu11TypeOK
<1>5. ClientTypeOK' /\ SinkTypeOK' /\ Gpu12TypeOK'
  BY <1>1 DEF ClientTypeOK, SinkTypeOK, Gpu12TypeOK, clientVars, sinkVars, gpu12Vars
<1>6. Pipeline'
  BY <1>1 DEF Pipeline, ClientTypeOK, clientVars, sinkVars, gpu12Vars
<1>7. SinkPosition' /\ ClientPosition'
  BY <1>1 DEF SinkPosition, ClientPosition, clientVars, sinkVars, gpu12Vars
<1>8. SourceStable' /\ DeliveredIntact'
  BY <1>1
  DEF SourceStable, DeliveredIntact, MayBeWritten, ClientTypeOK, clientVars,
      gpu12Vars
<1>9. TransportHeld'
  <2>1. SUFFICES ASSUME NEW f \in consumed .. copied
                 PROVE  transport'[SlotOf(f)] = f
    BY <1>1 DEF TransportHeld, gpu12Vars
  <2>2. CASE f = copied
    BY <1>1, <1>2, <1>3, <2>2 DEF Gpu11TypeOK
  <2>3. CASE f # copied
    <3>1. f \in Nat /\ f < copied /\ copied < f + RingDepth
      BY <1>1, <2>3 DEF Pipeline, Gpu12TypeOK, ClientTypeOK
    <3>2. SlotOf(f) # SlotOf(copied) /\ SlotOf(f) \in Slot
      BY <1>1, <3>1, SlotsDiffer, SlotInRange
    <3>3. transport[SlotOf(f)] = f
      BY <1>1, <3>1 DEF TransportHeld
    <3>4. QED
      BY <1>1, <3>2, <3>3 DEF Gpu11TypeOK
  <2>4. QED
    BY <2>2, <2>3
<1>10. PassIsEarned' /\ CancelledIsRequested' /\ NoUnsupervisedSink'
  BY <1>1
  DEF PassIsEarned, CancelledIsRequested, NoUnsupervisedSink, clientVars,
      sinkVars, gpu12Vars
<1>11. QED
  BY <1>4, <1>5, <1>6, <1>7, <1>8, <1>9, <1>10

\* The ready fence follows the copies the D3D11 queue has executed.
LEMMA ReadySignalsInv ==
  ASSUME RingInv, ReadySignals
  PROVE  RingInv'
<1> USE ProtocolAssumption DEF RingInv, TypeOK
<1>1. /\ ready < copied /\ ready < submitted /\ ready' = ready + 1
      /\ UNCHANGED <<removed11, copied, source, transport>>
      /\ UNCHANGED <<clientVars, sinkVars, gpu12Vars>>
  BY DEF ReadySignals, ReadyValue
<1>2. TypeOK'
  <2>1. Gpu11TypeOK'
    BY <1>1 DEF Gpu11TypeOK
  <2>2. ClientTypeOK' /\ SinkTypeOK' /\ Gpu12TypeOK'
    BY <1>1
    DEF ClientTypeOK, SinkTypeOK, Gpu12TypeOK, clientVars, sinkVars, gpu12Vars
  <2>3. QED
    BY <2>1, <2>2
<1>3. Pipeline'
  BY <1>1
  DEF Pipeline, Gpu11TypeOK, ClientTypeOK, SinkTypeOK, clientVars, sinkVars, gpu12Vars
<1>4. SinkPosition' /\ ClientPosition'
  BY <1>1
  DEF SinkPosition, ClientPosition, Gpu11TypeOK, SinkTypeOK, clientVars,
      sinkVars, gpu12Vars
<1>5. SourceStable' /\ TransportHeld' /\ DeliveredIntact'
  BY <1>1
  DEF SourceStable, TransportHeld, DeliveredIntact, MayBeWritten, clientVars,
      gpu12Vars
<1>6. PassIsEarned' /\ CancelledIsRequested' /\ NoUnsupervisedSink'
  BY <1>1
  DEF PassIsEarned, CancelledIsRequested, NoUnsupervisedSink, clientVars,
      sinkVars, gpu12Vars
<1>7. QED
  BY <1>2, <1>3, <1>4, <1>5, <1>6

\* The sink's copy of a frame reads a slot that still holds that frame.
LEMMA ListExecutesInv ==
  ASSUME RingInv, ListExecutes
  PROVE  RingInv'
<1> USE ProtocolAssumption DEF RingInv, TypeOK
<1>1. /\ consumed \in Nat /\ consumed < queued /\ consumed = done
      /\ consumed' = consumed + 1
      /\ delivered' = [delivered EXCEPT ![consumed] = transport[SlotOf(consumed)]]
      /\ UNCHANGED <<removed12, done, clientVars, gpu11Vars, sinkVars>>
  BY DEF ListExecutes, Gpu12TypeOK
<1>2. consumed \in Frame
  BY <1>1 DEF Frame, SinkTypeOK
<1>3. transport[SlotOf(consumed)] = consumed
  BY <1>1 DEF TransportHeld, Pipeline, SinkTypeOK, Gpu11TypeOK
<1>4. Gpu12TypeOK'
  <2>1. delivered \in [Frame -> Frame \cup {NoFrame}]
    BY DEF Gpu12TypeOK
  <2>2. delivered' \in [Frame -> Frame \cup {NoFrame}]
    BY <1>1, <1>2, <1>3, <2>1
  <2>3. consumed' \in 0 .. Frames
    BY <1>1 DEF SinkTypeOK
  <2>4. QED
    BY <1>1, <2>2, <2>3 DEF Gpu12TypeOK
<1>5. ClientTypeOK' /\ Gpu11TypeOK' /\ SinkTypeOK'
  BY <1>1 DEF ClientTypeOK, Gpu11TypeOK, SinkTypeOK, clientVars, gpu11Vars, sinkVars
<1>6. Pipeline'
  BY <1>1 DEF Pipeline, SinkTypeOK, clientVars, gpu11Vars, sinkVars
<1>7. SinkPosition' /\ ClientPosition'
  BY <1>1 DEF SinkPosition, ClientPosition, clientVars, gpu11Vars, sinkVars
<1>8. SourceStable' /\ TransportHeld'
  BY <1>1
  DEF SourceStable, TransportHeld, MayBeWritten, Gpu11TypeOK, clientVars, gpu11Vars
<1>9. DeliveredIntact'
  <2>1. SUFFICES ASSUME NEW f \in 0 .. consumed
                 PROVE  delivered'[f] = f
    BY <1>1 DEF DeliveredIntact
  <2>2. CASE f = consumed
    BY <1>1, <1>2, <1>3, <2>2 DEF Gpu12TypeOK
  <2>3. CASE f # consumed
    BY <1>1, <2>3 DEF DeliveredIntact, Gpu12TypeOK
  <2>4. QED
    BY <2>2, <2>3
<1>10. verdict # "pass"
  BY <1>1 DEF PassIsEarned, SinkTypeOK
<1>11. PassIsEarned' /\ CancelledIsRequested' /\ NoUnsupervisedSink'
  BY <1>1, <1>10
  DEF PassIsEarned, CancelledIsRequested, NoUnsupervisedSink, clientVars, sinkVars
<1>12. QED
  BY <1>4, <1>5, <1>6, <1>7, <1>8, <1>9, <1>11

\* The done fence follows the lists the D3D12 queue has executed.
LEMMA DoneSignalsInv ==
  ASSUME RingInv, DoneSignals
  PROVE  RingInv'
<1> USE ProtocolAssumption DEF RingInv, TypeOK
<1>1. /\ done < consumed /\ done < doneQueued /\ done' = done + 1
      /\ UNCHANGED <<removed12, consumed, delivered>>
      /\ UNCHANGED <<clientVars, gpu11Vars, sinkVars>>
  BY DEF DoneSignals, DoneValue
<1>2. TypeOK'
  <2>1. Gpu12TypeOK'
    BY <1>1 DEF Gpu12TypeOK
  <2>2. ClientTypeOK' /\ SinkTypeOK' /\ Gpu11TypeOK'
    BY <1>1
    DEF ClientTypeOK, SinkTypeOK, Gpu11TypeOK, clientVars, sinkVars, gpu11Vars
  <2>3. QED
    BY <2>1, <2>2
<1>3. Pipeline'
  BY <1>1
  DEF Pipeline, Gpu12TypeOK, ClientTypeOK, SinkTypeOK, clientVars, sinkVars, gpu11Vars
<1>4. done < Frames
  BY <1>1 DEF Gpu12TypeOK
<1>5. SinkPosition'
  BY <1>1, <1>4 DEF SinkPosition, sinkVars, gpu11Vars
<1>6. ClientPosition'
  BY <1>1
  DEF ClientPosition, Gpu12TypeOK, ClientTypeOK, clientVars, sinkVars, gpu11Vars
<1>7. SourceStable' /\ TransportHeld' /\ DeliveredIntact'
  BY <1>1
  DEF SourceStable, TransportHeld, DeliveredIntact, MayBeWritten, clientVars,
      gpu11Vars
<1>8. PassIsEarned' /\ CancelledIsRequested' /\ NoUnsupervisedSink'
  BY <1>1, <1>4
  DEF PassIsEarned, CancelledIsRequested, NoUnsupervisedSink, clientVars, sinkVars
<1>9. QED
  BY <1>2, <1>3, <1>5, <1>6, <1>7, <1>8

\* The removal of either device changes no counter and no surface.
LEMMA RemovalInv ==
  ASSUME RingInv, RemoveDevice11 \/ RemoveDevice12
  PROVE  RingInv'
<1> USE DEF RingInv, TypeOK
<1>1. /\ UNCHANGED <<clientVars, sinkVars, copied, ready, source, transport>>
      /\ UNCHANGED <<consumed, done, delivered>>
      /\ removed11' = TRUE \/ removed11' = removed11
      /\ removed12' = TRUE \/ removed12' = removed12
  BY DEF RemoveDevice11, RemoveDevice12, gpu11Vars, gpu12Vars
<1>2. removed11' \in BOOLEAN /\ removed12' \in BOOLEAN
  BY <1>1 DEF Gpu11TypeOK, Gpu12TypeOK
<1>3. TypeOK'
  <2>1. Gpu11TypeOK' /\ Gpu12TypeOK'
    BY <1>1, <1>2 DEF Gpu11TypeOK, Gpu12TypeOK
  <2>2. ClientTypeOK' /\ SinkTypeOK'
    BY <1>1 DEF ClientTypeOK, SinkTypeOK, clientVars, sinkVars
  <2>3. QED
    BY <2>1, <2>2
<1>4. Pipeline' /\ SinkPosition' /\ ClientPosition'
  BY <1>1 DEF Pipeline, SinkPosition, ClientPosition, clientVars, sinkVars
<1>5. SourceStable' /\ TransportHeld' /\ DeliveredIntact'
  BY <1>1 DEF SourceStable, TransportHeld, DeliveredIntact, MayBeWritten, clientVars
<1>6. PassIsEarned' /\ CancelledIsRequested' /\ NoUnsupervisedSink'
  BY <1>1
  DEF PassIsEarned, CancelledIsRequested, NoUnsupervisedSink, clientVars, sinkVars
<1>7. QED
  BY <1>3, <1>4, <1>5, <1>6
-----------------------------------------------------------------------------
(* Every step, and the theorems.                                           *)

\* Every step of the system preserves the inductive invariant.
LEMMA RingInvStep == RingInv /\ [Next]_vars => RingInv'
<1> SUFFICES ASSUME RingInv, [Next]_vars
             PROVE  RingInv'
  OBVIOUS
<1>1. CASE ClientCall
  BY <1>1, QueryInv, PrepareInv, AbandonInv, RefusedInv, SubmitInv, PollInv,
     ShutdownCallInv
  DEF ClientCall
<1>2. CASE Machine
  <2>1. CASE ShutdownProceeds
    BY <2>1, ShutdownFinishInv, ShutdownRecheckInv, ShutdownTerminateInv,
       ShutdownReapInv
    DEF ShutdownProceeds
  <2>2. CASE Gpu11Step
    BY <2>2, CopyExecutesInv, ReadySignalsInv DEF Gpu11Step
  <2>3. CASE SinkStep
    BY <2>3, SinkStepInv
  <2>4. CASE Gpu12Step
    BY <2>4, ListExecutesInv, DoneSignalsInv DEF Gpu12Step
  <2>5. QED
    BY <1>2, <2>1, <2>2, <2>3, <2>4 DEF Machine
<1>3. CASE Environment
  BY <1>3, ParentExitsInv, SinkCrashesInv, RemovalInv DEF Environment
<1>4. CASE UNCHANGED vars
  <2> USE <1>4 DEF RingInv, TypeOK, vars, clientVars, gpu11Vars, sinkVars, gpu12Vars
  <2>1. TypeOK'
    BY DEF ClientTypeOK, Gpu11TypeOK, SinkTypeOK, Gpu12TypeOK
  <2>2. Pipeline' /\ SinkPosition' /\ ClientPosition'
    BY DEF Pipeline, SinkPosition, ClientPosition
  <2>3. SourceStable' /\ TransportHeld' /\ DeliveredIntact'
    BY DEF SourceStable, TransportHeld, DeliveredIntact, MayBeWritten
  <2>4. PassIsEarned' /\ CancelledIsRequested' /\ NoUnsupervisedSink'
    BY DEF PassIsEarned, CancelledIsRequested, NoUnsupervisedSink
  <2>5. QED
    BY <2>1, <2>2, <2>3, <2>4
<1>5. QED
  BY <1>1, <1>2, <1>3, <1>4 DEF Next

\* The inductive invariant holds in every session.
THEOREM RingInvariant == Spec => []RingInv
<1>1. Init => RingInv
  BY RingInvInit
<1>2. RingInv /\ [Next]_vars => RingInv'
  BY RingInvStep
<1>3. QED
  BY <1>1, <1>2, PTL DEF Spec

\* Every variable of the session keeps its type.
THEOREM TypeCorrect == Spec => []TypeOK
<1>1. RingInv => TypeOK
  BY DEF RingInv
<1>2. QED
  BY <1>1, RingInvariant, PTL

\* What the D3D11 timeline has still to write is less than a ring ahead of what
\* the D3D12 timeline has still to read.
LEMMA RingSeparates == RingInv => SlotExclusive
<1> SUFFICES ASSUME RingInv, NEW w \in MayBeWritten, NEW r \in MayBeRead
             PROVE  SlotOf(w) # SlotOf(r)
  BY DEF SlotExclusive
<1>1. r \in Nat /\ w \in Nat /\ r < w /\ w < r + RingDepth
  BY ProtocolAssumption
  DEF RingInv, TypeOK, ClientTypeOK, Gpu11TypeOK, SinkTypeOK, Gpu12TypeOK,
      Pipeline, MayBeWritten, MayBeRead
<1>2. QED
  BY <1>1, SlotsDiffer

\* The D3D11 copy into a shared slot and the D3D12 read of one never meet: the
\* reuse rule of protocol.h is enough for any ring depth, any number of frames
\* and every failure of the machine.
THEOREM SlotsAreExclusive == Spec => []SlotExclusive
  BY RingSeparates, RingInvariant, PTL

\* The producer's source texture survives until its copy has been executed,
\* although nothing waits for that copy.
THEOREM SourcesAreStable == Spec => []SourceStable
<1>1. RingInv => SourceStable
  BY DEF RingInv
<1>2. QED
  BY <1>1, RingInvariant, PTL

\* What the sink copies for a frame is what was rendered for it.
THEOREM FramesArriveIntact == Spec => []DeliveredIntact
<1>1. RingInv => DeliveredIntact
  BY DEF RingInv
<1>2. QED
  BY <1>1, RingInvariant, PTL

\* The verdict "pass" means the whole session arrived, whatever failed.
THEOREM PassIsSound == Spec => []PassIsEarned
<1>1. RingInv => PassIsEarned
  BY DEF RingInv
<1>2. QED
  BY <1>1, RingInvariant, PTL

\* The verdict "cancelled" means a cancellation that ended the child.
THEOREM CancelledIsSound == Spec => []CancelledIsRequested
<1>1. RingInv => CancelledIsRequested
  BY DEF RingInv
<1>2. QED
  BY <1>1, RingInvariant, PTL

\* A released client leaves no running sink behind.
THEOREM ReleaseStopsSink == Spec => []NoUnsupervisedSink
<1>1. RingInv => NoUnsupervisedSink
  BY DEF RingInv
<1>2. QED
  BY <1>1, RingInvariant, PTL
-----------------------------------------------------------------------------
(* Judging.                                                                *)

\* The verdict is reached once, by FinishIfExited, and no other step that
\* judges changes anything outside the client.
LEMMA VerdictSteps ==
  ASSUME RingInv, [Next]_vars, verdict' # verdict
  PROVE  /\ verdict = "none"
         /\ \E completedDone \in DoneSeenByClient : FinishIfExited(completedDone)
         /\ UNCHANGED <<submitted, sinkVars, gpu11Vars, gpu12Vars>>
<1>1. CASE ClientCall
  <2>1. CASE \E status \in SubmitStatus :
               QuerySubmitStatus(status) \/ TrySubmitRefused(status)
    BY <2>1 DEF QuerySubmitStatus, TrySubmitRefused, FinishIfExited
  <2>2. CASE Poll
    BY <2>2 DEF Poll, FinishIfExited
  <2>3. QED
    BY <1>1, <2>1, <2>2
    DEF ClientCall, PrepareSource, AbandonSource, TrySubmitSucceeds,
        TrySubmitFails, TrySubmitAdmitted, Shutdown, Cancel
<1>2. CASE ShutdownProceeds
  BY <1>2
  DEF ShutdownProceeds, ShutdownFinish, ShutdownRecheck, ShutdownTerminate,
      ShutdownReap, ShutdownStep, FinishIfExited
<1>3. CASE Gpu11Step
  BY <1>3 DEF Gpu11Step, CopyExecutes, ReadySignals, clientVars
<1>4. CASE SinkStep
  BY <1>4
  DEF SinkStep, SinkProceeds, SinkSetup, SinkChecksParent, SinkFrameReady,
      SinkArmsWait, SinkLosesParent, SinkWaitFails, SinkRecords, SinkSignals,
      SinkFinishes, SinkLeaves, SinkReturns, SinkMoves, clientVars
<1>5. CASE Gpu12Step
  BY <1>5 DEF Gpu12Step, ListExecutes, DoneSignals, clientVars
<1>6. CASE Environment
  BY <1>6
  DEF Environment, ParentExits, SinkCrashes, RemoveDevice11, RemoveDevice12,
      clientVars
<1>7. CASE UNCHANGED vars
  BY <1>7 DEF vars, clientVars
<1>8. QED
  BY <1>1, <1>2, <1>3, <1>4, <1>5, <1>6, <1>7 DEF Next, Machine

\* The outcome of a sink that has been judged does not change any more.
LEMMA OutcomeSteps ==
  ASSUME RingInv, [Next]_vars, outcome' # outcome
  PROVE  verdict = "none" /\ verdict' = "none"
<1>1. sinkPc # "exited"
  <2>1. CASE SinkStep
    BY <2>1
    DEF SinkStep, SinkProceeds, SinkSetup, SinkChecksParent, SinkFrameReady,
        SinkArmsWait, SinkLosesParent, SinkWaitFails, SinkRecords, SinkSignals,
        SinkFinishes, SinkLeaves, SinkReturns, SinkMoves, SinkStays
  <2>2. CASE ClientCall
    BY <2>2
    DEF ClientCall, QuerySubmitStatus, PrepareSource, AbandonSource,
        TrySubmitRefused, TrySubmitSucceeds, TrySubmitFails, TrySubmitAdmitted,
        Poll, Shutdown, Cancel, sinkVars
  <2>3. CASE ShutdownProceeds
    BY <2>3
    DEF ShutdownProceeds, ShutdownFinish, ShutdownRecheck, ShutdownTerminate,
        ShutdownReap, sinkVars
  <2>4. CASE Gpu11Step \/ Gpu12Step
    BY <2>4
    DEF Gpu11Step, Gpu12Step, CopyExecutes, ReadySignals, ListExecutes,
        DoneSignals, sinkVars
  <2>5. CASE Environment
    BY <2>5
    DEF Environment, ParentExits, SinkCrashes, RemoveDevice11, RemoveDevice12,
        sinkVars
  <2>6. CASE UNCHANGED vars
    BY <2>6 DEF vars, sinkVars
  <2>7. QED
    BY <2>1, <2>2, <2>3, <2>4, <2>5, <2>6 DEF Next, Machine
<1>2. verdict = "none"
  BY <1>1 DEF RingInv, ClientPosition
<1>3. verdict' = verdict
  BY VerdictSteps DEF sinkVars
<1>4. QED
  BY <1>2, <1>3

\* A removed device stays removed.
LEMMA RemovalIsFinal ==
  ASSUME [Next]_vars
  PROVE  (removed11 => removed11') /\ (removed12 => removed12')
<1>1. CASE ClientCall
  BY <1>1
  DEF ClientCall, QuerySubmitStatus, PrepareSource, AbandonSource,
      TrySubmitRefused, TrySubmitSucceeds, TrySubmitFails, TrySubmitAdmitted,
      Poll, Shutdown, Cancel, gpu11Vars, gpu12Vars
<1>2. CASE ShutdownProceeds
  BY <1>2
  DEF ShutdownProceeds, ShutdownFinish, ShutdownRecheck, ShutdownTerminate,
      ShutdownReap, ShutdownStep, gpu11Vars, gpu12Vars
<1>3. CASE SinkStep
  BY <1>3
  DEF SinkStep, SinkProceeds, SinkSetup, SinkChecksParent, SinkFrameReady,
      SinkArmsWait, SinkLosesParent, SinkWaitFails, SinkRecords, SinkSignals,
      SinkFinishes, SinkLeaves, SinkReturns, SinkMoves, gpu11Vars, gpu12Vars
<1>4. CASE Gpu11Step \/ Gpu12Step
  BY <1>4
  DEF Gpu11Step, Gpu12Step, CopyExecutes, ReadySignals, ListExecutes,
      DoneSignals, gpu11Vars, gpu12Vars
<1>5. CASE Environment
  BY <1>5
  DEF Environment, ParentExits, SinkCrashes, RemoveDevice11, RemoveDevice12,
      gpu11Vars, gpu12Vars
<1>6. CASE UNCHANGED vars
  BY <1>6 DEF vars, gpu11Vars, gpu12Vars
<1>7. QED
  BY <1>1, <1>2, <1>3, <1>4, <1>5, <1>6 DEF Next, Machine

\* No step turns a session that has delivered everything into anything else.
LEMMA SuccessSteps ==
  ASSUME RingInv, SuccessNotDowngraded, [Next]_vars
  PROVE  SuccessNotDowngraded'
<1> SUFFICES ASSUME outcome' = "ok", ~removed11', ~removed12'
             PROVE  verdict' \in {"none", "pass"}
  BY DEF SuccessNotDowngraded
<1>1. ~removed11 /\ ~removed12
  BY RemovalIsFinal
<1>2. CASE verdict' = verdict
  BY <1>1, <1>2, OutcomeSteps DEF SuccessNotDowngraded
<1>3. CASE verdict' # verdict
  <2>1. PICK completedDone \in DoneSeenByClient : FinishIfExited(completedDone)
    BY <1>3, VerdictSteps
  <2>2. outcome = "ok"
    BY <1>3, OutcomeSteps, VerdictSteps DEF sinkVars
  <2>3. done = Frames /\ submitted = Frames
    BY <2>2, ProtocolAssumption
    DEF RingInv, TypeOK, ClientTypeOK, Gpu12TypeOK, Gpu11TypeOK, SinkTypeOK,
        SinkPosition, Pipeline
  <2>4. completedDone = Frames
    BY <1>1, <2>3 DEF DoneSeenByClient
  <2>5. FenceReached(completedDone, Frames)
    BY <2>4, ProtocolAssumption DEF FenceReached
  <2>6. ExitCode[outcome] = 0
    BY <2>2 DEF ExitCode, Outcomes
  <2>7. Completion(completedDone) = "pass"
    BY <2>3, <2>5, <2>6 DEF Completion, ClassifyCompletion
  <2>8. QED
    BY <1>3, <2>1, <2>7 DEF FinishIfExited
<1>4. QED
  BY <1>2, <1>3

\* A child that delivered everything is judged "pass", whatever was requested.
THEOREM SuccessIsKept == Spec => []SuccessNotDowngraded
<1>1. Init => SuccessNotDowngraded
  BY DEF Init, SuccessNotDowngraded
<1>2. RingInv /\ SuccessNotDowngraded /\ [Next]_vars => SuccessNotDowngraded'
  BY SuccessSteps
<1>3. QED
  BY <1>1, <1>2, RingInvariant, PTL DEF Spec
-----------------------------------------------------------------------------
(* The bridge implements the relay.                                        *)

\* A session starts as an empty relay.
LEMMA RelayInit == Init => Relay!Init
  BY DEF Init, Relay!Init, Relay!NothingReceived, NoFrame, Frame

\* A step that judges is Judge, and a step that does not, whose frames stay
\* where they are, is a stutter.
LEMMA RelayJudges ==
  ASSUME RingInv, RingInv', [Next]_vars,
         UNCHANGED <<submitted, consumed, delivered>>
  PROVE  [Relay!Next]_(Relay!relayVars)
<1>1. CASE verdict' = verdict
  BY <1>1 DEF Relay!relayVars
<1>2. CASE verdict' # verdict
  <2>1. verdict = "none"
    BY <1>2, VerdictSteps
  <2>2. verdict' \in {"pass", "cancelled", "fail"}
    BY <1>2, <2>1 DEF RingInv, TypeOK, ClientTypeOK, Verdicts
  <2>3. verdict' = "pass" => consumed = Frames
    BY ProtocolAssumption
    DEF RingInv, PassIsEarned, Pipeline, TypeOK, Gpu12TypeOK
  <2>4. QED
    BY <2>1, <2>2, <2>3 DEF Relay!Next, Relay!Judge
<1>3. QED
  BY <1>1, <1>2

\* Every step of the ring is a step of the relay or leaves it as it is.
LEMMA RelayStep ==
  ASSUME RingInv, RingInv', [Next]_vars
  PROVE  [Relay!Next]_(Relay!relayVars)
<1>1. CASE TrySubmitSucceeds
  <2>1. PICK completedDone \in DoneSeenByClient :
          Availability(completedDone) = "submitted"
    BY <1>1 DEF TrySubmitSucceeds, TrySubmitAdmitted
  <2>2. verdict = "none" /\ submitted < Frames /\ submitted < done + RingDepth
    BY <1>1, <2>1, AdmissionMeansRoom
    DEF TrySubmitSucceeds, TrySubmitAdmitted
  <2>3. submitted - consumed < RingDepth
    BY <2>2, ProtocolAssumption
    DEF RingInv, Pipeline, TypeOK, ClientTypeOK, Gpu12TypeOK
  <2>4. Relay!Send
    BY <1>1, <2>2, <2>3
    DEF Relay!Send, TrySubmitSucceeds, TrySubmitAdmitted, gpu12Vars
  <2>5. QED
    BY <2>4 DEF Relay!Next
<1>2. CASE ListExecutes
  <2>1. consumed < submitted
    BY <1>2, ProtocolAssumption
    DEF ListExecutes, RingInv, Pipeline, TypeOK, ClientTypeOK, Gpu11TypeOK,
        SinkTypeOK, Gpu12TypeOK
  <2>2. transport[SlotOf(consumed)] = consumed
    BY <1>2
    DEF ListExecutes, RingInv, TransportHeld, Pipeline, TypeOK, Gpu11TypeOK,
        SinkTypeOK, Gpu12TypeOK
  <2>3. Relay!Receive
    BY <1>2, <2>1, <2>2 DEF Relay!Receive, ListExecutes, clientVars
  <2>4. QED
    BY <2>3 DEF Relay!Next
<1>3. CASE UNCHANGED <<submitted, consumed, delivered>>
  BY <1>3, RelayJudges
<1>4. TrySubmitSucceeds \/ ListExecutes \/ UNCHANGED <<submitted, consumed, delivered>>
  <2>1. CASE ClientCall
    BY <2>1
    DEF ClientCall, QuerySubmitStatus, PrepareSource, AbandonSource,
        TrySubmitRefused, TrySubmitFails, TrySubmitAdmitted, Poll, Shutdown,
        Cancel, gpu12Vars
  <2>2. CASE ShutdownProceeds
    BY <2>2
    DEF ShutdownProceeds, ShutdownFinish, ShutdownRecheck, ShutdownTerminate,
        ShutdownReap, ShutdownStep, gpu12Vars
  <2>3. CASE SinkStep
    BY <2>3
    DEF SinkStep, SinkProceeds, SinkSetup, SinkChecksParent, SinkFrameReady,
        SinkArmsWait, SinkLosesParent, SinkWaitFails, SinkRecords, SinkSignals,
        SinkFinishes, SinkLeaves, SinkReturns, SinkMoves, clientVars, gpu12Vars
  <2>4. CASE Gpu11Step \/ Gpu12Step
    BY <2>4
    DEF Gpu11Step, Gpu12Step, CopyExecutes, ReadySignals, DoneSignals,
        clientVars, gpu12Vars
  <2>5. CASE Environment
    BY <2>5
    DEF Environment, ParentExits, SinkCrashes, RemoveDevice11, RemoveDevice12,
        clientVars, gpu12Vars
  <2>6. CASE UNCHANGED vars
    BY <2>6 DEF vars, clientVars, gpu12Vars
  <2>7. QED
    BY <2>1, <2>2, <2>3, <2>4, <2>5, <2>6 DEF Next, Machine
<1>5. QED
  BY <1>1, <1>2, <1>3, <1>4

\* Frames go in one by one, at most a ring of them is inside, and the sink
\* receives each exactly once, in order and unaltered.
THEOREM BridgeImplementsRelay == Spec => ImplementsRelay
<1>1. Init => Relay!Init
  BY RelayInit
<1>2. RingInv /\ RingInv' /\ [Next]_vars => [Relay!Next]_(Relay!relayVars)
  BY RelayStep
<1>3. QED
  BY <1>1, <1>2, RingInvariant, PTL DEF Spec, ImplementsRelay, Relay!Spec
-----------------------------------------------------------------------------
(* The properties the runs check as one.                                   *)

\* What a frame is copied from stays what was rendered for it, in the source
\* texture and in the shared slot.
THEOREM FramesAreIntact == Spec => []FramesStayIntact
<1>1. SourceStable /\ DeliveredIntact => FramesStayIntact
  BY DEF FramesStayIntact
<1>2. QED
  BY <1>1, SourcesAreStable, FramesArriveIntact, PTL

\* The verdict of the client is what became of the session.
THEOREM VerdictsAreTrue == Spec => []VerdictIsTrue
<1>1. PassIsEarned /\ SuccessNotDowngraded /\ CancelledIsRequested => VerdictIsTrue
  BY DEF VerdictIsTrue
<1>2. QED
  BY <1>1, PassIsSound, SuccessIsKept, CancelledIsSound, PTL

----------------------------------------------------------------------------
(* The producer is a driver of the client like any other: everything       *)
(* proved of BridgeRing holds of it, and an exit code of 0 is earned, for  *)
(* every number of frames, ring depth, stall and set of faults.            *)


\* A step of the producer's process is a step of the session, the end of the
\* process after wmain included.
LEMMA ProbeStepsAreRingSteps ==
  ASSUME [ProbeNext]_probeVars
  PROVE  [Next]_vars \/ ParentExits
<1>1. CASE (Machine \/ Environment) /\ UNCHANGED <<pc, exitCode, patient>>
  BY <1>1 DEF Next
<1>2. CASE ProducerStep
  <2>1. CASE AsksAvailability
    BY <2>1 DEF AsksAvailability, Next, ClientCall
  <2>2. CASE SubmissionTimesOut
    BY <2>2 DEF SubmissionTimesOut, Next, ClientCall, SubmitStatus
  <2>3. CASE FillsSource
    BY <2>3 DEF FillsSource, Next, ClientCall
  <2>4. CASE SubmitsFrame
    BY <2>4 DEF SubmitsFrame, Next, ClientCall
  <2>5. CASE CancelsClient
    BY <2>5 DEF CancelsClient, Next, ClientCall
  <2>6. CASE PollsClient \/ PollTimesOut
    BY <2>6 DEF PollsClient, PollTimesOut, Next, ClientCall
  <2>7. CASE Reports
    BY <2>7 DEF Reports
  <2>8. CASE DestroysClient
    BY <2>8 DEF DestroysClient, Next, ClientCall
  <2>9. CASE ProducerGone
    BY <2>9 DEF ProducerGone
  <2> QED
    BY <1>2, <2>1, <2>2, <2>3, <2>4, <2>5, <2>6, <2>7, <2>8, <2>9
    DEF ProducerStep
<1>3. CASE UNCHANGED probeVars
  BY <1>3 DEF probeVars
<1> QED
  BY <1>1, <1>2, <1>3 DEF ProbeNext

\* Backpressure that was observed stays observed.
LEMMA PressureIsKept ==
  ASSUME [Next]_vars \/ ParentExits, pressured
  PROVE  pressured'
<1>1. CASE ClientCall
  BY <1>1
  DEF ClientCall, QuerySubmitStatus, PrepareSource, AbandonSource,
      TrySubmitRefused, TrySubmitSucceeds, TrySubmitFails, TrySubmitAdmitted,
      Poll, Shutdown, Cancel
<1>2. CASE ShutdownProceeds
  BY <1>2
  DEF ShutdownProceeds, ShutdownFinish, ShutdownRecheck, ShutdownTerminate,
      ShutdownReap, ShutdownStep
<1>3. CASE Gpu11Step
  BY <1>3 DEF Gpu11Step, CopyExecutes, ReadySignals, clientVars
<1>4. CASE SinkStep
  BY <1>4
  DEF SinkStep, SinkProceeds, SinkSetup, SinkChecksParent, SinkFrameReady,
      SinkArmsWait, SinkLosesParent, SinkWaitFails, SinkRecords, SinkSignals,
      SinkFinishes, SinkLeaves, SinkReturns, SinkMoves, clientVars
<1>5. CASE Gpu12Step
  BY <1>5 DEF Gpu12Step, ListExecutes, DoneSignals, clientVars
<1>6. CASE Environment \/ ParentExits
  BY <1>6
  DEF Environment, ParentExits, SinkCrashes, RemoveDevice11, RemoveDevice12,
      clientVars
<1>7. CASE UNCHANGED vars
  BY <1>7 DEF vars, clientVars
<1> QED
  BY <1>1, <1>2, <1>3, <1>4, <1>5, <1>6, <1>7 DEF Next, Machine

\* An exit code of 0 is set by the report of a passed session, and nothing that
\* happens until the process is gone takes the pass back.
ProbeInv ==
  /\ RingInv
  /\ exitCode = 0 =>
       /\ verdict = "pass"
       /\ PressureRequirementSatisfied(InitialStall, pressured)

LEMMA ProbeInvInit == ProbeInit => ProbeInv
  BY RingInvInit DEF ProbeInit, ProbeInv, StillRunning

LEMMA ProbeInvStep == ProbeInv /\ [ProbeNext]_probeVars => ProbeInv'
<1> SUFFICES ASSUME ProbeInv, [ProbeNext]_probeVars
             PROVE  ProbeInv'
  OBVIOUS
<1>1. [Next]_vars \/ ParentExits
  BY ProbeStepsAreRingSteps
<1>2. RingInv'
  BY <1>1, RingInvStep, ParentExitsInv DEF ProbeInv
<1>3. verdict = "pass" => verdict' = "pass"
  BY <1>1, VerdictSteps DEF ProbeInv, ParentExits
<1>4. PressureRequirementSatisfied(InitialStall, pressured)
        => PressureRequirementSatisfied(InitialStall, pressured')
  BY <1>1, PressureIsKept DEF PressureRequirementSatisfied
<1>5. exitCode' = 0 => \/ exitCode = 0
                       \/ Reports /\ verdict = "pass"
                          /\ PressureRequirementSatisfied(InitialStall, pressured)
  BY DEF ProbeNext, ProducerStep, AsksAvailability, SubmissionTimesOut,
         FillsSource, SubmitsFrame, CancelsClient, PollsClient, PollTimesOut,
         Reports, DestroysClient, ProducerGone, Goto, Returns, probeVars
<1> QED
  BY <1>2, <1>3, <1>4, <1>5 DEF ProbeInv, PressureRequirementSatisfied

\* Exit 0 is earned by a whole session, whatever failed on the way.
THEOREM ExitZeroIsSound == ProbeSpec => []ExitZeroIsEarned
<1>1. ProbeInv => ExitZeroIsEarned
  <2> SUFFICES ASSUME ProbeInv, exitCode = 0
               PROVE  /\ submitted = Frames
                      /\ outcome = "ok"
                      /\ \A f \in Frame : delivered[f] = f
                      /\ InitialStall /\ Frames > RingDepth => pressured
    BY DEF ExitZeroIsEarned
  <2>1. outcome = "ok" /\ done = Frames /\ \A f \in Frame : delivered[f] = f
    BY DEF ProbeInv, RingInv, PassIsEarned
  <2>2. submitted = Frames
    BY <2>1, ProtocolAssumption
    DEF ProbeInv, RingInv, Pipeline, TypeOK, ClientTypeOK, Gpu11TypeOK,
        SinkTypeOK, Gpu12TypeOK
  <2>3. InitialStall /\ Frames > RingDepth => pressured
    BY ProtocolAssumption DEF ProbeInv, PressureRequirementSatisfied
  <2> QED
    BY <2>1, <2>2, <2>3
<1> QED
  BY <1>1, ProbeInvInit, ProbeInvStep, PTL DEF ProbeSpec

\* What is proved of any driver of the client holds of the producer: every run
\* of it is a behaviour of BridgeRing in which the parent may exit.
THEOREM ProbeDrivesRing ==
  ASSUME "parent_exit" \in Faults
  PROVE  ProbeSpec => Spec
<1>1. ProbeInit => Init
  BY DEF ProbeInit
<1>2. [ProbeNext]_probeVars => [Next]_vars
  BY ProbeStepsAreRingSteps DEF Next, Environment
<1> QED
  BY <1>1, <1>2, PTL DEF ProbeSpec, Spec
=============================================================================
