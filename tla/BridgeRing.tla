----------------------------- MODULE BridgeRing -----------------------------
(***************************************************************************)
(* One session of the real D3D9 bridge, from the moment Client::Start has  *)
(* returned true: the x86 client (d3d9_real_bridge_probe/client.cpp), the  *)
(* x64 sink process it launched (d3d9_real_bridge_sink/main.cpp), and the  *)
(* two GPU timelines the calls of either only enqueue work on.             *)
(*                                                                         *)
(*   x86 parent  --CopyResource, Signal-->  D3D11 queue --> ready fence    *)
(*   x64 sink    --ExecuteCommandLists, Signal--> D3D12 queue -> done fence*)
(*                                                                         *)
(* Both queues run in order, so a queue is a pair of counters: what was    *)
(* enqueued and what has executed.  The parent is one thread (the caller   *)
(* holds the runtime's mutex); Shutdown, which waits, is several steps.    *)
(* The driver of the client is left free here: it may call any operation   *)
(* in any order, except that it fills the source of a frame only after     *)
(* QuerySubmitStatus has admitted it, as both drivers do.                  *)
(***************************************************************************)
EXTENDS BridgeProtocol

CONSTANTS
  ValidatePattern,  \* --validate-synthetic-pattern: the sink reads frames back
  Faults            \* which failures of the environment may happen

AllFaults ==
  {"parent_exit",         \* the parent process dies
   "sink_crash",          \* the sink process dies on its own
   "removed11",           \* the parent's D3D11 device is removed
   "removed12",           \* the sink's D3D12 device is removed
   "sink_error",          \* an API call of the sink fails
   "submit_error",        \* the client's Signal fails
   "completion_timeout",  \* the sink's last wait exceeds 10 s
   "slow_kill"}           \* TerminateProcess takes longer than 1 s

ASSUME FaultAssumption == Faults \subseteq AllFaults /\ ValidatePattern \in BOOLEAN

NoFrame == -1

SubmitStatus ==
  {"submitted", "backpressure", "waiting_for_completion", "finished", "failed"}

\* How the sink's main function, or its process, ended.
Outcomes ==
  {"running", "ok", "setup_failed", "parent_exited", "wait_failed",
   "record_failed", "signal_failed", "completion_failed", "validation_failed",
   "killed", "crashed"}

\* The process exit code of each outcome; every failure has a code of its own,
\* none of them 0 or the code TerminateProcess is given.
ExitCode ==
  [o \in Outcomes |-> IF o = "ok" THEN 0
                      ELSE IF o = "killed" THEN CancelledChildExitCode ELSE 1]

VARIABLES
  \* the client in the parent process
  parentAlive,  \* the parent process exists
  phase,        \* "active", the steps of Shutdown, "released"
  turn,         \* the driver: "idle", "admitted", "prepared"
  submitted,    \* Impl::submitted: frames copied and signalled
  issued,       \* CopyResource calls made
  pressured,    \* Impl::backpressure_checks > 0
  cancelRequested,
  verdict,      \* "none" until FinishIfExited has classified the session
  \* the D3D11 timeline and the surfaces it touches
  removed11,
  copied,       \* copies executed
  ready,        \* the ready fence
  source,       \* source[s]: the frame in the driver's source texture s
  transport,    \* transport[s]: the frame in shared slot s
  \* the sink process
  sinkPc,
  outcome,
  queued,       \* command lists executed on the queue (ExecuteCommandLists)
  doneQueued,   \* Signal(done) calls made; the frame the loop is at
  \* the D3D12 timeline
  removed12,
  consumed,     \* command lists the GPU has run
  done,         \* the done fence
  delivered     \* delivered[f]: the content the sink's copy of frame f found

clientVars == <<parentAlive, phase, turn, submitted, issued, pressured,
                cancelRequested, verdict>>
gpu11Vars  == <<removed11, copied, ready, source, transport>>
sinkVars   == <<sinkPc, outcome, queued, doneQueued>>
gpu12Vars  == <<removed12, consumed, done, delivered>>
vars == <<clientVars, gpu11Vars, sinkVars, gpu12Vars>>

ShutdownPhases == {"finish", "recheck", "terminate", "reap"}
Phases == {"active", "released"} \cup ShutdownPhases
SinkPcs ==
  {"setup", "await", "arm", "waiting", "record", "signal", "final", "leaving", "exited"}

ClientTypeOK ==
  /\ parentAlive \in BOOLEAN
  /\ phase \in Phases
  /\ turn \in {"idle", "admitted", "prepared"}
  /\ submitted \in 0 .. Frames
  /\ issued \in 0 .. Frames
  /\ pressured \in BOOLEAN
  /\ cancelRequested \in BOOLEAN
  /\ verdict \in Verdicts \cup {"none"}

Gpu11TypeOK ==
  /\ removed11 \in BOOLEAN
  /\ copied \in 0 .. Frames
  /\ ready \in 0 .. Frames
  /\ source \in [Slot -> Frame \cup {NoFrame}]
  /\ transport \in [Slot -> Frame \cup {NoFrame}]

SinkTypeOK ==
  /\ sinkPc \in SinkPcs
  /\ outcome \in Outcomes
  /\ queued \in 0 .. Frames
  /\ doneQueued \in 0 .. Frames

Gpu12TypeOK ==
  /\ removed12 \in BOOLEAN
  /\ consumed \in 0 .. Frames
  /\ done \in 0 .. Frames
  /\ delivered \in [Frame -> Frame \cup {NoFrame}]

TypeOK == ClientTypeOK /\ Gpu11TypeOK /\ SinkTypeOK /\ Gpu12TypeOK

Init ==
  /\ parentAlive = TRUE
  /\ phase = "active"
  /\ turn = "idle"
  /\ submitted = 0
  /\ issued = 0
  /\ pressured = FALSE
  /\ cancelRequested = FALSE
  /\ verdict = "none"
  /\ removed11 = FALSE
  /\ copied = 0
  /\ ready = 0
  /\ source = [s \in Slot |-> NoFrame]
  /\ transport = [s \in Slot |-> NoFrame]
  /\ sinkPc = "setup"
  /\ outcome = "running"
  /\ queued = 0
  /\ doneQueued = 0
  /\ removed12 = FALSE
  /\ consumed = 0
  /\ done = 0
  /\ delivered = [f \in Frame |-> NoFrame]
-----------------------------------------------------------------------------
(* Fence reads.  A removed device reports the sentinel for every fence; a  *)
(* removal, or the teardown of the process that owns a fence, may show the *)
(* sentinel to the other process too.                                      *)

DoneSeenByClient ==
  IF removed11 THEN {Sentinel}
  ELSE {done} \cup (IF removed12 THEN {Sentinel} ELSE {})

ReadySeenBySink ==
  IF removed12 THEN {Sentinel}
  ELSE {ready} \cup (IF removed11 \/ ~parentAlive THEN {Sentinel} ELSE {})

DoneSeenBySink == IF removed12 THEN Sentinel ELSE done
-----------------------------------------------------------------------------
(* The client.                                                             *)

ClientIdle == parentAlive /\ phase \in {"active", "released"}

\* The verdict FinishIfExited reaches when it reads completedDone.
Completion(completedDone) ==
  ClassifyCompletion(cancelRequested, ExitCode[outcome], submitted,
                     FenceReached(completedDone, Frames))

\* FinishIfExited: judges the session once, if the process handle is still
\* held and the process has exited; otherwise it changes nothing.
FinishIfExited(completedDone) ==
  verdict' = IF verdict = "none" /\ phase # "released" /\ sinkPc = "exited"
             THEN Completion(completedDone)
             ELSE verdict

\* What QuerySubmitStatus answers, in the order of its early returns.
Availability(completedDone) ==
  LET judged == IF verdict = "none" /\ phase # "released" /\ sinkPc = "exited"
                THEN Completion(completedDone)
                ELSE verdict
  IN  IF judged # "none"
      THEN IF judged = "pass" THEN "finished" ELSE "failed"
      ELSE IF phase = "released" THEN "failed"
      ELSE IF submitted >= Frames THEN "waiting_for_completion"
      ELSE IF /\ ReuseDoneValue(submitted) # 0
              /\ ~FenceReached(completedDone, ReuseDoneValue(submitted))
           THEN "backpressure"
           ELSE "submitted"

QuerySubmitStatus(status) ==
  /\ ClientIdle
  /\ \E completedDone \in DoneSeenByClient :
       /\ status = Availability(completedDone)
       /\ FinishIfExited(completedDone)
  /\ turn' = IF status = "submitted" THEN "admitted" ELSE "idle"
  /\ pressured' = (pressured \/ status = "backpressure")
  /\ UNCHANGED <<parentAlive, phase, submitted, issued, cancelRequested>>
  /\ UNCHANGED <<gpu11Vars, sinkVars, gpu12Vars>>

\* (mutant) the driver renders before it asks whether there is room.
PrepareSourceUnasked ==
  /\ ClientIdle
  /\ turn' = "prepared"
  /\ source' = [source EXCEPT ![SlotOf(submitted)] = submitted]
  /\ UNCHANGED <<parentAlive, phase, submitted, issued, pressured,
                 cancelRequested, verdict>>
  /\ UNCHANGED <<removed11, copied, ready, transport, sinkVars, gpu12Vars>>

\* The driver renders the next frame into the source texture of its slot and
\* waits until that is complete (StretchRect and the D3D9 event query).
PrepareSource ==
  /\ ClientIdle
  /\ turn = "admitted"
  /\ turn' = "prepared"
  /\ source' = [source EXCEPT ![SlotOf(submitted)] = submitted]
  /\ UNCHANGED <<parentAlive, phase, submitted, issued, pressured,
                 cancelRequested, verdict>>
  /\ UNCHANGED <<removed11, copied, ready, transport, sinkVars, gpu12Vars>>

\* The copy into the D3D9 relay failed, before or after it was written, or timed
\* out: the frame is skipped.
AbandonSource ==
  /\ ClientIdle
  /\ turn \in {"admitted", "prepared"}
  /\ turn' = "idle"
  /\ UNCHANGED <<parentAlive, phase, submitted, issued, pressured,
                 cancelRequested, verdict>>
  /\ UNCHANGED <<gpu11Vars, sinkVars, gpu12Vars>>

\* TrySubmit asks again and returns any answer but "submitted" unchanged.
TrySubmitRefused(status) ==
  /\ ClientIdle
  /\ turn = "prepared"
  /\ status # "submitted"
  /\ \E completedDone \in DoneSeenByClient :
       /\ status = Availability(completedDone)
       /\ FinishIfExited(completedDone)
  /\ turn' = "idle"
  /\ pressured' = (pressured \/ status = "backpressure")
  /\ UNCHANGED <<parentAlive, phase, submitted, issued, cancelRequested>>
  /\ UNCHANGED <<gpu11Vars, sinkVars, gpu12Vars>>

TrySubmitAdmitted ==
  /\ ClientIdle
  /\ turn = "prepared"
  /\ \E completedDone \in DoneSeenByClient :
       Availability(completedDone) = "submitted"
  /\ turn' = "idle"
  /\ issued' = issued + 1
  /\ UNCHANGED <<parentAlive, pressured, cancelRequested, verdict>>
  /\ UNCHANGED <<gpu11Vars, sinkVars, gpu12Vars>>

\* CopyResource, Signal(ready) and Flush enqueued; the frame is submitted.
TrySubmitSucceeds ==
  /\ TrySubmitAdmitted
  /\ ~removed11
  /\ submitted' = submitted + 1
  /\ UNCHANGED phase

\* Signal failed after the copy was enqueued: TrySubmit shuts the client down.
TrySubmitFails ==
  /\ TrySubmitAdmitted
  /\ removed11 \/ "submit_error" \in Faults
  /\ phase' = "finish"
  /\ UNCHANGED submitted

\* Poll only judges a child that has exited.
Poll ==
  /\ ClientIdle
  /\ \E completedDone \in DoneSeenByClient : FinishIfExited(completedDone)
  /\ UNCHANGED <<parentAlive, phase, turn, submitted, issued, pressured,
                 cancelRequested>>
  /\ UNCHANGED <<gpu11Vars, sinkVars, gpu12Vars>>

\* Shutdown(true), called by the driver, a destructor, or a TrySubmit whose source
\* has the wrong format.
Shutdown ==
  /\ ClientIdle
  /\ phase = "active"
  /\ phase' = "finish"
  /\ turn' = "idle"
  /\ UNCHANGED <<parentAlive, submitted, issued, pressured, cancelRequested,
                 verdict>>
  /\ UNCHANGED <<gpu11Vars, sinkVars, gpu12Vars>>

Cancel ==
  /\ ClientIdle
  /\ cancelRequested' = TRUE
  /\ phase' = IF phase = "active" THEN "finish" ELSE phase
  /\ turn' = "idle"
  /\ UNCHANGED <<parentAlive, submitted, issued, pressured, verdict>>
  /\ UNCHANGED <<gpu11Vars, sinkVars, gpu12Vars>>

ShutdownStep(from, to) ==
  /\ parentAlive
  /\ phase = from
  /\ phase' = to
  /\ UNCHANGED <<parentAlive, turn, submitted, issued, pressured,
                 cancelRequested, gpu11Vars, gpu12Vars>>

\* First FinishIfExited: a session already judged, or a child that has exited,
\* needs no termination.
ShutdownFinish ==
  /\ \E completedDone \in DoneSeenByClient : FinishIfExited(completedDone)
  /\ ShutdownStep("finish", IF verdict' # "none" THEN "released" ELSE "recheck")
  /\ UNCHANGED sinkVars

\* (mutant) the handle is closed without terminating the child.
ShutdownRecheckLeavesChild ==
  /\ ShutdownStep("recheck", "released")
  /\ UNCHANGED <<verdict, sinkVars>>

\* WaitForSingleObject(process, 0): a child that exited since is neither
\* terminated nor judged, its handle is just closed.
ShutdownRecheck ==
  /\ ShutdownStep("recheck", IF sinkPc = "exited" THEN "released" ELSE "terminate")
  /\ UNCHANGED <<verdict, sinkVars>>

\* (mutant) TerminateProcess is forgotten.
ShutdownTerminateNothing ==
  /\ ShutdownStep("terminate", "reap")
  /\ UNCHANGED <<verdict, sinkVars>>

\* TerminateProcess: no effect on a process that is gone, and on one that is
\* exiting it may come too late to replace the exit code.
ShutdownTerminate ==
  /\ ShutdownStep("terminate", "reap")
  /\ IF sinkPc = "exited"
     THEN UNCHANGED <<sinkPc, outcome>>
     ELSE /\ sinkPc' = "leaving"
          /\ \/ outcome' = "killed"
             \/ sinkPc = "leaving" /\ UNCHANGED outcome
  /\ UNCHANGED <<verdict, queued, doneQueued>>

\* The wait of 1000 ms and the second FinishIfExited.
ShutdownReap ==
  /\ sinkPc = "exited" \/ "slow_kill" \in Faults
  /\ \E completedDone \in DoneSeenByClient : FinishIfExited(completedDone)
  /\ ShutdownStep("reap", "released")
  /\ UNCHANGED sinkVars

ShutdownProceeds ==
  ShutdownFinish \/ ShutdownRecheck \/ ShutdownTerminate \/ ShutdownReap

ParentExits ==
  /\ parentAlive
  /\ parentAlive' = FALSE
  /\ UNCHANGED <<phase, turn, submitted, issued, pressured, cancelRequested,
                 verdict, gpu11Vars, sinkVars, gpu12Vars>>
-----------------------------------------------------------------------------
(* The D3D11 timeline: copy f, signal f+1, copy f+1, ...                   *)

CopyExecutes ==
  /\ ~removed11
  /\ copied < issued
  /\ copied = ready
  /\ copied' = copied + 1
  /\ transport' = [transport EXCEPT ![SlotOf(copied)] = source[SlotOf(copied)]]
  /\ UNCHANGED <<removed11, ready, source, clientVars, sinkVars, gpu12Vars>>

ReadySignals ==
  /\ ~removed11
  /\ ready < copied
  /\ ready < submitted
  /\ ready' = ReadyValue(ready)
  /\ UNCHANGED <<removed11, copied, source, transport>>
  /\ UNCHANGED <<clientVars, sinkVars, gpu12Vars>>

Gpu11Step == CopyExecutes \/ ReadySignals

RemoveDevice11 ==
  /\ "removed11" \in Faults
  /\ removed11' = TRUE
  /\ UNCHANGED <<copied, ready, source, transport>>
  /\ UNCHANGED <<clientVars, sinkVars, gpu12Vars>>
-----------------------------------------------------------------------------
(* The sink: run_multiframe after it has published the bootstrap message.  *)

SinkMoves(from, to) ==
  /\ sinkPc = from
  /\ sinkPc' = to
  /\ UNCHANGED <<clientVars, gpu11Vars, gpu12Vars>>

SinkStays == UNCHANGED <<outcome, queued, doneQueued>>

\* return from run_multiframe; the process is gone some time later.
SinkReturns(from, result) ==
  /\ SinkMoves(from, "leaving")
  /\ outcome' = result
  /\ UNCHANGED <<queued, doneQueued>>

SinkCallFails == "sink_error" \in Faults \/ removed12

\* Opens the ready fence by name and creates the queue.
SinkSetup ==
  \/ SinkMoves("setup", "await") /\ SinkStays
  \/ /\ SinkCallFails \/ ~parentAlive
     /\ SinkReturns("setup", "setup_failed")

\* wait_for_producer_ready looks at the parent before it looks at the fence.
SinkChecksParent ==
  \/ parentAlive /\ SinkMoves("await", "arm") /\ SinkStays
  \/ ~parentAlive /\ SinkReturns("await", "parent_exited")

ProducerIsReady ==
  \E completed \in ReadySeenBySink :
    FenceReached(completed, ReadyValue(doneQueued))

ProducerIsNotReady ==
  \E completed \in ReadySeenBySink :
    ~FenceReached(completed, ReadyValue(doneQueued))

\* (mutant) waits for the frame before its own.
SinkFrameReadyTooEarly ==
  /\ sinkPc \in {"arm", "waiting"}
  /\ \E completed \in ReadySeenBySink : FenceReached(completed, doneQueued)
  /\ SinkMoves(sinkPc, "record")
  /\ SinkStays

\* The fence has the value at once, or when the event has fired.
SinkFrameReady ==
  /\ sinkPc \in {"arm", "waiting"}
  /\ ProducerIsReady
  /\ SinkMoves(sinkPc, "record")
  /\ SinkStays

\* It has not: CreateEvent and SetEventOnCompletion, which may fail; only the
\* failure of the second asks for the parent again.
SinkArmsWait ==
  /\ ProducerIsNotReady
  /\ \/ SinkMoves("arm", "waiting") /\ SinkStays
     \/ SinkCallFails /\ SinkReturns("arm", "wait_failed")
     \/ SinkCallFails /\ ~parentAlive /\ SinkReturns("arm", "parent_exited")

\* (mutant) the parent process is not among the handles waited for.
SinkLosesParentUnseen ==
  /\ removed12
  /\ ~parentAlive
  /\ SinkReturns("waiting", "parent_exited")

\* The parent's handle ends the wait, or the event has fired for the sentinel
\* and the parent turns out to be gone.
SinkLosesParent ==
  /\ ~parentAlive
  /\ ProducerIsNotReady
  /\ SinkReturns("waiting", "parent_exited")

\* The event has fired for the sentinel, and the parent is still there.
SinkWaitFails ==
  /\ parentAlive
  /\ Sentinel \in ReadySeenBySink
  /\ SinkReturns("waiting", "wait_failed")

\* Records the command list of the frame and executes it on the queue.
SinkRecords ==
  \/ /\ SinkMoves("record", "signal")
     /\ queued' = queued + 1
     /\ UNCHANGED <<outcome, doneQueued>>
  \/ SinkCallFails /\ SinkReturns("record", "record_failed")

\* queue->Signal(done), then the next frame of the loop or the end of it.
SinkSignals ==
  \/ /\ SinkMoves("signal", IF doneQueued + 1 < Frames THEN "await" ELSE "final")
     /\ doneQueued' = doneQueued + 1
     /\ UNCHANGED <<outcome, queued>>
  \/ SinkCallFails /\ SinkReturns("signal", "signal_failed")

PatternMatches == \A f \in Frame : delivered[f] = f

\* wait_for_fence(final done), the comparison of the readbacks, return.
SinkFinishes ==
  LET reached == FenceReached(DoneSeenBySink, DoneValue(Frames - 1))
  IN  \/ /\ reached
         /\ ValidatePattern => PatternMatches
         /\ SinkReturns("final", "ok")
      \/ /\ reached
         /\ ValidatePattern
         /\ ~PatternMatches \/ SinkCallFails
         /\ SinkReturns("final", "validation_failed")
      \/ /\ ~reached
         /\ SinkCallFails \/ "completion_timeout" \in Faults
         /\ SinkReturns("final", "completion_failed")

SinkLeaves == SinkMoves("leaving", "exited") /\ SinkStays

SinkProceeds ==
  \/ SinkSetup \/ SinkChecksParent \/ SinkFrameReady \/ SinkArmsWait
  \/ SinkLosesParent \/ SinkRecords \/ SinkSignals \/ SinkFinishes
  \/ SinkLeaves

SinkStep == SinkProceeds \/ SinkWaitFails

SinkCrashes ==
  /\ "sink_crash" \in Faults
  /\ sinkPc \notin {"leaving", "exited"}
  /\ sinkPc' = "exited"
  /\ outcome' = "crashed"
  /\ UNCHANGED <<queued, doneQueued, clientVars, gpu11Vars, gpu12Vars>>
-----------------------------------------------------------------------------
(* The D3D12 timeline: list f, signal f+1, list f+1, ...  What was queued  *)
(* when the process ended may or may not still run.                        *)

ListExecutes ==
  /\ ~removed12
  /\ consumed < queued
  /\ consumed = done
  /\ consumed' = consumed + 1
  /\ delivered' = [delivered EXCEPT ![consumed] = transport[SlotOf(consumed)]]
  /\ UNCHANGED <<removed12, done, clientVars, gpu11Vars, sinkVars>>

DoneSignals ==
  /\ ~removed12
  /\ done < consumed
  /\ done < doneQueued
  /\ done' = DoneValue(done)
  /\ UNCHANGED <<removed12, consumed, delivered>>
  /\ UNCHANGED <<clientVars, gpu11Vars, sinkVars>>

Gpu12Step == ListExecutes \/ DoneSignals

RemoveDevice12 ==
  /\ "removed12" \in Faults
  /\ removed12' = TRUE
  /\ UNCHANGED <<consumed, done, delivered>>
  /\ UNCHANGED <<clientVars, gpu11Vars, sinkVars>>
-----------------------------------------------------------------------------
ClientCall ==
  \/ \E status \in SubmitStatus : QuerySubmitStatus(status)
  \/ PrepareSource
  \/ AbandonSource
  \/ \E status \in SubmitStatus : TrySubmitRefused(status)
  \/ TrySubmitSucceeds
  \/ TrySubmitFails
  \/ Poll
  \/ Shutdown
  \/ Cancel

Environment ==
  \/ "parent_exit" \in Faults /\ ParentExits
  \/ SinkCrashes
  \/ RemoveDevice11
  \/ RemoveDevice12

\* Work the machine does on its own once it has been asked to.
Machine == ShutdownProceeds \/ Gpu11Step \/ SinkStep \/ Gpu12Step

Next == ClientCall \/ Machine \/ Environment

Spec == Init /\ [][Next]_vars

(***************************************************************************)
(* Threads that can run do, and a GPU either makes progress or its driver  *)
(* removes the device (timeout detection and recovery).  A removal is seen *)
(* for certain only by the process whose device it is: the sink need not   *)
(* ever see the sentinel of the parent's device.  Nothing is assumed of    *)
(* the driver of the client, nor of GPU work whose process has exited.     *)
(***************************************************************************)
Fairness ==
  /\ WF_vars(ShutdownProceeds)
  /\ WF_vars(parentAlive /\ Gpu11Step)
  /\ WF_vars(SinkProceeds)
  /\ WF_vars(removed12 /\ SinkWaitFails)
  /\ WF_vars(sinkPc # "exited" /\ Gpu12Step)

FairSpec == Spec /\ Fairness
-----------------------------------------------------------------------------
(* Safety.                                                                 *)

\* A D3D11 copy may be writing the slot of any frame issued and not copied;
\* a D3D12 list may be reading the slot of any frame queued and not consumed.
MayBeWritten == copied .. issued - 1
MayBeRead    == consumed .. queued - 1

\* The two GPUs never have the same shared slot in use: the done value the
\* client waits for before reuse is the only thing that keeps them apart.
SlotExclusive ==
  \A w \in MayBeWritten, r \in MayBeRead : SlotOf(w) # SlotOf(r)

\* The driver never overwrites a source texture that a pending D3D11 copy has
\* still to read, although nobody waits for that copy (proxy.cpp:1855).
SourceStable == \A f \in MayBeWritten : source[SlotOf(f)] = f

\* The sink's copy of a frame finds the content the driver rendered for it.
DeliveredIntact == \A f \in 0 .. consumed - 1 : delivered[f] = f

\* Nothing a frame is copied from is overwritten, on either side of the fences.
FramesStayIntact == SourceStable /\ DeliveredIntact

\* "pass" is only said of a session all of whose frames the sink has copied,
\* intact, with the done fence at its last value and the sink's own exit 0.
PassIsEarned ==
  verdict = "pass" =>
    /\ outcome = "ok"
    /\ done = Frames
    /\ \A f \in Frame : delivered[f] = f

\* However a Cancel or a teardown races the end of the child, a child that has
\* delivered everything is not judged cancelled or failed, unless a removed
\* device hides the done fence from the client.
SuccessNotDowngraded ==
  outcome = "ok" /\ ~removed11 /\ ~removed12 => verdict \in {"none", "pass"}

\* "cancelled" is said only when cancellation was asked for and it was the
\* client's TerminateProcess that ended the child.
CancelledIsRequested ==
  verdict = "cancelled" => cancelRequested /\ outcome = "killed"

\* The three together: what the client says of a session is what became of it.
VerdictIsTrue == PassIsEarned /\ SuccessNotDowngraded /\ CancelledIsRequested

\* When Shutdown has released the shared textures and fences, no sink is left
\* running its loop over them without a supervisor.
NoUnsupervisedSink ==
  phase = "released" => sinkPc \in {"leaving", "exited"}
-----------------------------------------------------------------------------
(* The inductive invariant behind the safety properties.                   *)

\* Each stage of the pipeline is behind the one that feeds it, and the client
\* is at most the whole ring ahead of the done fence.
Pipeline ==
  /\ done <= consumed /\ consumed <= done + 1 /\ done <= doneQueued
  /\ consumed <= queued /\ doneQueued <= queued /\ queued <= doneQueued + 1
  /\ queued <= ready
  /\ ready <= copied /\ copied <= ready + 1 /\ copied <= issued
  /\ ready <= submitted /\ submitted <= issued /\ issued <= submitted + 1
  /\ issued <= done + RingDepth

SinkPosition ==
  /\ sinkPc \in {"setup", "await", "arm", "waiting", "record"} =>
       queued = doneQueued /\ doneQueued < Frames
  /\ sinkPc = "record" => doneQueued < ready
  /\ sinkPc = "signal" => queued = doneQueued + 1
  /\ sinkPc = "final" => doneQueued = Frames
  /\ sinkPc \notin {"leaving", "exited"} => outcome = "running"
  /\ outcome = "ok" => done = Frames

ClientPosition ==
  /\ phase = "active" => issued = submitted
  /\ turn # "idle" =>
       phase = "active" /\ submitted < Frames /\ submitted < done + RingDepth
  /\ turn = "prepared" => source[SlotOf(submitted)] = submitted
  /\ phase = "reap" => sinkPc \in {"leaving", "exited"}
  /\ verdict # "none" => sinkPc = "exited"

\* A slot holds the frame the sink has still to read from it.
TransportHeld == \A f \in consumed .. copied - 1 : transport[SlotOf(f)] = f

RingInv ==
  /\ TypeOK
  /\ Pipeline
  /\ SinkPosition
  /\ ClientPosition
  /\ SourceStable
  /\ TransportHeld
  /\ DeliveredIntact
  /\ PassIsEarned
  /\ CancelledIsRequested
  /\ NoUnsupervisedSink
-----------------------------------------------------------------------------
(* The abstract specification this one implements.                         *)

Relay == INSTANCE FrameRelay WITH
  Depth    <- RingDepth,
  sent     <- submitted,
  arrived  <- consumed,
  received <- delivered

ImplementsRelay == Relay!Spec
-----------------------------------------------------------------------------
(* Liveness.                                                               *)

\* A sink never outlives the game: once the parent is gone, the sink stops,
\* wherever in its loop it was.
ParentExitStopsSink == ~parentAlive ~> sinkPc = "exited"

\* A Shutdown that has begun comes to its end, and the child with it.
ShutdownCompletes ==
  phase \in ShutdownPhases ~>
    (phase = "released" /\ sinkPc = "exited") \/ ~parentAlive
=============================================================================
