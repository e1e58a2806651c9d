--------------------------- MODULE ProducerProbe ----------------------------
(***************************************************************************)
(* The synthetic producer (d3d9_real_bridge_probe/producer.cpp, wmain)     *)
(* driving the client of BridgeRing: fill and submit every frame, give up  *)
(* when backpressure lasts longer than the submission timeout, wait for    *)
(* the sink at most ten seconds, report, and return through the client's   *)
(* destructor, which shuts it down.  Elapsed time is abstracted: a timeout *)
(* may expire whenever its condition holds, and does so eventually.        *)
(***************************************************************************)
EXTENDS BridgeRing

CONSTANTS
  InitialStall,     \* --initial-stall-ms is not zero
  Patience          \* is the producer patient: the values explored

ASSUME ProducerAssumption == InitialStall \in BOOLEAN /\ Patience \subseteq BOOLEAN

StillRunning == -1

VARIABLES
  pc,        \* where wmain is
  exitCode,  \* what it will return
  patient    \* its timeouts are too long to expire

probeVars == <<vars, pc, exitCode, patient>>

ProbeInit ==
  /\ Init
  /\ pc = "loop"
  /\ exitCode = StillRunning
  /\ patient \in Patience

Goto(to) == pc' = to /\ UNCHANGED <<exitCode, patient>>

Returns(code) == pc' = "return" /\ exitCode' = code /\ UNCHANGED patient

\* The top of the submission loop.
AsksAvailability ==
  /\ pc = "loop"
  /\ \E status \in SubmitStatus :
       /\ QuerySubmitStatus(status)
       /\ CASE status = "backpressure" -> Goto("loop")
            [] status = "submitted"    -> Goto("fill")
            [] OTHER                   -> Returns(6)

\* (mutant) the timeout guards only the first use of a slot.
SubmissionTimesOutOnce ==
  /\ ~patient
  /\ pc = "loop"
  /\ submitted < RingDepth
  /\ QuerySubmitStatus("backpressure")
  /\ Goto("cancel")

\* Backpressure since the last submitted frame for longer than the timeout.
SubmissionTimesOut ==
  /\ ~patient
  /\ pc = "loop"
  /\ QuerySubmitStatus("backpressure")
  /\ Goto("cancel")

FillsSource == pc = "fill" /\ PrepareSource /\ Goto("submit")

SubmitsFrame ==
  /\ pc = "submit"
  /\ \/ /\ TrySubmitSucceeds
        /\ Goto(IF submitted' < Frames THEN "loop" ELSE "poll")
     \/ /\ TrySubmitFails \/ \E status \in SubmitStatus : TrySubmitRefused(status)
        /\ Returns(6)

CancelsClient == pc = "cancel" /\ Cancel /\ Returns(8)

PollsClient ==
  /\ pc = "poll"
  /\ Poll
  /\ Goto(IF verdict' = "none" THEN "poll" ELSE "report")

PollTimesOut ==
  /\ ~patient
  /\ pc = "poll"
  /\ Poll
  /\ Goto("report")

\* (mutant) a finished session counts as a passed one.
ReportsFinished ==
  /\ pc = "report"
  /\ Returns(IF /\ verdict # "none"
                /\ PressureRequirementSatisfied(InitialStall, pressured)
             THEN 0 ELSE 7)
  /\ UNCHANGED vars

Reports ==
  /\ pc = "report"
  /\ Returns(IF /\ verdict = "pass"
                /\ PressureRequirementSatisfied(InitialStall, pressured)
             THEN 0 ELSE 7)
  /\ UNCHANGED vars

\* The client's destructor.
DestroysClient == pc = "return" /\ Shutdown /\ UNCHANGED <<pc, exitCode, patient>>

\* wmain has returned, and the process with it.
ProducerGone ==
  /\ pc = "return"
  /\ phase = "released"
  /\ ParentExits
  /\ Goto("gone")

ProducerStep ==
  \/ AsksAvailability \/ SubmissionTimesOut \/ FillsSource \/ SubmitsFrame
  \/ CancelsClient \/ PollsClient \/ PollTimesOut \/ Reports \/ DestroysClient
  \/ ProducerGone

ProbeNext ==
  \/ ProducerStep
  \/ (Machine \/ Environment) /\ UNCHANGED <<pc, exitCode, patient>>

ProbeSpec == ProbeInit /\ [][ProbeNext]_probeVars

(***************************************************************************)
(* The machine's fairness, and the producer's thread: it runs, and its     *)
(* clock advances while it waits.                                          *)
(***************************************************************************)
ProbeFairness ==
  /\ WF_probeVars(ShutdownProceeds /\ UNCHANGED <<pc, exitCode, patient>>)
  /\ WF_probeVars(parentAlive /\ Gpu11Step /\ UNCHANGED <<pc, exitCode, patient>>)
  /\ WF_probeVars(SinkProceeds /\ UNCHANGED <<pc, exitCode, patient>>)
  /\ WF_probeVars(removed12 /\ SinkWaitFails /\ UNCHANGED <<pc, exitCode, patient>>)
  /\ WF_probeVars(sinkPc # "exited" /\ Gpu12Step /\ UNCHANGED <<pc, exitCode, patient>>)
  /\ WF_probeVars(ProducerStep)
  /\ WF_probeVars(SubmissionTimesOut)
  /\ WF_probeVars(PollTimesOut)

FairProbeSpec == ProbeSpec /\ ProbeFairness
-----------------------------------------------------------------------------
\* Exit 0 is earned by a whole session: all frames copied, intact, by a sink
\* that returned 0, with backpressure observed when a stall had asked for it.
ExitZeroIsEarned ==
  exitCode = 0 =>
    /\ submitted = Frames
    /\ outcome = "ok"
    /\ \A f \in Frame : delivered[f] = f
    /\ InitialStall /\ Frames > RingDepth => pressured

\* What the audit says of the submission timeout: the client is cancelled and
\* the completion is classified (docs/internal/AUDIT_2026-09-30.md:89).
TimeoutIsClassified ==
  exitCode = 8 /\ phase = "released" => verdict # "none"

\* Every run ends: whatever fails, the producer returns, or was killed, and in
\* either case its sink is gone as well.
EverythingStops ==
  ~patient => /\ <>[](pc = "gone" \/ ~parentAlive)
              /\ <>[](sinkPc = "exited")

\* A process was killed, a device removed, or a call of the sink or the Signal
\* of a submission failed.
SomethingFailed ==
  \/ ~parentAlive \/ removed11 \/ removed12
  \/ outcome \notin {"running", "ok"}
  \/ issued > submitted

\* With nothing failing, and timeouts long enough, the two processes never
\* wait on each other for good: every frame is delivered and the session passes.
HealthySessionPasses == patient => <>(verdict = "pass" \/ SomethingFailed)
=============================================================================
