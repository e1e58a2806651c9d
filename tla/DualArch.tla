------------------------------ MODULE DualArch ------------------------------
(***************************************************************************)
(* The x86/x64 bridge probe: an x64 D3D12 host that creates the shared     *)
(* textures and launches an x86 D3D11 client.  Two unidirectional fences   *)
(* per timeline (ready, signalled by the client; done, by the host) order  *)
(* the two GPU queues; one inherited pipe carries the description of the   *)
(* replacement texture of generation 1.  The module follows both           *)
(* processes and three queues: the host's, the client's and that of the    *)
(* client's second device.                                                 *)
(*                                                                         *)
(* Every wait of the host is bounded, so each may also give up; the client *)
(* waits for its GPU without a bound.  Environment faults - a call that    *)
(* fails, a process that is killed - are bounded by FAULTS.                *)
(***************************************************************************)
EXTENDS DualArchPlan, FiniteSets

CONSTANTS
  RUNS,             \* the runs explored, a subset of Runs
  FAULTS            \* how many environment faults a behaviour may have

ASSUME RunsAssumption == RUNS \subseteq Runs
ASSUME FaultsAssumption == FAULTS \in Nat

Running == -1       \* no exit code yet
Killed == 1         \* the code of a process somebody else terminates
Woken == 2 * Total + 2   \* a fence whose creator is gone: every wait returns
NoMessage == -1

VARIABLES
  o,                \* the options of this run
  patient,          \* no wait times out before its event, nothing fails
  faults,           \* faults left
  hpc, hexit,       \* the host: position, exit code
  hostGone,         \* its process object is signalled
  recorded,         \* frames recorded on its queue
  dispatched,       \* frames its queue has finished
  dispatching,      \* the next one is running
  hostRes,          \* shared textures it holds
  history,          \* content of its two history textures
  cpc, cexit,       \* the client: position, exit code
  submitted,        \* frames submitted
  completed,        \* frames validated
  mismatched,       \* frames that failed the comparison
  contaminated,     \* frames that showed the other eye's marker
  reuseWaits,       \* pending_reuse_waits
  maxInFlight,      \* max_in_flight
  clientRes,        \* shared textures it holds
  cq,               \* commands of its D3D11 context not executed yet
  lq,               \* commands of its second device not executed yet
  tex,              \* content of the textures both sides name
  published,        \* the ready fences have their names
  ready, done,      \* fence values, by timeline
  pipeOpen,         \* the host holds the write end of the control pipe
  message           \* the generation in the pipe

setup == << o, patient, faults >>
hostVars == << hpc, hexit, hostGone, recorded, hostRes, pipeOpen >>
hostGpu == << dispatched, dispatching, history >>
clientFrames == << submitted, completed, mismatched, contaminated, reuseWaits,
                   maxInFlight >>
clientVars == << cpc, cexit, clientFrames, clientRes, published >>
fences == << ready, done >>
vars == << setup, hostVars, hostGpu, clientVars, cq, lq, tex, fences, message >>

Textures == {"shared", "source", "upload", "target", "relay", "staging"}

Init ==
  /\ o \in RUNS
  /\ patient \in BOOLEAN
  /\ faults = IF patient THEN 0 ELSE FAULTS
  /\ hpc = "launch" /\ hexit = Running /\ hostGone = FALSE
  /\ recorded = 0 /\ dispatched = 0 /\ dispatching = FALSE
  /\ hostRes = FirstResources(o)
  /\ history = [e \in Slots |-> Blank]
  /\ cpc = "none" /\ cexit = Running
  /\ submitted = 0 /\ completed = 0 /\ mismatched = 0 /\ contaminated = 0
  /\ reuseWaits = 0 /\ maxInFlight = 0
  /\ clientRes = {}
  /\ cq = << >> /\ lq = << >>
  /\ tex = [t \in Textures |-> [s \in Slots |-> Blank]]
  /\ published = FALSE
  /\ ready = [t \in Slots |-> 0] /\ done = [t \in Slots |-> 0]
  /\ pipeOpen = TRUE
  /\ message = NoMessage

HostAlive == hexit = Running
ClientAlive == cpc # "none" /\ cexit = Running

(***************************************************************************)
(* The end of a process.  Its queues go with it.  The fences it created    *)
(* may wake their waiters before the process object is signalled, which is *)
(* a later step (HostIsGone).                                              *)
(***************************************************************************)
HostEnds(code) ==
  /\ hexit' = code
  /\ hpc' = "ended"
  /\ recorded' = dispatched
  /\ pipeOpen' = FALSE
  /\ \E woken \in BOOLEAN :
       done' = IF woken THEN [t \in Slots |-> Woken] ELSE done
  /\ dispatching' = FALSE
  /\ UNCHANGED << hostGone, hostRes, dispatched, history, ready >>

ClientEnds(code) ==
  /\ cexit' = code
  /\ cpc' = "ended"
  /\ cq' = << >> /\ lq' = << >>
  /\ clientRes' = {}
  /\ \E woken \in BOOLEAN :
       ready' = IF woken THEN [t \in Slots |-> Woken] ELSE ready
  /\ UNCHANGED << clientFrames, published, done >>

HostExit(code) ==
  /\ HostEnds(code)
  /\ UNCHANGED << setup, clientVars, cq, lq, tex, message >>

ClientExit(code) ==
  /\ ClientEnds(code)
  /\ UNCHANGED << setup, hostVars, hostGpu, tex, message >>

HostIsGone ==
  /\ ~HostAlive /\ ~hostGone
  /\ hostGone' = TRUE
  /\ UNCHANGED << setup, hpc, hexit, recorded, hostRes, pipeOpen, hostGpu,
                  clientVars, cq, lq, tex, fences, message >>

HostGoes(pc) ==
  /\ hpc' = pc
  /\ UNCHANGED << setup, hexit, hostGone, clientVars, cq, lq, tex, fences >>

(***************************************************************************)
(* The host.                                                               *)
(***************************************************************************)
\* CreateProcess with the inherited handles.  A negative that is decided by
\* the client's exit code alone is judged at once, the pipe closed.
HostLaunches ==
  /\ hpc = "launch"
  /\ cpc' = "start"
  /\ IF o.negative \in SetupNegatives \cup {"host-stall"}
     THEN hpc' = "judge" /\ pipeOpen' = FALSE
     ELSE hpc' = "open" /\ UNCHANGED pipeOpen
  /\ UNCHANGED << setup, hexit, hostGone, recorded, hostRes, hostGpu, cexit,
                  clientFrames, clientRes, published, cq, lq, tex, fences,
                  message >>

\* 5000 tries to open the ready fence by its name.
HostOpensFences ==
  /\ hpc = "open"
  /\ published
  /\ IF o.negative \in HostLossNegatives
     THEN HostGoes("await") /\ UNCHANGED pipeOpen
     ELSE /\ HostGoes("record")
          /\ pipeOpen' = (pipeOpen /\ Replaces(o))
  /\ UNCHANGED << recorded, hostRes, hostGpu, message >>

HostGivesUpOpening == hpc = "open" /\ HostExit(10)

\* The host-loss negatives: the host terminates itself once the client has
\* submitted its first frame.
HostTerminatesItself ==
  /\ hpc = "await"
  /\ ready[0] >= 1
  /\ HostExit(IF o.negative = "host-termination" THEN 24 ELSE 26)

HostGivesUpAwaiting == hpc = "await" /\ HostExit(11)

AtTransition ==
  /\ hpc = "record"
  /\ Replaces(o) /\ recorded = FRAMES /\ 0 \in hostRes

HostRecords ==
  /\ hpc = "record"
  /\ ~AtTransition
  /\ IF recorded < Total
     THEN recorded' = recorded + 1 /\ HostGoes("record")
     ELSE UNCHANGED recorded /\ HostGoes("resolve")
  /\ UNCHANGED << hostRes, pipeOpen, hostGpu, message >>

\* (mutant) the texture is released as soon as its frames are recorded.
HostReleasesGenerationAtOnce ==
  /\ AtTransition
  /\ hostRes' = hostRes \ {0}
  /\ HostGoes("replace")
  /\ UNCHANGED << recorded, pipeOpen, hostGpu, message >>

\* Generation 0 is released once every frame of it is done.
HostReleasesGeneration ==
  /\ AtTransition
  /\ done[0] >= FRAMES
  /\ hostRes' = hostRes \ {0}
  /\ HostGoes("replace")
  /\ UNCHANGED << recorded, pipeOpen, hostGpu, message >>

\* (mutant) the transition waits without a bound.
HostGivesUpTransitionNever == FALSE

HostGivesUpTransition == AtTransition /\ HostExit(19)

\* A replacement texture is created and its handle duplicated into the
\* client; the message that names it is the last use of the pipe.  A client
\* that is gone makes the duplication or the write fail.
HostReplaces ==
  /\ hpc = "replace"
  /\ o.negative \notin {"client-termination", "device-removal"}
  /\ ClientAlive
  /\ hostRes' = hostRes \cup {1}
  /\ message' = IF Deferred(o) THEN 2 ELSE 1
  /\ pipeOpen' = FALSE
  /\ HostGoes(IF Deferred(o) THEN "judge" ELSE "record")
  /\ UNCHANGED << recorded, hostGpu >>

HostCannotReplace ==
  /\ hpc = "replace"
  /\ o.negative # "device-removal"
  /\ ~ClientAlive
  /\ HostExit(19)

\* TerminateProcess on the client with the code the host expects.
HostKillsClient ==
  /\ hpc = "replace"
  /\ o.negative = "client-termination"
  /\ ClientAlive
  /\ ClientEnds(Expected(o))
  /\ hpc' = "judge" /\ pipeOpen' = FALSE
  /\ UNCHANGED << setup, hexit, hostGone, recorded, hostRes, hostGpu, tex,
                  message >>

\* RemoveDevice: what the client opened stays its own.
HostRemovesDevice ==
  /\ hpc = "replace"
  /\ o.negative = "device-removal"
  /\ pipeOpen' = FALSE
  /\ HostGoes("judge")
  /\ UNCHANGED << recorded, hostRes, hostGpu, message >>

\* The timestamps are resolved behind the last frame of the queue.
HostResolves ==
  /\ hpc = "resolve"
  /\ dispatched = Total
  /\ HostGoes("judge")
  /\ UNCHANGED << recorded, hostRes, pipeOpen, hostGpu, message >>

HostGivesUpResolve == hpc = "resolve" /\ HostExit(30)

\* The code of a run that did not end as expected.
FailCode ==
  IF Deferred(o) THEN 19 ELSE IF o.negative # "none" THEN 9 ELSE 31

\* (mutant) any end of the client is taken for the expected one.
HostJudgesBlindly ==
  /\ hpc = "judge"
  /\ ~ClientAlive
  /\ HostExit(0)

HostJudges ==
  /\ hpc = "judge"
  /\ ~ClientAlive
  /\ HostExit(IF cexit = Expected(o) THEN 0 ELSE FailCode)

HostGivesUpJudging == hpc = "judge" /\ ClientAlive /\ HostExit(FailCode)

Host ==
  \/ HostLaunches \/ HostOpensFences \/ HostTerminatesItself \/ HostRecords
  \/ HostReleasesGeneration \/ HostReplaces \/ HostCannotReplace
  \/ HostKillsClient \/ HostRemovesDevice \/ HostResolves \/ HostJudges
  \/ HostIsGone

HostGivesUp ==
  /\ ~patient
  /\ \/ HostGivesUpOpening \/ HostGivesUpAwaiting \/ HostGivesUpTransition
     \/ HostGivesUpResolve \/ HostGivesUpJudging

(***************************************************************************)
(* The host's queue, in order: wait for ready, dispatch, signal done.      *)
(***************************************************************************)
HostGpuStarts ==
  /\ HostAlive /\ ~dispatching
  /\ dispatched < recorded
  /\ ready[Timeline(o, dispatched)] >= FenceValue(o, dispatched)
  /\ dispatching' = TRUE
  /\ UNCHANGED << setup, hostVars, dispatched, history, clientVars, cq, lq, tex,
                  fences, message >>

HostGpuFinishes ==
  /\ dispatching
  /\ LET n == dispatched
         s == Slot(o, n)
         h == HistoryOf(o, n)
         out == Shaded(o, n, tex["shared"][s], history[h])
     IN  /\ tex' = [tex EXCEPT !["shared"][s] = out]
         /\ history' = IF o.history THEN [history EXCEPT ![h] = out] ELSE history
         /\ done' = [done EXCEPT ![Timeline(o, n)] = FenceValue(o, n)]
  /\ dispatched' = dispatched + 1
  /\ dispatching' = FALSE
  /\ UNCHANGED << setup, hostVars, clientVars, cq, lq, ready, message >>

HostGpu == HostGpuStarts \/ HostGpuFinishes

(***************************************************************************)
(* The client.                                                             *)
(***************************************************************************)
ClientGoes(pc) ==
  /\ cpc' = pc
  /\ UNCHANGED << setup, hostVars, hostGpu, cexit, tex, fences, message >>

\* Arguments, adapter, the textures the host created and their contract.
ClientStarts ==
  /\ cpc = "start"
  /\ LET refusal == Refusal(Arguments(o)) IN
     IF refusal # 0 THEN ClientExit(refusal)
     ELSE /\ clientRes' = FirstResources(o)
          /\ ClientGoes("publish")
          /\ UNCHANGED << clientFrames, published, cq, lq >>

\* The ready fences get their names, the done fences are opened.
ClientPublishes ==
  /\ cpc = "publish"
  /\ published' = TRUE
  /\ ClientGoes(CASE Arguments(o).expect = "host-termination" -> "probe-host"
                  [] Arguments(o).expect = "host-stall" -> "probe-stall"
                  [] OTHER -> "frames")
  /\ UNCHANGED << clientFrames, clientRes, cq, lq >>

\* The two probes signal ready and wait for a done that must not come.
ClientProbes ==
  /\ cpc \in {"probe-host", "probe-stall"}
  /\ cq' = << Signal(0, 1) >>
  /\ ClientGoes(IF cpc = "probe-host" THEN "await-host" ELSE "await-stall")
  /\ UNCHANGED << clientFrames, published, clientRes, lq >>

ClientSeesStall == cpc = "await-stall" /\ done[0] < 1 /\ ClientExit(17)
ClientSeesDone == cpc = "await-stall" /\ done[0] >= 1 /\ ClientExit(18)

\* A wait for the done event or the host process, then for the process
\* alone: 250 ms when the event fired, no time otherwise.
LossCode == IF o.negative = "host-termination" THEN 22 ELSE 26
NoLossCode == IF o.negative = "host-termination" THEN 23 ELSE 20

ClientSeesHostLoss ==
  /\ cpc \in {"await-host", "await-host-again"}
  /\ hostGone
  /\ ClientExit(LossCode)

ClientChecksHost ==
  /\ cpc = "await-host"
  /\ done[0] >= 1
  /\ ClientGoes("await-host-again")
  /\ UNCHANGED << clientFrames, published, clientRes, cq, lq >>

ClientGivesUpOnHost ==
  /\ cpc \in {"await-host", "await-host-again"}
  /\ ~hostGone
  /\ ClientExit(NoLossCode)

AtGeneration == Replaces(o) /\ submitted = FRAMES /\ 0 \in clientRes
\* (mutant) one frame too many before the reuse check.
ReuseDueOneLate ==
  Ring(o) /\ submitted > o.depth /\ completed = submitted - o.depth - 1
ReuseDue == Ring(o) /\ submitted >= o.depth /\ completed = submitted - o.depth
TailDue == Ring(o) /\ submitted = Total /\ completed < Total

\* The second device draws frame n and copies it to the relay.
ClientDrawsRelay ==
  /\ cpc = "frames"
  /\ o.renderer \in RelayRenderers
  /\ submitted < Total /\ ~AtGeneration
  /\ lq' = lq \o LegacyWork(o, submitted)
  /\ ClientGoes("relay")
  /\ UNCHANGED << clientFrames, published, clientRes, cq >>

\* (mutant) the event query is not waited for.
RelaySettledUnasked == TRUE

\* An event query says that the relay is complete.
RelaySettled == lq = << >>

ClientGivesUpRelay == cpc = "relay" /\ ClientExit(28)

\* One frame: prepare the shared texture, signal ready; outside the ring the
\* readback follows at once.
ClientSubmits ==
  /\ IF o.renderer \in RelayRenderers THEN cpc = "relay" /\ RelaySettled
     ELSE cpc = "frames"
  /\ submitted < Total /\ ~AtGeneration /\ ~ReuseDue
  /\ submitted' = submitted + 1
  /\ cq' = cq \o Submission(o, submitted) \o
             (IF Ring(o) THEN << >> ELSE Readback(o, submitted))
  /\ maxInFlight' = IF Ring(o) /\ submitted' - completed > maxInFlight
                    THEN submitted' - completed ELSE maxInFlight
  /\ ClientGoes(IF Ring(o) THEN "frames" ELSE "map")
  /\ UNCHANGED << completed, mismatched, contaminated, reuseWaits, clientRes,
                  published, lq >>

\* (mutant) the reuse wait looks at the fence alone.
ClientReusesBlindly ==
  /\ cpc = "frames"
  /\ ReuseDue \/ TailDue
  /\ reuseWaits' = IF submitted < Total /\ done[0] < FenceValue(o, completed)
                   THEN reuseWaits + 1 ELSE reuseWaits
  /\ cq' = cq \o Readback(o, completed)
  /\ ClientGoes("map")
  /\ UNCHANGED << submitted, completed, mismatched, contaminated, maxInFlight,
                  published, clientRes, lq >>

\* Before a slot of the ring is written again its frame is validated.
ClientReuses ==
  /\ cpc = "frames"
  /\ ReuseDue \/ TailDue
  /\ LET v == FenceValue(o, completed)
         reuse == submitted < Total
         watched == reuse /\ o.negative = "backpressure-host-termination"
     IN  /\ reuseWaits' = IF reuse /\ done[0] < v THEN reuseWaits + 1
                          ELSE reuseWaits
         /\ cq' = IF watched THEN cq ELSE cq \o Readback(o, completed)
         /\ ClientGoes(IF watched THEN "await-host" ELSE "map")
  /\ UNCHANGED << submitted, completed, mismatched, contaminated, maxInFlight,
                  published, clientRes, lq >>

\* Map returns when every command before it has executed.
ClientValidates ==
  /\ cpc = "map"
  /\ cq = << >>
  /\ LET n == completed
         p == tex["staging"][Slot(o, n)]
     IN  /\ mismatched' = mismatched + (IF LooksRight(o, n, p) THEN 0 ELSE 1)
         /\ contaminated' = contaminated + (IF Contaminated(o, n, p) THEN 1 ELSE 0)
         /\ completed' = n + 1
  /\ ClientGoes("frames")
  /\ UNCHANGED << submitted, reuseWaits, maxInFlight, published, clientRes, cq,
                  lq >>

\* Everything of generation 0 is released before the pipe is read.
ClientReleasesGeneration ==
  /\ cpc = "frames"
  /\ AtGeneration
  /\ clientRes' = clientRes \ {0}
  /\ ClientGoes("read")
  /\ UNCHANGED << clientFrames, published, cq, lq >>

\* ReadFile: the message, or a broken pipe.
ClientReads ==
  /\ cpc = "read"
  /\ message # NoMessage
  /\ IF message = 1
     THEN /\ clientRes' = clientRes \cup {1}
          /\ ClientGoes("frames")
          /\ UNCHANGED << clientFrames, published, cq, lq >>
     ELSE ClientExit(19)

\* (mutant) the client inherits the write end too: its pipe never breaks.
ClientReadFailsNever ==
  /\ cpc = "read" /\ ~ClientAlive
  /\ ClientExit(19)

ClientReadFails ==
  /\ cpc = "read"
  /\ message = NoMessage /\ ~pipeOpen
  /\ ClientExit(19)

\* The result: what each mode demands of its counters.
ResultCode ==
  IF o.stereo THEN IF mismatched = 0 /\ contaminated = 0 THEN 0 ELSE 25
  ELSE IF Ring(o)
       THEN IF /\ mismatched = 0 /\ maxInFlight = o.depth
               /\ reuseWaits > 0 /\ completed = Total THEN 0 ELSE 24
  ELSE IF mismatched = 0 THEN 0 ELSE 16

ClientReports ==
  /\ cpc = "frames"
  /\ submitted = Total /\ completed = Total
  /\ ClientExit(ResultCode)

Client ==
  \/ ClientStarts \/ ClientPublishes \/ ClientProbes
  \/ ClientSeesStall \/ ClientSeesDone
  \/ ClientSeesHostLoss \/ ClientChecksHost \/ ClientDrawsRelay \/ ClientSubmits
  \/ ClientReuses \/ ClientValidates \/ ClientReleasesGeneration \/ ClientReads
  \/ ClientReadFails \/ ClientReports

ClientGivesUp == ~patient /\ (ClientGivesUpOnHost \/ ClientGivesUpRelay)

(***************************************************************************)
(* The client's queues: the D3D11 context and the second device.           *)
(***************************************************************************)
Written(c) ==
  [tex EXCEPT ![c.dst][c.slot] =
     IF c.op = "put" THEN c.pixel ELSE tex[c.src][c.slot]]

ClientGpu ==
  /\ cq # << >>
  /\ LET c == Head(cq) IN
     /\ c.op = "wait" => done[c.timeline] >= c.value
     /\ ready' = IF c.op = "signal" THEN [ready EXCEPT ![c.timeline] = c.value]
                 ELSE ready
     /\ tex' = IF c.op \in {"put", "copy"} THEN Written(c) ELSE tex
  /\ cq' = Tail(cq)
  /\ UNCHANGED << setup, hostVars, hostGpu, clientVars, lq, done, message >>

LegacyGpu ==
  /\ lq # << >>
  /\ tex' = Written(Head(lq))
  /\ lq' = Tail(lq)
  /\ UNCHANGED << setup, hostVars, hostGpu, clientVars, cq, fences, message >>

(***************************************************************************)
(* Faults of the environment: a call that fails, with the code the source  *)
(* returns at that point, or a process that is terminated from outside.    *)
(* Of a run of codes that nobody tells apart the first stands for all.     *)
(***************************************************************************)
HostFailCodes ==
  CASE hpc = "launch" -> {3}
    [] hpc = "open" -> {11}
    [] hpc = "await" -> {11}
    [] hpc = "record" -> {12}
    [] hpc = "replace" -> {19}
    [] hpc = "resolve" -> {24}
    [] OTHER -> {}

ClientFailCodes ==
  CASE cpc = "start" -> {4, 8, 10}
    [] cpc = "publish" -> {11}
    [] cpc \in {"probe-host", "probe-stall"} -> {13}
    [] cpc \in {"await-host", "await-host-again"} -> {NoLossCode}
    [] cpc \in {"frames", "map"} -> IF Replaces(o) THEN {13} ELSE {20}
    [] cpc = "relay" -> {28}
    [] cpc = "read" -> {8, 9, 10, 19}
    [] OTHER -> {}

HostFails ==
  /\ HostAlive /\ faults > 0
  /\ faults' = faults - 1
  /\ \E code \in HostFailCodes \cup {Killed} : HostEnds(code)
  /\ UNCHANGED << o, patient, clientVars, cq, lq, tex, message >>

ClientFails ==
  /\ ClientAlive /\ faults > 0
  /\ faults' = faults - 1
  /\ \E code \in ClientFailCodes \cup {Killed} : ClientEnds(code)
  /\ UNCHANGED << o, patient, hostVars, hostGpu, tex, message >>

(***************************************************************************)
(* The system stops when the host has ended, and the client too, unless    *)
(* its GPU waits for a fence nobody will signal.                           *)
(***************************************************************************)
ClientBlocked ==
  /\ cpc = "map" /\ cq # << >>
  /\ Head(cq).op = "wait" /\ done[Head(cq).timeline] < Head(cq).value

Next ==
  \/ Host \/ HostGivesUp \/ HostGpu
  \/ Client \/ ClientGivesUp \/ ClientGpu \/ LegacyGpu
  \/ HostFails \/ ClientFails

\* Each process runs until it ends - a wait of the host returns one way or
\* the other - and each queue executes what it holds; a call that fails and a
\* process that is killed are never forced.
Fairness ==
  /\ WF_vars(Host \/ HostGivesUp)
  /\ WF_vars(HostGpu)
  /\ WF_vars(Client \/ ClientGivesUp)
  /\ WF_vars(ClientGpu)
  /\ WF_vars(LegacyGpu)

Spec == Init /\ [][Next]_vars /\ Fairness

(***************************************************************************)
(* Properties.                                                             *)
(***************************************************************************)
Command ==
  [op : {"put"}, dst : Textures, slot : Slots, pixel : Pixel] \cup
  [op : {"copy"}, src : Textures, dst : Textures, slot : Slots] \cup
  [op : {"signal", "wait"}, timeline : Slots, value : 1 .. Total]

\* Every variable has the shape the code gives it.
DualArchTypeOK ==
  /\ o \in Options /\ patient \in BOOLEAN /\ faults \in 0 .. FAULTS
  /\ hpc \in {"launch", "open", "await", "record", "replace", "resolve",
              "judge", "ended"}
  /\ cpc \in {"none", "start", "publish", "probe-host", "probe-stall", "await-host",
              "await-host-again", "await-stall", "frames", "relay", "map",
              "read", "ended"}
  /\ hexit \in -1 .. 31 /\ cexit \in -1 .. 28
  /\ recorded \in 0 .. Total /\ dispatched \in 0 .. recorded
  /\ submitted \in 0 .. Total /\ completed \in 0 .. submitted
  /\ mismatched \in 0 .. completed /\ contaminated \in 0 .. completed
  /\ reuseWaits \in 0 .. submitted /\ maxInFlight \in 0 .. submitted
  /\ hostRes \subseteq Slots /\ clientRes \subseteq Slots
  /\ \A i \in DOMAIN cq : cq[i] \in Command
  /\ \A i \in DOMAIN lq : lq[i] \in Command
  /\ tex \in [Textures -> [Slots -> Pixel]] /\ history \in [Slots -> Pixel]
  /\ ready \in [Slots -> 0 .. Woken] /\ done \in [Slots -> 0 .. Woken]
  /\ {dispatching, hostGone, published, pipeOpen} \subseteq BOOLEAN
  /\ message \in {NoMessage, 1, 2}

TouchesShared(c, s) ==
  /\ c.op \in {"put", "copy"} /\ c.slot = s
  /\ \/ c.dst = "shared"
     \/ c.op = "copy" /\ c.src = "shared"

\* The two fences are the only order between the two GPUs: while the host's
\* compute pass runs on a shared texture, no command of the client that
\* touches this texture is at the head of its queue.
ExclusiveAccess ==
  dispatching /\ cq # << >>
    => ~TouchesShared(Head(cq), Slot(o, dispatched))

\* The relay of the second device is complete before the D3D11 blit that
\* reads it is queued, and is not drawn to again before the blit has run:
\* no blit of a relay is pending while a write to it is.
RelayIsSettled ==
  \A i \in DOMAIN lq, j \in DOMAIN cq :
    lq[i].dst = "relay" => cq[j].op # "copy" \/ cq[j].src # "relay"
                                            \/ cq[j].slot # lq[i].slot

\* A texture is held by a process as long as a command of its queue names it:
\* the replacement of generation 0 releases nothing that is still in use.
QueuedWorkIsHeld ==
  /\ HostAlive => \A n \in dispatched .. recorded - 1 : Slot(o, n) \in hostRes
  /\ \A i \in DOMAIN cq, s \in Slots : TouchesShared(cq[i], s) => s \in clientRes

\* A frame the comparison accepts was really processed by the host, is that
\* very frame and comes from the right history - also in the scene mode,
\* whose four samples cannot tell one frame from another.
AcceptedIsCurrent ==
  [][completed' = completed + 1 /\ mismatched' = mismatched
       => tex["staging"][Slot(o, completed)] = Wanted(o, completed)]_vars

\* The frames a deliberate defect must spoil: every left view when the right
\* marker is forced, every view after the first pair when histories are
\* swapped.
Spoiled(n) ==
  \/ o.swap /\ Temporal(n) > 0
  \/ o.contamination /\ ~o.history /\ Eye(n) = 0

\* As long as the host lives the detectors are exact: the frames rejected,
\* and the frames found to show the other eye, are those the defect of this
\* run spoils; a run without a defect rejects none.
DetectorsAreExact ==
  HostAlive =>
    LET spoiled == { n \in 0 .. completed - 1 : Spoiled(n) } IN
    /\ mismatched = Cardinality(spoiled)
    /\ contaminated = Cardinality(spoiled)

\* The client has at most one ring of frames that it has not validated.
RingIsBounded ==
  submitted - completed <= IF Ring(o) THEN o.depth ELSE 1

\* The textures two GPUs and two devices share, together: one at a time on
\* each, none released or overwritten while a queue still needs it.
TexturesAreSafe ==
  ExclusiveAccess /\ RelayIsSettled /\ QueuedWorkIsHeld /\ RingIsBounded

\* The host reports success of an ordinary run, or of a run with a deliberate
\* stereo defect, only if every frame was dispatched and validated and the
\* defect, if any, was seen - whatever failed or was killed on the way.
ExitZeroIsEarned ==
  hexit = 0 /\ o.negative = "none" =>
    /\ dispatched = Total /\ completed = Total
    /\ (mismatched = 0) = (Expected(o) = 0)

\* The host reports success of a negative only if it ended where it was
\* meant to: before any frame for the contract negatives and the stall, with
\* generation 0 dispatched and, unless the client was killed, validated for
\* the negatives of the transition.
NegativePassIsEarned ==
  hexit = 0 =>
    /\ o.negative \in SetupNegatives \cup {"host-stall"} =>
         submitted = 0 /\ dispatched = 0
    /\ Deferred(o) =>
         /\ submitted = FRAMES /\ dispatched = FRAMES /\ mismatched = 0
         /\ completed >= (IF o.negative = "client-termination"
                          THEN FRAMES - 1 ELSE FRAMES)

\* The fence of a host that is gone may wake its waiters; the two modes that
\* look for a lost host take no such wake-up for a finished frame.
WokenFenceIsNoCompletion ==
  o.negative \in HostLossNegatives => completed = 0

\* What the two processes claim has happened, together.
ClaimsAreEarned ==
  ExitZeroIsEarned /\ NegativePassIsEarned /\ WokenFenceIsNoCompletion

\* Every wait of the host is bounded: it ends, whatever becomes of the client.
HostAlwaysEnds == ~patient => <>(hexit # Running)

\* A client that looks for a lost host ends, also when the host dies with the
\* client's frame in flight.
HostLossIsNoticed ==
  ~patient /\ o.negative \in HostLossNegatives => <>[](~ClientAlive)

\* The client ends or, its host gone without waking the fence, waits in Map;
\* nowhere else - not at the pipe, not at a relay - can it stay for ever.
ClientStuckOnlyInMap == ~patient => <>[](~ClientAlive \/ ClientBlocked)

\* How a run ends on both sides, whatever fails in it.
ProcessesEnd == HostAlwaysEnds /\ HostLossIsNoticed /\ ClientStuckOnlyInMap

\* What the driver of the probe expects of each run: the host-loss negatives
\* end the host with their own code and the client with the one that names
\* the loss, every other run ends with 0.  Two runs may not: a ring in which
\* no reuse had to wait, and a marker forced while the history pass ignores it.
IntendedEnd ==
  CASE o.negative = "host-termination" -> hexit = 24 /\ cexit = 22
    [] o.negative = "backpressure-host-termination" -> hexit = 26 /\ cexit = 26
    [] Ring(o) -> \/ hexit = 0
                  \/ hexit = 31 /\ cexit = 24 /\ reuseWaits = 0
    [] o.contamination /\ o.history /\ ~o.swap -> hexit = 31 /\ cexit = 0
    [] OTHER -> hexit = 0

\* With nothing failing and nobody impatient every run the options allow
\* reaches its intended end: the two queues and the pipe never block one
\* another, and every negative is detected.
RunsEndAsIntended == patient => <>[]IntendedEnd
=============================================================================
