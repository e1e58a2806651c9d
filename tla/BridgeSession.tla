---------------------------- MODULE BridgeSession ----------------------------
(***************************************************************************)
(* A whole session of the bridge: Client::Start with the bootstrap of the  *)
(* sink (BridgeBootstrap), and, where Start returns true, the client and   *)
(* the sink over their ring of slots (BridgeRing).  The sink is one        *)
(* process: what has become of it when Start returns is where its part in  *)
(* the ring begins.                                                        *)
(***************************************************************************)
EXTENDS BridgeRing, BridgeBootstrap

VARIABLE handedOver   \* Start has returned true, its caller knows

sessionVars == <<vars, bootVars, handedOver>>

SessionInit == BootInit /\ Init /\ handedOver = FALSE

\* Start returns true without another look at the sink, which may be on its way
\* into the loop, leaving or gone.
StartReturnsTrue ==
  /\ startPc = "returned" /\ started
  /\ ~handedOver
  /\ handedOver' = TRUE
  /\ CASE bootPc = "published" -> UNCHANGED <<sinkPc, outcome>>
       [] bootPc = "leaving" -> sinkPc' = "leaving" /\ outcome' = "setup_failed"
       [] bootPc = "exited" ->
            sinkPc' = "exited" /\ outcome' \in {"setup_failed", "crashed"}
  /\ UNCHANGED <<bootVars, clientVars, gpu11Vars, gpu12Vars, queued, doneQueued>>

Booting(A) == ~handedOver /\ A /\ UNCHANGED <<vars, handedOver>>
Running(A) == handedOver /\ A /\ UNCHANGED <<bootVars, handedOver>>

SessionNext == Booting(BootNext) \/ StartReturnsTrue \/ Running(Next)

\* The fairness of the two parts.
SessionFairness ==
  /\ WF_sessionVars(Booting(StartStep))
  /\ WF_sessionVars(Booting(DeadlinePasses))
  /\ WF_sessionVars(Booting(SinkGone))
  /\ WF_sessionVars(StartReturnsTrue)
  /\ WF_sessionVars(Running(ShutdownProceeds))
  /\ WF_sessionVars(Running(parentAlive /\ Gpu11Step))
  /\ WF_sessionVars(Running(SinkProceeds))
  /\ WF_sessionVars(Running(removed12 /\ SinkWaitFails))
  /\ WF_sessionVars(Running(sinkPc # "exited" /\ Gpu12Step))

SessionSpec == SessionInit /\ [][SessionNext]_sessionVars /\ SessionFairness
-----------------------------------------------------------------------------
\* Everything that must end does, whatever fails: the Start that blocks a
\* Present, a Shutdown that has begun, and the sink of a game that is gone.
SessionEnds == StartAlwaysReturns /\ ShutdownCompletes /\ ParentExitStopsSink
==============================================================================
