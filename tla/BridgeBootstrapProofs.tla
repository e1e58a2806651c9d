------------------------ MODULE BridgeBootstrapProofs -----------------------
(***************************************************************************)
(* Proofs about BridgeBootstrap, for every set of faults, and about the    *)
(* whole session that it begins: what is proved of the two parts apart     *)
(* (here and in BridgeRingProofs) holds of BridgeSession as well.          *)
(***************************************************************************)
EXTENDS BridgeSession, BridgeRingProofs, TLAPS

\* Before the sink is launched there is nothing to own.
LEMMA BootInvInit == BootInit => BootInv
<1> SUFFICES ASSUME BootInit PROVE BootInv
  OBVIOUS
<1> USE DEF BootInit
<1>1. BootTypeOK
  BY DEF BootTypeOK, StartPcs, SinkBootPcs
<1>2. HandlePosition
  BY DEF HandlePosition
<1>3. StartPosition
  BY DEF StartPosition
<1>4. QED
  BY <1>1, <1>2, <1>3 DEF BootInv

\* The steps of Start before Shutdown and the return.
LEMMA StartReadsInv ==
  ASSUME BootInv,
         \/ StartFailsEarly \/ StartLaunches \/ DeadlinePasses \/ ReadGivesUp
         \/ PeekFindsNothing \/ ReadChecksChild \/ ChecksContract \/ OpenFails
  PROVE  BootInv'
<1> USE DEF BootInv, StartFailsEarly, StartLaunches, DeadlinePasses, ReadGivesUp,
            PeekFindsNothing, ReadChecksChild, ChecksContract, OpenFails,
            StartMoves, publishVars
<1>1. BootTypeOK'
  <2>1. startPc' \in StartPcs /\ bootPc' \in SinkBootPcs
    BY DEF BootTypeOK, StartPcs, SinkBootPcs
  <2>2. /\ started' \in BOOLEAN /\ expired' \in BOOLEAN
        /\ finished' \in BOOLEAN /\ writeEnd' \in BOOLEAN
    BY DEF BootTypeOK
  <2>3. readEnd' \in BOOLEAN
    BY DEF BootTypeOK
  <2>4. /\ opened' \subseteq Inventory /\ held' \subseteq Inventory
        /\ tracked' \subseteq Inventory /\ remote' \subseteq Inventory
        /\ message' \in {"none", "written", "read"}
    BY DEF BootTypeOK
  <2>5. QED
    BY <2>1, <2>2, <2>3, <2>4 DEF BootTypeOK
<1>2. HandlePosition'
  BY DEF HandlePosition, StartPosition
<1>3. StartPosition'
  BY DEF HandlePosition, StartPosition, StartPcs
<1>4. QED
  BY <1>1, <1>2, <1>3

\* Reading the message passes the ownership of the handles in it.
LEMMA ReadSucceedsInv ==
  ASSUME BootInv, ReadSucceeds
  PROVE  BootInv'
<1> USE DEF BootInv, ReadSucceeds, StartMoves, publishVars
<1>1. BootTypeOK'
  BY DEF BootTypeOK, StartPcs
<1>2. HandlePosition'
  BY DEF HandlePosition
<1>3. StartPosition'
  BY DEF HandlePosition, StartPosition, StartPcs
<1>4. QED
  BY <1>1, <1>2, <1>3

\* Start returns true only after the last shared object has been opened.
LEMMA OpensNextInv ==
  ASSUME BootInv, OpensNext
  PROVE  BootInv'
<1> USE DEF BootInv, OpensNext, publishVars
<1>1. PICK h \in remote : IsFirst(h, Inventory \ opened) /\ opened' = opened \cup {h}
  OBVIOUS
<1>2. opened' \subseteq Inventory
  BY <1>1 DEF BootTypeOK
<1>3. startPc = "open" /\ message = "read" /\ ~finished /\ ~started
  BY DEF StartPosition, StartPcs
<1>4. \/ startPc' = "unwind" /\ started' = TRUE /\ opened' = Inventory
      \/ startPc' = startPc /\ started' = started
  OBVIOUS
<1>5. UNCHANGED <<expired, readEnd, held, finished, bootPc, tracked, writeEnd,
                  message, remote>>
  OBVIOUS
<1>6. BootTypeOK'
  <2>1. startPc' \in StartPcs
    BY <1>3, <1>4 DEF StartPcs
  <2>2. started' \in BOOLEAN
    BY <1>4 DEF BootTypeOK
  <2>3. QED
    BY <1>2, <1>5, <2>1, <2>2 DEF BootTypeOK
<1>7. HandlePosition'
  BY <1>3, <1>4, <1>5 DEF HandlePosition
<1>8. StartPosition'
  <2>1. CASE startPc' = "unwind" /\ started' = TRUE /\ opened' = Inventory
    <3>1. bootPc # "unborn"
      BY <1>3 DEF StartPosition
    <3>2. /\ startPc' = "unwind" /\ started' /\ opened' = Inventory
          /\ ~finished' /\ message' = "read" /\ bootPc' # "unborn"
      BY <1>3, <1>5, <2>1, <3>1
    <3>3. QED
      BY <3>2 DEF StartPosition, StartPcs
  <2>2. CASE startPc' = startPc /\ started' = started
    BY <1>3, <1>5, <2>2 DEF StartPosition, StartPcs
  <2>3. QED
    BY <1>4, <2>1, <2>2
<1>9. QED
  BY <1>6, <1>7, <1>8

\* Shutdown in a failed Start releases what was opened and stops the child.
LEMMA StartShutsDownInv ==
  ASSUME BootInv, StartShutsDown
  PROVE  BootInv'
<1> USE DEF BootInv, StartShutsDown, ShutdownInStart, StartMoves
<1>1. BootTypeOK'
  BY DEF BootTypeOK, StartPcs, SinkBootPcs
<1>2. HandlePosition'
  BY DEF HandlePosition, StartPosition
<1>3. StartPosition'
  <2>1. startPc \in {"finish", "recheck", "terminate", "reap"}
    OBVIOUS
  <2>2. ~started /\ ~started' /\ bootPc # "unborn"
    BY <2>1 DEF StartPosition
  <2>3. \/ startPc' = "recheck" /\ ~finished'
        \/ startPc' = "terminate" /\ ~finished'
        \/ startPc' = "reap" /\ bootPc' \in {"leaving", "exited"}
        \/ startPc' = "unwind" /\ opened' = {} /\ bootPc' \in {"leaving", "exited"}
    BY DEF StartPosition, StartPcs
  <2>4. bootPc' # "unborn"
    BY <2>2
  <2>5. QED
    BY <2>2, <2>3, <2>4 DEF StartPosition, StartPcs
<1>4. QED
  BY <1>1, <1>2, <1>3

\* The destructor closes all three handles of a message that was read.
LEMMA StartReturnsInv ==
  ASSUME BootInv, StartReturnsNow
  PROVE  BootInv'
<1> USE DEF BootInv, StartReturnsNow, StartMoves, publishVars
<1>1. BootTypeOK'
  BY DEF BootTypeOK, StartPcs
<1>2. HandlePosition'
  BY DEF HandlePosition, BootTypeOK
<1>3. StartPosition'
  BY DEF StartPosition, StartPcs
<1>4. QED
  BY <1>1, <1>2, <1>3

\* Until it has published, the sink tracks exactly what it has duplicated.
LEMMA SinkBootInv ==
  ASSUME BootInv, SinkBootStep \/ SinkBootCrashes
  PROVE  BootInv'
<1> USE DEF BootInv
<1>1. CASE SinkCreates \/ SinkEndsLater \/ SinkGone \/ SinkBootCrashes
  <2> USE <1>1 DEF SinkCreates, SinkEndsLater, SinkGone, SinkBootCrashes,
                   SinkBootMoves, startVars
  <2>1. BootTypeOK'
    BY DEF BootTypeOK, SinkBootPcs
  <2>2. HandlePosition' /\ StartPosition'
    BY DEF HandlePosition, StartPosition
  <2>3. QED
    BY <2>1, <2>2
<1>2. CASE SinkDuplicates
  <2> USE <1>2 DEF SinkDuplicates, SinkBootMoves, startVars
  <2>1. BootTypeOK'
    BY DEF BootTypeOK, SinkBootPcs
  <2>2. HandlePosition' /\ StartPosition'
    BY DEF HandlePosition, StartPosition
  <2>3. QED
    BY <2>1, <2>2
<1>3. CASE SinkWrites
  <2> USE <1>3 DEF SinkWrites, SinkBootMoves, startVars
  <2>1. BootTypeOK'
    BY DEF BootTypeOK, SinkBootPcs
  <2>2. HandlePosition' /\ StartPosition'
    BY DEF HandlePosition, StartPosition
  <2>3. QED
    BY <2>1, <2>2
<1>4. CASE SinkRollsBack
  <2> USE <1>4 DEF SinkRollsBack, SinkBootMoves, startVars
  <2>1. BootTypeOK'
    BY DEF BootTypeOK, SinkBootPcs
  <2>2. HandlePosition' /\ StartPosition'
    BY DEF HandlePosition, StartPosition
  <2>3. QED
    BY <2>1, <2>2
<1>5. QED
  BY <1>1, <1>2, <1>3, <1>4 DEF SinkBootStep

\* Every step of the bootstrap preserves the inductive invariant.
LEMMA BootInvStep == BootInv /\ [BootNext]_bootVars => BootInv'
<1> SUFFICES ASSUME BootInv, [BootNext]_bootVars
             PROVE  BootInv'
  OBVIOUS
<1>1. CASE StartStep \/ DeadlinePasses
  BY <1>1, StartReadsInv, ReadSucceedsInv, OpensNextInv, StartShutsDownInv,
     StartReturnsInv
  DEF StartStep
<1>2. CASE SinkBootStep \/ SinkBootCrashes
  BY <1>2, SinkBootInv
<1>3. CASE UNCHANGED bootVars
  BY <1>3
  DEF BootInv, BootTypeOK, HandlePosition, StartPosition, bootVars, startVars,
      publishVars
<1>4. QED
  BY <1>1, <1>2, <1>3 DEF BootNext

\* The inductive invariant holds in every bootstrap.
THEOREM BootInvariant == BootSpec => []BootInv
<1>1. BootInit => BootInv
  BY BootInvInit
<1>2. BootInv /\ [BootNext]_bootVars => BootInv'
  BY BootInvStep
<1>3. QED
  BY <1>1, <1>2, PTL DEF BootSpec

\* The client's half of the ownership of handles: a message that was read is
\* never leaked, whatever fails.
THEOREM ReadMessagesAreClosed == BootSpec => []ReadMessageIsClosed
<1>1. BootInv => ReadMessageIsClosed
  BY DEF BootInv, HandlePosition, ReadMessageIsClosed
<1>2. QED
  BY <1>1, BootInvariant, PTL

\* The sink's half: before the publication its rollback list is exact.
THEOREM SinkTracksItsHandles == BootSpec => []SinkTracksHandles
<1>1. BootInv => SinkTracksHandles
  BY DEF BootInv, HandlePosition, SinkTracksHandles
<1>2. QED
  BY <1>1, BootInvariant, PTL

\* The only two ways for a handle to be left open when all is over.
THEOREM LeaksAreExplained == BootSpec => []LeakIsExplained
<1>1. BootInv => LeakIsExplained
  BY DEF BootInv, BootTypeOK, HandlePosition, StartPosition, LeakIsExplained,
         BootOver
<1>2. QED
  BY <1>1, BootInvariant, PTL

\* Start succeeds with everything open or fails with nothing left behind but,
\* possibly, a handle nobody was told of.
THEOREM StartIsAtomic == BootSpec => []StartIsAllOrNothing
<1>1. BootInv => StartIsAllOrNothing
  BY DEF BootInv, BootTypeOK, HandlePosition, StartPosition, StartIsAllOrNothing
<1>2. QED
  BY <1>1, BootInvariant, PTL

\* At every moment somebody has to close the handles, and knows them; a leak
\* takes an interrupted sink or an unread message.
THEOREM OwnershipIsClear == BootSpec => []HandlesAreOwned
<1>1. ReadMessageIsClosed /\ SinkTracksHandles /\ LeakIsExplained => HandlesAreOwned
  BY DEF HandlesAreOwned
<1>2. QED
  BY <1>1, ReadMessagesAreClosed, SinkTracksItsHandles, LeaksAreExplained, PTL
-----------------------------------------------------------------------------
(* The whole session.  Until Start has handed over, the ring is as it will *)
(* be found; from then on the bootstrap is over.                           *)

SessionInv ==
  /\ BootInv
  /\ RingInv
  /\ SuccessNotDowngraded
  /\ ~handedOver => Init

\* A session begins with both parts at their beginnings.
LEMMA SessionInvInit == SessionInit => SessionInv
  BY BootInvInit, RingInvInit DEF SessionInit, SessionInv, Init, SuccessNotDowngraded

\* What becomes of the sink when Start returns is a state the ring can begin in,
\* although Start does not look at the sink again: it may already have gone.
LEMMA HandOverInv ==
  ASSUME SessionInv, StartReturnsTrue
  PROVE  /\ SessionInv'
         /\ UNCHANGED Relay!relayVars
<1> USE DEF StartReturnsTrue, clientVars, gpu11Vars, gpu12Vars, bootVars, startVars,
            publishVars
<1>1. Init /\ RingInv
  BY DEF SessionInv
<1>2. bootPc \in {"published", "leaving", "exited"}
  BY DEF SessionInv, BootInv, BootTypeOK, SinkBootPcs, HandlePosition, StartPosition
<1>3. /\ sinkPc' \in {"setup", "leaving", "exited"}
      /\ outcome' \in {"running", "setup_failed", "crashed"}
      /\ sinkPc' = "setup" => outcome' = "running"
  BY <1>1, <1>2 DEF Init
<1>4. UNCHANGED <<parentAlive, phase, turn, submitted, issued, pressured,
                  cancelRequested, verdict, removed11, copied, ready, source,
                  transport, queued, doneQueued, removed12, consumed, done,
                  delivered>>
  OBVIOUS
<1>5. TypeOK'
  BY <1>1, <1>3, <1>4
  DEF RingInv, TypeOK, ClientTypeOK, Gpu11TypeOK, SinkTypeOK, Gpu12TypeOK,
      SinkPcs, Outcomes
<1>6. Pipeline'
  BY <1>1, <1>4 DEF RingInv, Pipeline
<1>7. SinkPosition' /\ ClientPosition'
  BY <1>1, <1>3, <1>4, ProtocolAssumption
  DEF RingInv, Init, SinkPosition, ClientPosition
<1>8. SourceStable' /\ TransportHeld' /\ DeliveredIntact'
  BY <1>1, <1>4
  DEF RingInv, SourceStable, TransportHeld, DeliveredIntact, MayBeWritten
<1>9. /\ PassIsEarned' /\ CancelledIsRequested' /\ NoUnsupervisedSink'
      /\ SuccessNotDowngraded'
  BY <1>1, <1>4
  DEF Init, PassIsEarned, CancelledIsRequested, NoUnsupervisedSink,
      SuccessNotDowngraded
<1>10. BootInv'
  BY DEF SessionInv, BootInv, BootTypeOK, HandlePosition, StartPosition
<1>11. UNCHANGED Relay!relayVars
  BY <1>4 DEF Relay!relayVars
<1>12. QED
  BY <1>5, <1>6, <1>7, <1>8, <1>9, <1>10, <1>11 DEF SessionInv, RingInv

\* A step of a session is one of Start and the sink's bootstrap, the hand-over,
\* or one of the ring.
LEMMA SessionSteps ==
  ASSUME SessionInv, [SessionNext]_sessionVars
  PROVE  \/ [BootNext]_bootVars /\ UNCHANGED <<vars, handedOver>>
         \/ StartReturnsTrue
         \/ [Next]_vars /\ UNCHANGED bootVars /\ handedOver /\ handedOver'
<1>1. CASE Booting(BootNext)
  BY <1>1 DEF Booting
<1>2. CASE Running(Next)
  BY <1>2 DEF Running
<1>3. CASE UNCHANGED sessionVars
  BY <1>3 DEF sessionVars
<1>4. QED
  BY <1>1, <1>2, <1>3 DEF SessionNext

\* Every step of a session preserves its invariant.
LEMMA SessionInvStep == SessionInv /\ [SessionNext]_sessionVars => SessionInv'
<1> SUFFICES ASSUME SessionInv, [SessionNext]_sessionVars
             PROVE  SessionInv'
  OBVIOUS
<1>1. CASE [BootNext]_bootVars /\ UNCHANGED <<vars, handedOver>>
  <2>1. BootInv'
    BY <1>1, BootInvStep DEF SessionInv
  <2>2. RingInv' /\ SuccessNotDowngraded'
    BY <1>1, RingInvStep, SuccessSteps DEF SessionInv
  <2>3. ~handedOver' => Init'
    BY <1>1
    DEF SessionInv, Init, vars, clientVars, gpu11Vars, sinkVars, gpu12Vars
  <2>4. QED
    BY <2>1, <2>2, <2>3 DEF SessionInv
<1>2. CASE StartReturnsTrue
  BY <1>2, HandOverInv
<1>3. CASE [Next]_vars /\ UNCHANGED bootVars /\ handedOver /\ handedOver'
  <2>1. BootInv'
    BY <1>3, BootInvStep DEF SessionInv
  <2>2. RingInv' /\ SuccessNotDowngraded'
    BY <1>3, RingInvStep, SuccessSteps DEF SessionInv
  <2>3. QED
    BY <1>3, <2>1, <2>2 DEF SessionInv
<1>4. QED
  BY <1>1, <1>2, <1>3, SessionSteps

\* The invariant of the two parts and of where they meet holds in every session.
THEOREM SessionInvariant == SessionSpec => []SessionInv
<1>1. SessionInit => SessionInv
  BY SessionInvInit
<1>2. SessionInv /\ [SessionNext]_sessionVars => SessionInv'
  BY SessionInvStep
<1>3. QED
  BY <1>1, <1>2, PTL DEF SessionSpec

\* In a whole session, from the launch of the sink to the verdict, the handles
\* are owned and Start keeps its promise.
THEOREM SessionOwnsHandles ==
  SessionSpec => []HandlesAreOwned /\ []StartIsAllOrNothing
<1>1. BootInv => HandlesAreOwned /\ StartIsAllOrNothing
  BY DEF BootInv, BootTypeOK, HandlePosition, StartPosition, HandlesAreOwned,
         ReadMessageIsClosed, SinkTracksHandles, LeakIsExplained, BootOver,
         StartIsAllOrNothing
<1>2. SessionInv => HandlesAreOwned /\ StartIsAllOrNothing
  BY <1>1 DEF SessionInv
<1>3. QED
  BY <1>2, SessionInvariant, PTL

\* In a whole session, also one whose sink was gone before Start returned, the
\* GPUs keep apart, frames stay intact and the verdict is true, and no sink is
\* left alone.
THEOREM SessionIsSound ==
  SessionSpec => /\ []SlotExclusive
                 /\ []FramesStayIntact
                 /\ []VerdictIsTrue
                 /\ []NoUnsupervisedSink
<1>1. SessionInv => /\ SlotExclusive /\ FramesStayIntact
                    /\ VerdictIsTrue /\ NoUnsupervisedSink
  BY RingSeparates DEF SessionInv, RingInv, FramesStayIntact, VerdictIsTrue
<1>2. QED
  BY <1>1, SessionInvariant, PTL

\* A whole session is a relay: none of the bootstrap can be seen in what it does
\* with the frames.
THEOREM SessionImplementsRelay == SessionSpec => ImplementsRelay
<1>1. SessionInit => Relay!Init
  BY RelayInit DEF SessionInit
<1>2. SessionInv /\ SessionInv' /\ [SessionNext]_sessionVars
        => [Relay!Next]_(Relay!relayVars)
  <2> SUFFICES ASSUME SessionInv, SessionInv', [SessionNext]_sessionVars
               PROVE  [Relay!Next]_(Relay!relayVars)
    OBVIOUS
  <2>1. CASE [Next]_vars
    BY <2>1, RelayStep DEF SessionInv
  <2>2. CASE StartReturnsTrue
    BY <2>2, HandOverInv
  <2>3. QED
    BY <2>1, <2>2, SessionSteps
<1>3. QED
  BY <1>1, <1>2, SessionInvariant, PTL DEF SessionSpec, ImplementsRelay, Relay!Spec
=============================================================================
