-------------------------- MODULE BridgeBootstrap ---------------------------
(***************************************************************************)
(* How a bridge session comes to be: Client::Start of the x86 process      *)
(* launches the x64 sink, which creates the shared objects, duplicates     *)
(* their handles into the parent and publishes them through a pipe; Start  *)
(* reads the message before a deadline and opens what it names.  Where     *)
(* Start returns true, BridgeRing begins.                                  *)
(*                                                                         *)
(* A handle the sink has duplicated is an entry of the PARENT's handle     *)
(* table: neither the end of the sink nor that of the pipe closes it.      *)
(* Somebody must own it: first the sink's rollback list, then the message, *)
(* then the client's OwnedBootstrapHandles.                                *)
(***************************************************************************)
EXTENDS Integers

CONSTANT BootstrapFaults  \* which failures of the environment may happen

AllBootstrapFaults ==
  {"start_error",      \* Start fails before it has launched the sink
   "sink_error",       \* a call of the sink fails
   "duplicate_error",  \* DuplicateHandle into the parent fails
   "sink_crash",       \* the sink process dies on its own
   "bad_contract",     \* the message does not match the client's options
   "open_error",       \* a shared object cannot be opened
   "slow_kill"}        \* TerminateProcess takes longer than 1 s

ASSUME BootstrapFaultAssumption == BootstrapFaults \subseteq AllBootstrapFaults

\* Shared textures 0 and 1 and the done fence, in the order of duplication.
Inventory == 0 .. 2

IsFirst(h, handles) == h \in handles /\ \A other \in handles : h <= other

VARIABLES
  startPc,   \* where Start is
  started,   \* what it will return
  expired,   \* the bootstrap deadline has passed
  readEnd,   \* the client holds the read end of the pipe
  opened,    \* shared objects the client has opened
  held,      \* handles in OwnedBootstrapHandles
  finished,  \* Impl::finished: the child's exit has been seen
  bootPc,
  tracked,   \* parent_handles, the sink's rollback list
  writeEnd,  \* somebody holds the write end of the pipe
  message,   \* the bootstrap message: "none", "written", "read"
  remote     \* open handles of the parent that the sink has duplicated

startVars == <<startPc, started, expired, readEnd, opened, held, finished>>
publishVars == <<bootPc, tracked, writeEnd>>
bootVars == <<startVars, publishVars, message, remote>>

StartPcs ==
  {"launch", "peek", "liveness", "contract", "open", "finish", "recheck",
   "terminate", "reap", "unwind", "returned"}
SinkBootPcs ==
  {"unborn", "create", "duplicate", "write", "rollback", "published",
   "leaving", "exited"}

BootTypeOK ==
  /\ startPc \in StartPcs
  /\ started \in BOOLEAN
  /\ expired \in BOOLEAN
  /\ readEnd \in BOOLEAN
  /\ opened \subseteq Inventory
  /\ held \subseteq Inventory
  /\ finished \in BOOLEAN
  /\ bootPc \in SinkBootPcs
  /\ tracked \subseteq Inventory
  /\ writeEnd \in BOOLEAN
  /\ message \in {"none", "written", "read"}
  /\ remote \subseteq Inventory

BootInit ==
  /\ startPc = "launch"
  /\ started = FALSE
  /\ expired = FALSE
  /\ readEnd = FALSE
  /\ opened = {}
  /\ held = {}
  /\ finished = FALSE
  /\ bootPc = "unborn"
  /\ tracked = {}
  /\ writeEnd = FALSE
  /\ message = "none"
  /\ remote = {}
-----------------------------------------------------------------------------
(* The client: Start.                                                      *)

StartMoves(from, to) ==
  /\ startPc = from
  /\ startPc' = to
  /\ UNCHANGED started

\* Arguments, interfaces, ready fence, pipe and process attributes; any of
\* them fails before there is a child.
StartFailsEarly ==
  /\ "start_error" \in BootstrapFaults
  /\ StartMoves("launch", "returned")
  /\ UNCHANGED <<expired, readEnd, opened, held, finished>>
  /\ UNCHANGED <<publishVars, message, remote>>

\* CreateProcess; the parent keeps no write end of its own.
StartLaunches ==
  /\ StartMoves("launch", "peek")
  /\ readEnd' = TRUE
  /\ bootPc' = "create"
  /\ writeEnd' = TRUE
  /\ UNCHANGED <<expired, opened, held, finished, tracked, message, remote>>

DeadlinePasses ==
  /\ startPc \in {"peek", "liveness"}
  /\ ~expired
  /\ expired' = TRUE
  /\ UNCHANGED <<startPc, started, readEnd, opened, held, finished>>
  /\ UNCHANGED <<publishVars, message, remote>>

\* (mutant) the deadline is looked at only when the pipe is broken.
ReadGivesUpWhenBroken ==
  /\ message = "none" /\ ~writeEnd
  /\ StartMoves("peek", "finish")
  /\ readEnd' = FALSE
  /\ UNCHANGED <<expired, opened, held, finished, publishVars, message, remote>>

\* The deadline, or a pipe that is broken: all writers gone, nothing in it.
ReadGivesUp ==
  /\ expired \/ (message = "none" /\ ~writeEnd)
  /\ StartMoves("peek", "finish")
  /\ readEnd' = FALSE
  /\ UNCHANGED <<expired, opened, held, finished, publishVars, message, remote>>

\* (mutant) the handles stay bare numbers, nobody's to close.
ReadSucceedsUnowned ==
  /\ ~expired
  /\ message = "written"
  /\ StartMoves("peek", "contract")
  /\ readEnd' = FALSE
  /\ message' = "read"
  /\ UNCHANGED <<expired, opened, held, finished, publishVars, remote>>

\* The message is there: ReadFile, and the handles in it have a new owner.
ReadSucceeds ==
  /\ ~expired
  /\ message = "written"
  /\ StartMoves("peek", "contract")
  /\ readEnd' = FALSE
  /\ message' = "read"
  /\ held' = Inventory
  /\ UNCHANGED <<expired, opened, finished, publishVars, remote>>

\* Nothing there yet: the loop goes on to look at the child.
PeekFindsNothing ==
  /\ ~expired
  /\ message = "none"
  /\ writeEnd
  /\ StartMoves("peek", "liveness")
  /\ UNCHANGED <<expired, readEnd, opened, held, finished>>
  /\ UNCHANGED <<publishVars, message, remote>>

\* A child that has exited since the peek ends the read, even if it has
\* written the message in between.
ReadChecksChild ==
  /\ StartMoves("liveness", IF bootPc = "exited" THEN "finish" ELSE "peek")
  /\ readEnd' = (bootPc # "exited")
  /\ UNCHANGED <<expired, opened, held, finished, publishVars, message, remote>>

ChecksContract ==
  /\ \/ StartMoves("contract", "open")
     \/ "bad_contract" \in BootstrapFaults /\ StartMoves("contract", "finish")
  /\ UNCHANGED <<expired, readEnd, opened, held, finished>>
  /\ UNCHANGED <<publishVars, message, remote>>

\* OpenSharedResource1 for each texture, OpenSharedFence: in order, and from
\* handles that are still open.
OpensNext ==
  /\ \E h \in remote :
       IsFirst(h, Inventory \ opened) /\ opened' = opened \cup {h}
  /\ startPc = "open"
  /\ IF opened' = Inventory
     THEN startPc' = "unwind" /\ started' = TRUE
     ELSE UNCHANGED <<startPc, started>>
  /\ UNCHANGED <<expired, readEnd, held, finished, publishVars, message, remote>>

OpenFails ==
  /\ "open_error" \in BootstrapFaults
  /\ StartMoves("open", "finish")
  /\ UNCHANGED <<expired, readEnd, opened, held, finished>>
  /\ UNCHANGED <<publishVars, message, remote>>

\* (mutant) a failed Start leaves the child to its fate.
ShutdownInStartLeavesChild ==
  /\ StartMoves("finish", "unwind")
  /\ opened' = {}
  /\ UNCHANGED <<finished, bootPc, writeEnd>>

\* Shutdown(true): FinishIfExited, the second look, TerminateProcess, the wait
\* of 1000 ms; ReleaseGpuObjects at the end of each path.
ShutdownInStart ==
  \/ /\ StartMoves("finish", IF bootPc = "exited" THEN "unwind" ELSE "recheck")
     /\ finished' = (bootPc = "exited")
     /\ opened' = IF bootPc = "exited" THEN {} ELSE opened
     /\ UNCHANGED <<bootPc, writeEnd>>
  \/ /\ StartMoves("recheck", IF bootPc = "exited" THEN "unwind" ELSE "terminate")
     /\ opened' = IF bootPc = "exited" THEN {} ELSE opened
     /\ UNCHANGED <<finished, bootPc, writeEnd>>
  \/ /\ StartMoves("terminate", "reap")
     /\ bootPc' = IF bootPc = "exited" THEN bootPc ELSE "leaving"
     /\ UNCHANGED <<finished, opened, writeEnd>>
  \/ /\ bootPc = "exited" \/ "slow_kill" \in BootstrapFaults
     /\ StartMoves("reap", "unwind")
     /\ finished' = (bootPc = "exited")
     /\ opened' = {}
     /\ UNCHANGED <<bootPc, writeEnd>>

StartShutsDown ==
  /\ ShutdownInStart
  /\ UNCHANGED <<expired, readEnd, held, tracked, message, remote>>

\* Start returns: the destructor of OwnedBootstrapHandles closes what it has.
StartReturnsNow ==
  /\ StartMoves("unwind", "returned")
  /\ remote' = remote \ held
  /\ held' = {}
  /\ UNCHANGED <<expired, readEnd, opened, finished, publishVars, message>>

StartStep ==
  \/ StartFailsEarly \/ StartLaunches \/ ReadGivesUp \/ ReadSucceeds
  \/ PeekFindsNothing \/ ReadChecksChild \/ ChecksContract \/ OpensNext
  \/ OpenFails \/ StartShutsDown \/ StartReturnsNow
-----------------------------------------------------------------------------
(* The sink: run_multiframe up to the publication.                         *)

SinkBootMoves(from, to) ==
  /\ bootPc = from
  /\ bootPc' = to
  /\ UNCHANGED startVars

SinkBootFails == "sink_error" \in BootstrapFaults

\* Device, textures, fence, OpenProcess of the parent.
SinkCreates ==
  /\ \/ SinkBootMoves("create", "duplicate")
     \/ SinkBootFails /\ SinkBootMoves("create", "leaving")
  /\ UNCHANGED <<tracked, writeEnd, message, remote>>

\* duplicate_to_parent of the next handle.
SinkDuplicates ==
  \/ /\ \E h \in Inventory :
          /\ IsFirst(h, Inventory \ tracked)
          /\ tracked' = tracked \cup {h}
          /\ remote' = remote \cup {h}
     /\ SinkBootMoves("duplicate",
                      IF tracked' = Inventory THEN "write" ELSE "duplicate")
     /\ UNCHANGED <<writeEnd, message>>
  \/ /\ "duplicate_error" \in BootstrapFaults
     /\ SinkBootMoves("duplicate", "rollback")
     /\ UNCHANGED <<tracked, writeEnd, message, remote>>

\* WriteFile and CloseHandle of the write end: the write fails when nobody
\* holds the read end any more.
SinkWrites ==
  /\ \/ /\ readEnd
        /\ SinkBootMoves("write", "published")
        /\ message' = "written"
        /\ tracked' = {}
     \/ /\ ~readEnd \/ SinkBootFails
        /\ SinkBootMoves("write", "rollback")
        /\ UNCHANGED <<message, tracked>>
  /\ writeEnd' = FALSE
  /\ UNCHANGED remote

\* (mutant) duplicated back without DUPLICATE_CLOSE_SOURCE.
SinkRollsBackCopies ==
  /\ \/ \E h \in tracked :
          IsFirst(h, tracked) /\ tracked' = tracked \ {h}
     \/ tracked = {} /\ UNCHANGED tracked
  /\ SinkBootMoves("rollback", IF tracked = {} THEN "leaving" ELSE "rollback")
  /\ UNCHANGED <<remote, writeEnd, message>>

\* rollback_parent_handles: one handle after the other, then the return.
SinkRollsBack ==
  /\ \/ /\ \E h \in tracked :
             /\ IsFirst(h, tracked)
             /\ tracked' = tracked \ {h}
             /\ remote' = remote \ {h}
        /\ SinkBootMoves("rollback", "rollback")
     \/ /\ tracked = {}
        /\ SinkBootMoves("rollback", "leaving")
        /\ UNCHANGED <<tracked, remote>>
  /\ UNCHANGED <<writeEnd, message>>

\* After the publication: the ring, or a failure to get to it.
SinkEndsLater ==
  /\ SinkBootFails
  /\ SinkBootMoves("published", "leaving")
  /\ UNCHANGED <<tracked, writeEnd, message, remote>>

SinkGone ==
  /\ SinkBootMoves("leaving", "exited")
  /\ writeEnd' = FALSE
  /\ UNCHANGED <<tracked, message, remote>>

SinkBootStep ==
  \/ SinkCreates \/ SinkDuplicates \/ SinkWrites \/ SinkRollsBack
  \/ SinkEndsLater \/ SinkGone

SinkBootCrashes ==
  /\ "sink_crash" \in BootstrapFaults
  /\ bootPc \notin {"unborn", "leaving", "exited"}
  /\ bootPc' = "exited"
  /\ writeEnd' = FALSE
  /\ UNCHANGED <<startVars, tracked, message, remote>>
-----------------------------------------------------------------------------
BootNext == StartStep \/ DeadlinePasses \/ SinkBootStep \/ SinkBootCrashes

BootSpec == BootInit /\ [][BootNext]_bootVars

(***************************************************************************)
(* Only the client's thread and its clock are assumed to run, and a        *)
(* process that is being terminated to end.  The sink may hang anywhere.   *)
(***************************************************************************)
BootFairness ==
  /\ WF_bootVars(StartStep)
  /\ WF_bootVars(DeadlinePasses)
  /\ WF_bootVars(SinkGone)

FairBootSpec == BootSpec /\ BootFairness
-----------------------------------------------------------------------------
\* The sink is gone, and Start has returned.
BootOver == startPc = "returned" /\ bootPc \in {"unborn", "exited"}

\* A message that is read is never a leak: whatever fails afterwards, when
\* Start returns none of the three handles is open any more
\* (docs/internal/AUDIT_2026-09-30.md:83, the client's half).
ReadMessageIsClosed ==
  startPc = "returned" /\ message = "read" => remote = {}

\* While the sink runs and has not published, each handle it has put into the
\* parent is on its rollback list (AUDIT_2026-09-30.md:83, the sink's half), and
\* a rollback that has run to its end leaves nothing behind.
SinkTracksHandles ==
  bootPc \in {"create", "duplicate", "write", "rollback"} => remote = tracked

\* A leak needs one of two things: a sink that did not get to the end of its
\* publication or rollback, or a message nobody read.
LeakIsExplained ==
  BootOver /\ remote # {} => ~started /\ (tracked # {} \/ message = "written")

\* The three together: who has to close the handles is known at every moment,
\* and a leak has one of two causes.
HandlesAreOwned == ReadMessageIsClosed /\ SinkTracksHandles /\ LeakIsExplained

\* Start returns true only with all the shared objects open and all the bare
\* handles closed, and false only with none open and the child on its way out.
StartIsAllOrNothing ==
  startPc = "returned" =>
    IF started THEN opened = Inventory /\ remote = {} /\ ~finished
    ELSE opened = {} /\ bootPc \in {"unborn", "leaving", "exited"}

\* What the audit says of the handles of a failed bootstrap: their ownership is
\* explicit, and none stays open (docs/internal/AUDIT_2026-09-30.md:81-83).
NoLeakedHandles == BootOver => remote = {}

\* Start blocks its caller, a Present, for a bounded time only, even if the sink
\* hangs before it has published anything.
StartAlwaysReturns == <>(startPc = "returned")
-----------------------------------------------------------------------------
(* The inductive invariant behind the safety properties.                   *)

\* Who has the handles: before the publication the sink, from the read to the
\* return of Start the client.
HandlePosition ==
  /\ bootPc \in {"unborn", "create", "duplicate", "write", "rollback"} =>
       message = "none"
  /\ message = "none" => remote = tracked
  /\ message # "read" => held = {}
  /\ message = "read" => held = IF startPc = "returned" THEN {} ELSE Inventory
  /\ message = "read" /\ startPc = "returned" => remote = {}

StartPosition ==
  /\ startPc \in {"launch", "peek", "liveness"} => message # "read"
  /\ startPc = "launch" => bootPc = "unborn"
  /\ bootPc = "unborn" => startPc \in {"launch", "returned"}
  /\ startPc \in {"launch", "peek", "liveness", "contract"} => opened = {}
  /\ startPc \in {"contract", "open"} => message = "read"
  /\ startPc \in StartPcs \ {"reap", "unwind", "returned"} => ~finished
  /\ startPc = "reap" => bootPc \in {"leaving", "exited"}
  /\ startPc \in {"unwind", "returned"} /\ ~started =>
       opened = {} /\ bootPc \in {"unborn", "leaving", "exited"}
  /\ started =>
       /\ startPc \in {"unwind", "returned"}
       /\ opened = Inventory
       /\ message = "read"
       /\ ~finished

BootInv == BootTypeOK /\ HandlePosition /\ StartPosition
=============================================================================
