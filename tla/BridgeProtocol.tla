--------------------------- MODULE BridgeProtocol ---------------------------
(***************************************************************************)
(* The pure rules both processes of the real bridge share:                 *)
(* src/d3d9_real_bridge_probe/protocol.h (fence values, ring reuse, the    *)
(* removed-device sentinel) and completion.h (the verdict of a session).   *)
(*                                                                         *)
(* A fence value is a 64-bit unsigned number.  UINT64_MAX, which a fence   *)
(* of a removed device reports, is the constant Sentinel: a number larger  *)
(* than every value the protocol signals, so that a comparison that        *)
(* forgets to reject it succeeds, as it would in the code.                 *)
(***************************************************************************)
EXTENDS Integers

CONSTANTS
  Frames,     \* frames of one session (ClientOptions::frames)
  RingDepth,  \* shared transport slots (kRingDepth)
  Sentinel    \* UINT64_MAX

ASSUME ProtocolAssumption ==
  /\ RingDepth \in Nat \ {0}
  /\ Frames \in Nat
  /\ Frames >= RingDepth        \* Client::Start refuses fewer frames
  /\ Sentinel \in Nat
  /\ Sentinel > Frames

Frame == 0 .. Frames - 1
Slot  == 0 .. RingDepth - 1

SlotOf(frame) == frame % RingDepth

ReadyValue(frame) == frame + 1
DoneValue(frame)  == frame + 1

\* (mutants) one frame too early; the frame that is about to be sent itself.
ReuseDoneValueTooEarly(submitted) ==
  IF submitted < RingDepth THEN 0 ELSE submitted - RingDepth
ReuseDoneValueOfItself(submitted) ==
  IF submitted < RingDepth THEN 0 ELSE DoneValue(submitted)

\* The done value that frees the slot of the next frame; 0: never used before.
ReuseDoneValue(submitted) ==
  IF submitted < RingDepth THEN 0 ELSE DoneValue(submitted - RingDepth)

\* (mutant) the sentinel of a removed device counts as progress.
FenceReachedOrRemoved(completed, target) == completed >= target

FenceReached(completed, target) ==
  /\ completed # Sentinel
  /\ completed >= target

PressureRequirementSatisfied(initialStall, pressured) ==
  \/ ~initialStall
  \/ Frames <= RingDepth
  \/ pressured

CancelledChildExitCode == 90

Verdicts == {"pass", "cancelled", "fail"}

\* (mutants) a requested cancellation decides before the child's own result;
\* an exit code 90 nobody asked for counts as a cancellation.
ClassifyCancelFirst(cancelRequested, childExit, submitted, doneReached) ==
  IF cancelRequested
  THEN "cancelled"
  ELSE IF childExit = 0 /\ submitted = Frames /\ doneReached
       THEN "pass" ELSE "fail"
ClassifyAnyKill(cancelRequested, childExit, submitted, doneReached) ==
  IF childExit = 0 /\ submitted = Frames /\ doneReached
  THEN "pass"
  ELSE IF childExit = CancelledChildExitCode THEN "cancelled" ELSE "fail"

ClassifyCompletion(cancelRequested, childExit, submitted, doneReached) ==
  IF childExit = 0 /\ submitted = Frames /\ doneReached
  THEN "pass"
  ELSE IF cancelRequested /\ childExit = CancelledChildExitCode
       THEN "cancelled"
       ELSE "fail"
=============================================================================
