----------------------------- MODULE FrameRelay -----------------------------
(***************************************************************************)
(* What the real bridge promises to the renderer that feeds it, with no    *)
(* fence, no process and no GPU in sight: frames go in one by one, at most *)
(* Depth of them are inside at any time, the far side receives each of     *)
(* them exactly once, in order and unaltered, and the session gets at most *)
(* one verdict, "pass" only when every frame has arrived.                  *)
(***************************************************************************)
EXTENDS Integers

CONSTANTS Frames, Depth

NothingReceived == -1

VARIABLES
  sent,      \* number of frames handed over
  arrived,   \* number of frames received
  received,  \* received[f]: the content received as frame f
  verdict    \* "none" until the session is judged

relayVars == <<sent, arrived, received, verdict>>

Init ==
  /\ sent = 0
  /\ arrived = 0
  /\ received = [f \in 0 .. Frames - 1 |-> NothingReceived]
  /\ verdict = "none"

Send ==
  /\ verdict = "none"
  /\ sent < Frames
  /\ sent - arrived < Depth
  /\ sent' = sent + 1
  /\ UNCHANGED <<arrived, received, verdict>>

Receive ==
  /\ arrived < sent
  /\ arrived' = arrived + 1
  /\ received' = [received EXCEPT ![arrived] = arrived]
  /\ UNCHANGED <<sent, verdict>>

Judge(v) ==
  /\ verdict = "none"
  /\ v = "pass" => arrived = Frames
  /\ verdict' = v
  /\ UNCHANGED <<sent, arrived, received>>

Next ==
  \/ Send
  \/ Receive
  \/ \E v \in {"pass", "cancelled", "fail"} : Judge(v)

Spec == Init /\ [][Next]_relayVars
=============================================================================
