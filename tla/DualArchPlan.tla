---------------------------- MODULE DualArchPlan ----------------------------
(***************************************************************************)
(* What one run of the x86/x64 bridge probe is asked to do: the options    *)
(* of the x64 host, the exit code it expects of the x86 client, and the    *)
(* plan both loops follow - for every frame the slot, the fence timeline   *)
(* and the fence value, the payload the client writes, what the host's     *)
(* compute pass makes of it, and what the client accepts.                  *)
(*                                                                         *)
(* A pixel is a record: the frame whose seed it was drawn from, the alpha  *)
(* marker (0 and 1 name an eye, 2 is the opaque 255 of the other modes)    *)
(* and whether the colour is inverted.                                     *)
(***************************************************************************)
EXTENDS Integers, Sequences

CONSTANT
  FRAMES            \* kFramesPerGeneration

ASSUME FramesAssumption == FRAMES \in Nat \ {0}

Generations == 2                       \* kGenerationCount
Total == FRAMES * Generations
FrameId == 0 .. Total - 1
Slots == 0 .. 1

(***************************************************************************)
(* Options.  The host's command line, as its loop over the arguments       *)
(* leaves it.  Of the eight renderer switches, three differ from another   *)
(* one in the extents only.                                                *)
(***************************************************************************)
SetupNegatives == {"protocol", "adapter", "resource-contract", "format-open",
                   "format-contract"}
DeferredNegatives == {"dynamic-control", "client-termination", "device-removal"}
HostLossNegatives == {"host-termination", "backpressure-host-termination"}
Negatives ==
  SetupNegatives \cup DeferredNegatives \cup HostLossNegatives \cup {"host-stall"}

RelayRenderers == {"d3d9ex", "scene", "d3d10"}
Renderers == {"direct", "copy", "resolve", "convert"} \cup RelayRenderers

Options ==
  [negative : Negatives \cup {"none"}, depth : 0 .. 2, stereo : BOOLEAN,
   contamination : BOOLEAN, history : BOOLEAN, swap : BOOLEAN,
   renderer : Renderers]

\* The switches imply one another, and the last statement of parse refuses
\* the combinations that make no sense.
Parsed(o) ==
  /\ o.contamination \/ o.history => o.stereo
  /\ o.swap => o.history
  /\ o.negative = "none" \/ o.depth = 0
  /\ o.stereo => o.negative = "none" /\ o.depth = 0
  /\ o.renderer # "direct" => o.negative = "none" /\ o.depth = 0 /\ ~o.stereo

\* One negative is run over a ring of one slot, whatever was asked.
Effective(o) ==
  IF o.negative = "backpressure-host-termination" THEN [o EXCEPT !.depth = 1]
  ELSE o

Runs == { Effective(o) : o \in {p \in Options : Parsed(p)} }

Ring(o) == o.depth > 0
Replaces(o) == ~Ring(o) /\ ~o.stereo       \* the mode with two generations
Deferred(o) == o.negative \in DeferredNegatives
Timelines(o) == IF o.stereo THEN {0, 1} ELSE {0}

\* The command line of the client: what it is told of the run.  It is told
\* nothing of a deliberate stereo defect.
Arguments(o) ==
  [protocol |-> IF o.negative = "protocol" THEN "other" ELSE "mine",
   adapter |-> IF o.negative = "adapter" THEN "other" ELSE "mine",
   resource0 |-> CASE o.negative = "resource-contract" -> "other-extent"
                   [] o.negative = "format-contract" -> "other-format"
                   [] o.negative = "format-open" -> "not-shareable"
                   [] OTHER -> "as-described",
   second |-> o.depth = 2 \/ o.stereo,
   secondFence |-> o.stereo,
   expect |-> IF o.negative \in HostLossNegatives \cup {"host-stall"}
              THEN o.negative ELSE "none",
   depth |-> o.depth, stereo |-> o.stereo, history |-> o.history,
   renderer |-> o.renderer]

\* (mutant) the two versions of the protocol are not compared.
RefusalWithoutProtocol(a) ==
  CASE \/ (a.depth = 2 \/ a.stereo) /\ ~a.second
       \/ a.stereo /\ ~a.secondFence -> 2
    [] a.adapter # "mine" -> 5
    [] a.resource0 = "not-shareable" -> 8
    [] a.resource0 # "as-described" -> 9
    [] OTHER -> 0

\* The code with which the client refuses them, in the order of its checks;
\* 0 if it does not.
Refusal(a) ==
  CASE \/ (a.depth = 2 \/ a.stereo) /\ ~a.second
       \/ a.stereo /\ ~a.secondFence -> 2
    [] a.protocol # "mine" -> 3
    [] a.adapter # "mine" -> 5
    [] a.resource0 = "not-shareable" -> 8
    [] a.resource0 # "as-described" -> 9
    [] OTHER -> 0

\* The exit code the host expects of the client; 0 where it judges none.
Expected(o) ==
  CASE o.negative = "protocol" -> 3
    [] o.negative = "adapter" -> 5
    [] o.negative \in {"resource-contract", "format-contract"} -> 9
    [] o.negative = "format-open" -> 8
    [] o.negative = "host-stall" -> 17
    [] o.negative \in {"dynamic-control", "device-removal"} -> 19
    [] o.negative = "client-termination" -> 21
    [] OTHER -> IF o.contamination \/ o.swap THEN 25 ELSE 0

\* The resources the host creates before it launches the client.
FirstResources(o) == IF o.depth = 2 \/ o.stereo THEN {0, 1} ELSE {0}

(***************************************************************************)
(* The frame plan both sides follow without telling each other.            *)
(***************************************************************************)
Eye(n) == n % 2
Temporal(n) == n \div 2

Slot(o, n) ==
  IF Ring(o) THEN n % o.depth
  ELSE IF o.stereo THEN Eye(n) ELSE n \div FRAMES

Timeline(o, n) == IF o.stereo THEN Eye(n) ELSE 0

\* (mutant) the values start at zero, which every fence has from its creation.
FenceValueFromZero(o, n) == IF o.stereo THEN Temporal(n) ELSE n

FenceValue(o, n) == IF o.stereo THEN Temporal(n) + 1 ELSE n + 1

(***************************************************************************)
(* Pixels.                                                                 *)
(***************************************************************************)
Plain == 2
Pixel == [frame : FrameId \cup {-1}, marker : 0 .. 2, inv : BOOLEAN]
Blank == [frame |-> -1, marker |-> Plain, inv |-> FALSE]

Payload(o, n) ==
  [frame |-> n, marker |-> IF o.stereo THEN Eye(n) ELSE Plain, inv |-> FALSE]

Inverted(p) == [p EXCEPT !.inv = ~p.inv]

\* Which eye's history the compute pass of frame n is bound to.
HistoryOf(o, n) ==
  IF o.swap /\ Temporal(n) > 0 THEN 1 - Eye(n) ELSE Eye(n)

\* What the pass writes to the target of frame n, which held p, when the
\* bound history holds h.
Shaded(o, n, p, h) ==
  IF o.history THEN IF Temporal(n) = 0 THEN Inverted(p) ELSE h
  ELSE IF o.contamination THEN [Inverted(p) EXCEPT !.marker = 1]
  ELSE Inverted(p)

\* What the client must read back for frame n.
Wanted(o, n) ==
  LET seed == IF o.history THEN Eye(n) ELSE n IN
  Inverted(Payload(o, seed))

\* The client's comparison.  The scene renderer samples four points whose
\* colours are those of every frame.
LooksRight(o, n, p) ==
  IF o.renderer = "scene" THEN [p EXCEPT !.frame = n] = Wanted(o, n)
  ELSE p = Wanted(o, n)

Contaminated(o, n, p) == o.stereo /\ p.marker = 1 - Eye(n)

(***************************************************************************)
(* The client's commands for one frame.  A relay renderer draws on a       *)
(* second device (Direct3D 9Ex or 10.1) whose shared texture the D3D11     *)
(* device then blits; the others stay on the D3D11 context.                *)
(***************************************************************************)
Put(dst, s, p) == [op |-> "put", dst |-> dst, slot |-> s, pixel |-> p]
Copy(src, dst, s) == [op |-> "copy", src |-> src, dst |-> dst, slot |-> s]
Signal(t, v) == [op |-> "signal", timeline |-> t, value |-> v]
Wait(t, v) == [op |-> "wait", timeline |-> t, value |-> v]

LegacyWork(o, n) ==
  << Put("target", Slot(o, n), Payload(o, n)),
     Copy("target", "relay", Slot(o, n)) >>

Prepare(o, n) ==
  LET s == Slot(o, n)
      p == Payload(o, n)
  IN  CASE o.renderer \in RelayRenderers -> << Copy("relay", "shared", s) >>
        [] o.renderer = "resolve" ->
             << Put("upload", s, p), Copy("upload", "source", s),
                Copy("source", "shared", s) >>
        [] o.renderer \in {"copy", "convert"} ->
             << Put("source", s, p), Copy("source", "shared", s) >>
        [] OTHER -> << Put("shared", s, p) >>

\* (mutant) ready is signalled before the texture is prepared.
SubmissionSignalsFirst(o, n) ==
  << Signal(Timeline(o, n), FenceValue(o, n)) >> \o Prepare(o, n)

Submission(o, n) ==
  Append(Prepare(o, n), Signal(Timeline(o, n), FenceValue(o, n)))

\* (mutant) the readback does not wait for done.
ReadbackUnordered(o, n) == << Copy("shared", "staging", Slot(o, n)) >>

Readback(o, n) ==
  << Wait(Timeline(o, n), FenceValue(o, n)),
     Copy("shared", "staging", Slot(o, n)) >>
=============================================================================
