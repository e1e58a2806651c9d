--------------------------- MODULE DualArchProofs ---------------------------
(***************************************************************************)
(* Proofs about DualArch, for every number of frames in a generation, every *)
(* set of runs and any number of faults.                                    *)
(***************************************************************************)
EXTENDS DualArch, FiniteSetTheorems, TLAPS

(***************************************************************************)
(* The options.                                                            *)
(***************************************************************************)
\* What the parser of the command line leaves of the options.
Consistent(r) ==
  /\ r \in Options
  /\ r.contamination \/ r.history \/ r.swap => r.stereo
  /\ r.swap => r.history
  /\ r.stereo => r.negative = "none" /\ r.depth = 0 /\ r.renderer = "direct"
  /\ r.renderer # "direct" => r.negative = "none" /\ r.depth = 0
  /\ r.negative \notin {"none", "backpressure-host-termination"} => r.depth = 0
  /\ r.negative = "backpressure-host-termination" => r.depth = 1

LEMMA RunsAreConsistent == ASSUME NEW r \in Runs PROVE Consistent(r)
<1>1. PICK p \in Options : Parsed(p) /\ r = Effective(p)
  BY DEF Runs
<1>2. CASE p.negative = "backpressure-host-termination"
  <2>1. r = [p EXCEPT !.depth = 1]
    BY <1>1, <1>2 DEF Effective
  <2>2. r \in Options
    BY <1>1, <2>1 DEF Options
  <2>3. QED
    BY <1>1, <1>2, <2>1, <2>2 DEF Consistent, Parsed, Options
<1>3. CASE p.negative # "backpressure-host-termination"
  BY <1>1, <1>3 DEF Consistent, Parsed, Options, Effective
<1>4. QED
  BY <1>2, <1>3

(***************************************************************************)
(* The frame plan: slots, timelines, fence values.                         *)
(***************************************************************************)
LEMMA Halves ==
  ASSUME NEW n \in Nat
  PROVE  /\ n % 2 \in 0 .. 1 /\ n \div 2 \in Nat
         /\ n = 2 * (n \div 2) + (n % 2)
  OBVIOUS

\* The division of the frames into two generations.
LEMMA GenerationOf ==
  ASSUME NEW n \in FrameId
  PROVE  n \div FRAMES = IF n < FRAMES THEN 0 ELSE 1
<1>1. FRAMES \in Nat /\ FRAMES > 0 /\ n \in Nat /\ n < FRAMES + FRAMES
  BY FramesAssumption DEF FrameId, Total, Generations
<1>2. CASE n < FRAMES
  BY <1>1, <1>2
<1>3. CASE n >= FRAMES
  BY <1>1, <1>3
<1>4. QED
  BY <1>1, <1>2, <1>3

LEMMA FrameIdIsNat == FrameId \subseteq Nat /\ FRAMES \in Nat /\ FRAMES > 0
                      /\ Total = 2 * FRAMES /\ Total \in Nat
                      /\ \A n : n \in FrameId <=> n \in Nat /\ n < Total
<1>1. FRAMES \in Nat /\ FRAMES > 0
  BY FramesAssumption
<1>2. Total = 2 * FRAMES
  BY <1>1 DEF Total, Generations
<1>3. QED
  BY <1>1, <1>2 DEF FrameId

\* Slots are those of the ring, the eyes or the generations; two frames less
\* than a ring apart have different ones.
LEMMA SlotFacts ==
  ASSUME NEW r, Consistent(r), NEW n \in FrameId
  PROVE  /\ Slot(r, n) \in FirstResources(r) \cup {0, 1}
         /\ Slot(r, n) \in Slots
         /\ ~Replaces(r) => Slot(r, n) \in FirstResources(r)
         /\ Replaces(r) => Slot(r, n) = IF n < FRAMES THEN 0 ELSE 1
         /\ Ring(r) /\ r.depth = 2 /\ n + 1 \in FrameId => Slot(r, n) # Slot(r, n + 1)
<1>1. n \in Nat /\ n + 1 \in Nat
  BY FrameIdIsNat
<1>2. r.depth \in 0 .. 2 /\ r.stereo \in BOOLEAN
  BY DEF Consistent, Options
<1>3. CASE r.depth = 2
  <2>1. Slot(r, n) = n % 2 /\ Slot(r, n + 1) = (n + 1) % 2
    BY <1>3 DEF Slot, Ring
  <2>2. FirstResources(r) = {0, 1}
    BY <1>3 DEF FirstResources
  <2>3. ~Replaces(r)
    BY <1>3 DEF Replaces, Ring
  <2>4. n % 2 \in {0, 1} /\ n % 2 # (n + 1) % 2
    BY <1>1
  <2>5. QED
    BY <2>1, <2>2, <2>3, <2>4 DEF Slots
<1>4. CASE r.depth = 1
  <2>1. Slot(r, n) = n % 1
    BY <1>4 DEF Slot, Ring
  <2>2. n % 1 = 0
    BY <1>1
  <2>3. ~Replaces(r) /\ 0 \in FirstResources(r)
    BY <1>4 DEF Replaces, Ring, FirstResources
  <2>4. QED
    BY <1>4, <2>1, <2>2, <2>3 DEF Slots
<1>5. CASE r.depth = 0 /\ r.stereo
  <2>1. Slot(r, n) = n % 2 /\ FirstResources(r) = {0, 1}
    BY <1>5 DEF Slot, Ring, Eye, FirstResources
  <2>2. ~Replaces(r) /\ ~Ring(r)
    BY <1>5 DEF Replaces, Ring
  <2>3. n % 2 \in {0, 1}
    BY <1>1
  <2>4. QED
    BY <2>1, <2>2, <2>3 DEF Slots
<1>6. CASE r.depth = 0 /\ ~r.stereo
  <2>1. Slot(r, n) = IF n < FRAMES THEN 0 ELSE 1
    BY <1>6, GenerationOf DEF Slot, Ring
  <2>2. Replaces(r) /\ ~Ring(r)
    BY <1>6 DEF Replaces, Ring
  <2>3. QED
    BY <2>1, <2>2 DEF Slots
<1>7. QED
  BY <1>2, <1>3, <1>4, <1>5, <1>6

\* On one timeline the fence values are in the order of the frames.
LEMMA FenceFacts ==
  ASSUME NEW r, Consistent(r), NEW n \in FrameId
  PROVE  /\ Timeline(r, n) \in Slots
         /\ FenceValue(r, n) \in 1 .. Total
         /\ ~r.stereo => Timeline(r, n) = 0 /\ FenceValue(r, n) = n + 1
         /\ \A m \in FrameId : Timeline(r, m) = Timeline(r, n)
              => (FenceValue(r, m) >= FenceValue(r, n) <=> n <= m)
<1>1. n \in Nat /\ Total \in Nat /\ n < Total
  BY FrameIdIsNat
<1>2. CASE r.stereo
  <2>1. /\ Timeline(r, n) = n % 2 /\ FenceValue(r, n) = (n \div 2) + 1
        /\ \A m : Timeline(r, m) = m % 2 /\ FenceValue(r, m) = (m \div 2) + 1
    BY <1>2 DEF Timeline, FenceValue, Eye, Temporal
  <2>2. n % 2 \in 0 .. 1 /\ (n \div 2) + 1 \in 1 .. Total
    BY <1>1
  <2>3. ASSUME NEW m \in FrameId, m % 2 = n % 2
        PROVE  (m \div 2) + 1 >= (n \div 2) + 1 <=> n <= m
    <3>1. m \in Nat
      BY FrameIdIsNat
    <3>2. QED
      BY <1>1, <2>3, <3>1
  <2>4. QED
    BY <1>2, <2>1, <2>2, <2>3 DEF Slots
<1>3. CASE ~r.stereo
  <2>1. \A m : Timeline(r, m) = 0 /\ FenceValue(r, m) = m + 1
    BY <1>3 DEF Timeline, FenceValue
  <2>2. QED
    BY <1>1, <2>1, FrameIdIsNat DEF Slots
<1>4. QED
  BY <1>2, <1>3

\* The pixels a frame is drawn with and turned into are pixels.
LEMMA PixelFacts ==
  ASSUME NEW r, Consistent(r), NEW n \in FrameId
  PROVE  /\ Payload(r, n) \in Pixel /\ Payload(r, n).frame = n
         /\ Payload(r, n).inv = FALSE
         /\ Inverted(Payload(r, n)) \in Pixel
<1>1. n % 2 \in 0 .. 1
  BY FrameIdIsNat
<1>2. Payload(r, n) \in Pixel /\ Payload(r, n).frame = n /\ Payload(r, n).inv = FALSE
  BY <1>1 DEF Payload, Pixel, Eye, Plain
<1>3. QED
  BY <1>2 DEF Inverted, Pixel

(***************************************************************************)
(* The inductive invariant, in parts.                                      *)
(***************************************************************************)
HostSteps == {"launch", "open", "await", "record", "replace", "resolve",
              "judge", "ended"}
ClientSteps == {"none", "start", "publish", "probe-host", "probe-stall",
                "await-host", "await-host-again", "await-stall", "frames",
                "relay", "map", "read", "ended"}

\* The runs in which the client submits no frame.
Early == o.negative \in SetupNegatives \cup {"host-termination", "host-stall"}

\* The positions in which the client has opened its textures and not yet ended.
Working == cpc \notin {"none", "start", "ended"}

\* Where the host is, how far its queue, and what it holds.
HostPosition ==
  /\ hpc \in HostSteps /\ hexit \in -1 .. 31
  /\ hexit = Running <=> hpc # "ended"
  /\ recorded \in 0 .. Total /\ dispatched \in 0 .. recorded
  /\ dispatching \in BOOLEAN
  /\ dispatching => HostAlive /\ dispatched < recorded
  /\ hpc \in {"launch", "open", "await"} => recorded = 0
  /\ Early \/ o.negative \in HostLossNegatives =>
       recorded = 0 /\ hpc \notin {"record", "replace", "resolve"}
  /\ hpc = "open" => o.negative \notin SetupNegatives \cup {"host-stall"}
  /\ hpc = "await" => o.negative \in HostLossNegatives
  /\ hpc = "judge" => o.negative \notin HostLossNegatives
  /\ hpc = "resolve" => recorded = Total
  /\ hpc = "judge" /\ o.negative = "none" => dispatched = Total
  /\ Deferred(o) =>
       /\ recorded <= FRAMES /\ hpc # "resolve"
       /\ hpc \in {"replace", "judge"} => dispatched = FRAMES
  /\ message \in {NoMessage, 1, 2}
  /\ message = 1 => ~Deferred(o)

HostHolds ==
  /\ hostRes \subseteq Slots
  /\ ~Replaces(o) => hostRes = FirstResources(o) /\ hpc # "replace"
  /\ Replaces(o) /\ HostAlive =>
       \/ /\ hostRes = {0} /\ recorded <= FRAMES
          /\ hpc \notin {"replace", "resolve"}
       \/ /\ hostRes = {} /\ recorded = FRAMES /\ dispatched = FRAMES
          /\ hpc \in {"replace", "judge"}
       \/ /\ hostRes = {1} /\ recorded >= FRAMES /\ dispatched >= FRAMES
          /\ hpc \in {"record", "resolve", "judge"}
          /\ Deferred(o) => hpc = "judge"

\* Frames the client may have submitted and not validated.
Room == IF Ring(o) THEN o.depth ELSE 1

\* Where the client is and how far.
ClientPosition ==
  /\ cpc \in ClientSteps /\ cexit \in -1 .. 28
  /\ cexit = Running <=> cpc # "ended"
  /\ hpc = "launch" => cpc = "none"
  /\ cpc = "none" => hpc \in {"launch", "ended"}
  /\ submitted \in 0 .. Total /\ completed \in 0 .. submitted
  /\ submitted <= completed + Room
  /\ cpc \in {"none", "start", "publish", "probe-host", "probe-stall"} => submitted = 0
  /\ cpc = "map" => completed < submitted
  /\ ~Ring(o) /\ cpc \notin {"map", "ended"} => submitted = completed
  /\ cpc = "relay" => /\ o.renderer \in RelayRenderers
                      /\ submitted < Total /\ ~AtGeneration
  /\ Early => submitted = 0 /\ cpc \notin {"frames", "relay", "map", "read"}
  /\ o.negative \in SetupNegatives => cpc \in {"none", "start", "ended"}
  /\ cpc \in {"await-host", "await-host-again"} => o.negative \in HostLossNegatives
  /\ cpc = "probe-host" => o.negative = "host-termination"
  /\ cpc \in {"probe-stall", "await-stall"} => o.negative = "host-stall"
  /\ o.negative = "backpressure-host-termination" =>
       /\ submitted <= 1 /\ completed = 0
       /\ cpc \notin {"relay", "map", "read"}
  /\ reuseWaits \in 0 .. submitted /\ maxInFlight \in 0 .. submitted
  /\ cpc = "frames" => reuseWaits <= completed
  /\ cpc = "map" => reuseWaits <= completed + 1
  /\ mismatched \in 0 .. completed /\ contaminated \in 0 .. completed

ClientHolds ==
  /\ clientRes \subseteq Slots
  /\ Working /\ ~Replaces(o) => clientRes = FirstResources(o)
  /\ cpc = "read" => Replaces(o)
  /\ Working /\ Replaces(o) =>
       \/ clientRes = {0} /\ submitted <= FRAMES /\ cpc # "read"
       \/ clientRes = {} /\ submitted = FRAMES /\ cpc = "read"
       \/ /\ clientRes = {1} /\ submitted >= FRAMES
          /\ cpc \in {"frames", "relay", "map"}
          /\ cpc = "map" => submitted > FRAMES
  /\ Replaces(o) /\ (submitted > FRAMES \/ (Working /\ 1 \in clientRes)) => message = 1

\* The k-th command of a frame's submission, counted from its end.
WorkLength(r) ==
  CASE r.renderer = "resolve" -> 4
    [] r.renderer \in {"copy", "convert"} -> 3
    [] OTHER -> 2

Work(r, n, k) ==
  LET s == Slot(r, n)
      p == Payload(r, n)
  IN  CASE k = 0 -> Signal(Timeline(r, n), FenceValue(r, n))
        [] k = 1 -> IF r.renderer \in RelayRenderers THEN Copy("relay", "shared", s)
                    ELSE IF r.renderer \in {"resolve", "copy", "convert"}
                         THEN Copy("source", "shared", s)
                    ELSE Put("shared", s, p)
        [] k = 2 -> IF r.renderer = "resolve" THEN Copy("upload", "source", s)
                    ELSE Put("source", s, p)
        [] OTHER -> Put("upload", s, p)

\* The command with k submission commands behind it in the client's queue.
Pending(k) ==
  IF Ring(o) /\ k > 1 THEN Work(o, submitted - 2, k - 2)
  ELSE Work(o, submitted - 1, k)

\* Submission commands the client's queue has not executed.
Unsent == IF cpc = "map" THEN Len(cq) - 2 ELSE Len(cq)

\* Frames whose ready value is signalled, frames whose texture is written.
Signalled ==
  IF Unsent <= 0 THEN submitted
  ELSE IF Unsent <= 2 \/ ~Ring(o) THEN submitted - 1 ELSE submitted - 2
Prepared ==
  IF Unsent <= 1 THEN submitted
  ELSE IF Unsent <= 3 \/ ~Ring(o) THEN submitted - 1 ELSE submitted - 2

\* The command with k commands behind it.
Program(k) ==
  IF cpc # "map" THEN Pending(k)
  ELSE IF k = 0 THEN Copy("shared", "staging", Slot(o, completed))
  ELSE IF k = 1 THEN Wait(Timeline(o, completed), FenceValue(o, completed))
  ELSE Pending(k - 2)

\* What the client's queue holds.
QueueForm ==
  /\ cq \in Seq(Command)
  /\ cpc \in {"none", "start", "publish", "probe-host", "probe-stall", "relay",
              "read", "ended"} => cq = << >>
  /\ ~Ring(o) /\ cpc = "frames" => cq = << >>
  /\ Early => cq = << >> \/ cq = << Signal(0, 1) >>
  /\ ~Early =>
       /\ \A i \in 1 .. Len(cq) : cq[i] = Program(Len(cq) - i)
       /\ Unsent <= IF Ring(o) THEN 2 * (submitted - completed) ELSE WorkLength(o)

\* What the queue of its second device holds.
RelayForm ==
  /\ lq \in Seq(Command)
  /\ lq # << >> => cpc = "relay"
  /\ Len(lq) <= 2
  /\ lq # << >> => lq[Len(lq)] = Copy("target", "relay", Slot(o, submitted))
  /\ Len(lq) = 2 => lq[1] = Put("target", Slot(o, submitted), Payload(o, submitted))

\* The values of the fences say how far the other side has come.
FencesTell ==
  /\ ready \in [Slots -> 0 .. Woken] /\ done \in [Slots -> 0 .. Woken]
  /\ HostAlive => \A n \in FrameId :
       done[Timeline(o, n)] >= FenceValue(o, n) <=> n < dispatched
  /\ cpc # "ended" /\ ~Early => \A n \in FrameId :
       ready[Timeline(o, n)] >= FenceValue(o, n) <=> n < Signalled

\* The host is behind the client's signals, the client behind the host's.
InOrder ==
  /\ cpc # "ended" /\ ~Early =>
       dispatched <= Signalled /\ (dispatching => dispatched < Signalled)
  /\ HostAlive => completed <= dispatched
  /\ HostAlive /\ cpc = "map" /\ Len(cq) <= 1 => completed < dispatched

\* What the host makes of frame n.
Result(r, n) ==
  IF r.history THEN Inverted(Payload(r, HistoryOf(r, n)))
  ELSE IF r.contamination THEN [Inverted(Payload(r, n)) EXCEPT !.marker = 1]
  ELSE Inverted(Payload(r, n))

\* What the textures hold.
Contents ==
  /\ tex \in [Textures -> [Slots -> Pixel]] /\ history \in [Slots -> Pixel]
  /\ cpc # "ended" =>
       /\ o.history => \A e \in Slots :
            e < dispatched => history[e] = Inverted(Payload(o, e))
       /\ \A n \in FrameId : completed <= n /\ n < Prepared =>
            tex["shared"][Slot(o, n)] =
              IF n < dispatched THEN Result(o, n) ELSE Payload(o, n)
       /\ cpc = "map" /\ ~Ring(o) =>
            LET s == Slot(o, completed)
                p == Payload(o, completed)
            IN  /\ o.renderer \in RelayRenderers => tex["relay"][s] = p
                /\ o.renderer \in {"copy", "convert", "resolve"} /\ Unsent <= 2
                     => tex["source"][s] = p
                /\ o.renderer = "resolve" /\ Unsent <= 3 => tex["upload"][s] = p
       /\ cpc = "relay" =>
            LET s == Slot(o, submitted)
                p == Payload(o, submitted)
            IN  /\ Len(lq) <= 1 => tex["target"][s] = p
                /\ lq = << >> => tex["relay"][s] = p
       /\ cpc = "map" /\ cq = << >> =>
            LET p == tex["staging"][Slot(o, completed)]
            IN  /\ p \in {Payload(o, completed), Result(o, completed)}
                /\ HostAlive => p = Result(o, completed)

\* How an exit code was come by.
CodesTell ==
  /\ cexit = 0 => completed = Total /\ mismatched = 0
  /\ cexit = 25 => /\ completed = Total
                   /\ mismatched # 0 \/ contaminated # 0
  /\ Deferred(o) /\ cexit = 19 => submitted = FRAMES /\ completed = FRAMES
  /\ Deferred(o) /\ cexit = 21 => submitted = FRAMES /\ completed >= FRAMES - 1
  /\ hexit = 0 =>
       /\ cexit = Expected(o) /\ cpc = "ended"
       /\ o.negative \notin HostLossNegatives
       /\ o.negative = "none" => dispatched = Total
       /\ Deferred(o) => dispatched = FRAMES /\ mismatched = 0
       /\ mismatched = contaminated

\* The inductive invariant.
DualInv ==
  /\ o \in RUNS /\ patient \in BOOLEAN /\ faults \in 0 .. FAULTS
  /\ {hostGone, published, pipeOpen} \subseteq BOOLEAN
  /\ HostPosition /\ HostHolds /\ ClientPosition /\ ClientHolds
  /\ QueueForm /\ RelayForm /\ FencesTell /\ InOrder /\ Contents
  /\ DetectorsAreExact /\ CodesTell
----------------------------------------------------------------------------
(* What the host makes of a frame, and what the client says of it.         *)

LEMMA PixelsEqual ==
  ASSUME NEW p \in Pixel, NEW q \in Pixel,
         p.frame = q.frame, p.marker = q.marker, p.inv = q.inv
  PROVE  p = q
BY DEF Pixel

LEMMA PayloadEdits ==
  ASSUME NEW r, Consistent(r), NEW n \in FrameId
  PROVE  LET m == IF r.stereo THEN Eye(n) ELSE 2 IN
         /\ Payload(r, n) = [frame |-> n, marker |-> m, inv |-> FALSE]
         /\ Inverted(Payload(r, n)) = [frame |-> n, marker |-> m, inv |-> TRUE]
         /\ [Inverted(Payload(r, n)) EXCEPT !.marker = 1]
              = [frame |-> n, marker |-> 1, inv |-> TRUE]
         /\ [Inverted(Payload(r, n)) EXCEPT !.frame = n] = Inverted(Payload(r, n))
<1> DEFINE m == IF r.stereo THEN Eye(n) ELSE 2
           p == Payload(r, n)
           q == Inverted(p)
<1>1. m \in 0 .. 2
  BY FrameIdIsNat DEF Eye
<1>2. p = [frame |-> n, marker |-> m, inv |-> FALSE]
  BY DEF Payload, Plain
<1>3. p \in Pixel /\ p.frame = n /\ p.marker = m /\ p.inv = FALSE
  BY <1>1, <1>2 DEF Pixel
<1> HIDE DEF m, p
<1>4. q \in Pixel /\ q.frame = n /\ q.marker = m /\ q.inv = TRUE
  BY <1>3 DEF Pixel, Inverted
<1>5. q = [frame |-> n, marker |-> m, inv |-> TRUE]
  <2>1. [frame |-> n, marker |-> m, inv |-> TRUE] \in Pixel
    BY <1>1 DEF Pixel
  <2>2. QED
    BY <1>4, <2>1, PixelsEqual
<1> HIDE DEF q
<1>6. [q EXCEPT !.marker = 1] = [frame |-> n, marker |-> 1, inv |-> TRUE]
  <2>1. [frame |-> n, marker |-> 1, inv |-> TRUE] \in Pixel
    BY DEF Pixel
  <2>2. /\ [q EXCEPT !.marker = 1] \in Pixel /\ [q EXCEPT !.marker = 1].frame = n
        /\ [q EXCEPT !.marker = 1].marker = 1 /\ [q EXCEPT !.marker = 1].inv = TRUE
    BY <1>4 DEF Pixel
  <2>3. QED
    BY <2>1, <2>2, PixelsEqual
<1>7. [q EXCEPT !.frame = n] = q
  <2>1. /\ [q EXCEPT !.frame = n] \in Pixel /\ [q EXCEPT !.frame = n].frame = n
        /\ [q EXCEPT !.frame = n].marker = m /\ [q EXCEPT !.frame = n].inv = TRUE
    BY <1>4 DEF Pixel
  <2>2. QED
    BY <1>4, <2>1, PixelsEqual
<1>8. QED
  BY <1>2, <1>5, <1>6, <1>7 DEF m, p, q

LEMMA EyePayload ==
  ASSUME NEW r, Consistent(r), r.stereo, NEW n \in FrameId, NEW e, Eye(n) = e
  PROVE  /\ Payload(r, n) = [frame |-> n, marker |-> e, inv |-> FALSE]
         /\ Inverted(Payload(r, n)) = [frame |-> n, marker |-> e, inv |-> TRUE]
<1> DEFINE m == IF r.stereo THEN Eye(n) ELSE 2
<1>1. m = e
  OBVIOUS
<1>2. /\ Payload(r, n) = [frame |-> n, marker |-> m, inv |-> FALSE]
      /\ Inverted(Payload(r, n)) = [frame |-> n, marker |-> m, inv |-> TRUE]
  BY PayloadEdits
<1> HIDE DEF m
<1>3. QED
  BY <1>1, <1>2

LEMMA ResultIsPixel ==
  ASSUME NEW r, Consistent(r), NEW n \in FrameId
  PROVE  Result(r, n) \in Pixel
<1>1. n % 2 \in 0 .. 1 /\ 0 \in FrameId /\ 1 \in FrameId
  BY FrameIdIsNat
<1>2. HistoryOf(r, n) \in FrameId
  BY <1>1 DEF HistoryOf, Eye
<1>3. Inverted(Payload(r, n)) \in Pixel /\ Inverted(Payload(r, HistoryOf(r, n))) \in Pixel
  BY <1>2, PixelFacts
<1>4. QED
  BY <1>3 DEF Result, Pixel

\* The comparison rejects, and the marker gives away, exactly what the defect
\* of the run spoils.
LEMMA ResultIsJudged ==
  ASSUME Consistent(o), NEW n \in FrameId
  PROVE  /\ LooksRight(o, n, Result(o, n)) <=> ~Spoiled(n)
         /\ Contaminated(o, n, Result(o, n)) <=> Spoiled(n)
<1>1. n \in Nat /\ n % 2 \in 0 .. 1 /\ n \div 2 \in Nat
  BY FrameIdIsNat
<1>2. CASE o.stereo
  <2>1. o.renderer # "scene"
    BY <1>2 DEF Consistent
  <2> DEFINE e == n % 2
  <2>a. e % 2 = e /\ (1 - e) % 2 = 1 - e /\ e \in FrameId /\ 1 - e \in FrameId
        /\ e \in 0 .. 2 /\ 1 - e \in 0 .. 2
    BY <1>1, FrameIdIsNat
  <2>b. Eye(n) = e /\ Eye(e) = e /\ Eye(1 - e) = 1 - e
    BY <2>a DEF Eye
  <2>2. /\ Payload(o, e) = [frame |-> e, marker |-> e, inv |-> FALSE]
        /\ Inverted(Payload(o, e)) = [frame |-> e, marker |-> e, inv |-> TRUE]
    BY <1>2, <2>a, <2>b, EyePayload
  <2>3. /\ Payload(o, 1 - e) = [frame |-> 1 - e, marker |-> 1 - e, inv |-> FALSE]
        /\ Inverted(Payload(o, 1 - e)) = [frame |-> 1 - e, marker |-> 1 - e, inv |-> TRUE]
    BY <1>2, <2>a, <2>b, EyePayload
  <2>4. /\ Payload(o, n) = [frame |-> n, marker |-> e, inv |-> FALSE]
        /\ Inverted(Payload(o, n)) = [frame |-> n, marker |-> e, inv |-> TRUE]
        /\ [Inverted(Payload(o, n)) EXCEPT !.marker = 1]
             = [frame |-> n, marker |-> 1, inv |-> TRUE]
    BY <1>2, PayloadEdits DEF Eye
  <2>5. CASE o.history
    <3>1. Wanted(o, n) = [frame |-> e, marker |-> e, inv |-> TRUE]
      BY <2>2, <2>5 DEF Wanted, Eye
    <3>2. CASE o.swap /\ n \div 2 > 0
      <4>1. Result(o, n) = [frame |-> 1 - e, marker |-> 1 - e, inv |-> TRUE]
        BY <2>3, <2>5, <3>2 DEF Result, HistoryOf, Temporal, Eye
      <4>2. Spoiled(n)
        BY <3>2 DEF Spoiled, Temporal
      <4>3. Result(o, n).frame # e /\ Result(o, n).marker = 1 - e
        BY <1>1, <4>1
      <4>4. QED
        BY <1>2, <2>1, <3>1, <4>1, <4>2, <4>3 DEF LooksRight, Contaminated, Eye
    <3>3. CASE ~(o.swap /\ n \div 2 > 0)
      <4>1. Result(o, n) = [frame |-> e, marker |-> e, inv |-> TRUE]
        BY <2>2, <2>5, <3>3 DEF Result, HistoryOf, Temporal, Eye
      <4>2. ~Spoiled(n)
        BY <2>5, <3>3 DEF Spoiled, Temporal
      <4>3. Result(o, n).marker # 1 - e
        BY <1>1, <4>1
      <4>4. QED
        BY <2>1, <3>1, <4>1, <4>2, <4>3 DEF LooksRight, Contaminated, Eye
    <3>4. QED
      BY <3>2, <3>3
  <2>6. CASE ~o.history
    <3>1. Wanted(o, n) = [frame |-> n, marker |-> e, inv |-> TRUE]
      BY <2>4, <2>6 DEF Wanted
    <3>2. ~o.swap
      BY <2>6 DEF Consistent
    <3>3. CASE o.contamination
      <4>1. Result(o, n) = [frame |-> n, marker |-> 1, inv |-> TRUE]
        BY <2>4, <2>6, <3>3 DEF Result
      <4>2. Spoiled(n) <=> e = 0
        BY <2>6, <3>2, <3>3 DEF Spoiled, Eye
      <4>3. (Result(o, n) = Wanted(o, n) <=> e = 1) /\ (1 = 1 - e <=> e = 0)
        <5>1. e = 1 => Result(o, n) = Wanted(o, n)
          BY <3>1, <4>1
        <5>2. Result(o, n).marker = 1 /\ Wanted(o, n).marker = e
          BY <3>1, <4>1
        <5>3. QED
          BY <1>1, <5>1, <5>2
      <4>4. QED
        BY <1>1, <1>2, <2>1, <4>1, <4>2, <4>3 DEF LooksRight, Contaminated, Eye
    <3>4. CASE ~o.contamination
      <4>1. Result(o, n) = [frame |-> n, marker |-> e, inv |-> TRUE]
        BY <2>4, <2>6, <3>4 DEF Result
      <4>2. ~Spoiled(n)
        BY <3>2, <3>4 DEF Spoiled
      <4>3. Result(o, n).marker # 1 - e
        BY <1>1, <4>1
      <4>4. QED
        BY <2>1, <3>1, <4>1, <4>2, <4>3 DEF LooksRight, Contaminated, Eye
    <3>5. QED
      BY <3>3, <3>4
  <2>7. QED
    BY <2>5, <2>6
<1>3. CASE ~o.stereo
  <2>1. ~o.history /\ ~o.swap /\ ~o.contamination
    BY <1>3 DEF Consistent
  <2>2. Result(o, n) = Inverted(Payload(o, n)) /\ Wanted(o, n) = Inverted(Payload(o, n))
    BY <2>1 DEF Result, Wanted
  <2>3. Inverted(Payload(o, n)) = [Inverted(Payload(o, n)) EXCEPT !.frame = n]
    BY PayloadEdits
  <2>4. ~Spoiled(n)
    BY <2>1 DEF Spoiled
  <2>5. QED
    BY <1>3, <2>2, <2>3, <2>4 DEF LooksRight, Contaminated
<1>4. QED
  BY <1>2, <1>3

\* The four samples of the scene cannot tell a frame from another; of a pixel
\* drawn for this frame they can say whether the host has been there.
LEMMA AcceptedIsWanted ==
  ASSUME Consistent(o), NEW n \in FrameId,
         NEW p \in {Payload(o, n), Result(o, n)}, LooksRight(o, n, p)
  PROVE  p = Wanted(o, n)
<1>1. CASE o.renderer # "scene"
  BY <1>1 DEF LooksRight
<1>2. CASE o.renderer = "scene"
  <2>1. ~o.stereo /\ ~o.history /\ ~o.contamination
    BY <1>2 DEF Consistent
  <2>2. Payload(o, n) = [frame |-> n, marker |-> Plain, inv |-> FALSE]
    BY <2>1 DEF Payload
  <2>3. Result(o, n) = Inverted(Payload(o, n)) /\ Wanted(o, n) = Inverted(Payload(o, n))
    BY <2>1 DEF Result, Wanted
  <2>4. [p EXCEPT !.frame = n] = Wanted(o, n)
    BY <1>2 DEF LooksRight
  <2>5. CASE p = Payload(o, n)
    <3>1. p.inv = FALSE /\ [p EXCEPT !.frame = n].inv = FALSE
      BY <2>2, <2>5
    <3>2. Wanted(o, n).inv = TRUE
      BY <2>1, <2>3 DEF Inverted, Payload
    <3>3. QED
      BY <2>4, <3>1, <3>2
  <2>6. QED
    BY <2>3, <2>5
<1>3. QED
  BY <1>1, <1>2

\* The compute pass turns the payload of a frame into its result, given that
\* the history bound to it is the one of the first pair.
LEMMA ShadedIsResult ==
  ASSUME NEW r, Consistent(r), NEW n \in FrameId, NEW h,
         r.history /\ n >= 2 => h = Inverted(Payload(r, HistoryOf(r, n)))
  PROVE  Shaded(r, n, Payload(r, n), h) = Result(r, n)
<1>1. n \in Nat /\ (n \div 2 = 0 <=> n < 2) /\ (n < 2 => n % 2 = n)
  BY FrameIdIsNat
<1>2. CASE r.history /\ n < 2
  BY <1>1, <1>2 DEF Shaded, Result, HistoryOf, Temporal, Eye
<1>3. CASE r.history /\ n >= 2
  BY <1>1, <1>3 DEF Shaded, Result, Temporal
<1>4. CASE ~r.history
  BY <1>4 DEF Shaded, Result
<1>5. QED
  BY <1>1, <1>2, <1>3, <1>4

----------------------------------------------------------------------------
(* What the client queues for a frame.                                     *)

LEMMA WorkIsCommand ==
  ASSUME NEW r, Consistent(r), NEW n \in FrameId, NEW k
  PROVE  Work(r, n, k) \in Command
<1>1. /\ Slot(r, n) \in Slots /\ Timeline(r, n) \in Slots
      /\ FenceValue(r, n) \in 1 .. Total /\ Payload(r, n) \in Pixel
  BY SlotFacts, FenceFacts, PixelFacts
<1>2. QED
  BY <1>1 DEF Work, Command, Signal, Copy, Put, Textures

LEMMA SubmissionForm ==
  ASSUME NEW r, Consistent(r), NEW n \in FrameId
  PROVE  /\ Submission(r, n) \in Seq(Command)
         /\ Len(Submission(r, n)) = WorkLength(r)
         /\ \A i \in 1 .. WorkLength(r) :
              Submission(r, n)[i] = Work(r, n, WorkLength(r) - i)
<1> DEFINE sig == Signal(Timeline(r, n), FenceValue(r, n))
           W(k) == Work(r, n, k)
<1>1. W(0) \in Command /\ W(1) \in Command /\ W(2) \in Command /\ W(3) \in Command
  BY WorkIsCommand
<1>2. W(0) = sig
  BY DEF Work
<1>3. CASE r.renderer = "resolve"
  <2>1. Prepare(r, n) = << W(3), W(2), W(1) >> /\ WorkLength(r) = 4
    BY <1>3 DEF Prepare, Work, WorkLength, RelayRenderers
  <2>2. Submission(r, n) = Append(Prepare(r, n), W(0))
    BY <1>2 DEF Submission
  <2>3. QED
    BY <1>1, <2>1, <2>2
<1>4. CASE r.renderer \in {"copy", "convert"}
  <2>1. Prepare(r, n) = << W(2), W(1) >> /\ WorkLength(r) = 3
    BY <1>4 DEF Prepare, Work, WorkLength, RelayRenderers
  <2>2. Submission(r, n) = Append(Prepare(r, n), W(0))
    BY <1>2 DEF Submission
  <2>3. QED
    BY <1>1, <2>1, <2>2
<1>5. CASE r.renderer \notin {"copy", "convert", "resolve"}
  <2>1. Prepare(r, n) = << W(1) >> /\ WorkLength(r) = 2
    BY <1>5 DEF Prepare, Work, WorkLength, RelayRenderers
  <2>2. Submission(r, n) = Append(Prepare(r, n), W(0))
    BY <1>2 DEF Submission
  <2>3. QED
    BY <1>1, <2>1, <2>2
<1>6. QED
  BY <1>3, <1>4, <1>5

----------------------------------------------------------------------------
(* The initial states.                                                     *)

LEMMA InitDual == Init => DualInv
<1> SUFFICES ASSUME Init PROVE DualInv
  OBVIOUS
<1> USE DEF Init
<1>0. Total \in Nat /\ FRAMES \in Nat /\ FRAMES > 0 /\ FrameId \subseteq Nat
  BY FrameIdIsNat
<1>1. Consistent(o)
  BY RunsAssumption, RunsAreConsistent
<1>2. /\ o \in RUNS /\ patient \in BOOLEAN /\ faults \in 0 .. FAULTS
      /\ {hostGone, published, pipeOpen} \subseteq BOOLEAN
  <2>1. faults \in 0 .. FAULTS
    BY FaultsAssumption
  <2>2. hostGone \in BOOLEAN /\ published \in BOOLEAN /\ pipeOpen \in BOOLEAN
    OBVIOUS
  <2>3. QED
    BY <2>1, <2>2
<1>3. Blank \in Pixel
  BY DEF Blank, Pixel, Plain
<1>4. HostPosition
  <2>1. hexit \in -1 .. 31 /\ (hexit = Running <=> hpc # "ended")
    BY DEF Running
  <2>2. message \in {NoMessage, 1, 2} /\ message # 1
    BY DEF NoMessage
  <2>3. dispatched \in 0 .. recorded /\ recorded \in 0 .. Total /\ recorded <= FRAMES
    BY <1>0
  <2>4. QED
    BY <2>1, <2>2, <2>3 DEF HostPosition, HostSteps
<1>5. HostHolds
  BY <1>0, <1>1 DEF HostHolds, Slots, FirstResources, Replaces, Ring, Running, HostAlive,
     Consistent, Options
<1>6. ClientPosition
  BY <1>0, <1>1 DEF ClientPosition, ClientSteps, Running, Room, Ring, Consistent, Options, Early
<1>7. ClientHolds
  BY <1>0 DEF ClientHolds, Working
<1>8. QueueForm
  BY <1>1 DEF QueueForm, Unsent, WorkLength, Ring, Consistent, Options
<1>9. RelayForm
  BY DEF RelayForm
<1>10. Signalled = 0 /\ Prepared = 0
  BY DEF Signalled, Prepared, Unsent
<1>11. FencesTell
  <2>1. \A n \in FrameId : Timeline(o, n) \in Slots /\ FenceValue(o, n) \in 1 .. Total
    BY <1>1, FenceFacts
  <2>2. Woken \in Nat
    BY <1>0 DEF Woken
  <2>3. QED
    BY <1>0, <1>10, <2>1, <2>2 DEF FencesTell
<1>12. InOrder
  BY <1>10 DEF InOrder
<1>13. Contents
  <2>1. tex \in [Textures -> [Slots -> Pixel]] /\ history \in [Slots -> Pixel]
    BY <1>3
  <2>2. QED
    BY <1>0, <1>10, <2>1 DEF Contents, Slots
<1>14. DetectorsAreExact
  BY FS_EmptySet DEF DetectorsAreExact
<1>15. CodesTell
  BY DEF CodesTell, Running
<1>16. QED
  BY <1>2, <1>4, <1>5, <1>6, <1>7, <1>8, <1>9, <1>11, <1>12, <1>13, <1>14, <1>15 DEF DualInv

----------------------------------------------------------------------------
(* What a step that leaves variables alone leaves of the invariant.        *)

LEMMA HostKept ==
  ASSUME DualInv, UNCHANGED << o, hostVars, hostGpu >>,
         message' \in {NoMessage, 1, 2}, message' = 1 => message = 1
  PROVE  HostPosition' /\ HostHolds'
BY DEF DualInv, hostVars, hostGpu, HostPosition, HostHolds, HostAlive, Early, Deferred,
   Replaces, Ring

LEMMA ClientKept ==
  ASSUME DualInv, UNCHANGED << o, hpc, cpc, cexit, clientFrames, clientRes >>,
         message = 1 => message' = 1
  PROVE  ClientPosition' /\ ClientHolds'
<1>1. ClientPosition'
  BY DEF DualInv, clientFrames, ClientPosition, Room, Early, AtGeneration, Replaces, Ring
<1>2. ClientHolds'
  BY DEF DualInv, clientFrames, ClientHolds, Working, Replaces, Ring, FirstResources
<1>3. QED
  BY <1>1, <1>2

LEMMA QueuesKept ==
  ASSUME DualInv, UNCHANGED << o, cpc, submitted, completed, cq, lq >>
  PROVE  /\ QueueForm' /\ RelayForm'
         /\ Signalled' = Signalled /\ Prepared' = Prepared /\ Unsent' = Unsent
<1>1. Unsent' = Unsent
  BY DEF Unsent
<1>2. Signalled' = Signalled /\ Prepared' = Prepared
  BY <1>1 DEF Signalled, Prepared, Ring
<1>3. \A k : Program(k)' = Program(k)
  BY DEF Program, Pending, Ring
<1>4. QueueForm'
  BY <1>1, <1>3 DEF DualInv, QueueForm, Early, Ring
<1>5. RelayForm'
  BY DEF DualInv, RelayForm
<1>6. QED
  BY <1>1, <1>2, <1>4, <1>5

LEMMA FencesKept ==
  ASSUME DualInv, UNCHANGED << o, ready, done, dispatched, submitted, completed, cq >>,
         HostAlive' => HostAlive, cpc' # "ended" => cpc # "ended",
         cpc' = "map" <=> cpc = "map"
  PROVE  FencesTell' /\ Signalled' = Signalled /\ Prepared' = Prepared /\ Unsent' = Unsent
<1>1. Unsent' = Unsent
  BY DEF Unsent
<1>2. Signalled' = Signalled /\ Prepared' = Prepared
  BY <1>1 DEF Signalled, Prepared, Ring
<1>3. QED
  BY <1>1, <1>2 DEF DualInv, FencesTell, Early

LEMMA ContentsKept ==
  ASSUME DualInv, UNCHANGED << o, cpc, submitted, completed, cq, lq, tex, history,
                               dispatched >>,
         HostAlive' => HostAlive
  PROVE  Contents'
<1>1. Signalled' = Signalled /\ Prepared' = Prepared /\ Unsent' = Unsent
  BY QueuesKept
<1>2. QED
  BY <1>1 DEF DualInv, Contents, Ring

LEMMA DetectorsKept ==
  ASSUME DualInv, UNCHANGED << o, completed, mismatched, contaminated >>,
         HostAlive' => HostAlive
  PROVE  DetectorsAreExact'
BY DEF DualInv, DetectorsAreExact, Spoiled

LEMMA CodesKept ==
  ASSUME DualInv, UNCHANGED << o, cexit, completed, submitted, mismatched, contaminated,
                               hexit >>,
         hexit = 0 => cpc' = "ended" /\ dispatched' = dispatched
  PROVE  CodesTell'
BY DEF DualInv, CodesTell, Deferred

LEMMA InvIsConsistent ==
  ASSUME DualInv
  PROVE  Consistent(o)
BY RunsAssumption, RunsAreConsistent DEF DualInv

----------------------------------------------------------------------------
(* The steps of the host.                                                  *)

\* A step that moves the host on and leaves the queues alone.
LEMMA HostMovesInv ==
  ASSUME DualInv, HostAlive, HostPosition', HostHolds', pipeOpen' \in BOOLEAN,
         UNCHANGED << setup, hexit, hostGone, hostGpu, clientVars, cq, lq, tex, fences >>,
         hpc \notin {"launch", "ended"}, hpc' \notin {"launch", "ended"},
         message = 1 => message' = 1
  PROVE  DualInv'
<1> USE DEF setup, hostGpu, clientVars, clientFrames, fences, HostAlive
<1>1. /\ o' \in RUNS /\ patient' \in BOOLEAN /\ faults' \in 0 .. FAULTS
      /\ {hostGone, published, pipeOpen}' \subseteq BOOLEAN
  BY DEF DualInv
<1>2. ClientPosition' /\ ClientHolds'
  <2>1. ClientPosition'
    BY DEF DualInv, ClientPosition, Room, Early, AtGeneration, Replaces, Ring
  <2>2. ClientHolds'
    BY DEF DualInv, ClientHolds, Working, Replaces, Ring, FirstResources
  <2>3. QED
    BY <2>1, <2>2
<1>3. QueueForm' /\ RelayForm' /\ Signalled' = Signalled
  BY QueuesKept
<1>4. FencesTell'
  BY FencesKept
<1>5. InOrder'
  BY <1>3 DEF DualInv, InOrder, Early
<1>6. Contents'
  BY ContentsKept
<1>7. DetectorsAreExact'
  BY DetectorsKept
<1>8. CodesTell'
  BY CodesKept DEF Running
<1>9. QED
  BY <1>1, <1>2, <1>3, <1>4, <1>5, <1>6, <1>7, <1>8 DEF DualInv

LEMMA HostOpensFencesInv ==
  ASSUME DualInv, HostOpensFences
  PROVE  DualInv'
<1> USE DEF HostOpensFences, HostGoes
<1>1. HostAlive
  BY DEF DualInv, HostPosition, HostAlive
<1>2. HostPosition'
  BY DEF DualInv, HostPosition, HostSteps, Early, Deferred, hostGpu, HostAlive,
     setup, SetupNegatives, HostLossNegatives
<1>3. HostHolds'
  BY DEF DualInv, HostPosition, HostHolds, hostGpu, HostAlive, setup, Replaces, Ring, FirstResources, Deferred
<1>4. pipeOpen' \in BOOLEAN
  BY DEF DualInv, Replaces
<1>5. QED
  BY <1>1, <1>2, <1>3, <1>4, HostMovesInv

LEMMA HostRecordsInv ==
  ASSUME DualInv, HostRecords
  PROVE  DualInv'
<1> USE DEF HostRecords, HostGoes
<1>0. FRAMES \in Nat /\ FRAMES > 0 /\ Total = 2 * FRAMES
  BY FrameIdIsNat
<1>1. HostAlive
  BY DEF DualInv, HostPosition, HostAlive
<1>a. Deferred(o) => Replaces(o)
  BY InvIsConsistent DEF Consistent, Deferred, DeferredNegatives, Replaces, Ring
<1>2. HostPosition'
  BY <1>0, <1>1, <1>a DEF DualInv, HostPosition, HostHolds, HostSteps, Early, Deferred, hostGpu, HostAlive,
     setup, AtTransition
<1>3. HostHolds'
  BY <1>0, <1>1 DEF DualInv, HostPosition, HostHolds, hostGpu, HostAlive, setup, Replaces, Ring, FirstResources, AtTransition, Deferred
<1>4. QED
  BY <1>1, <1>2, <1>3, HostMovesInv DEF DualInv

LEMMA HostReleasesGenerationInv ==
  ASSUME DualInv, HostReleasesGeneration
  PROVE  DualInv'
<1> USE DEF HostReleasesGeneration, AtTransition, HostGoes
<1>0. FRAMES \in Nat /\ FRAMES > 0 /\ Total = 2 * FRAMES /\ FRAMES - 1 \in FrameId
  BY FrameIdIsNat
<1>1. HostAlive
  BY DEF DualInv, HostPosition, HostAlive
<1>2. dispatched = FRAMES
  <2>1. Timeline(o, FRAMES - 1) = 0 /\ FenceValue(o, FRAMES - 1) = FRAMES
    BY <1>0, FenceFacts, InvIsConsistent DEF Replaces
  <2>2. FRAMES - 1 < dispatched
    BY <1>0, <1>1, <2>1 DEF DualInv, FencesTell
  <2>3. QED
    BY <1>0, <2>2 DEF DualInv, HostPosition
<1>3. HostPosition'
  BY <1>0, <1>2 DEF DualInv, HostPosition, HostSteps, Early, Deferred, hostGpu, HostAlive, setup
<1>4. HostHolds'
  BY <1>0, <1>1, <1>2 DEF DualInv, HostPosition, HostHolds, hostGpu, HostAlive, setup, Replaces, Ring,
     FirstResources, Slots, Deferred
<1>5. QED
  BY <1>1, <1>3, <1>4, HostMovesInv DEF DualInv

LEMMA HostReplacesInv ==
  ASSUME DualInv, HostReplaces
  PROVE  DualInv'
<1> USE DEF HostReplaces, HostGoes
<1>0. FRAMES \in Nat /\ FRAMES > 0 /\ Total = 2 * FRAMES
  BY FrameIdIsNat
<1>1. HostAlive
  BY DEF DualInv, HostPosition, HostAlive
<1>2. HostPosition'
  BY <1>0 DEF DualInv, HostPosition, HostHolds, HostSteps, Early, Deferred, hostGpu, HostAlive, setup,
     NoMessage, DeferredNegatives, HostLossNegatives, SetupNegatives
<1>3. HostHolds'
  <2>1. Replaces(o) /\ hostRes = {} /\ recorded = FRAMES /\ dispatched = FRAMES
    BY <1>1 DEF DualInv, HostHolds
  <2>2. hostRes' = {1}
    BY <2>1
  <2>3. UNCHANGED << o, recorded, dispatched, hexit >>
    BY DEF setup, hostGpu
  <2>4. QED
    BY <1>0, <2>1, <2>2, <2>3 DEF HostHolds, Slots, Replaces, Ring, Deferred
<1>4. message = 1 => message' = 1
  BY DEF DualInv, HostPosition
<1>5. QED
  BY <1>1, <1>2, <1>3, <1>4, HostMovesInv DEF DualInv

LEMMA HostRemovesDeviceInv ==
  ASSUME DualInv, HostRemovesDevice
  PROVE  DualInv'
<1> USE DEF HostRemovesDevice, HostGoes
<1>1. HostAlive
  BY DEF DualInv, HostPosition, HostAlive
<1>2. HostPosition'
  BY DEF DualInv, HostPosition, HostSteps, Early, Deferred, hostGpu, HostAlive, setup,
     DeferredNegatives, HostLossNegatives, SetupNegatives
<1>3. HostHolds'
  BY <1>1 DEF DualInv, HostPosition, HostHolds, hostGpu, HostAlive, setup, Replaces, Ring,
     FirstResources, Slots, Deferred
<1>4. QED
  BY <1>1, <1>2, <1>3, HostMovesInv DEF DualInv

LEMMA HostResolvesInv ==
  ASSUME DualInv, HostResolves
  PROVE  DualInv'
<1> USE DEF HostResolves, HostGoes
<1>1. HostAlive
  BY DEF DualInv, HostPosition, HostAlive
<1>2. HostPosition'
  BY DEF DualInv, HostPosition, HostSteps, Early, Deferred, hostGpu, HostAlive, setup
<1>3. HostHolds'
  BY <1>1 DEF DualInv, HostPosition, HostHolds, hostGpu, HostAlive, setup, Replaces, Ring,
     FirstResources, Slots, Deferred
<1>4. QED
  BY <1>1, <1>2, <1>3, HostMovesInv DEF DualInv

LEMMA HostLaunchesInv ==
  ASSUME DualInv, HostLaunches
  PROVE  DualInv'
<1> USE DEF HostLaunches, setup, hostGpu, clientFrames, fences
<1>0. FRAMES \in Nat /\ FrameId \subseteq Nat
  BY FrameIdIsNat
<1>1. HostAlive /\ HostAlive' /\ cpc = "none" /\ cexit = Running
  BY DEF DualInv, HostPosition, ClientPosition, HostAlive
<1>2. /\ o' \in RUNS /\ patient' \in BOOLEAN /\ faults' \in 0 .. FAULTS
      /\ {hostGone, published, pipeOpen}' \subseteq BOOLEAN
  <2>1. pipeOpen' \in BOOLEAN
    BY DEF DualInv
  <2>2. QED
    BY <2>1 DEF DualInv
<1>3. HostPosition'
  BY <1>1 DEF DualInv, HostPosition, HostSteps, Early, Deferred, HostAlive, SetupNegatives,
     HostLossNegatives, DeferredNegatives
<1>4. HostHolds'
  BY <1>1 DEF DualInv, HostPosition, HostHolds, HostAlive, Replaces, Ring, FirstResources, Deferred,
     SetupNegatives, DeferredNegatives
<1>5. ClientPosition'
  BY <1>1 DEF DualInv, ClientPosition, ClientSteps, Room, Early, Ring
<1>6. ClientHolds'
  BY <1>1, <1>0 DEF DualInv, ClientPosition, ClientHolds, Working, Replaces, Ring
<1>7. submitted = 0 /\ completed = 0 /\ cq = << >> /\ lq = << >> /\ dispatched = 0
  BY <1>1 DEF DualInv, HostPosition, ClientPosition, QueueForm, RelayForm
<1>8. QueueForm' /\ RelayForm'
  <2>1. Unsent' = 0
    BY <1>7 DEF Unsent
  <2>2. WorkLength(o) \in Nat
    BY DEF WorkLength
  <2>3. QueueForm'
    BY <1>7, <2>1, <2>2 DEF DualInv, QueueForm, Ring
  <2>4. RelayForm'
    BY <1>7 DEF DualInv, RelayForm
  <2>5. QED
    BY <2>3, <2>4
<1>9. Signalled' = Signalled /\ FencesTell' /\ Prepared' = Prepared
  BY <1>1, FencesKept DEF HostAlive
<1>10. InOrder'
  BY <1>9, <1>1 DEF DualInv, InOrder, Early, HostAlive
<1>11. Contents'
  <2>1. Prepared' = 0
    BY <1>7 DEF Prepared, Unsent
  <2>2. QED
    BY <1>0, <1>7, <2>1 DEF DualInv, Contents, Slots
<1>12. DetectorsAreExact'
  BY DetectorsKept DEF HostAlive
<1>13. CodesTell'
  BY <1>1, CodesKept DEF HostAlive, Running
<1>14. QED
  BY <1>2, <1>3, <1>4, <1>5, <1>6, <1>8, <1>9, <1>10, <1>11, <1>12, <1>13 DEF DualInv

LEMMA HostIsGoneInv ==
  ASSUME DualInv, HostIsGone
  PROVE  DualInv'
<1> USE DEF HostIsGone, setup, clientVars, fences
<1>1. /\ o' \in RUNS /\ patient' \in BOOLEAN /\ faults' \in 0 .. FAULTS
      /\ {hostGone, published, pipeOpen}' \subseteq BOOLEAN
  BY DEF DualInv
<1>2. HostPosition' /\ HostHolds'
  <2>1. HostPosition'
    BY DEF DualInv, hostGpu, HostPosition, HostAlive, Early, Deferred
  <2>2. HostHolds'
    BY DEF DualInv, hostGpu, HostHolds, HostAlive, Deferred, Replaces, Ring
  <2>3. QED
    BY <2>1, <2>2
<1>3. ClientPosition' /\ ClientHolds'
  BY ClientKept
<1>4. QueueForm' /\ RelayForm' /\ Signalled' = Signalled
  BY QueuesKept DEF clientFrames
<1>5. FencesTell'
  BY FencesKept DEF HostAlive, hostGpu, clientFrames
<1>6. InOrder'
  BY <1>4 DEF DualInv, InOrder, Early, HostAlive, hostGpu, clientFrames
<1>7. Contents'
  BY ContentsKept DEF HostAlive, hostGpu, clientFrames
<1>8. DetectorsAreExact'
  BY DetectorsKept DEF HostAlive, clientFrames
<1>9. CodesTell'
  BY CodesKept DEF hostGpu, clientFrames, DualInv, CodesTell
<1>10. QED
  BY <1>1, <1>2, <1>3, <1>4, <1>5, <1>6, <1>7, <1>8, <1>9 DEF DualInv

\* The host ends: with 0 only if it may say so.
LEMMA HostEndsInv ==
  ASSUME DualInv, HostAlive, NEW code \in 0 .. 31, HostEnds(code),
         UNCHANGED << o, patient, clientVars, cq, lq, tex, message >>,
         faults' \in 0 .. FAULTS,
         code = 0 => /\ cexit = Expected(o) /\ cpc = "ended"
                     /\ o.negative \notin HostLossNegatives
                     /\ o.negative = "none" => dispatched = Total
                     /\ Deferred(o) => dispatched = FRAMES /\ mismatched = 0
                     /\ mismatched = contaminated
  PROVE  DualInv'
<1> USE DEF HostEnds, clientVars
<1>0. FRAMES \in Nat /\ FrameId \subseteq Nat /\ Total \in Nat
  BY FrameIdIsNat
<1>1. ~HostAlive' /\ hexit' = code
  BY DEF HostAlive, Running
<1>2. /\ o' \in RUNS /\ patient' \in BOOLEAN /\ faults' \in 0 .. FAULTS
      /\ {hostGone, published, pipeOpen}' \subseteq BOOLEAN
  BY DEF DualInv
<1>3. HostPosition'
  <2>1. recorded' \in 0 .. Total /\ dispatched' \in 0 .. recorded' /\ recorded' <= recorded
    BY <1>0 DEF DualInv, HostPosition
  <2>2. hexit' \in -1 .. 31 /\ hexit' # Running
    BY <1>1 DEF Running
  <2>3. /\ Early \/ o.negative \in HostLossNegatives => recorded' = 0
        /\ Deferred(o) => recorded' <= FRAMES
    BY <1>0 DEF DualInv, HostPosition
  <2>4. message \in {NoMessage, 1, 2} /\ (message = 1 => ~Deferred(o))
    BY DEF DualInv, HostPosition
  <2>5. QED
    BY <1>1, <2>1, <2>2, <2>3, <2>4 DEF HostPosition, HostSteps, Early, Deferred
<1>4. HostHolds'
  BY <1>1 DEF DualInv, HostHolds, Replaces, Ring
<1>5. ClientPosition' /\ ClientHolds'
  <2>1. ClientPosition'
    BY DEF DualInv, clientFrames, ClientPosition, Room, Early, AtGeneration, Replaces, Ring
  <2>2. ClientHolds'
    BY DEF DualInv, clientFrames, ClientHolds, Working, Replaces, Ring, FirstResources
  <2>3. QED
    BY <2>1, <2>2
<1>6. QueueForm' /\ RelayForm' /\ Signalled' = Signalled
  BY QueuesKept DEF clientFrames
<1>7. FencesTell'
  <2>1. Woken \in Nat
    BY <1>0 DEF Woken
  <2>2. done' \in [Slots -> 0 .. Woken]
    BY <2>1 DEF DualInv, FencesTell
  <2>3. QED
    BY <1>1, <1>6, <2>2 DEF DualInv, FencesTell, Early
<1>8. InOrder'
  BY <1>1, <1>6 DEF DualInv, InOrder, Early
<1>9. Contents'
  BY <1>1, ContentsKept DEF clientFrames
<1>10. DetectorsAreExact'
  BY <1>1 DEF DetectorsAreExact
<1>11. CodesTell'
  BY <1>1, <1>0 DEF DualInv, CodesTell, clientFrames, Deferred, Expected, HostLossNegatives,
     SetupNegatives, DeferredNegatives
<1>12. QED
  BY <1>2, <1>3, <1>4, <1>5, <1>6, <1>7, <1>8, <1>9, <1>10, <1>11 DEF DualInv

----------------------------------------------------------------------------
(* The host's queue.                                                       *)

LEMMA SignalledFacts ==
  ASSUME DualInv
  PROVE  /\ Unsent \in Int /\ Signalled \in Int /\ Prepared \in Int
         /\ Signalled <= Prepared /\ Prepared <= submitted /\ submitted \in Nat
         /\ completed \in Nat
<1>1. submitted \in Nat /\ completed \in Nat /\ Len(cq) \in Nat
  <2>1. Total \in Nat
    BY FrameIdIsNat
  <2>2. submitted \in Nat /\ completed \in Nat
    <3>1. submitted \in 0 .. Total /\ completed \in 0 .. submitted
      BY DEF DualInv, ClientPosition
    <3>2. QED
      BY <2>1, <3>1
  <2>3. cq \in Seq(Command)
    BY DEF DualInv, QueueForm
  <2>4. QED
    BY <2>2, <2>3
<1>2. Unsent \in Int
  BY <1>1 DEF Unsent
<1>3. QED
  BY <1>1, <1>2 DEF Signalled, Prepared

\* No two frames in flight have the same slot.
LEMMA InFlightSlots ==
  ASSUME DualInv, NEW n \in FrameId, NEW m \in FrameId, n # m,
         completed <= n, n < submitted, completed <= m, m < submitted
  PROVE  Slot(o, n) # Slot(o, m)
<1>1. Consistent(o)
  BY InvIsConsistent
<1>2. n \in Nat /\ m \in Nat /\ submitted \in Nat /\ completed \in Nat
  BY SignalledFacts, FrameIdIsNat
<1>3. submitted <= completed + Room
  BY DEF DualInv, ClientPosition
<1>4. o.depth \in 0 .. 2
  BY <1>1 DEF Consistent, Options
<1>5. Ring(o) /\ o.depth = 2 /\ Room = 2
  <2>1. Room # 1
    BY <1>2, <1>3
  <2>2. QED
    BY <1>4, <2>1 DEF Room, Ring
<1>6. m = n + 1 \/ n = m + 1
  BY <1>2, <1>3, <1>5
<1>7. QED
  BY <1>1, <1>5, <1>6, SlotFacts

LEMMA ShadedIsPixel ==
  ASSUME NEW r, NEW n, NEW p \in Pixel, NEW h \in Pixel
  PROVE  Shaded(r, n, p, h) \in Pixel
<1>1. Inverted(p) \in Pixel
  BY DEF Inverted, Pixel
<1>2. [Inverted(p) EXCEPT !.marker = 1] \in Pixel
  BY <1>1 DEF Pixel
<1>3. QED
  BY <1>1, <1>2 DEF Shaded

LEMMA HostGpuStartsInv ==
  ASSUME DualInv, HostGpuStarts
  PROVE  DualInv'
<1> USE DEF HostGpuStarts, setup, hostVars, clientVars, clientFrames, fences
<1>0. FRAMES \in Nat /\ FrameId \subseteq Nat /\ Total \in Nat
  BY FrameIdIsNat
<1>1. HostAlive /\ HostAlive'
  BY DEF HostAlive
<1>2. HostPosition' /\ HostHolds'
  <2>1. HostPosition'
    BY <1>1 DEF DualInv, HostPosition, HostAlive, Early, Deferred
  <2>2. HostHolds'
    BY <1>1 DEF DualInv, HostHolds, HostAlive, Replaces, Ring, Deferred
  <2>3. QED
    BY <2>1, <2>2
<1>3. ClientPosition' /\ ClientHolds'
  BY ClientKept
<1>4. QueueForm' /\ RelayForm' /\ Signalled' = Signalled
  BY QueuesKept
<1>5. FencesTell'
  BY <1>1, FencesKept DEF HostAlive
<1>6. InOrder'
  <2>1. dispatched \in FrameId
    BY <1>0, FrameIdIsNat DEF DualInv, HostPosition
  <2>2. cpc # "ended" /\ ~Early => dispatched < Signalled
    BY <2>1 DEF DualInv, FencesTell
  <2>3. QED
    BY <1>1, <1>4, <2>2 DEF DualInv, InOrder, Early
<1>7. Contents' /\ DetectorsAreExact' /\ CodesTell'
  BY <1>1, ContentsKept, DetectorsKept, CodesKept DEF HostAlive, Running
<1>8. QED
  BY <1>2, <1>3, <1>4, <1>5, <1>6, <1>7 DEF DualInv

LEMMA HostGpuFinishesInv ==
  ASSUME DualInv, HostGpuFinishes
  PROVE  DualInv'
<1> DEFINE n == dispatched
           s == Slot(o, n)
           h == HistoryOf(o, n)
           out == Shaded(o, n, tex["shared"][s], history[h])
<1>a. /\ dispatching /\ dispatched' = n + 1 /\ dispatching' = FALSE
      /\ tex' = [tex EXCEPT !["shared"][s] = out]
      /\ history' = IF o.history THEN [history EXCEPT ![h] = out] ELSE history
      /\ done' = [done EXCEPT ![Timeline(o, n)] = FenceValue(o, n)]
      /\ UNCHANGED << setup, hostVars, clientVars, cq, lq, ready, message >>
  BY DEF HostGpuFinishes
<1>b. UNCHANGED << o, patient, faults, hpc, hexit, hostGone, recorded, hostRes, pipeOpen,
                   cpc, cexit, submitted, completed, mismatched, contaminated,
                   reuseWaits, maxInFlight, clientRes, published, cq, lq, ready, message >>
  BY <1>a DEF setup, hostVars, clientVars, clientFrames
<1>0. FRAMES \in Nat /\ FrameId \subseteq Nat /\ Total \in Nat
  BY FrameIdIsNat
<1>c. Consistent(o)
  BY InvIsConsistent
<1>1. HostAlive /\ HostAlive' /\ n < recorded /\ recorded <= Total /\ n \in Nat /\ recorded \in Nat
  BY <1>0, <1>a, <1>b DEF DualInv, HostPosition, HostAlive
<1>d. n \in FrameId /\ ~Early
  BY <1>1, FrameIdIsNat DEF DualInv, HostPosition
<1>2. HostPosition' /\ HostHolds'
  <2>1. HostPosition'
    <3>1. dispatched' \in 0 .. recorded'
      BY <1>a, <1>b, <1>1
    <3>2. ~(hpc = "judge" /\ o.negative = "none") /\ ~(Deferred(o) /\ hpc \in {"replace", "judge"})
      BY <1>1 DEF DualInv, HostPosition
    <3>3. QED
      BY <1>a, <1>b, <3>1, <3>2 DEF DualInv, HostPosition, HostAlive, Early, Deferred
  <2>2. HostHolds'
    <3>1. ~(recorded = FRAMES /\ dispatched = FRAMES)
      BY <1>1
    <3>2. dispatched >= FRAMES => dispatched' >= FRAMES
      BY <1>0, <1>1, <1>a
    <3>3. QED
      BY <1>1, <1>b, <3>1, <3>2 DEF DualInv, HostHolds, HostAlive, Replaces, Ring, Deferred
  <2>3. QED
    BY <2>1, <2>2
<1>3. ClientPosition' /\ ClientHolds'
  BY <1>b, ClientKept DEF clientFrames
<1>4. QueueForm' /\ RelayForm' /\ Signalled' = Signalled /\ Prepared' = Prepared /\ Unsent' = Unsent
  BY <1>b, QueuesKept
<1>5. FencesTell'
  <2>1. Timeline(o, n) \in Slots /\ FenceValue(o, n) \in 1 .. Total
    BY <1>c, <1>d, FenceFacts
  <2>2. done' \in [Slots -> 0 .. Woken]
    BY <1>0, <1>a, <2>1 DEF DualInv, FencesTell, Woken
  <2>3. ASSUME NEW m \in FrameId
        PROVE  done'[Timeline(o, m)] >= FenceValue(o, m) <=> m < n + 1
    <3>1. m \in Nat /\ Timeline(o, m) \in Slots
      BY <1>0, <1>c, FenceFacts
    <3>2. done[Timeline(o, m)] >= FenceValue(o, m) <=> m < n
      BY <1>1 DEF DualInv, FencesTell
    <3>3. CASE Timeline(o, m) = Timeline(o, n)
      <4>1. done'[Timeline(o, m)] = FenceValue(o, n)
        BY <1>a, <2>1, <3>3 DEF DualInv, FencesTell
      <4>2. FenceValue(o, n) >= FenceValue(o, m) <=> m <= n
        BY <1>c, <1>d, <3>3, FenceFacts
      <4>3. QED
        BY <1>1, <3>1, <4>1, <4>2
    <3>4. CASE Timeline(o, m) # Timeline(o, n)
      <4>1. done'[Timeline(o, m)] = done[Timeline(o, m)] /\ m # n
        BY <1>a, <2>1, <3>1, <3>4 DEF DualInv, FencesTell
      <4>2. QED
        BY <1>1, <3>1, <3>2, <4>1
    <3>5. QED
      BY <3>3, <3>4
  <2>4. QED
    BY <1>a, <1>b, <1>4, <2>2, <2>3 DEF DualInv, FencesTell, Early
<1>6. InOrder'
  <2>1. Signalled \in Int /\ completed \in Nat
    BY SignalledFacts
  <2>2. cpc # "ended" /\ ~Early => n < Signalled
    BY <1>a DEF DualInv, InOrder
  <2>3. QED
    BY <1>a, <1>b, <1>1, <1>4, <2>1, <2>2 DEF DualInv, InOrder, Early
<1>7. Contents'
  <2>1. s \in Slots /\ h \in Slots /\ h \in FrameId
    <3>1. n % 2 \in 0 .. 1
      BY <1>1
    <3>2. h \in 0 .. 1
      BY <3>1 DEF HistoryOf, Eye
    <3>3. QED
      BY <1>c, <1>d, <3>2, SlotFacts, FrameIdIsNat DEF Slots
  <2>2. tex \in [Textures -> [Slots -> Pixel]] /\ history \in [Slots -> Pixel]
    BY DEF DualInv, Contents
  <2>3. tex["shared"][s] \in Pixel /\ history[h] \in Pixel
    BY <2>1, <2>2 DEF Textures
  <2>4. out \in Pixel
    BY <2>3, ShadedIsPixel
  <2> HIDE DEF out
  <2>5. tex' \in [Textures -> [Slots -> Pixel]] /\ history' \in [Slots -> Pixel]
    BY <1>a, <2>2, <2>4
  <2>6. /\ \A t \in Textures : t # "shared" => tex'[t] = tex[t]
        /\ tex'["shared"][s] = out
        /\ \A x \in Slots : x # s => tex'["shared"][x] = tex["shared"][x]
    BY <1>a, <2>1, <2>2 DEF Textures
  <2>7. CASE cpc = "ended"
    BY <1>b, <2>5, <2>7 DEF Contents
  <2>8. CASE cpc # "ended"
    <3>1. n < Signalled /\ Signalled <= Prepared /\ Prepared <= submitted /\ completed <= n
          /\ Prepared \in Int /\ Signalled \in Int /\ submitted \in Nat /\ completed \in Nat
      BY <1>1, <1>a, <1>d, <2>8, SignalledFacts DEF DualInv, InOrder
    <3>2. tex["shared"][s] = Payload(o, n)
      BY <1>1, <1>d, <2>8, <3>1 DEF DualInv, Contents
    <3>3. o.history /\ n >= 2 => history[h] = Inverted(Payload(o, h))
      BY <1>1, <2>1, <2>8 DEF DualInv, Contents, Slots
    <3>4. out = Result(o, n)
      BY <1>c, <1>d, <3>2, <3>3, ShadedIsResult DEF out
    <3>5. ASSUME o.history, NEW e \in Slots, e < n + 1
          PROVE  history'[e] = Inverted(Payload(o, e))
      <4>1. history' = [history EXCEPT ![h] = out]
        BY <1>a, <3>5
      <4>2. e \in Nat /\ e < 2
        BY DEF Slots
      <4>3. CASE e = h
        <5>1. Result(o, n) = Inverted(Payload(o, h))
          BY <3>5 DEF Result
        <5>2. QED
          BY <2>1, <2>2, <3>4, <4>1, <4>3, <5>1
      <4>4. CASE e # h
        <5>1. n < 2 => h = n
          BY <1>1 DEF HistoryOf, Temporal, Eye
        <5>2. e < n
          BY <1>1, <3>5, <4>2, <4>4, <5>1
        <5>3. QED
          BY <2>2, <2>8, <3>5, <4>1, <4>4, <5>2 DEF DualInv, Contents
      <4>5. QED
        BY <4>3, <4>4
    <3>6. ASSUME NEW m \in FrameId, completed <= m, m < Prepared
          PROVE  tex'["shared"][Slot(o, m)] = IF m < n + 1 THEN Result(o, m) ELSE Payload(o, m)
      <4>1. m \in Nat
        BY <1>0
      <4>2. CASE m = n
        BY <1>1, <2>6, <3>4, <4>2
      <4>3. CASE m # n
        <5>5. Slot(o, m) # s
          BY <1>1, <1>d, <3>1, <3>6, <4>1, <4>3, InFlightSlots
        <5>6. Slot(o, m) \in Slots
          BY <1>c, SlotFacts
        <5>7. m < n + 1 <=> m < n
          BY <1>1, <4>1, <4>3
        <5>8. QED
          BY <2>6, <2>8, <3>6, <5>5, <5>6, <5>7 DEF DualInv, Contents
      <4>4. QED
        BY <4>2, <4>3
    <3>7. tex'["relay"] = tex["relay"] /\ tex'["source"] = tex["source"] /\ tex'["upload"] = tex["upload"]
          /\ tex'["target"] = tex["target"] /\ tex'["staging"] = tex["staging"]
      BY <2>6 DEF Textures
    <3>8. QED
      BY <1>1, <1>4, <1>a, <1>b, <2>5, <2>8, <3>5, <3>6, <3>7 DEF DualInv, Contents, Ring, HostAlive
  <2>9. QED
    BY <2>7, <2>8
<1>8. DetectorsAreExact' /\ CodesTell'
  BY <1>1, <1>b, DetectorsKept, CodesKept DEF HostAlive, Running
<1>9. QED
  BY <1>b, <1>2, <1>3, <1>4, <1>5, <1>6, <1>7, <1>8 DEF DualInv

----------------------------------------------------------------------------
(* The ends of the two processes.                                          *)

LEMMA HostExitInv ==
  ASSUME DualInv, HostAlive, NEW code \in 1 .. 31, HostExit(code)
  PROVE  DualInv'
<1>1. HostEnds(code) /\ UNCHANGED << o, patient, clientVars, cq, lq, tex, message >>
  BY DEF HostExit, setup
<1>2. faults' \in 0 .. FAULTS
  BY DEF HostExit, setup, DualInv
<1>3. QED
  BY <1>1, <1>2, HostEndsInv

LEMMA HostStopsInv ==
  ASSUME DualInv,
         \/ HostGivesUpOpening \/ HostTerminatesItself \/ HostGivesUpAwaiting
         \/ HostGivesUpTransition \/ HostCannotReplace \/ HostGivesUpResolve
         \/ HostGivesUpJudging
  PROVE  DualInv'
<1>1. HostAlive
  BY DEF DualInv, HostPosition, HostAlive, HostGivesUpOpening, HostTerminatesItself,
     HostGivesUpAwaiting, HostGivesUpTransition, AtTransition, HostCannotReplace,
     HostGivesUpResolve, HostGivesUpJudging
<1>2. PICK code \in 1 .. 31 : HostExit(code)
  BY DEF HostGivesUpOpening, HostTerminatesItself, HostGivesUpAwaiting,
     HostGivesUpTransition, HostCannotReplace, HostGivesUpResolve, HostGivesUpJudging, FailCode
<1>3. QED
  BY <1>1, <1>2, HostExitInv

\* A run with no stereo defect spoils nothing.
LEMMA NothingSpoiled ==
  ASSUME Consistent(o), ~o.stereo, NEW c
  PROVE  { n \in 0 .. c : Spoiled(n) } = {}
BY DEF Consistent, Spoiled

LEMMA HostJudgesInv ==
  ASSUME DualInv, HostJudges
  PROVE  DualInv'
<1>1. HostAlive /\ hpc = "judge" /\ ~ClientAlive
  BY DEF DualInv, HostPosition, HostAlive, HostJudges
<1>2. CASE cexit # Expected(o)
  <2>1. HostExit(FailCode)
    BY <1>2 DEF HostJudges
  <2>2. FailCode \in 1 .. 31
    BY DEF FailCode
  <2>3. QED
    BY <1>1, <2>1, <2>2, HostExitInv
<1>3. CASE cexit = Expected(o)
  <2>1. HostExit(0)
    BY <1>3 DEF HostJudges
  <2>2. HostEnds(0) /\ UNCHANGED << o, patient, clientVars, cq, lq, tex, message >>
        /\ faults' \in 0 .. FAULTS
    BY <2>1 DEF HostExit, setup, DualInv
  <2>3. cpc = "ended"
    BY <1>1 DEF DualInv, ClientPosition, ClientAlive
  <2>4. /\ o.negative \notin HostLossNegatives
        /\ o.negative = "none" => dispatched = Total
        /\ Deferred(o) => dispatched = FRAMES
    BY <1>1 DEF DualInv, HostPosition
  <2>5. mismatched = contaminated
    BY <1>1 DEF DualInv, DetectorsAreExact
  <2>6. Deferred(o) => mismatched = 0
    <3>1. SUFFICES ASSUME Deferred(o) PROVE mismatched = 0
      OBVIOUS
    <3>2. Consistent(o) /\ ~o.stereo
      BY InvIsConsistent, <3>1 DEF Consistent, Deferred, DeferredNegatives
    <3>3. { n \in 0 .. completed - 1 : Spoiled(n) } = {}
      BY <3>2, NothingSpoiled
    <3>4. QED
      BY <1>1, <3>3, FS_EmptySet DEF DualInv, DetectorsAreExact
  <2>7. QED
    BY <1>1, <1>3, <2>2, <2>3, <2>4, <2>5, <2>6, HostEndsInv
<1>4. QED
  BY <1>2, <1>3

LEMMA HostFailsInv ==
  ASSUME DualInv, HostFails
  PROVE  DualInv'
<1>1. HostAlive /\ UNCHANGED << o, patient, clientVars, cq, lq, tex, message >>
  BY DEF HostFails
<1>2. faults' \in 0 .. FAULTS
  BY FaultsAssumption DEF HostFails, DualInv
<1>3. PICK code \in 1 .. 31 : HostEnds(code)
  BY DEF HostFails, HostFailCodes, Killed
<1>4. QED
  BY <1>1, <1>2, <1>3, HostEndsInv

\* The client ends, with a code it may end with.
LEMMA ClientEndsInv ==
  ASSUME DualInv, cpc \notin {"none", "ended"}, NEW code \in 0 .. 28, ClientEnds(code),
         HostPosition', HostHolds', hpc' # "launch",
         faults' \in 0 .. FAULTS, pipeOpen' \in BOOLEAN,
         UNCHANGED << o, patient, hexit, hostGone, hostGpu, tex, message >>,
         code = 0 => completed = Total /\ mismatched = 0,
         code = 25 => completed = Total /\ (mismatched # 0 \/ contaminated # 0),
         Deferred(o) /\ code = 19 => submitted = FRAMES /\ completed = FRAMES,
         Deferred(o) /\ code = 21 => submitted = FRAMES /\ completed >= FRAMES - 1
  PROVE  DualInv'
<1> USE DEF ClientEnds, clientFrames, hostGpu
<1>0. FRAMES \in Nat /\ FrameId \subseteq Nat /\ Total \in Nat
  BY FrameIdIsNat
<1>1. /\ o' \in RUNS /\ patient' \in BOOLEAN /\ faults' \in 0 .. FAULTS
      /\ {hostGone, published, pipeOpen}' \subseteq BOOLEAN
  <2>1. published' \in BOOLEAN /\ hostGone' \in BOOLEAN /\ pipeOpen' \in BOOLEAN
    BY DEF DualInv
  <2>2. QED
    BY <2>1 DEF DualInv
<1>2. ClientPosition'
  <2>1. /\ cexit' = code /\ cpc' = "ended" /\ code \in -1 .. 28 /\ code # Running
        /\ UNCHANGED << o, submitted, completed, mismatched, contaminated, reuseWaits,
                        maxInFlight >>
    BY DEF Running
  <2>2. /\ submitted \in 0 .. Total /\ completed \in 0 .. submitted
        /\ submitted <= completed + Room
        /\ reuseWaits \in 0 .. submitted /\ maxInFlight \in 0 .. submitted
        /\ mismatched \in 0 .. completed /\ contaminated \in 0 .. completed
        /\ Early => submitted = 0
        /\ o.negative = "backpressure-host-termination" => submitted <= 1 /\ completed = 0
    BY DEF DualInv, ClientPosition
  <2>3. QED
    BY <2>1, <2>2 DEF ClientPosition, ClientSteps, Room, Early, Ring
<1>3. ClientHolds'
  BY DEF DualInv, ClientHolds, Working, Replaces, Ring
<1>4. submitted \in Nat /\ completed \in Nat /\ completed <= submitted
  <2>1. completed \in 0 .. submitted
    BY DEF DualInv, ClientPosition
  <2>2. QED
    BY <2>1, SignalledFacts
<1>5. QueueForm' /\ RelayForm'
  <2>1. Unsent' = 0 /\ WorkLength(o) \in Nat
    BY DEF Unsent, WorkLength
  <2>2. QueueForm'
    BY <1>4, <2>1 DEF QueueForm, Ring
  <2>3. RelayForm'
    BY DEF RelayForm
  <2>4. QED
    BY <2>2, <2>3
<1>6. FencesTell'
  <2>1. Woken \in Nat
    BY <1>0 DEF Woken
  <2>2. ready' \in [Slots -> 0 .. Woken]
    BY <2>1 DEF DualInv, FencesTell
  <2>3. QED
    BY <2>2 DEF DualInv, FencesTell, HostAlive
<1>7. InOrder'
  BY DEF DualInv, InOrder, HostAlive
<1>8. Contents'
  BY DEF DualInv, Contents
<1>9. DetectorsAreExact'
  BY DetectorsKept DEF HostAlive
<1>10. CodesTell'
  BY DEF DualInv, CodesTell, Deferred
<1>11. QED
  BY <1>1, <1>2, <1>3, <1>5, <1>6, <1>7, <1>8, <1>9, <1>10 DEF DualInv

LEMMA HostKillsClientInv ==
  ASSUME DualInv, HostKillsClient
  PROVE  DualInv'
<1> USE DEF HostKillsClient, setup
<1>0. FRAMES \in Nat /\ FRAMES > 0
  BY FrameIdIsNat
<1>1. HostAlive /\ cpc \notin {"none", "ended"}
  BY DEF DualInv, HostPosition, ClientPosition, HostAlive, ClientAlive
<1>2. Expected(o) = 21 /\ Deferred(o) /\ ~Early /\ Replaces(o)
  BY <1>1 DEF Expected, Deferred, DeferredNegatives, Early, SetupNegatives, DualInv, HostHolds
<1>3. HostPosition'
  BY <1>2 DEF DualInv, HostPosition, HostSteps, Early, Deferred, hostGpu, HostAlive,
     DeferredNegatives, HostLossNegatives, SetupNegatives
<1>4. HostHolds'
  BY <1>1 DEF DualInv, HostPosition, HostHolds, hostGpu, HostAlive, Replaces, Ring,
     FirstResources, Slots, Deferred
<1>5. submitted = FRAMES
  <2>1. dispatched = FRAMES /\ message # 1
    BY <1>2 DEF DualInv, HostPosition
  <2>2. FRAMES <= Signalled
    BY <1>1, <1>2, <2>1 DEF DualInv, InOrder
  <2>3. FRAMES <= submitted
    BY <1>0, <2>2, SignalledFacts
  <2>4. ~(submitted > FRAMES)
    BY <1>2, <2>1 DEF DualInv, ClientHolds
  <2>5. QED
    BY <1>0, <2>3, <2>4, SignalledFacts
<1>6. completed >= FRAMES - 1
  <2>1. submitted <= completed + 1
    BY <1>2 DEF DualInv, ClientPosition, Room, Replaces
  <2>2. QED
    BY <1>0, <1>5, <2>1, SignalledFacts
<1>7. ClientEnds(21) /\ 21 \in 0 .. 28
  BY <1>2
<1>8. /\ UNCHANGED << o, patient, hexit, hostGone, hostGpu, tex, message >>
      /\ faults' \in 0 .. FAULTS /\ pipeOpen' \in BOOLEAN /\ hpc' # "launch"
  BY DEF DualInv
<1>9. QED
  BY <1>1, <1>3, <1>4, <1>5, <1>6, <1>7, <1>8, ClientEndsInv

\* The client ends by itself: never with the code the host kills it with.
LEMMA ClientExitInv ==
  ASSUME DualInv, cpc \notin {"none", "ended"}, NEW code \in (0 .. 28) \ {21},
         ClientEnds(code), faults' \in 0 .. FAULTS,
         UNCHANGED << o, patient, hostVars, hostGpu, tex, message >>,
         code = 0 => completed = Total /\ mismatched = 0,
         code = 25 => completed = Total /\ (mismatched # 0 \/ contaminated # 0),
         Deferred(o) /\ code = 19 => cpc = "read"
  PROVE  DualInv'
<1>1. HostPosition' /\ HostHolds'
  BY HostKept DEF DualInv, HostPosition
<1>2. hpc' # "launch"
  BY DEF DualInv, ClientPosition, hostVars
<1>3. cpc = "read" => submitted = FRAMES /\ completed = FRAMES
  <2>1. cpc = "read" => Replaces(o) /\ submitted = FRAMES
    BY DEF DualInv, ClientHolds, Working
  <2>2. QED
    BY <2>1 DEF DualInv, ClientPosition, Replaces
<1>4. code \in 0 .. 28 /\ code # 21
  OBVIOUS
<1>5. UNCHANGED << o, patient, hexit, hostGone, hostGpu, tex, message >> /\ pipeOpen' \in BOOLEAN
  BY DEF hostVars, DualInv
<1>6. QED
  BY <1>1, <1>2, <1>3, <1>4, <1>5, ClientEndsInv

LEMMA ClientExitsInv ==
  ASSUME DualInv, cpc \notin {"none", "ended"}, NEW code \in (0 .. 28) \ {21},
         ClientExit(code),
         code = 0 => completed = Total /\ mismatched = 0,
         code = 25 => completed = Total /\ (mismatched # 0 \/ contaminated # 0),
         code = 19 => cpc = "read"
  PROVE  DualInv'
<1>1. /\ ClientEnds(code) /\ UNCHANGED << o, patient, hostVars, hostGpu, tex, message >>
      /\ faults' \in 0 .. FAULTS
  BY DEF ClientExit, setup, DualInv
<1>2. QED
  BY <1>1, ClientExitInv

LEMMA ClientStopsInv ==
  ASSUME DualInv,
         \/ ClientSeesStall \/ ClientSeesDone \/ ClientSeesHostLoss
         \/ ClientGivesUpOnHost \/ ClientGivesUpRelay \/ ClientReadFails \/ ClientReports
  PROVE  DualInv'
<1>1. CASE ClientSeesStall
  BY <1>1, ClientExitsInv DEF ClientSeesStall
<1>2. CASE ClientSeesDone
  BY <1>2, ClientExitsInv DEF ClientSeesDone
<1>3. CASE ClientSeesHostLoss
  <2>1. LossCode \in {22, 26}
    BY DEF LossCode
  <2>2. QED
    BY <1>3, <2>1, ClientExitsInv DEF ClientSeesHostLoss
<1>4. CASE ClientGivesUpOnHost
  <2>1. NoLossCode \in {20, 23}
    BY DEF NoLossCode
  <2>2. QED
    BY <1>4, <2>1, ClientExitsInv DEF ClientGivesUpOnHost
<1>5. CASE ClientGivesUpRelay
  BY <1>5, ClientExitsInv DEF ClientGivesUpRelay
<1>6. CASE ClientReadFails
  BY <1>6, ClientExitsInv DEF ClientReadFails
<1>7. CASE ClientReports
  <2>1. ResultCode \in {0, 16, 24, 25}
    BY DEF ResultCode
  <2>2. ResultCode = 0 => mismatched = 0
    BY DEF ResultCode
  <2>3. ResultCode = 25 => mismatched # 0 \/ contaminated # 0
    BY DEF ResultCode
  <2>4. ResultCode # 19
    BY <2>1
  <2>5. QED
    BY <1>7, <2>1, <2>2, <2>3, <2>4, ClientExitsInv DEF ClientReports
<1>8. QED
  BY <1>1, <1>2, <1>3, <1>4, <1>5, <1>6, <1>7

LEMMA ClientFailsInv ==
  ASSUME DualInv, ClientFails
  PROVE  DualInv'
<1>1. UNCHANGED << o, patient, hostVars, hostGpu, tex, message >> /\ cpc \notin {"none", "ended"}
  BY DEF ClientFails, ClientAlive, DualInv, ClientPosition
<1>2. faults' \in 0 .. FAULTS
  BY FaultsAssumption DEF ClientFails, DualInv
<1>3. PICK code \in ClientFailCodes \cup {Killed} : ClientEnds(code)
  BY DEF ClientFails
<1>4. code \in 1 .. 28 /\ code \notin {21, 25} /\ (code = 19 => cpc = "read")
  <2>1. NoLossCode \in {20, 23}
    BY DEF NoLossCode
  <2>2. CASE cpc = "read"
    BY <2>2 DEF ClientFailCodes, Killed
  <2>3. CASE cpc # "read"
    <3>1. code \in {1, 4, 8, 10, 11, 13, 20, 23, 28}
      BY <2>1, <2>3 DEF ClientFailCodes, Killed
    <3>2. QED
      BY <3>1
  <2>4. QED
    BY <2>2, <2>3
<1>5. QED
  BY <1>1, <1>2, <1>3, <1>4, ClientExitInv

----------------------------------------------------------------------------
(* The steps of the client.                                                *)

\* A step that moves the client on: what is left to show of it.
LEMMA ClientMovesInv ==
  ASSUME DualInv, cpc \notin {"none", "ended"}, cpc' \notin {"none", "ended"},
         UNCHANGED << setup, hostVars, hostGpu, cexit, tex, fences, message >>,
         published' \in BOOLEAN, ClientPosition', ClientHolds', QueueForm', RelayForm',
         ~Early => Signalled' = Signalled,
         HostAlive => completed' <= dispatched,
         HostAlive /\ cpc' = "map" /\ Len(cq)' <= 1 => completed' < dispatched,
         Contents', DetectorsAreExact'
  PROVE  DualInv'
<1> USE DEF setup, hostVars, hostGpu, fences
<1>1. /\ o' \in RUNS /\ patient' \in BOOLEAN /\ faults' \in 0 .. FAULTS
      /\ {hostGone, published, pipeOpen}' \subseteq BOOLEAN
  <2>1. published' \in BOOLEAN /\ hostGone' \in BOOLEAN /\ pipeOpen' \in BOOLEAN
    BY DEF DualInv
  <2>2. QED
    BY <2>1 DEF DualInv
<1>2. HostPosition' /\ HostHolds'
  BY HostKept DEF DualInv, HostPosition
<1>3. FencesTell'
  BY DEF DualInv, FencesTell, HostAlive, Early
<1>4. InOrder'
  BY DEF DualInv, InOrder, HostAlive, Early
<1>5. CodesTell'
  <2>1. hexit # 0 /\ cexit = Running
    BY DEF DualInv, CodesTell, ClientPosition
  <2>2. QED
    BY <2>1 DEF CodesTell, Running
<1>6. QED
  BY <1>1, <1>2, <1>3, <1>4, <1>5 DEF DualInv

\* A step outside the frame loop: the queues stay as they are, but for the
\* signal of a probe.
LEMMA ClientStepsInv ==
  ASSUME DualInv,
         cpc \notin {"none", "ended", "map", "relay"}, cpc' \notin {"none", "ended", "map", "relay"},
         UNCHANGED << setup, hostVars, hostGpu, cexit, clientFrames, lq, tex, fences, message >>,
         cq' = cq \/ (Early /\ QueueForm'),
         cpc' = "read" => cq = << >>,
         ~Ring(o) /\ cpc' = "frames" => cq = << >>,
         cpc' \in {"publish", "probe-host", "probe-stall"} => cq' = << >>,
         cpc' # "start",
         published' \in BOOLEAN, ClientPosition', ClientHolds'
  PROVE  DualInv'
<1> USE DEF setup, hostVars, hostGpu, clientFrames, fences
<1>0. FrameId \subseteq Nat
  BY FrameIdIsNat
<1>1. submitted \in Nat /\ completed \in Nat
  BY SignalledFacts
<1>2. RelayForm'
  <2>1. lq = << >>
    BY DEF DualInv, RelayForm
  <2>2. QED
    BY <2>1 DEF DualInv, RelayForm
<1>3. CASE cq' = cq
  <2>1. Unsent' = Unsent
    BY <1>3 DEF Unsent
  <2>2. Signalled' = Signalled /\ Prepared' = Prepared
    BY <2>1 DEF Signalled, Prepared, Ring
  <2>3. \A k : Program(k)' = Program(k)
    BY DEF Program, Pending, Ring
  <2>4. QueueForm'
    BY <1>3, <2>1, <2>3 DEF DualInv, QueueForm, Early, Ring
  <2>5. Contents'
    BY <2>2 DEF DualInv, Contents, HostAlive
  <2>6. DetectorsAreExact'
    BY DetectorsKept DEF HostAlive, hostVars
  <2>7. HostAlive => completed' <= dispatched
    BY DEF DualInv, InOrder
  <2>8. QED
    BY <1>2, <2>2, <2>4, <2>5, <2>6, <2>7, ClientMovesInv
<1>4. CASE Early /\ QueueForm'
  <2>a. Early
    BY <1>4
  <2>b. QueueForm'
    BY <1>4
  <2>0. submitted = 0
    BY <2>a DEF DualInv, ClientPosition
  <2>1. submitted = 0 /\ completed = 0 /\ submitted' = 0
    BY <2>0 DEF DualInv, ClientPosition
  <2>2. Prepared' <= 0 /\ Prepared' \in Int
    BY <2>1 DEF Prepared
  <2>3. Contents'
    BY <1>0, <2>1, <2>2 DEF DualInv, Contents
  <2>4. DetectorsAreExact'
    BY DetectorsKept DEF HostAlive, hostVars
  <2>5. HostAlive => completed' <= dispatched
    BY DEF DualInv, InOrder
  <2>6. QED
    BY <1>2, <2>a, <2>b, <2>3, <2>4, <2>5, ClientMovesInv
<1>5. QED
  BY <1>3, <1>4

LEMMA ClientStartsInv ==
  ASSUME DualInv, ClientStarts
  PROVE  DualInv'
<1> USE DEF setup, hostVars, hostGpu, clientFrames, fences
<1> DEFINE refusal == Refusal(Arguments(o))
<1>0. Consistent(o) /\ FRAMES \in Nat
  BY InvIsConsistent, FrameIdIsNat
<1>1. cpc = "start"
  BY DEF ClientStarts
<1>2. CASE refusal # 0
  <2>1. refusal \in {2, 3, 5, 8, 9}
    BY <1>2 DEF Refusal
  <2>2. ClientExit(refusal)
    BY <1>2 DEF ClientStarts
  <2>3. /\ ClientEnds(refusal) /\ UNCHANGED << o, patient, hostVars, hostGpu, tex, message >>
        /\ faults' \in 0 .. FAULTS
    BY <2>2 DEF ClientExit, setup, DualInv
  <2>4. refusal \in (0 .. 28) \ {21}
    BY <2>1
  <2> HIDE DEF refusal
  <2>5. QED
    BY <1>1, <2>1, <2>3, <2>4, ClientExitInv
<1>3. CASE refusal = 0
  <2>1. /\ cpc' = "publish" /\ clientRes' = FirstResources(o)
        /\ UNCHANGED << setup, hostVars, hostGpu, cexit, tex, fences, message,
                        clientFrames, published, cq, lq >>
    BY <1>3 DEF ClientStarts, ClientGoes
  <2>2. o.negative \notin SetupNegatives
    BY <1>3 DEF Refusal, Arguments, SetupNegatives
  <2> HIDE DEF refusal
  <2>3. ClientPosition'
    BY <1>1, <2>1, <2>2 DEF DualInv, ClientPosition, ClientSteps, Room, Early, Ring,
       setup, hostVars, clientFrames
  <2>4. ClientHolds'
    <3>1. submitted = 0
      BY <1>1 DEF DualInv, ClientPosition
    <3>2. Replaces(o) => FirstResources(o) = {0}
      BY <1>0 DEF Replaces, FirstResources, Ring
    <3>3. FirstResources(o) \subseteq Slots
      BY DEF FirstResources, Slots
    <3>4. QED
      BY <1>0, <2>1, <3>1, <3>2, <3>3 DEF ClientHolds, Working, Replaces, Ring, FirstResources,
         setup, clientFrames
  <2>5. cq' = << >> /\ cq' = cq
    BY <1>1, <2>1 DEF DualInv, QueueForm
  <2>6. QED
    BY <1>1, <2>1, <2>3, <2>4, <2>5, ClientStepsInv DEF DualInv
<1>4. QED
  BY <1>2, <1>3

LEMMA ClientPublishesInv ==
  ASSUME DualInv, ClientPublishes
  PROVE  DualInv'
<1> USE DEF setup, hostVars, hostGpu, clientFrames, fences
<1> DEFINE expect == Arguments(o).expect
<1>0. Consistent(o)
  BY InvIsConsistent
<1>1. /\ cpc = "publish" /\ published' = TRUE
      /\ cpc' = CASE expect = "host-termination" -> "probe-host"
                  [] expect = "host-stall" -> "probe-stall"
                  [] OTHER -> "frames"
      /\ UNCHANGED << setup, hostVars, hostGpu, cexit, tex, fences, message,
                      clientFrames, clientRes, cq, lq >>
  BY DEF ClientPublishes, ClientGoes
<1>2. /\ cpc' = "probe-host" => o.negative = "host-termination"
      /\ cpc' = "probe-stall" => o.negative = "host-stall"
      /\ cpc' \in {"probe-host", "probe-stall", "frames"}
      /\ cpc' = "frames" => o.negative \notin {"host-termination", "host-stall"}
  BY <1>1 DEF Arguments, HostLossNegatives
<1>3. submitted = 0 /\ cq = << >> /\ o.negative \notin SetupNegatives
  BY <1>1 DEF DualInv, ClientPosition, QueueForm
<1>4. ClientPosition'
  BY <1>1, <1>2, <1>3 DEF DualInv, ClientPosition, ClientSteps, Room, Early, Ring,
     setup, hostVars, clientFrames
<1>5. ClientHolds'
  BY <1>1, <1>2 DEF DualInv, ClientHolds, Working, Replaces, Ring, FirstResources,
     setup, clientFrames
<1>6. QED
  BY <1>1, <1>2, <1>3, <1>4, <1>5, ClientStepsInv

LEMMA ClientProbesInv ==
  ASSUME DualInv, ClientProbes
  PROVE  DualInv'
<1> USE DEF setup, hostVars, hostGpu, clientFrames, fences
<1>1. /\ cpc \in {"probe-host", "probe-stall"} /\ cq' = << Signal(0, 1) >>
      /\ cpc' = IF cpc = "probe-host" THEN "await-host" ELSE "await-stall"
      /\ UNCHANGED << setup, hostVars, hostGpu, cexit, tex, fences, message,
                      clientFrames, published, clientRes, lq >>
  BY DEF ClientProbes, ClientGoes
<1>2. Early /\ (cpc = "probe-host" => o.negative \in HostLossNegatives)
      /\ (cpc = "probe-stall" => o.negative = "host-stall")
  BY <1>1 DEF DualInv, ClientPosition, Early, HostLossNegatives
<1>3. ClientPosition'
  BY <1>1, <1>2 DEF DualInv, ClientPosition, ClientSteps, Room, Early, Ring,
     setup, hostVars, clientFrames
<1>4. ClientHolds'
  BY <1>1 DEF DualInv, ClientHolds, Working, Replaces, Ring, FirstResources,
     setup, clientFrames
<1>5. QueueForm'
  <2>1. Total \in Nat /\ Total > 0
    BY FrameIdIsNat
  <2>2. Signal(0, 1) \in Command
    BY <2>1 DEF Command, Signal, Slots
  <2>3. Early' /\ cpc' \in {"await-host", "await-stall"}
    BY <1>1, <1>2 DEF Early, setup
  <2>4. cq' \in Seq(Command) /\ cq' = << Signal(0, 1) >>
    BY <1>1, <2>2
  <2>5. QED
    BY <2>3, <2>4 DEF QueueForm
<1>6. published' \in BOOLEAN /\ cpc' \in {"await-host", "await-stall"}
  BY <1>1 DEF DualInv
<1>7. QED
  BY <1>1, <1>2, <1>3, <1>4, <1>5, <1>6, ClientStepsInv

LEMMA ClientChecksHostInv ==
  ASSUME DualInv, ClientChecksHost
  PROVE  DualInv'
<1> USE DEF setup, hostVars, hostGpu, clientFrames, fences
<1>1. /\ cpc = "await-host" /\ cpc' = "await-host-again"
      /\ UNCHANGED << setup, hostVars, hostGpu, cexit, tex, fences, message,
                      clientFrames, published, clientRes, cq, lq >>
  BY DEF ClientChecksHost, ClientGoes
<1>2. ClientPosition'
  BY <1>1 DEF DualInv, ClientPosition, ClientSteps, Room, Early, Ring,
     setup, hostVars, clientFrames
<1>3. ClientHolds'
  BY <1>1 DEF DualInv, ClientHolds, Working, Replaces, Ring, FirstResources,
     setup, clientFrames
<1>4. QED
  BY <1>1, <1>2, <1>3, ClientStepsInv DEF DualInv

LEMMA ClientReleasesGenerationInv ==
  ASSUME DualInv, ClientReleasesGeneration
  PROVE  DualInv'
<1> USE DEF setup, hostVars, hostGpu, clientFrames, fences
<1>1. /\ cpc = "frames" /\ cpc' = "read" /\ clientRes' = clientRes \ {0}
      /\ Replaces(o) /\ submitted = FRAMES /\ 0 \in clientRes
      /\ UNCHANGED << setup, hostVars, hostGpu, cexit, tex, fences, message,
                      clientFrames, published, cq, lq >>
  BY DEF ClientReleasesGeneration, AtGeneration, ClientGoes
<1>2. o.negative # "backpressure-host-termination"
  BY <1>1, InvIsConsistent DEF Consistent, Replaces, Ring
<1>3. ClientPosition'
  BY <1>1, <1>2 DEF DualInv, ClientPosition, ClientSteps, Room, Early, Ring,
     setup, hostVars, clientFrames
<1>4. ClientHolds'
  <2>1. clientRes = {0} /\ clientRes' = {}
    BY <1>1 DEF DualInv, ClientHolds, Working
  <2>2. ~(submitted > FRAMES)
    BY <1>1, FrameIdIsNat
  <2>3. QED
    BY <1>1, <2>1, <2>2 DEF ClientHolds, Working, Replaces, Ring, setup, clientFrames
<1>5. cq = << >>
  BY <1>1 DEF DualInv, QueueForm, Replaces
<1>6. QED
  BY <1>1, <1>3, <1>4, <1>5, ClientStepsInv DEF DualInv

LEMMA ClientReadsInv ==
  ASSUME DualInv, ClientReads
  PROVE  DualInv'
<1> USE DEF setup, hostVars, hostGpu, clientFrames, fences
<1>0. cpc = "read" /\ Replaces(o) /\ submitted = FRAMES /\ clientRes = {}
  BY DEF ClientReads, DualInv, ClientHolds, Working
<1>1. CASE message # 1
  <2>1. ClientExit(19)
    BY <1>1 DEF ClientReads
  <2>2. /\ ClientEnds(19) /\ UNCHANGED << o, patient, hostVars, hostGpu, tex, message >>
        /\ faults' \in 0 .. FAULTS
    BY <2>1 DEF ClientExit, setup, DualInv
  <2>3. QED
    BY <1>0, <2>2, ClientExitInv
<1>2. CASE message = 1
  <2>1. /\ cpc' = "frames" /\ clientRes' = clientRes \cup {1}
        /\ UNCHANGED << setup, hostVars, hostGpu, cexit, tex, fences, message,
                        clientFrames, published, cq, lq >>
    BY <1>2 DEF ClientReads, ClientGoes
  <2>2. reuseWaits <= completed
    BY <1>0 DEF DualInv, ClientPosition, Replaces
  <2>3. ClientPosition'
    BY <1>0, <2>1, <2>2 DEF DualInv, ClientPosition, ClientSteps, Room, Early, Ring,
       setup, hostVars, clientFrames, Replaces
  <2>4. ClientHolds'
    <3>1. clientRes' = {1} /\ submitted >= FRAMES
      BY <1>0, <2>1, FrameIdIsNat
    <3>2. QED
      BY <1>0, <1>2, <2>1, <3>1 DEF ClientHolds, Working, Replaces, Ring, Slots, setup, clientFrames
  <2>5. cq = << >>
    BY <1>0 DEF DualInv, QueueForm
  <2>6. QED
    BY <1>0, <2>1, <2>3, <2>4, <2>5, ClientStepsInv DEF DualInv
<1>3. QED
  BY <1>1, <1>2

\* The queues and the contents around one submission.
LEMMA ClientDrawsRelayInv ==
  ASSUME DualInv, ClientDrawsRelay
  PROVE  DualInv'
<1> USE DEF setup, hostVars, hostGpu, clientFrames, fences
<1>0. Consistent(o)
  BY InvIsConsistent
<1>1. /\ cpc = "frames" /\ cpc' = "relay" /\ o.renderer \in RelayRenderers
      /\ submitted < Total /\ ~AtGeneration /\ lq' = lq \o LegacyWork(o, submitted)
      /\ UNCHANGED << setup, hostVars, hostGpu, cexit, tex, fences, message,
                      clientFrames, published, clientRes, cq >>
  BY DEF ClientDrawsRelay, ClientGoes
<1>2. ~Ring(o) /\ o.negative = "none" /\ o.renderer # "direct"
  BY <1>0, <1>1 DEF Consistent, Ring, RelayRenderers
<1>3. cq = << >> /\ cq' = << >> /\ lq = << >>
  BY <1>1, <1>2 DEF DualInv, QueueForm, RelayForm
<1>4. ClientPosition'
  BY <1>1, <1>2 DEF DualInv, ClientPosition, ClientSteps, Room, Early, Ring, AtGeneration, Replaces
<1>5. ClientHolds'
  BY <1>1 DEF DualInv, ClientHolds, Working, Replaces, Ring, FirstResources
<1>6. Unsent = 0 /\ Unsent' = 0
  BY <1>1, <1>3 DEF Unsent
<1>7. Signalled' = Signalled /\ Prepared' = Prepared
  BY <1>1, <1>6 DEF Signalled, Prepared
<1>8. QueueForm'
  <2>1. WorkLength(o') \in Nat
    BY DEF WorkLength
  <2>2. QED
    BY <1>1, <1>2, <1>3, <1>6, <2>1 DEF DualInv, QueueForm, Early, Ring
<1>9. submitted \in FrameId
  <2>1. submitted \in Nat
    BY SignalledFacts
  <2>2. QED
    BY <1>1, <2>1, FrameIdIsNat
<1>10. RelayForm' /\ Len(lq)' = 2
  <2>1. Slot(o, submitted) \in Slots /\ Payload(o, submitted) \in Pixel
    BY <1>0, <1>9, SlotFacts, PixelFacts
  <2>2. /\ Put("target", Slot(o, submitted), Payload(o, submitted)) \in Command
        /\ Copy("target", "relay", Slot(o, submitted)) \in Command
    BY <2>1 DEF Put, Copy, Command, Textures
  <2>3. /\ LegacyWork(o, submitted) \in Seq(Command) /\ Len(LegacyWork(o, submitted)) = 2
        /\ LegacyWork(o, submitted)[1] = Put("target", Slot(o, submitted), Payload(o, submitted))
        /\ LegacyWork(o, submitted)[2] = Copy("target", "relay", Slot(o, submitted))
    BY <2>2 DEF LegacyWork
  <2>4. lq' = LegacyWork(o, submitted)
    BY <1>1, <1>3, <2>3
  <2>5. lq' \in Seq(Command) /\ Len(lq') = 2 /\ cpc' = "relay"
    BY <1>1, <2>3, <2>4
  <2>6. /\ lq'[1] = Put("target", Slot(o', submitted'), Payload(o', submitted'))
        /\ lq'[2] = Copy("target", "relay", Slot(o', submitted'))
    BY <1>1, <2>3, <2>4
  <2>7. QED
    BY <2>5, <2>6 DEF RelayForm
<1>11. Contents'
  BY <1>1, <1>7, <1>10 DEF DualInv, Contents
<1>12. DetectorsAreExact'
  BY <1>1, DetectorsKept DEF HostAlive
<1>13. HostAlive => completed' <= dispatched
  BY <1>1 DEF DualInv, InOrder
<1>14. published' \in BOOLEAN
  BY <1>1 DEF DualInv
<1>15. QED
  BY <1>1, <1>4, <1>5, <1>7, <1>8, <1>10, <1>11, <1>12, <1>13, <1>14, ClientMovesInv

LEMMA ClientValidatesInv ==
  ASSUME DualInv, ClientValidates
  PROVE  DualInv'
<1> USE DEF setup, hostVars, hostGpu, clientFrames, fences
<1> DEFINE n == completed
           p == tex["staging"][Slot(o, n)]
<1>0. Consistent(o)
  BY InvIsConsistent
<1>1. /\ cpc = "map" /\ cpc' = "frames" /\ cq = << >>
      /\ mismatched' = mismatched + (IF LooksRight(o, n, p) THEN 0 ELSE 1)
      /\ contaminated' = contaminated + (IF Contaminated(o, n, p) THEN 1 ELSE 0)
      /\ completed' = n + 1
      /\ UNCHANGED << setup, hostVars, hostGpu, cexit, tex, fences, message,
                      submitted, reuseWaits, maxInFlight, published, clientRes, cq, lq >>
  BY DEF ClientValidates, ClientGoes
<1>2. n < submitted /\ n \in Nat /\ submitted \in Nat /\ submitted <= Total
  <2>1. n < submitted /\ submitted \in 0 .. Total
    BY <1>1 DEF DualInv, ClientPosition
  <2>2. QED
    BY <2>1, SignalledFacts
<1>3. n \in FrameId
  BY <1>2, FrameIdIsNat
<1>4. Unsent = -2 /\ Unsent' = 0
  BY <1>1 DEF Unsent
<1>5. Signalled' = Signalled /\ Prepared' = Prepared
  BY <1>1, <1>4 DEF Signalled, Prepared
<1>6. mismatched' \in 0 .. completed' /\ contaminated' \in 0 .. completed'
  <2>1. mismatched \in 0 .. completed /\ contaminated \in 0 .. completed
    BY DEF DualInv, ClientPosition
  <2>2. QED
    BY <1>1, <1>2, <2>1
<1>7. ClientPosition'
  <2>1. submitted <= completed + Room /\ Room \in Nat
    BY <1>0 DEF DualInv, ClientPosition, Room, Consistent, Options
  <2>2. submitted <= completed' + Room /\ completed' \in 0 .. submitted
    BY <1>1, <1>2, <2>1
  <2>3. ~Ring(o) => submitted = completed'
    BY <1>1, <1>2, <2>1 DEF Room
  <2>4. reuseWaits <= completed' /\ o.negative # "backpressure-host-termination" /\ ~Early
    BY <1>1 DEF DualInv, ClientPosition
  <2>5. QED
    BY <1>1, <1>6, <2>2, <2>3, <2>4 DEF DualInv, ClientPosition, ClientSteps, Room, Early, Ring
<1>8. ClientHolds'
  BY <1>1 DEF DualInv, ClientHolds, Working, Replaces, Ring, FirstResources
<1>9. QueueForm' /\ RelayForm'
  <2>1. WorkLength(o') \in Nat /\ lq = << >>
    BY <1>1 DEF WorkLength, DualInv, RelayForm
  <2>2. submitted' - completed' \in Nat
    BY <1>1, <1>2
  <2>3. QueueForm'
    BY <1>1, <1>4, <2>1, <2>2 DEF DualInv, QueueForm, Early, Ring
  <2>4. RelayForm'
    BY <1>1, <2>1 DEF DualInv, RelayForm
  <2>5. QED
    BY <2>3, <2>4
<1>10. HostAlive => completed' <= dispatched
  <2>1. HostAlive => n < dispatched
    BY <1>1 DEF DualInv, InOrder
  <2>2. dispatched \in Nat
    <3>1. recorded \in 0 .. Total /\ dispatched \in 0 .. recorded
      BY DEF DualInv, HostPosition
    <3>2. QED
      BY <3>1, FrameIdIsNat
  <2>3. QED
    BY <1>1, <1>2, <2>1, <2>2
<1>11. Contents'
  <2>1. \A m \in FrameId : completed' <= m => completed <= m
    BY <1>1, <1>2, FrameIdIsNat
  <2>2. QED
    BY <1>1, <1>5, <2>1 DEF DualInv, Contents
<1>12. DetectorsAreExact'
  <2>1. SUFFICES ASSUME HostAlive' PROVE DetectorsAreExact'
    BY DEF DetectorsAreExact
  <2>2. HostAlive /\ p = Result(o, n)
    BY <1>1, <2>1 DEF HostAlive, DualInv, Contents
  <2>3. (LooksRight(o, n, p) <=> ~Spoiled(n)) /\ (Contaminated(o, n, p) <=> Spoiled(n))
    BY <1>0, <1>3, <2>2, ResultIsJudged
  <2> DEFINE S == { m \in 0 .. n - 1 : Spoiled(m) }
             T == { m \in 0 .. n : Spoiled(m) }
  <2>4. mismatched = Cardinality(S) /\ contaminated = Cardinality(S)
    BY <2>2 DEF DualInv, DetectorsAreExact
  <2>5. IsFiniteSet(S)
    <3>1. IsFiniteSet(0 .. n - 1)
      BY <1>2, FS_Interval
    <3>2. S \subseteq 0 .. n - 1
      OBVIOUS
    <3>3. QED
      BY <3>1, <3>2, FS_Subset
  <2>6. T = IF Spoiled(n) THEN S \cup {n} ELSE S
    BY <1>2
  <2>7. n \notin S
    BY <1>2
  <2>8. Cardinality(T) = Cardinality(S) + (IF Spoiled(n) THEN 1 ELSE 0)
    <3>1. CASE Spoiled(n)
      BY <2>5, <2>6, <2>7, <3>1, FS_AddElement
    <3>2. CASE ~Spoiled(n)
      BY <2>5, <2>6, <3>2, FS_CardinalityType
    <3>3. QED
      BY <3>1, <3>2
  <2>9. mismatched' = Cardinality(T) /\ contaminated' = Cardinality(T)
    BY <1>1, <2>3, <2>4, <2>8
  <2>10. T = { m \in 0 .. completed' - 1 : Spoiled(m) }
    BY <1>1, <1>2
  <2>11. \A m : Spoiled(m)' <=> Spoiled(m)
    BY <1>1 DEF Spoiled
  <2>12. T = { m \in 0 .. completed' - 1 : Spoiled(m)' }
    BY <2>10, <2>11
  <2> HIDE DEF T
  <2>13. QED
    BY <2>9, <2>12 DEF DetectorsAreExact
<1>13. published' \in BOOLEAN
  BY <1>1 DEF DualInv
<1>14. QED
  BY <1>1, <1>5, <1>7, <1>8, <1>9, <1>10, <1>11, <1>12, <1>13, ClientMovesInv

LEMMA Concatenation ==
  ASSUME NEW S, NEW q \in Seq(S), NEW r \in Seq(S)
  PROVE  /\ q \o r \in Seq(S) /\ Len(q \o r) = Len(q) + Len(r) /\ Len(q) \in Nat
         /\ \A i \in 1 .. Len(q) : (q \o r)[i] = q[i]
         /\ \A i \in 1 .. Len(r) : (q \o r)[Len(q) + i] = r[i]
OBVIOUS

\* An element with two more behind it.
LEMMA Behind ==
  ASSUME NEW d \in Nat, NEW i \in 1 .. (d - 2)
  PROVE  d - i > 1 /\ d - i - 2 = (d - 2) - i
  OBVIOUS

LEMMA ClientReusesInv ==
  ASSUME DualInv, ClientReuses
  PROVE  DualInv'
<1> USE DEF setup, hostVars, hostGpu, clientFrames, fences
<1> DEFINE reuse == submitted < Total
           watched == reuse /\ o.negative = "backpressure-host-termination"
           v == FenceValue(o, completed)
<1>0. Consistent(o)
  BY InvIsConsistent
<1>1. /\ cpc = "frames" /\ Ring(o)
      /\ (submitted >= o.depth /\ completed = submitted - o.depth)
         \/ (submitted = Total /\ completed < Total)
      /\ reuseWaits' = IF reuse /\ done[0] < v THEN reuseWaits + 1 ELSE reuseWaits
      /\ cq' = IF watched THEN cq ELSE cq \o Readback(o, completed)
      /\ cpc' = IF watched THEN "await-host" ELSE "map"
      /\ UNCHANGED << setup, hostVars, hostGpu, cexit, tex, fences, message,
                      submitted, completed, mismatched, contaminated, maxInFlight,
                      published, clientRes, lq >>
  BY DEF ClientReuses, ClientGoes, ReuseDue, TailDue
<1>2. /\ submitted \in Nat /\ completed \in Nat /\ submitted <= Total
      /\ o.depth \in 1 .. 2 /\ Total \in Nat /\ Total >= 2
  <2>1. submitted \in 0 .. Total
    BY DEF DualInv, ClientPosition
  <2>2. o.depth \in 1 .. 2
    BY <1>0, <1>1 DEF Consistent, Options, Ring
  <2>3. FRAMES \in Nat /\ FRAMES > 0 /\ Total = 2 * FRAMES
    BY FrameIdIsNat
  <2>4. QED
    BY <2>1, <2>2, <2>3, SignalledFacts
<1>3. completed < submitted /\ completed \in FrameId
  <2>1. completed < submitted
    BY <1>1, <1>2
  <2>2. QED
    BY <1>2, <2>1, FrameIdIsNat
<1>4. reuseWaits' \in 0 .. completed + 1
  <2>1. reuseWaits \in 0 .. submitted /\ reuseWaits <= completed
    BY <1>1 DEF DualInv, ClientPosition
  <2>2. QED
    BY <1>1, <1>2, <2>1
<1>5. o.negative = "backpressure-host-termination" => reuse
  <2>1. o.negative = "backpressure-host-termination" => submitted <= 1
    BY DEF DualInv, ClientPosition
  <2>2. QED
    BY <1>2, <2>1
<1>6. ~Early
  BY <1>1 DEF DualInv, ClientPosition
<1>7. ClientPosition'
  <2>1. reuseWaits' \in 0 .. submitted /\ reuseWaits' <= completed + 1
    BY <1>2, <1>3, <1>4
  <2>2. cpc' = "await-host" => o.negative = "backpressure-host-termination"
    BY <1>1
  <2>3. o.negative = "backpressure-host-termination" => cpc' = "await-host"
    BY <1>1, <1>5
  <2>4. cpc' \in {"await-host", "map"}
    BY <1>1
  <2> HIDE DEF reuse, watched, v
  <2>5. QED
    BY <1>1, <1>3, <1>6, <2>1, <2>2, <2>3, <2>4
       DEF DualInv, ClientPosition, ClientSteps, Room, Early, Ring, HostLossNegatives
<1>8. ClientHolds'
  BY <1>1 DEF DualInv, ClientHolds, Working, Replaces, Ring, FirstResources
<1>9. Len(cq) \in Nat /\ cq \in Seq(Command)
  BY DEF DualInv, QueueForm
<1>10. /\ cq' \in Seq(Command) /\ Unsent' = Unsent
       /\ cpc' = "map" => /\ Len(cq') = Len(cq) + 2
                          /\ \A i \in 1 .. Len(cq) : cq'[i] = cq[i]
                          /\ cq'[Len(cq) + 1] = Wait(Timeline(o, completed), v)
                          /\ cq'[Len(cq) + 2] = Copy("shared", "staging", Slot(o, completed))
  <2>1. CASE watched
    BY <1>1, <1>9, <2>1 DEF Unsent
  <2>2. CASE ~watched
    <3>1. /\ Slot(o, completed) \in Slots /\ Timeline(o, completed) \in Slots
          /\ v \in 1 .. Total
      BY <1>0, <1>3, SlotFacts, FenceFacts
    <3>2. /\ Wait(Timeline(o, completed), v) \in Command
          /\ Copy("shared", "staging", Slot(o, completed)) \in Command
      BY <3>1 DEF Wait, Copy, Command, Textures
    <3>3. /\ Readback(o, completed) \in Seq(Command) /\ Len(Readback(o, completed)) = 2
          /\ Readback(o, completed)[1] = Wait(Timeline(o, completed), v)
          /\ Readback(o, completed)[2] = Copy("shared", "staging", Slot(o, completed))
      BY <3>2 DEF Readback
    <3>4. cq' = cq \o Readback(o, completed) /\ cpc' = "map"
      BY <1>1, <2>2
    <3>5. /\ cq' \in Seq(Command) /\ Len(cq') = Len(cq) + 2
          /\ \A i \in 1 .. Len(cq) : cq'[i] = cq[i]
          /\ cq'[Len(cq) + 1] = Readback(o, completed)[1]
          /\ cq'[Len(cq) + 2] = Readback(o, completed)[2]
      <4> HIDE DEF watched
      <4> DEFINE w == Readback(o, completed)
      <4>0. w \in Seq(Command)
        BY <3>3
      <4>1. Len(w) = 2
        BY <3>3
      <4>a. cq \in Seq(Command)
        BY <1>9
      <4> HIDE DEF w
      <4>2. /\ cq \o w \in Seq(Command) /\ Len(cq \o w) = Len(cq) + 2
            /\ \A i \in 1 .. Len(cq) : (cq \o w)[i] = cq[i]
            /\ (cq \o w)[Len(cq) + 1] = w[1] /\ (cq \o w)[Len(cq) + 2] = w[2]
        <5>1. /\ cq \o w \in Seq(Command) /\ Len(cq \o w) = Len(cq) + Len(w)
              /\ \A i \in 1 .. Len(cq) : (cq \o w)[i] = cq[i]
              /\ \A i \in 1 .. Len(w) : (cq \o w)[Len(cq) + i] = w[i]
          BY <4>a, <4>0
        <5>2. 1 \in 1 .. Len(w) /\ 2 \in 1 .. Len(w)
          BY <4>1
        <5>3. QED
          BY <4>0, <4>1, <5>1, <5>2
      <4>3. QED
        BY <3>4, <4>2 DEF w
    <3>6. Unsent' = Unsent
      BY <1>1, <1>9, <3>4, <3>5 DEF Unsent
    <3>7. QED
      BY <3>3, <3>5, <3>6
  <2>3. QED
    BY <2>1, <2>2
<1>11. Signalled' = Signalled /\ Prepared' = Prepared
  BY <1>1, <1>10 DEF Signalled, Prepared, Ring
<1>12. QueueForm'
  <2>1. cpc' \in {"await-host", "map"} /\ Ring(o') /\ ~Early'
    BY <1>1, <1>6 DEF Ring, Early
  <2>2. Unsent' <= 2 * (submitted' - completed')
    BY <1>1, <1>6, <1>10 DEF DualInv, QueueForm
  <2>3. ASSUME NEW i \in 1 .. Len(cq')
        PROVE  LET k == Len(cq') - i IN
               cq'[i] = IF cpc' # "map" THEN Pending(k)
                        ELSE IF k = 0 THEN Copy("shared", "staging", Slot(o, completed))
                        ELSE IF k = 1 THEN Wait(Timeline(o, completed), v)
                        ELSE Pending(k - 2)
    <3>2. \A j \in 1 .. Len(cq) : cq[j] = Pending(Len(cq) - j)
      BY <1>1, <1>6 DEF DualInv, QueueForm, Program
    <3>3. CASE cpc' = "await-host"
      <4>1. cq' = cq
        BY <1>1, <3>3
      <4>2. QED
        BY <3>2, <3>3, <4>1
    <3>4. CASE cpc' = "map"
      <4>1. Len(cq') = Len(cq) + 2
        BY <1>10, <3>4
      <4>2. CASE i = Len(cq) + 2
        <5>1. Len(cq') - i = 0
          BY <1>9, <4>1, <4>2
        <5>2. QED
          BY <1>10, <3>4, <4>2, <5>1
      <4>3. CASE i = Len(cq) + 1
        <5>1. Len(cq') - i = 1
          BY <1>9, <4>1, <4>3
        <5>2. QED
          BY <1>10, <3>4, <4>3, <5>1
      <4>4. CASE i \in 1 .. Len(cq)
        <5>1. Len(cq') - i - 2 = Len(cq) - i /\ Len(cq') - i >= 2
          BY <1>9, <4>1, <4>4
        <5>2. cq'[i] = Pending(Len(cq) - i)
          BY <1>10, <3>2, <3>4, <4>4
        <5>3. QED
          BY <3>4, <5>1, <5>2
      <4>5. QED
        BY <1>9, <4>1, <4>2, <4>3, <4>4
    <3>5. QED
      BY <2>1, <3>3, <3>4
  <2>4. \A i \in 1 .. Len(cq') : cq'[i] = Program(Len(cq) - i)'
    BY <1>1, <2>3 DEF Program, Pending, Ring
  <2>5. cq' \in Seq(Command)
    BY <1>10
  <2> HIDE DEF reuse, watched, v
  <2>6. QED
    BY <2>1, <2>2, <2>4, <2>5 DEF QueueForm, Early, Ring
<1>13. RelayForm'
  <2>1. lq = << >>
    BY <1>1 DEF DualInv, RelayForm
  <2>2. QED
    BY <1>1, <2>1 DEF DualInv, RelayForm
<1>14. cpc' = "map" => Len(cq') > 1 /\ cq' # << >>
  BY <1>9, <1>10
<1>15. Contents'
  BY <1>1, <1>11, <1>14 DEF DualInv, Contents, Ring
<1>16. DetectorsAreExact'
  BY <1>1, DetectorsKept DEF HostAlive
<1>17. HostAlive => completed' <= dispatched
  BY <1>1 DEF DualInv, InOrder
<1>18. published' \in BOOLEAN /\ cpc' \in {"await-host", "map"}
  BY <1>1 DEF DualInv
<1>19. HostAlive /\ cpc' = "map" /\ Len(cq)' <= 1 => completed' < dispatched
  BY <1>9, <1>10
<1>20. QED
  BY <1>1, <1>7, <1>8, <1>11, <1>12, <1>13, <1>15, <1>16, <1>17, <1>18, <1>19, ClientMovesInv

LEMMA ClientSubmitsInv ==
  ASSUME DualInv, ClientSubmits
  PROVE  DualInv'
<1> USE DEF setup, hostVars, hostGpu, clientFrames, fences
<1> DEFINE n == submitted
           w == Submission(o, n)
           W == WorkLength(o)
           x == IF Ring(o) THEN << >> ELSE Readback(o, n)
<1>0. Consistent(o)
  BY InvIsConsistent
<1>1. /\ IF o.renderer \in RelayRenderers THEN cpc = "relay" /\ lq = << >> ELSE cpc = "frames"
      /\ n < Total /\ ~AtGeneration /\ ~ReuseDue /\ submitted' = n + 1
      /\ cq' = cq \o w \o x
      /\ maxInFlight' = IF Ring(o) /\ submitted' - completed > maxInFlight
                        THEN submitted' - completed ELSE maxInFlight
      /\ cpc' = IF Ring(o) THEN "frames" ELSE "map"
      /\ UNCHANGED << setup, hostVars, hostGpu, cexit, tex, fences, message,
                      completed, mismatched, contaminated, reuseWaits, clientRes,
                      published, lq >>
  BY DEF ClientSubmits, ClientGoes, RelaySettled
<1>2. n \in FrameId /\ n \in Nat /\ completed \in Nat /\ completed <= n /\ Total \in Nat
      /\ FRAMES \in Nat
  <2>1. n \in Nat /\ completed \in Nat /\ completed \in 0 .. submitted
    BY SignalledFacts DEF DualInv, ClientPosition
  <2>2. QED
    BY <1>1, <2>1, FrameIdIsNat
<1>3. cpc \in {"frames", "relay"} /\ ~Early
  BY <1>1 DEF DualInv, ClientPosition
<1>4. Ring(o) => /\ cpc = "frames" /\ W = 2 /\ o.depth \in 1 .. 2
                 /\ n < completed + o.depth
  <2>1. SUFFICES ASSUME Ring(o) PROVE cpc = "frames" /\ W = 2 /\ o.depth \in 1 .. 2
                                      /\ n < completed + o.depth
    OBVIOUS
  <2>2. o.renderer = "direct" /\ o.depth \in 1 .. 2
    BY <1>0, <2>1 DEF Ring, Consistent, Options
  <2>3. cpc = "frames" /\ W = 2
    BY <1>1, <2>2 DEF WorkLength, RelayRenderers
  <2>4. n <= completed + o.depth
    BY <2>1 DEF DualInv, ClientPosition, Room
  <2>5. ~(n >= o.depth /\ completed = n - o.depth)
    BY <1>1, <2>1 DEF ReuseDue
  <2>6. QED
    BY <1>2, <2>2, <2>3, <2>4, <2>5
<1>5. ~Ring(o) => n = completed /\ cq = << >> /\ Len(cq) = 0
  <2>1. ~Ring(o) => n = completed /\ cq = << >>
    BY <1>3 DEF DualInv, ClientPosition, QueueForm
  <2>2. QED
    BY <2>1
<1>6. W \in 2 .. 4
  BY DEF WorkLength
<1>7. ClientPosition'
  <2>1. submitted' \in 0 .. Total /\ completed \in 0 .. submitted'
    BY <1>1, <1>2
  <2>2. submitted' <= completed + Room
    BY <1>1, <1>2, <1>4, <1>5 DEF Room
  <2>3. maxInFlight' \in 0 .. submitted'
    <3>1. maxInFlight \in 0 .. submitted
      BY DEF DualInv, ClientPosition
    <3>2. QED
      BY <1>1, <1>2, <3>1
  <2>4. reuseWaits \in 0 .. submitted' /\ reuseWaits <= completed
    <3>1. reuseWaits \in 0 .. submitted /\ (cpc = "frames" => reuseWaits <= completed)
      BY DEF DualInv, ClientPosition
    <3>2. QED
      BY <1>1, <1>2, <1>4, <1>5, <3>1
  <2>5. cpc' = "map" => completed < submitted' /\ reuseWaits <= completed + 1
    BY <1>1, <1>2, <1>5, <2>4
  <2>6. o.negative = "backpressure-host-termination" =>
          submitted' <= 1 /\ completed = 0 /\ cpc' = "frames"
    <3>1. SUFFICES ASSUME o.negative = "backpressure-host-termination"
                   PROVE  submitted' <= 1 /\ completed = 0 /\ cpc' = "frames"
      OBVIOUS
    <3>2. Ring(o) /\ o.depth = 1
      BY <1>0, <3>1 DEF Consistent, Ring
    <3>3. completed = 0
      BY <3>1 DEF DualInv, ClientPosition
    <3>4. QED
      BY <1>1, <1>2, <1>4, <3>2, <3>3
  <2>7. mismatched \in 0 .. completed /\ contaminated \in 0 .. completed
        /\ cexit \in -1 .. 28 /\ (cexit = Running <=> cpc # "ended")
        /\ (hpc = "launch" => cpc = "none") /\ o.negative \notin SetupNegatives
    BY <1>3 DEF DualInv, ClientPosition
  <2>8. cpc' \in {"frames", "map"} /\ (cpc' = "map" <=> ~Ring(o))
    BY <1>1
  <2> HIDE DEF w, x, W
  <2>9. /\ cpc' \in ClientSteps /\ cexit' \in -1 .. 28
        /\ cexit' = Running <=> cpc' # "ended"
        /\ hpc' = "launch" => cpc' = "none"
    BY <1>1, <1>3, <2>7, <2>8 DEF ClientSteps
  <2>10. o' = o /\ ~Early' /\ (Room' = Room) /\ Ring(o') = Ring(o)
    BY <1>1, <1>3 DEF Early, Room, Ring
  <2>11. UNCHANGED << completed, mismatched, contaminated, reuseWaits >>
    BY <1>1
  <2>12. QED
    BY <2>1, <2>2, <2>3, <2>4, <2>5, <2>6, <2>7, <2>8, <2>9, <2>10, <2>11 DEF ClientPosition
<1>8. ClientHolds'
  <2>1. CASE ~Replaces(o)
    <3>1. clientRes = FirstResources(o) /\ clientRes \subseteq Slots
      BY <1>3, <2>1 DEF DualInv, ClientHolds, Working
    <3>2. cpc' # "read"
      BY <1>1
    <3>3. QED
      BY <1>1, <2>1, <3>1, <3>2 DEF ClientHolds, Replaces, Ring, FirstResources
  <2>2. CASE Replaces(o)
    <3>1. \/ clientRes = {0} /\ n <= FRAMES
          \/ clientRes = {1} /\ n >= FRAMES /\ message = 1
      BY <1>3, <2>2 DEF DualInv, ClientHolds, Working
    <3>2. clientRes = {0} => n # FRAMES
      BY <1>1, <2>2 DEF AtGeneration
    <3>3. cpc' = "map"
      BY <1>1, <2>2 DEF Replaces
    <3>4. \/ clientRes' = {0} /\ submitted' <= FRAMES
          \/ clientRes' = {1} /\ submitted' > FRAMES /\ submitted' >= FRAMES /\ message = 1
      BY <1>1, <1>2, <3>1, <3>2
    <3>5. ~(submitted' <= FRAMES /\ submitted' > FRAMES) /\ 0 # 1
      BY <1>1, <1>2
    <3>6. Replaces(o') /\ message' = message
      BY <1>1, <2>2 DEF Replaces, Ring
    <3>7. clientRes' \subseteq Slots
      BY <3>4 DEF Slots
    <3> HIDE DEF w, x, W
    <3>8. CASE clientRes' = {0} /\ submitted' <= FRAMES
      <4>1. 1 \notin clientRes' /\ ~(submitted' > FRAMES)
        BY <3>5, <3>8
      <4>2. QED
        BY <3>3, <3>6, <3>7, <3>8, <4>1 DEF ClientHolds, Working
    <3>9. CASE clientRes' = {1} /\ submitted' > FRAMES /\ submitted' >= FRAMES /\ message = 1
      BY <3>3, <3>6, <3>7, <3>9 DEF ClientHolds, Working
    <3>10. QED
      BY <3>4, <3>8, <3>9
  <2>3. QED
    BY <2>1, <2>2
<1>9. cq \in Seq(Command) /\ w \in Seq(Command) /\ x \in Seq(Command)
      /\ Len(w) = W /\ \A i \in 1 .. W : w[i] = Work(o, n, W - i)
  <2>1. cq \in Seq(Command)
    BY DEF DualInv, QueueForm
  <2>2. w \in Seq(Command) /\ Len(w) = W /\ \A i \in 1 .. W : w[i] = Work(o, n, W - i)
    BY <1>0, <1>2, SubmissionForm
  <2>3. Slot(o, n) \in Slots /\ Timeline(o, n) \in Slots /\ FenceValue(o, n) \in 1 .. Total
    BY <1>0, <1>2, SlotFacts, FenceFacts
  <2>4. Readback(o, n) \in Seq(Command)
    BY <2>3 DEF Readback, Wait, Copy, Command, Textures
  <2>5. x \in Seq(Command)
    BY <2>4
  <2>6. QED
    BY <2>1, <2>2, <2>5
<1>10. /\ Ring(o) => Len(x) = 0
       /\ ~Ring(o) => /\ Len(x) = 2
                      /\ x[1] = Wait(Timeline(o, n), FenceValue(o, n))
                      /\ x[2] = Copy("shared", "staging", Slot(o, n))
  BY DEF Readback
<1>11. /\ cq' \in Seq(Command) /\ Len(cq') = Len(cq) + W + Len(x) /\ Len(cq) \in Nat
       /\ \A i \in 1 .. Len(cq) : cq'[i] = cq[i]
       /\ \A i \in 1 .. W : cq'[Len(cq) + i] = Work(o, n, W - i)
       /\ \A i \in 1 .. Len(x) : cq'[Len(cq) + W + i] = x[i]
  <2> DEFINE y == cq \o w
  <2>1. cq \in Seq(Command) /\ w \in Seq(Command) /\ x \in Seq(Command)
    BY <1>9
  <2>2. cq' = y \o x
    BY <1>1
  <2> HIDE DEF w, x, W
  <2>3. /\ y \in Seq(Command) /\ Len(y) = Len(cq) + Len(w) /\ Len(cq) \in Nat
        /\ \A i \in 1 .. Len(cq) : y[i] = cq[i]
        /\ \A i \in 1 .. Len(w) : y[Len(cq) + i] = w[i]
    BY <2>1, Concatenation
  <2> HIDE DEF y
  <2>4. y \in Seq(Command)
    BY <2>3
  <2>5. /\ y \o x \in Seq(Command) /\ Len(y \o x) = Len(y) + Len(x) /\ Len(y) \in Nat
        /\ \A i \in 1 .. Len(y) : (y \o x)[i] = y[i]
        /\ \A i \in 1 .. Len(x) : (y \o x)[Len(y) + i] = x[i]
    BY <2>1, <2>4, Concatenation
  <2> DEFINE z == y \o x
  <2>6. /\ cq' = z /\ z \in Seq(Command) /\ Len(z) = Len(y) + Len(x) /\ Len(y) \in Nat
        /\ \A i \in 1 .. Len(y) : z[i] = y[i]
        /\ \A i \in 1 .. Len(x) : z[Len(y) + i] = x[i]
    BY <2>2, <2>5
  <2> HIDE DEF z
  <2>7. Len(w) = W /\ \A i \in 1 .. W : w[i] = Work(o, n, W - i)
    BY <1>9
  <2>8. \A i \in 1 .. Len(cq) : i \in 1 .. Len(y)
    BY <1>6, <2>3, <2>7
  <2>9. \A i \in 1 .. W : Len(cq) + i \in 1 .. Len(y)
    BY <1>6, <2>3, <2>7
  <2>10. \A i \in 1 .. Len(cq) : z[i] = cq[i]
    BY <2>3, <2>6, <2>8
  <2>11. \A i \in 1 .. W : z[Len(cq) + i] = Work(o, n, W - i)
    BY <2>3, <2>6, <2>7, <2>9
  <2>12. \A i \in 1 .. Len(x) : z[Len(cq) + W + i] = x[i]
    BY <2>3, <2>6, <2>7
  <2>13. QED
    BY <2>3, <2>6, <2>7, <2>10, <2>11, <2>12
<1> HIDE DEF w, x
<1>12. Unsent = Len(cq) /\ Unsent' = Len(cq) + W
  <2>1. Unsent = Len(cq)
    BY <1>3 DEF Unsent
  <2>2. cpc' = IF Ring(o) THEN "frames" ELSE "map"
    BY <1>1
  <2>3. Len(cq') = Len(cq) + W + (IF Ring(o) THEN 0 ELSE 2) /\ Len(cq) \in Nat
    BY <1>10, <1>11
  <2> HIDE DEF W
  <2>4. W \in Nat
    BY <1>6
  <2>5. QED
    BY <2>1, <2>2, <2>3, <2>4 DEF Unsent
<1>13. Ring(o) => Len(cq) <= 2
  <2>1. Ring(o) => Unsent <= 2 * (n - completed)
    BY <1>3 DEF DualInv, QueueForm
  <2>2. QED
    BY <1>2, <1>4, <1>11, <1>12, <2>1
<1>14. Signalled' = Signalled /\ Prepared' = Prepared
  <2>1. CASE Ring(o)
    <3>1. Ring(o') /\ Unsent' = Len(cq) + 2
      BY <1>1, <1>4, <1>12, <2>1 DEF Ring
    <3>2. QED
      BY <1>1, <1>2, <1>11, <1>12, <1>13, <2>1, <3>1 DEF Signalled, Prepared
  <2>2. CASE ~Ring(o)
    <3>1. ~Ring(o') /\ Unsent = 0 /\ Unsent' \in 2 .. 4
      BY <1>1, <1>5, <1>6, <1>12, <2>2 DEF Ring
    <3>2. QED
      BY <1>1, <1>2, <2>2, <3>1 DEF Signalled, Prepared
  <2>3. QED
    BY <2>1, <2>2
<1>15. QueueForm'
  <2>1. cpc' \in {"frames", "map"} /\ (cpc' = "map" <=> ~Ring(o)) /\ ~Early' /\ o' = o
    BY <1>1, <1>3 DEF Early
  <2>2. Unsent' <= IF Ring(o) THEN 2 * (submitted' - completed') ELSE W
    <3>1. Ring(o) => Unsent <= 2 * (n - completed)
      BY <1>3 DEF DualInv, QueueForm
    <3>2. QED
      BY <1>1, <1>2, <1>4, <1>5, <1>6, <1>11, <1>12, <3>1
  <2>3. ASSUME Ring(o), NEW i \in 1 .. Len(cq')
        PROVE  LET k == Len(cq') - i IN
               cq'[i] = IF k > 1 THEN Work(o, submitted' - 2, k - 2)
                        ELSE Work(o, submitted' - 1, k)
    <3>1. Len(cq') = Len(cq) + 2 /\ W = 2
      BY <1>4, <1>10, <1>11, <2>3
    <3>2. CASE i \in 1 .. Len(cq)
      <4>1. cq'[i] = cq[i] /\ Len(cq) - i \in 0 .. 1
        BY <1>11, <1>13, <2>3, <3>2
      <4>2. cq[i] = Work(o, n - 1, Len(cq) - i)
        BY <1>3, <1>4, <2>3, <3>2, <4>1 DEF DualInv, QueueForm, Program, Pending
      <4>3. Len(cq') \in Nat /\ Len(cq) = Len(cq') - 2
        BY <1>11, <3>1
      <4>4. Len(cq') - i > 1 /\ Len(cq') - i - 2 = Len(cq) - i
        BY <3>2, <4>3, Behind
      <4>5. submitted' - 2 = n - 1
        BY <1>1, <1>2
      <4>6. QED
        BY <4>1, <4>2, <4>4, <4>5
    <3>3. CASE i \notin 1 .. Len(cq)
      <4> DEFINE j == i - Len(cq)
      <4>1. Len(cq) \in Nat /\ Len(cq') = Len(cq) + 2
        BY <1>11, <3>1
      <4>2. j \in 1 .. 2 /\ i = Len(cq) + j /\ Len(cq') - i = 2 - j /\ ~(2 - j > 1)
        BY <3>3, <4>1
      <4>3. submitted' - 1 = n
        BY <1>1, <1>2
      <4> HIDE DEF j, W
      <4>4. cq'[Len(cq) + j] = Work(o, n, W - j)
        BY <1>11, <3>1, <4>2
      <4>5. QED
        BY <3>1, <4>2, <4>3, <4>4
    <3>4. QED
      BY <3>2, <3>3
  <2>4. ASSUME ~Ring(o), NEW i \in 1 .. Len(cq')
        PROVE  LET k == Len(cq') - i IN
               cq'[i] = IF k = 0 THEN Copy("shared", "staging", Slot(o, n))
                        ELSE IF k = 1 THEN Wait(Timeline(o, n), FenceValue(o, n))
                        ELSE Work(o, submitted' - 1, k - 2)
    <3>1. Len(cq') = W + 2 /\ Len(cq) = 0 /\ Len(x) = 2
      <4>1. Len(cq) = 0
        BY <1>5, <2>4
      <4>2. Len(x) = 2
        BY <1>10, <2>4
      <4>3. Len(cq') = Len(cq) + W + Len(x)
        BY <1>11
      <4> HIDE DEF W
      <4>4. W \in Nat
        BY <1>6
      <4>5. QED
        BY <4>1, <4>2, <4>3, <4>4
    <3>2. CASE i \in 1 .. W
      <4>1. cq'[i] = Work(o, n, W - i)
        BY <1>11, <3>1, <3>2
      <4>2. Len(cq') \in Nat /\ W = Len(cq') - 2
        <5> HIDE DEF W
        <5> QED
          BY <1>6, <3>1
      <4>3. Len(cq') - i > 1 /\ Len(cq') - i - 2 = W - i
        BY <3>2, <4>2, Behind
      <4>4. submitted' - 1 = n
        BY <1>1, <1>2
      <4>5. QED
        BY <4>1, <4>3, <4>4
    <3>3. CASE i = W + 1
      <4>1. cq'[i] = x[1] /\ Len(cq') - i = 1
        BY <1>6, <1>11, <3>1, <3>3
      <4>2. QED
        BY <1>10, <2>4, <4>1
    <3>4. CASE i = W + 2
      <4>1. cq'[i] = x[2] /\ Len(cq') - i = 0
        BY <1>6, <1>11, <3>1, <3>4
      <4>2. QED
        BY <1>10, <2>4, <4>1
    <3>5. QED
      BY <1>6, <3>1, <3>2, <3>3, <3>4
  <2>5. completed' = completed
    BY <1>1
  <2>6. \A i \in 1 .. Len(cq') : cq'[i] = Program(Len(cq) - i)'
    <3>1. CASE Ring(o)
      BY <2>1, <2>3, <3>1 DEF Program, Pending, Ring
    <3>2. CASE ~Ring(o)
      BY <1>5, <2>1, <2>4, <2>5, <3>2 DEF Program, Pending, Ring
    <3>3. QED
      BY <3>1, <3>2
  <2>7. cq' \in Seq(Command)
    BY <1>11
  <2>8. WorkLength(o') = W
    BY <2>1
  <2> HIDE DEF W
  <2>9. QED
    BY <2>1, <2>2, <2>5, <2>6, <2>7, <2>8 DEF QueueForm, Ring
<1>16. RelayForm'
  <2>1. lq = << >>
    BY <1>1, <1>3 DEF DualInv, RelayForm
  <2>2. QED
    BY <1>1, <2>1 DEF DualInv, RelayForm
<1>17. cpc' = "map" => Len(cq') > 1 /\ cq' # << >> /\ ~(Len(cq') <= 1)
  <2>1. Len(cq') >= 2 /\ cq' \in Seq(Command)
    <3>1. Len(x) \in Nat
      BY <1>9
    <3>2. QED
      BY <1>6, <1>11, <3>1
  <2>2. QED
    BY <2>1
<1>18. Contents'
  <2>1. cpc' = "map" => /\ ~Ring(o) /\ Unsent' = W
                        /\ o.renderer \in RelayRenderers =>
                             tex["relay"][Slot(o, n)] = Payload(o, n)
    <3>1. o.renderer \in RelayRenderers => tex["relay"][Slot(o, n)] = Payload(o, n)
      BY <1>1 DEF DualInv, Contents
    <3>2. cpc' = "map" => ~Ring(o) /\ Len(cq) = 0
      BY <1>1, <1>5
    <3>3. QED
      BY <1>6, <1>12, <3>1, <3>2
  <2>2. /\ o.renderer \in {"copy", "convert", "resolve"} => ~(W <= 2)
        /\ o.renderer = "resolve" => ~(W <= 3)
    BY DEF WorkLength
  <2>3. cpc' = "map" => completed = n
    BY <1>1, <1>5
  <2>4. cpc' # "relay" /\ cpc # "ended" /\ cpc' # "ended"
    BY <1>1, <1>3
  <2> HIDE DEF W
  <2>5. \A m \in FrameId : completed' <= m /\ m < Prepared' =>
          tex'["shared"][Slot(o', m)] =
            IF m < dispatched' THEN Result(o', m) ELSE Payload(o', m)
    BY <1>1, <1>14, <2>4 DEF DualInv, Contents
  <2>6. QED
    BY <1>1, <1>17, <2>1, <2>2, <2>3, <2>4, <2>5 DEF DualInv, Contents
<1>19. DetectorsAreExact'
  BY <1>1, DetectorsKept DEF HostAlive
<1>20. HostAlive => completed' <= dispatched
  BY <1>1 DEF DualInv, InOrder
<1>21. published' \in BOOLEAN /\ cpc' \in {"frames", "map"}
  BY <1>1 DEF DualInv
<1>22. UNCHANGED << setup, hostVars, hostGpu, cexit, tex, fences, message >>
  BY <1>1
<1>23. QED
  BY <1>3, <1>7, <1>8, <1>14, <1>15, <1>16, <1>17, <1>18, <1>19, <1>20, <1>21, <1>22,
     ClientMovesInv

----------------------------------------------------------------------------
(* The queues of the client.                                               *)

\* What can be at the head of the client's queue, and what it says of the
\* frames in flight: the copy to the staging texture, the wait before it, or a
\* command of the first frame whose ready value is not signalled.
LEMMA HeadOfQueue ==
  ASSUME DualInv, ~Early, cq # << >>
  PROVE  \/ /\ cpc = "map" /\ Len(cq) = 1 /\ Unsent = -1
            /\ Head(cq) = Copy("shared", "staging", Slot(o, completed))
         \/ /\ cpc = "map" /\ Len(cq) = 2 /\ Unsent = 0
            /\ Head(cq) = Wait(Timeline(o, completed), FenceValue(o, completed))
         \/ \E n \in FrameId, k \in 0 .. 3 :
              /\ Head(cq) = Work(o, n, k) /\ k < WorkLength(o)
              /\ completed <= n /\ n < submitted
              /\ cpc = "map" => Len(cq) > 2
              /\ \/ Ring(o) /\ k <= 1 /\ n = submitted - 2 /\ Unsent = k + 3
                 \/ Ring(o) /\ k <= 1 /\ n = submitted - 1 /\ Unsent = k + 1
                 \/ /\ ~Ring(o) /\ cpc = "map" /\ n = completed /\ n = submitted - 1
                    /\ Unsent = k + 1
<1>0. Consistent(o)
  BY InvIsConsistent
<1>1. submitted \in Nat /\ completed \in Nat /\ completed <= submitted /\ submitted <= Total
      /\ submitted <= completed + Room
  <2>1. submitted \in 0 .. Total /\ completed \in 0 .. submitted /\ submitted <= completed + Room
    BY DEF DualInv, ClientPosition
  <2>2. QED
    BY <2>1, SignalledFacts
<1>2. cq \in Seq(Command) /\ \A i \in 1 .. Len(cq) : cq[i] = Program(Len(cq) - i)
  BY DEF DualInv, QueueForm
<1>3. Len(cq) \in Nat /\ Len(cq) > 0 /\ Head(cq) = cq[1]
  <2>1. cq \in Seq(Command) /\ cq # << >>
    BY <1>2
  <2>2. QED
    BY <2>1
<1>4. Head(cq) = Program(Len(cq) - 1)
  BY <1>2, <1>3
<1>5. ~Ring(o) => cpc = "map"
  <2>1. cpc \in {"frames", "map", "await-host", "await-host-again", "await-stall"}
    BY DEF DualInv, ClientPosition, ClientSteps, QueueForm
  <2>2. SUFFICES ASSUME ~Ring(o) PROVE cpc \notin {"frames", "await-host", "await-host-again", "await-stall"}
    BY <2>1
  <2>3. cpc # "frames"
    BY <2>2 DEF DualInv, QueueForm
  <2>4. o.negative \notin {"host-termination", "host-stall"}
    BY DEF Early
  <2>5. o.negative # "backpressure-host-termination"
    BY <1>0, <2>2 DEF Consistent, Ring
  <2>6. QED
    BY <2>3, <2>4, <2>5 DEF DualInv, ClientPosition, HostLossNegatives
<1>6. CASE cpc = "map" /\ Len(cq) = 1
  BY <1>4, <1>6 DEF Unsent, Program
<1>7. CASE cpc = "map" /\ Len(cq) = 2
  BY <1>4, <1>7 DEF Unsent, Program
<1>8. CASE cpc = "map" => Len(cq) > 2
  <2> DEFINE j == Unsent - 1
  <2>1. j \in Nat /\ Unsent = j + 1 /\ Head(cq) = Pending(j)
    <3>1. CASE cpc = "map"
      <4>1. Unsent = Len(cq) - 2 /\ Len(cq) > 2
        BY <1>8, <3>1 DEF Unsent
      <4>2. Len(cq) - 1 # 0 /\ Len(cq) - 1 # 1 /\ Len(cq) - 1 - 2 = j /\ j \in Nat
        BY <1>3, <4>1
      <4>3. Program(Len(cq) - 1) = Pending(Len(cq) - 1 - 2)
        BY <3>1, <4>2 DEF Program
      <4>4. QED
        BY <1>3, <1>4, <4>1, <4>2, <4>3
    <3>2. CASE cpc # "map"
      <4>1. Unsent = Len(cq) /\ Program(Len(cq) - 1) = Pending(Len(cq) - 1)
        BY <3>2 DEF Unsent, Program
      <4>2. QED
        BY <1>3, <1>4, <4>1
    <3>3. QED
      BY <3>1, <3>2
  <2> HIDE DEF j
  <2>2. CASE Ring(o)
    <3>1. o.depth \in 1 .. 2 /\ Room \in 1 .. 2 /\ WorkLength(o) = 2
      BY <1>0, <2>2 DEF Consistent, Options, Ring, Room, WorkLength
    <3>2. Unsent <= 2 * (submitted - completed)
      BY <2>2 DEF DualInv, QueueForm
    <3>3. submitted - completed \in 1 .. 2
      BY <1>1, <2>1, <3>1, <3>2
    <3>4. j \in 0 .. 3
      BY <2>1, <3>2, <3>3
    <3>5. CASE j <= 1
      <4>1. submitted - 1 \in FrameId /\ completed <= submitted - 1
        BY <1>1, <3>3, FrameIdIsNat
      <4>2. Head(cq) = Work(o, submitted - 1, j)
        BY <2>1, <3>5 DEF Pending
      <4>3. j \in 0 .. 3 /\ j < WorkLength(o) /\ submitted - 1 < submitted
        BY <1>1, <3>1, <3>4, <3>5
      <4>4. QED
        BY <1>8, <2>1, <2>2, <3>5, <4>1, <4>2, <4>3
    <3>6. CASE j > 1
      <4>1. submitted - completed = 2
        BY <2>1, <3>2, <3>3, <3>6
      <4>2. submitted - 2 \in FrameId /\ completed <= submitted - 2 /\ submitted - 2 < submitted
        BY <1>1, <4>1, FrameIdIsNat
      <4>3. Head(cq) = Work(o, submitted - 2, j - 2)
        BY <2>1, <2>2, <3>6 DEF Pending
      <4>4. j - 2 \in 0 .. 3 /\ j - 2 <= 1 /\ j - 2 < WorkLength(o) /\ Unsent = (j - 2) + 3
        BY <2>1, <3>1, <3>4, <3>6
      <4>5. QED
        BY <1>8, <2>2, <4>2, <4>3, <4>4
    <3>7. QED
      BY <3>4, <3>5, <3>6
  <2>3. CASE ~Ring(o)
    <3>1. cpc = "map" /\ Room = 1
      BY <1>5, <2>3 DEF Room
    <3>2. completed < submitted
      BY <3>1 DEF DualInv, ClientPosition
    <3>3. completed = submitted - 1 /\ completed \in FrameId
      BY <1>1, <3>1, <3>2, FrameIdIsNat
    <3>4. Unsent <= WorkLength(o) /\ WorkLength(o) \in 2 .. 4
      BY <2>3 DEF DualInv, QueueForm, WorkLength
    <3>5. Head(cq) = Work(o, completed, j)
      BY <2>1, <2>3, <3>3 DEF Pending
    <3>6. j \in 0 .. 3 /\ j < WorkLength(o)
      BY <2>1, <3>4
    <3>7. QED
      BY <1>1, <1>8, <2>1, <2>3, <3>1, <3>2, <3>3, <3>5, <3>6
  <2>4. QED
    BY <2>2, <2>3
<1>9. QED
  <2> DEFINE l == Len(cq)
  <2>0. l \in Nat /\ l > 0
    BY <1>3
  <2> HIDE DEF l
  <2>a. l = 1 \/ l = 2 \/ l > 2
    BY <2>0
  <2>1. Len(cq) = 1 \/ Len(cq) = 2 \/ Len(cq) > 2
    BY <2>a DEF l
  <2>2. QED
    BY <1>6, <1>7, <1>8, <2>1

\* A step of a queue of the client: what is left to show of it.
LEMMA GpuStepsInv ==
  ASSUME DualInv, UNCHANGED << setup, hostVars, hostGpu, clientVars, done, message >>,
         QueueForm', RelayForm', FencesTell', InOrder', Contents'
  PROVE  DualInv'
<1> USE DEF setup, hostVars, hostGpu, clientVars, clientFrames
<1>1. /\ o' \in RUNS /\ patient' \in BOOLEAN /\ faults' \in 0 .. FAULTS
      /\ {hostGone, published, pipeOpen}' \subseteq BOOLEAN
  BY DEF DualInv
<1>2. HostPosition' /\ HostHolds'
  BY HostKept DEF DualInv, HostPosition
<1>3. ClientPosition' /\ ClientHolds'
  BY ClientKept
<1>4. DetectorsAreExact' /\ CodesTell'
  BY DetectorsKept, CodesKept DEF HostAlive, DualInv, CodesTell
<1>5. QED
  BY <1>1, <1>2, <1>3, <1>4 DEF DualInv

\* The texture a command writes, and nothing else.
LEMMA Writes ==
  ASSUME NEW t \in Textures, NEW s \in Slots, NEW p \in Pixel,
         tex \in [Textures -> [Slots -> Pixel]], tex' = [tex EXCEPT ![t][s] = p]
  PROVE  /\ tex' \in [Textures -> [Slots -> Pixel]] /\ tex'[t][s] = p
         /\ \A u \in Textures, y \in Slots : u # t \/ y # s => tex'[u][y] = tex[u][y]
OBVIOUS

LEMMA WrittenPut ==
  ASSUME NEW c, NEW t, NEW s, NEW p, c = Put(t, s, p)
  PROVE  Written(c) = [tex EXCEPT ![t][s] = p]
<1>1. c.op = "put" /\ c.dst = t /\ c.slot = s /\ c.pixel = p
  BY DEF Put
<1>2. QED
  BY <1>1 DEF Written

LEMMA WrittenCopy ==
  ASSUME NEW c, NEW t, NEW u, NEW s, c = Copy(u, t, s)
  PROVE  Written(c) = [tex EXCEPT ![t][s] = tex[u][s]]
<1>1. c.op # "put" /\ c.dst = t /\ c.slot = s /\ c.src = u
  BY DEF Copy
<1>2. QED
  BY <1>1 DEF Written

LEMMA LegacyGpuInv ==
  ASSUME DualInv, LegacyGpu
  PROVE  DualInv'
<1> USE DEF setup, hostVars, hostGpu, clientVars, clientFrames, fences
<1> DEFINE n == submitted
           s == Slot(o, n)
           p == Payload(o, n)
<1>0. Consistent(o)
  BY InvIsConsistent
<1>1. /\ lq # << >> /\ tex' = Written(Head(lq)) /\ lq' = Tail(lq)
      /\ UNCHANGED << setup, hostVars, hostGpu, clientVars, cq, fences, message >>
  BY DEF LegacyGpu
<1>2. /\ cpc = "relay" /\ lq \in Seq(Command) /\ Len(lq) <= 2
      /\ lq[Len(lq)] = Copy("target", "relay", s)
      /\ Len(lq) = 2 => lq[1] = Put("target", s, p)
  BY <1>1 DEF DualInv, RelayForm
<1>3. Len(lq) \in 1 .. 2 /\ Head(lq) = lq[1] /\ Len(lq') = Len(lq) - 1
      /\ lq' \in Seq(Command) /\ \A i \in 1 .. Len(lq') : lq'[i] = lq[i + 1]
  <2>1. lq \in Seq(Command) /\ lq # << >>
    BY <1>1, <1>2
  <2>2. /\ Len(lq) \in Nat /\ Len(lq) > 0 /\ Head(lq) = lq[1]
        /\ Len(Tail(lq)) = Len(lq) - 1 /\ Tail(lq) \in Seq(Command)
        /\ \A i \in 1 .. Len(Tail(lq)) : Tail(lq)[i] = lq[i + 1]
    BY <2>1
  <2>3. lq' = Tail(lq)
    BY <1>1
  <2>4. Len(lq) \in 1 .. 2
    <3>1. Len(lq) <= 2
      BY <1>2
    <3>2. QED
      BY <2>2, <3>1
  <2>5. QED
    BY <2>2, <2>3, <2>4
<1>4. n \in FrameId /\ s \in Slots /\ p \in Pixel
  <2>1. n \in Nat /\ n < Total
    BY <1>2, SignalledFacts DEF DualInv, ClientPosition
  <2>2. QED
    BY <1>0, <2>1, FrameIdIsNat, SlotFacts, PixelFacts
<1>5. ~Ring(o) /\ ~Early /\ n = completed /\ o.negative = "none"
  <2>1. ~Ring(o) /\ o.negative = "none" /\ ~Early
    BY <1>0, <1>2 DEF DualInv, ClientPosition, Consistent, Ring, RelayRenderers
  <2>2. QED
    BY <1>2, <2>1 DEF DualInv, ClientPosition
<1>6. tex \in [Textures -> [Slots -> Pixel]] /\ (Len(lq) <= 1 => tex["target"][s] = p)
  BY <1>2 DEF DualInv, Contents
<1>7. QueueForm' /\ Signalled' = Signalled /\ Prepared' = Prepared /\ Unsent' = Unsent
  <2>1. Unsent' = Unsent
    BY <1>1 DEF Unsent
  <2>2. Signalled' = Signalled /\ Prepared' = Prepared
    BY <1>1, <2>1 DEF Signalled, Prepared, Ring
  <2>3. cq = << >> /\ cq' = << >>
    BY <1>1, <1>2 DEF DualInv, QueueForm
  <2>4. QueueForm'
    BY <1>1, <1>2, <1>5, <2>1, <2>3 DEF DualInv, QueueForm, Early, Ring, WorkLength
  <2>5. QED
    BY <2>1, <2>2, <2>4
<1>8. RelayForm'
  <2>1. o' = o /\ submitted' = submitted /\ cpc' = "relay"
    BY <1>1, <1>2
  <2>2. lq' # << >> => Len(lq') = 1 /\ Len(lq) = 2
    BY <1>3
  <2>3. lq' # << >> => lq'[1] = lq[2]
    BY <1>3, <2>2
  <2>4. Len(lq') <= 1
    BY <1>3
  <2>5. QED
    BY <1>2, <1>3, <2>1, <2>2, <2>3, <2>4 DEF RelayForm
<1>9. FencesTell'
  BY <1>1, <1>7 DEF DualInv, FencesTell, HostAlive, Early
<1>10. InOrder'
  BY <1>1, <1>7 DEF DualInv, InOrder, HostAlive, Early
<1>11. Contents'
  <2>1. CASE Len(lq) = 2
    <3>1. tex' = [tex EXCEPT !["target"][s] = p]
      <4>1. Head(lq) = Put("target", s, p)
        BY <1>2, <1>3, <2>1
      <4>2. QED
        BY <1>1, <4>1, WrittenPut
    <3>2. /\ tex' \in [Textures -> [Slots -> Pixel]] /\ tex'["target"][s] = p
          /\ \A u \in Textures, y \in Slots : u # "target" \/ y # s => tex'[u][y] = tex[u][y]
      BY <1>4, <1>6, <3>1, Writes DEF Textures
    <3>3. \A y \in Slots : tex'["shared"][y] = tex["shared"][y]
      BY <3>2 DEF Textures
    <3>4. lq' # << >>
      BY <1>3, <2>1
    <3>5. \A m \in FrameId : Slot(o, m) \in Slots
      BY <1>0, SlotFacts
    <3>6. \A m \in FrameId : completed' <= m /\ m < Prepared' =>
            tex'["shared"][Slot(o', m)] =
              IF m < dispatched' THEN Result(o', m) ELSE Payload(o', m)
      BY <1>1, <1>2, <1>7, <3>3, <3>5 DEF DualInv, Contents
    <3>7. QED
      BY <1>1, <1>2, <3>2, <3>4, <3>6 DEF DualInv, Contents
  <2>2. CASE Len(lq) = 1
    <3>1. tex["target"][s] = p
      BY <1>6, <2>2
    <3>2. tex' = [tex EXCEPT !["relay"][s] = tex["target"][s]]
      <4>1. Head(lq) = Copy("target", "relay", s)
        BY <1>2, <1>3, <2>2
      <4>2. QED
        BY <1>1, <4>1, WrittenCopy
    <3>3. /\ tex' \in [Textures -> [Slots -> Pixel]] /\ tex'["relay"][s] = p
          /\ \A u \in Textures, y \in Slots : u # "relay" \/ y # s => tex'[u][y] = tex[u][y]
      BY <1>4, <1>6, <3>1, <3>2, Writes DEF Textures
    <3>4. tex'["target"][s] = p /\ \A y \in Slots : tex'["shared"][y] = tex["shared"][y]
      BY <1>4, <3>1, <3>3 DEF Textures
    <3>5. \A m \in FrameId : Slot(o, m) \in Slots
      BY <1>0, SlotFacts
    <3>6. \A m \in FrameId : completed' <= m /\ m < Prepared' =>
            tex'["shared"][Slot(o', m)] =
              IF m < dispatched' THEN Result(o', m) ELSE Payload(o', m)
      BY <1>1, <1>2, <1>7, <3>4, <3>5 DEF DualInv, Contents
    <3>7. QED
      BY <1>1, <1>2, <3>3, <3>4, <3>6 DEF DualInv, Contents
  <2>3. QED
    BY <1>3, <2>1, <2>2
<1>12. QED
  BY <1>1, <1>7, <1>8, <1>9, <1>10, <1>11, GpuStepsInv

\* What is left of the client's queue after a command.
LEMMA RestOfQueue ==
  ASSUME DualInv, cq # << >>, cq' = Tail(cq), UNCHANGED << o, cpc, submitted, completed >>
  PROVE  /\ QueueForm' /\ Unsent' = Unsent - 1 /\ Len(cq') = Len(cq) - 1
         /\ Len(cq) \in Nat /\ Len(cq) > 0 /\ (Len(cq) = 1 => cq' = << >>)
         /\ (Len(cq) > 1 => cq' # << >>)
<1>0. cq \in Seq(Command) /\ cq # << >>
  BY DEF DualInv, QueueForm
<1>1. /\ Len(cq) \in Nat /\ Len(cq) > 0
      /\ Len(Tail(cq)) = Len(cq) - 1 /\ Tail(cq) \in Seq(Command)
      /\ \A i \in 1 .. Len(Tail(cq)) : Tail(cq)[i] = cq[i + 1]
  BY <1>0
<1>2. /\ Len(cq') = Len(cq) - 1 /\ cq' \in Seq(Command)
      /\ \A i \in 1 .. Len(cq') : cq'[i] = cq[i + 1]
  BY <1>1
<1>3. /\ Len(cq) = 1 => cq' = << >>
      /\ Len(cq) > 1 => cq' # << >>
  BY <1>1, <1>2
<1>4. Unsent' = Unsent - 1
  <2>1. CASE cpc = "map"
    BY <1>1, <1>2, <2>1 DEF Unsent
  <2>2. CASE cpc # "map"
    BY <1>1, <1>2, <2>2 DEF Unsent
  <2>3. QED
    BY <2>1, <2>2
<1>5. QueueForm'
  <2>1. cpc' \notin {"none", "start", "publish", "probe-host", "probe-stall", "relay",
                     "read", "ended"}
        /\ ~(~Ring(o') /\ cpc' = "frames")
    BY <1>0 DEF DualInv, QueueForm, Ring
  <2>2. Early' => cq' = << >>
    <3>1. Early => cq = << Signal(0, 1) >>
      BY <1>0 DEF DualInv, QueueForm
    <3>2. Early => Len(cq) = 1
      BY <3>1
    <3>3. QED
      BY <1>3, <3>2 DEF Early
  <2>3. ~Early' => \A i \in 1 .. Len(cq') : cq'[i] = Program(Len(cq) - i)'
    <3>1. SUFFICES ASSUME ~Early, NEW i \in 1 .. Len(cq')
                   PROVE  cq'[i] = Program(Len(cq) - i)'
      BY DEF Early
    <3>2. \A k : Program(k)' = Program(k)
      BY DEF Program, Pending, Ring
    <3>3. i + 1 \in 1 .. Len(cq) /\ Len(cq) - (i + 1) = Len(cq') - i
      BY <1>1, <1>2
    <3>4. cq'[i] = Program(Len(cq) - (i + 1))
      BY <1>2, <3>1, <3>3 DEF DualInv, QueueForm
    <3>5. QED
      BY <3>2, <3>3, <3>4
  <2>4. ~Early' => Unsent' <= IF Ring(o') THEN 2 * (submitted' - completed') ELSE WorkLength(o')
    <3>1. ~Early => Unsent <= IF Ring(o) THEN 2 * (submitted - completed) ELSE WorkLength(o)
      BY DEF DualInv, QueueForm
    <3>2. WorkLength(o) \in Nat /\ submitted \in Nat /\ completed \in Nat /\ Unsent \in Int
      BY SignalledFacts DEF WorkLength
    <3>3. QED
      BY <1>4, <3>1, <3>2 DEF Early, Ring
  <2>5. QED
    BY <1>2, <2>1, <2>2, <2>3, <2>4 DEF QueueForm
<1>6. QED
  BY <1>1, <1>2, <1>3, <1>4, <1>5

\* A signal of the client for the first frame not yet signalled.
LEMMA ReadySignalled ==
  ASSUME DualInv, NEW n \in FrameId, Signalled = n, cpc # "ended", ~Early,
         ready' = [ready EXCEPT ![Timeline(o, n)] = FenceValue(o, n)]
  PROVE  /\ ready' \in [Slots -> 0 .. Woken]
         /\ \A m \in FrameId : ready'[Timeline(o, m)] >= FenceValue(o, m) <=> m < n + 1
<1>0. Consistent(o) /\ n \in Nat /\ Total \in Nat /\ FrameId \subseteq Nat
  BY InvIsConsistent, FrameIdIsNat
<1>1. Timeline(o, n) \in Slots /\ FenceValue(o, n) \in 1 .. Total
  BY <1>0, FenceFacts
<1>2. ready \in [Slots -> 0 .. Woken]
  BY DEF DualInv, FencesTell
<1>3. ready' \in [Slots -> 0 .. Woken]
  BY <1>0, <1>1, <1>2 DEF Woken
<1>4. ASSUME NEW m \in FrameId
      PROVE  ready'[Timeline(o, m)] >= FenceValue(o, m) <=> m < n + 1
  <2>1. m \in Nat /\ Timeline(o, m) \in Slots
    BY <1>0, FenceFacts
  <2>2. ready[Timeline(o, m)] >= FenceValue(o, m) <=> m < n
    BY DEF DualInv, FencesTell
  <2>3. CASE Timeline(o, m) = Timeline(o, n)
    <3>1. ready'[Timeline(o, m)] = FenceValue(o, n)
      BY <1>1, <1>2, <2>3
    <3>2. FenceValue(o, n) >= FenceValue(o, m) <=> m <= n
      BY <1>0, <2>3, FenceFacts
    <3>3. QED
      BY <1>0, <2>1, <3>1, <3>2
  <2>4. CASE Timeline(o, m) # Timeline(o, n)
    <3>1. ready'[Timeline(o, m)] = ready[Timeline(o, m)] /\ m # n
      BY <1>1, <1>2, <2>1, <2>4
    <3>2. QED
      BY <1>0, <2>1, <2>2, <3>1
  <2>5. QED
    BY <2>3, <2>4
<1>5. QED
  BY <1>3, <1>4

LEMMA ClientGpuInv ==
  ASSUME DualInv, ClientGpu
  PROVE  DualInv'
<1> USE DEF setup, hostVars, hostGpu, clientVars, clientFrames
<1> DEFINE c == Head(cq)
<1>0. Consistent(o)
  BY InvIsConsistent
<1>1. /\ cq # << >>
      /\ c.op = "wait" => done[c.timeline] >= c.value
      /\ ready' = IF c.op = "signal" THEN [ready EXCEPT ![c.timeline] = c.value] ELSE ready
      /\ tex' = IF c.op \in {"put", "copy"} THEN Written(c) ELSE tex
      /\ cq' = Tail(cq)
      /\ UNCHANGED << setup, hostVars, hostGpu, clientVars, lq, done, message >>
  BY DEF ClientGpu
<1>2. /\ QueueForm' /\ Unsent' = Unsent - 1 /\ Len(cq') = Len(cq) - 1
      /\ Len(cq) \in Nat /\ Len(cq) > 0 /\ (Len(cq) = 1 => cq' = << >>)
      /\ (Len(cq) > 1 => cq' # << >>)
  BY <1>1, RestOfQueue
<1>3. RelayForm'
  BY <1>1 DEF DualInv, RelayForm
<1>4. cpc \notin {"none", "start", "relay", "read", "ended"}
  BY <1>1 DEF DualInv, QueueForm
<1>5. tex \in [Textures -> [Slots -> Pixel]] /\ history \in [Slots -> Pixel]
      /\ ready \in [Slots -> 0 .. Woken]
  BY DEF DualInv, Contents, FencesTell
<1>6. /\ completed \in Nat /\ submitted \in Nat /\ Unsent \in Int /\ FrameId \subseteq Nat
      /\ Signalled \in Int
  BY SignalledFacts, FrameIdIsNat
<1>7. CASE Early
  <2>1. cq = << Signal(0, 1) >> /\ submitted = 0 /\ cpc # "map"
    BY <1>1, <1>7 DEF DualInv, QueueForm, ClientPosition
  <2>2. c = Signal(0, 1)
    BY <2>1
  <2>3. c.op = "signal" /\ c.timeline = 0 /\ c.value = 1
    BY <2>2 DEF Signal
  <2>4. tex' = tex /\ ready' = [ready EXCEPT ![0] = 1]
    BY <1>1, <2>3
  <2>5. ready' \in [Slots -> 0 .. Woken]
    <3>1. Woken \in Nat /\ Woken >= 1
      BY FrameIdIsNat DEF Woken
    <3>2. 1 \in 0 .. Woken /\ 0 \in Slots
      BY <3>1 DEF Slots
    <3>3. QED
      BY <1>5, <2>4, <3>2
  <2>6. FencesTell'
    BY <1>1, <1>7, <2>5 DEF DualInv, FencesTell, Early, HostAlive
  <2>7. InOrder'
    BY <1>1, <1>7, <2>1 DEF DualInv, InOrder, Early, HostAlive
  <2>8. Contents'
    <3>1. Prepared' <= 0 /\ Prepared' \in Int
      BY <1>1, <2>1 DEF Prepared
    <3>2. QED
      BY <1>1, <1>4, <1>6, <2>1, <2>4, <3>1 DEF DualInv, Contents
  <2>9. QED
    BY <1>1, <1>2, <1>3, <2>6, <2>7, <2>8, GpuStepsInv
<1>8. ASSUME ~Early, cpc = "map", Len(cq) = 1, Unsent = -1,
             c = Copy("shared", "staging", Slot(o, completed))
      PROVE  DualInv'
  <2> DEFINE s == Slot(o, completed)
             p == tex["shared"][s]
  <2>1. c.op = "copy"
    BY <1>8 DEF Copy
  <2>2. ready' = ready /\ tex' = [tex EXCEPT !["staging"][s] = p]
    BY <1>1, <1>8, <2>1, WrittenCopy
  <2>3. Signalled' = Signalled /\ Prepared' = Prepared /\ Prepared = submitted /\ Unsent' = -2
    BY <1>1, <1>2, <1>8 DEF Signalled, Prepared
  <2>4. completed < submitted /\ completed \in FrameId
    <3>1. completed < submitted /\ submitted \in 0 .. Total
      BY <1>8 DEF DualInv, ClientPosition
    <3>2. QED
      BY <1>6, <3>1, FrameIdIsNat
  <2>5. s \in Slots /\ p \in Pixel
    BY <1>0, <1>5, <2>4, SlotFacts DEF Textures
  <2>6. p = IF completed < dispatched THEN Result(o, completed) ELSE Payload(o, completed)
    BY <1>6, <1>8, <2>3, <2>4 DEF DualInv, Contents
  <2>7. HostAlive => completed < dispatched
    BY <1>2, <1>8 DEF DualInv, InOrder
  <2> HIDE DEF p
  <2>8. /\ tex' \in [Textures -> [Slots -> Pixel]] /\ tex'["staging"][s] = p
        /\ \A u \in Textures, y \in Slots : u # "staging" \/ y # s => tex'[u][y] = tex[u][y]
    BY <1>5, <2>2, <2>5, Writes DEF Textures
  <2>9. \A y \in Slots : /\ tex'["shared"][y] = tex["shared"][y]
                         /\ tex'["relay"][y] = tex["relay"][y]
                         /\ tex'["source"][y] = tex["source"][y]
                         /\ tex'["upload"][y] = tex["upload"][y]
    BY <2>8 DEF Textures
  <2>10. \A m \in FrameId : Slot(o, m) \in Slots
    BY <1>0, SlotFacts
  <2>11. FencesTell'
    BY <1>1, <2>2, <2>3 DEF DualInv, FencesTell, Early, HostAlive
  <2>12. InOrder'
    BY <1>1, <2>3, <2>7 DEF DualInv, InOrder, Early, HostAlive
  <2>13. Contents'
    <3>1. \A m \in FrameId : completed' <= m /\ m < Prepared' =>
            tex'["shared"][Slot(o', m)] =
              IF m < dispatched' THEN Result(o', m) ELSE Payload(o', m)
      BY <1>1, <1>8, <2>3, <2>9, <2>10 DEF DualInv, Contents
    <3>2. ~Ring(o) =>
            /\ o.renderer \in RelayRenderers => tex'["relay"][s] = Payload(o, completed)
            /\ o.renderer \in {"copy", "convert", "resolve"} =>
                 tex'["source"][s] = Payload(o, completed)
            /\ o.renderer = "resolve" => tex'["upload"][s] = Payload(o, completed)
      BY <1>8, <2>5, <2>9 DEF DualInv, Contents
    <3>3. tex'["staging"][s] \in {Payload(o, completed), Result(o, completed)}
          /\ (HostAlive => tex'["staging"][s] = Result(o, completed))
      BY <2>6, <2>7, <2>8
    <3>4. UNCHANGED << o, cpc, completed, dispatched, history, hexit >>
      BY <1>1
    <3>5. o.history => \A e \in Slots : e < dispatched => history[e] = Inverted(Payload(o, e))
      BY <1>8 DEF DualInv, Contents
    <3> HIDE DEF s
    <3>6. s = Slot(o, completed)
      BY DEF s
    <3>7. QED
      BY <1>5, <1>8, <2>8, <3>1, <3>2, <3>3, <3>4, <3>5, <3>6 DEF Contents, Ring, HostAlive
  <2>14. QED
    BY <1>1, <1>2, <1>3, <2>11, <2>12, <2>13, GpuStepsInv
<1>9. ASSUME ~Early, cpc = "map", Len(cq) = 2, Unsent = 0,
             c = Wait(Timeline(o, completed), FenceValue(o, completed))
      PROVE  DualInv'
  <2>1. c.op = "wait" /\ c.timeline = Timeline(o, completed) /\ c.value = FenceValue(o, completed)
    BY <1>9 DEF Wait
  <2>2. ready' = ready /\ tex' = tex /\ done[Timeline(o, completed)] >= FenceValue(o, completed)
    BY <1>1, <2>1
  <2>3. Signalled' = Signalled /\ Prepared' = Prepared /\ Unsent' = -1
    BY <1>1, <1>2, <1>9 DEF Signalled, Prepared
  <2>4. completed \in FrameId
    <3>1. completed < submitted /\ submitted \in 0 .. Total
      BY <1>9 DEF DualInv, ClientPosition
    <3>2. QED
      BY <1>6, <3>1, FrameIdIsNat
  <2>5. HostAlive => completed < dispatched
    BY <2>2, <2>4 DEF DualInv, FencesTell
  <2>6. FencesTell'
    BY <1>1, <2>2, <2>3 DEF DualInv, FencesTell, Early, HostAlive
  <2>7. InOrder'
    BY <1>1, <2>3, <2>5 DEF DualInv, InOrder, Early, HostAlive
  <2>8. Contents'
    <3>1. cq' # << >>
      BY <1>2, <1>9
    <3>2. QED
      BY <1>1, <1>9, <2>2, <2>3, <3>1 DEF DualInv, Contents, Ring
  <2>9. QED
    BY <1>1, <1>2, <1>3, <2>6, <2>7, <2>8, GpuStepsInv
<1>10. ASSUME ~Early, NEW n \in FrameId, NEW k \in 0 .. 3,
              c = Work(o, n, k), k < WorkLength(o), completed <= n, n < submitted,
              cpc = "map" => Len(cq) > 2,
              \/ Ring(o) /\ k <= 1 /\ n = submitted - 2 /\ Unsent = k + 3
              \/ Ring(o) /\ k <= 1 /\ n = submitted - 1 /\ Unsent = k + 1
              \/ /\ ~Ring(o) /\ cpc = "map" /\ n = completed /\ n = submitted - 1
                 /\ Unsent = k + 1
       PROVE  DualInv'
  <2> DEFINE s == Slot(o, n)
             p == Payload(o, n)
  <2>1. s \in Slots /\ p \in Pixel /\ n \in Nat
    BY <1>0, <1>6, SlotFacts, PixelFacts
  <2>2. /\ Signalled = n
        /\ k = 0 => Signalled' = n + 1 /\ Prepared' = Prepared
        /\ k # 0 => Signalled' = n
        /\ k = 1 => Prepared' = n + 1
        /\ k > 1 => Prepared' = n
    <3>1. UNCHANGED << o, submitted >>
      BY <1>1
    <3>2. Unsent' = Unsent - 1
      BY <1>2
    <3>3. k \in Nat
      OBVIOUS
    <3>4. CASE Ring(o) /\ k <= 1 /\ n = submitted - 2 /\ Unsent = k + 3
      BY <1>6, <2>1, <3>1, <3>2, <3>3, <3>4 DEF Signalled, Prepared, Ring
    <3>5. CASE Ring(o) /\ k <= 1 /\ n = submitted - 1 /\ Unsent = k + 1
      BY <1>6, <2>1, <3>1, <3>2, <3>3, <3>5 DEF Signalled, Prepared, Ring
    <3>6. CASE ~Ring(o) /\ n = submitted - 1 /\ Unsent = k + 1
      BY <1>6, <2>1, <3>1, <3>2, <3>3, <3>6 DEF Signalled, Prepared, Ring
    <3>7. QED
      BY <1>10, <3>4, <3>5, <3>6
  <2>3. dispatched \in Nat /\ dispatched <= n
    <3>1. recorded \in 0 .. Total /\ dispatched \in 0 .. recorded
      BY DEF DualInv, HostPosition
    <3>2. dispatched <= Signalled
      BY <1>4, <1>10 DEF DualInv, InOrder
    <3>3. QED
      BY <2>2, <3>1, <3>2, FrameIdIsNat
  <2>4. UNCHANGED << o, cpc, hexit, submitted, completed, dispatched, dispatching, history, lq, done >>
    BY <1>1
  <2>5. cpc = "map" => cq' # << >> /\ ~(Len(cq') <= 1)
    BY <1>2, <1>10
  <2>6. InOrder'
    <3>1. Signalled' \in Int /\ Signalled' >= Signalled
      BY <2>1, <2>2, <1>10
    <3>2. /\ dispatched <= Signalled /\ (dispatching => dispatched < Signalled)
          /\ HostAlive => completed <= dispatched
      BY <1>4, <1>10 DEF DualInv, InOrder
    <3>3. dispatched <= Signalled' /\ (dispatching => dispatched < Signalled')
      BY <1>6, <2>3, <3>1, <3>2
    <3>4. QED
      BY <2>4, <2>5, <3>2, <3>3 DEF InOrder, HostAlive
  <2>7. \A m \in FrameId : Slot(o, m) \in Slots
    BY <1>0, SlotFacts
  <2>8. o.history => \A e \in Slots : e < dispatched => history[e] = Inverted(Payload(o, e))
    BY <1>4 DEF DualInv, Contents
  <2>9. CASE k = 0
    <3>1. c = Signal(Timeline(o, n), FenceValue(o, n))
      BY <1>10, <2>9 DEF Work
    <3>2. c.op = "signal" /\ c.timeline = Timeline(o, n) /\ c.value = FenceValue(o, n)
      BY <3>1 DEF Signal
    <3>3. tex' = tex /\ ready' = [ready EXCEPT ![Timeline(o, n)] = FenceValue(o, n)]
      BY <1>1, <3>2
    <3>4. /\ ready' \in [Slots -> 0 .. Woken]
          /\ \A m \in FrameId : ready'[Timeline(o, m)] >= FenceValue(o, m) <=> m < n + 1
      BY <1>4, <1>10, <2>2, <3>3, ReadySignalled
    <3>5. FencesTell'
      BY <2>2, <2>4, <2>9, <3>4 DEF DualInv, FencesTell, Early, HostAlive
    <3>6. Contents'
      <4>1. Prepared' = Prepared /\ Unsent <= 3 /\ (~Ring(o) => Unsent <= 2)
        BY <1>10, <2>2, <2>9
      <4>2. QED
        BY <1>4, <2>4, <2>5, <3>3, <4>1 DEF DualInv, Contents, Ring, HostAlive
    <3>7. QED
      BY <1>1, <1>2, <1>3, <2>6, <3>5, <3>6, GpuStepsInv
  <2>10. CASE k # 0
    <3> DEFINE t == IF k = 1 THEN "shared" ELSE IF k = 2 THEN "source" ELSE "upload"
    <3>1. /\ cpc = "map" /\ ~Ring(o) /\ o.renderer \in RelayRenderers =>
               tex["relay"][s] = p
          /\ cpc = "map" /\ ~Ring(o) /\ o.renderer \in {"copy", "convert", "resolve"}
               /\ k = 1 => tex["source"][s] = p
          /\ cpc = "map" /\ ~Ring(o) /\ o.renderer = "resolve" /\ k \in {1, 2}
               => tex["upload"][s] = p
      <4>1. ~Ring(o) => n = completed /\ Unsent = k + 1
        BY <1>10
      <4>2. (k = 1 => k + 1 <= 2 /\ k + 1 <= 3) /\ (k = 2 => k + 1 <= 3)
        OBVIOUS
      <4>3. QED
        BY <1>4, <4>1, <4>2 DEF DualInv, Contents
    <3>2. /\ Ring(o) => o.renderer = "direct"
          /\ k >= 2 => o.renderer \in {"copy", "convert", "resolve"}
          /\ k = 3 => o.renderer = "resolve"
          /\ k >= 2 => ~Ring(o) /\ n = completed /\ cpc = "map"
      <4>1. Ring(o) => o.renderer = "direct"
        BY <1>0 DEF Consistent, Ring
      <4>2. k >= 2 => o.renderer \in {"copy", "convert", "resolve"}
        BY <1>10 DEF WorkLength
      <4>3. k = 3 => o.renderer = "resolve"
        BY <1>10 DEF WorkLength
      <4>4. k >= 2 => ~Ring(o) /\ n = completed /\ cpc = "map"
        BY <1>10
      <4>5. QED
        BY <4>1, <4>2, <4>3, <4>4
    <3>3. tex' = [tex EXCEPT ![t][s] = p] /\ c.op # "signal"
      <4>1. CASE /\ k = 1
                 /\ o.renderer \notin RelayRenderers
                 /\ o.renderer \notin {"resolve", "copy", "convert"}
        <5>1. c = Put("shared", s, p)
          BY <1>10, <4>1 DEF Work
        <5>2. c.op = "put"
          BY <5>1 DEF Put
        <5>3. QED
          BY <1>1, <4>1, <5>1, <5>2, WrittenPut
      <4>2. CASE k = 1 /\ o.renderer \in RelayRenderers
        <5>1. c = Copy("relay", "shared", s)
          BY <1>10, <4>2 DEF Work
        <5>2. c.op = "copy"
          BY <5>1 DEF Copy
        <5>3. ~Ring(o) /\ cpc = "map"
          BY <1>10, <3>2, <4>2 DEF RelayRenderers
        <5>4. tex["relay"][s] = p
          BY <3>1, <4>2, <5>3
        <5>5. QED
          BY <1>1, <4>2, <5>1, <5>2, <5>4, WrittenCopy
      <4>3. CASE k = 1 /\ o.renderer \in {"resolve", "copy", "convert"}
        <5>1. c = Copy("source", "shared", s)
          BY <1>10, <4>3 DEF Work, RelayRenderers
        <5>2. c.op = "copy"
          BY <5>1 DEF Copy
        <5>3. ~Ring(o) /\ cpc = "map"
          BY <1>10, <3>2, <4>3
        <5>4. tex["source"][s] = p
          BY <3>1, <4>3, <5>3
        <5>5. QED
          BY <1>1, <4>3, <5>1, <5>2, <5>4, WrittenCopy
      <4>4. CASE k = 2 /\ o.renderer = "resolve"
        <5>1. c = Copy("upload", "source", s)
          BY <1>10, <4>4 DEF Work
        <5>2. c.op = "copy"
          BY <5>1 DEF Copy
        <5>3. tex["upload"][s] = p
          BY <3>1, <3>2, <4>4
        <5>4. QED
          BY <1>1, <4>4, <5>1, <5>2, <5>3, WrittenCopy
      <4>5. CASE k = 2 /\ o.renderer # "resolve"
        <5>1. c = Put("source", s, p)
          BY <1>10, <4>5 DEF Work
        <5>2. c.op = "put"
          BY <5>1 DEF Put
        <5>3. QED
          BY <1>1, <4>5, <5>1, <5>2, WrittenPut
      <4>6. CASE k = 3
        <5>1. c = Put("upload", s, p)
          BY <1>10, <4>6 DEF Work
        <5>2. c.op = "put"
          BY <5>1 DEF Put
        <5>3. QED
          BY <1>1, <4>6, <5>1, <5>2, WrittenPut
      <4>7. k \in {1, 2, 3}
        BY <2>10
      <4>8. QED
        BY <4>1, <4>2, <4>3, <4>4, <4>5, <4>6, <4>7
    <3>4. t \in Textures /\ (k = 1 => t = "shared") /\ (k = 2 => t = "source")
          /\ (k = 3 => t = "upload")
      BY DEF Textures
    <3> HIDE DEF t
    <3>5. /\ tex' \in [Textures -> [Slots -> Pixel]] /\ tex'[t][s] = p
          /\ \A u \in Textures, y \in Slots : u # t \/ y # s => tex'[u][y] = tex[u][y]
      BY <1>5, <2>1, <3>3, <3>4, Writes
    <3>6. ready' = ready /\ Signalled' = Signalled
      BY <1>1, <2>2, <2>10, <3>3
    <3>7. FencesTell'
      BY <2>4, <3>6 DEF DualInv, FencesTell, Early, HostAlive
    <3>8. \A m \in FrameId : completed <= m /\ m < Prepared' =>
            tex'["shared"][Slot(o, m)] = IF m < dispatched THEN Result(o, m) ELSE Payload(o, m)
      <4>1. SUFFICES ASSUME NEW m \in FrameId, completed <= m, m < Prepared'
                     PROVE  tex'["shared"][Slot(o, m)] =
                              IF m < dispatched THEN Result(o, m) ELSE Payload(o, m)
        OBVIOUS
      <4>2. m \in Nat
        BY <1>6
      <4>3. CASE k = 1
        <5>1. m <= n /\ t = "shared"
          BY <2>1, <2>2, <3>4, <4>1, <4>2, <4>3
        <5>2. CASE m = n
          <6>1. ~(m < dispatched)
            BY <2>1, <2>3, <5>2
          <6>2. QED
            BY <3>5, <5>1, <5>2, <6>1
        <5>3. CASE m # n
          <6>1. m < submitted
            BY <1>6, <1>10, <2>1, <4>2, <5>1
          <6>2. Slot(o, m) # s
            BY <1>10, <4>1, <5>3, <6>1, InFlightSlots
          <6>3. tex'["shared"][Slot(o, m)] = tex["shared"][Slot(o, m)]
            BY <2>7, <3>5, <6>2 DEF Textures
          <6>4. m < n /\ n <= Prepared /\ Prepared \in Int
            BY <1>10, <2>1, <2>2, <4>2, <5>1, <5>3, SignalledFacts
          <6>5. m < Prepared
            BY <2>1, <4>2, <6>4
          <6>6. QED
            BY <1>4, <4>1, <6>3, <6>5 DEF DualInv, Contents
        <5>4. QED
          BY <5>2, <5>3
      <4>4. CASE k # 1
        <5>1. k > 1
          BY <2>10, <4>4
        <5>2. Prepared' = n /\ n = completed
          BY <1>10, <2>2, <5>1
        <5>3. QED
          BY <1>6, <4>1, <4>2, <5>2
      <4>5. QED
        BY <4>3, <4>4
    <3>9. cpc = "map" /\ ~Ring(o) =>
            /\ o.renderer \in RelayRenderers => tex'["relay"][s] = p
            /\ o.renderer \in {"copy", "convert", "resolve"} /\ Unsent' <= 2 => tex'["source"][s] = p
            /\ o.renderer = "resolve" /\ Unsent' <= 3 => tex'["upload"][s] = p
      <4>1. SUFFICES ASSUME cpc = "map", ~Ring(o)
                     PROVE  /\ o.renderer \in RelayRenderers => tex'["relay"][s] = p
                            /\ o.renderer \in {"copy", "convert", "resolve"} /\ Unsent' <= 2
                                 => tex'["source"][s] = p
                            /\ o.renderer = "resolve" /\ Unsent' <= 3 => tex'["upload"][s] = p
        OBVIOUS
      <4>2. Unsent' = k /\ k \in {1, 2, 3}
        BY <1>2, <1>10, <2>10, <4>1
      <4>3. t # "relay" /\ "relay" \in Textures /\ "source" \in Textures /\ "upload" \in Textures
        BY <3>4, <4>2 DEF Textures
      <4>4. tex'["relay"][s] = tex["relay"][s]
        BY <2>1, <3>5, <4>3
      <4>5. CASE k = 1
        <5>1. tex'["source"][s] = tex["source"][s] /\ tex'["upload"][s] = tex["upload"][s]
          BY <2>1, <3>4, <3>5, <4>3, <4>5
        <5>2. QED
          BY <3>1, <4>1, <4>4, <4>5, <5>1
      <4>6. CASE k = 2
        <5>1. tex'["source"][s] = p /\ tex'["upload"][s] = tex["upload"][s]
          BY <2>1, <3>4, <3>5, <4>3, <4>6
        <5>2. QED
          BY <3>1, <4>1, <4>4, <4>6, <5>1
      <4>7. CASE k = 3
        <5>1. tex'["upload"][s] = p /\ ~(Unsent' <= 2)
          BY <3>4, <3>5, <4>2, <4>7
        <5>2. QED
          BY <3>1, <4>1, <4>4, <5>1
      <4>8. QED
        BY <4>2, <4>5, <4>6, <4>7
    <3>10. Contents'
      <4>1. cpc = "map" /\ ~Ring(o) => n = completed
        BY <1>10
      <4>2. cpc # "relay"
        BY <1>4
      <4>3. s = Slot(o, n) /\ p = Payload(o, n)
        OBVIOUS
      <4> HIDE DEF s, p
      <4>4. cpc = "map" /\ ~Ring(o) =>
              /\ o.renderer \in RelayRenderers =>
                   tex'["relay"][Slot(o, completed)] = Payload(o, completed)
              /\ o.renderer \in {"copy", "convert", "resolve"} /\ Unsent' <= 2 =>
                   tex'["source"][Slot(o, completed)] = Payload(o, completed)
              /\ o.renderer = "resolve" /\ Unsent' <= 3 =>
                   tex'["upload"][Slot(o, completed)] = Payload(o, completed)
        BY <3>9, <4>1, <4>3
      <4>5. QED
        BY <1>5, <2>4, <2>5, <2>8, <3>5, <3>8, <4>2, <4>4 DEF Contents, Ring, HostAlive
    <3>11. QED
      BY <1>1, <1>2, <1>3, <2>6, <3>7, <3>10, GpuStepsInv
  <2>11. QED
    BY <2>9, <2>10
<1>11. QED
  <2>1. CASE ~Early
    BY <1>1, <1>8, <1>9, <1>10, <2>1, HeadOfQueue
  <2>2. QED
    BY <1>7, <2>1

----------------------------------------------------------------------------
(* The invariant.                                                          *)

LEMMA DualStep == DualInv /\ [Next]_vars => DualInv'
<1> SUFFICES ASSUME DualInv, [Next]_vars PROVE DualInv'
  OBVIOUS
<1>1. CASE Host
  BY <1>1, HostLaunchesInv, HostOpensFencesInv, HostStopsInv, HostRecordsInv,
     HostReleasesGenerationInv, HostReplacesInv, HostKillsClientInv, HostRemovesDeviceInv,
     HostResolvesInv, HostJudgesInv, HostIsGoneInv DEF Host
<1>2. CASE HostGivesUp
  BY <1>2, HostStopsInv DEF HostGivesUp
<1>3. CASE HostGpu
  BY <1>3, HostGpuStartsInv, HostGpuFinishesInv DEF HostGpu
<1>4. CASE Client
  BY <1>4, ClientStartsInv, ClientPublishesInv, ClientProbesInv, ClientStopsInv,
     ClientChecksHostInv, ClientDrawsRelayInv, ClientSubmitsInv, ClientReusesInv,
     ClientValidatesInv, ClientReleasesGenerationInv, ClientReadsInv DEF Client
<1>5. CASE ClientGivesUp
  BY <1>5, ClientStopsInv DEF ClientGivesUp
<1>6. CASE ClientGpu
  BY <1>6, ClientGpuInv
<1>7. CASE LegacyGpu
  BY <1>7, LegacyGpuInv
<1>8. CASE HostFails
  BY <1>8, HostFailsInv
<1>9. CASE ClientFails
  BY <1>9, ClientFailsInv
<1>10. CASE UNCHANGED vars
  <2> USE DEF vars, setup, hostVars, hostGpu, clientVars, clientFrames, fences
  <2>1. UNCHANGED << setup, hostVars, hostGpu, clientVars, cq, lq, tex, fences, message >>
    BY <1>10
  <2>2. QueueForm' /\ RelayForm' /\ Signalled' = Signalled
    BY <2>1, QueuesKept
  <2>3. FencesTell'
    BY <2>1, FencesKept DEF HostAlive
  <2>4. InOrder'
    BY <2>1, <2>2 DEF DualInv, InOrder, Early, HostAlive
  <2>5. Contents'
    BY <2>1, ContentsKept DEF HostAlive
  <2>6. QED
    BY <2>1, <2>2, <2>3, <2>4, <2>5, GpuStepsInv
<1>11. QED
  BY <1>1, <1>2, <1>3, <1>4, <1>5, <1>6, <1>7, <1>8, <1>9, <1>10 DEF Next

LEMMA DualInductive == Spec => []DualInv
<1>1. Init => DualInv
  BY InitDual
<1>2. DualInv /\ [Next]_vars => DualInv'
  BY DualStep
<1>3. QED
  BY <1>1, <1>2, PTL DEF Spec

\* Every variable of the bridge probe has the shape the code gives it, for
\* every number of frames, every option and any number of faults.
THEOREM DualTypeCorrect == Spec => []DualArchTypeOK
<1>1. ASSUME DualInv PROVE DualArchTypeOK
  <2>0. Total \in Nat
    BY FrameIdIsNat
  <2>1. o \in Options /\ patient \in BOOLEAN /\ faults \in 0 .. FAULTS
    BY <1>1, InvIsConsistent DEF DualInv, Consistent
  <2>2. /\ hpc \in HostSteps /\ hexit \in -1 .. 31
        /\ recorded \in 0 .. Total /\ dispatched \in 0 .. recorded /\ dispatching \in BOOLEAN
        /\ message \in {NoMessage, 1, 2} /\ hostRes \subseteq Slots
    BY <1>1 DEF DualInv, HostPosition, HostHolds
  <2>3. /\ cpc \in ClientSteps /\ cexit \in -1 .. 28
        /\ submitted \in 0 .. Total /\ completed \in 0 .. submitted
        /\ mismatched \in 0 .. completed /\ contaminated \in 0 .. completed
        /\ reuseWaits \in 0 .. submitted /\ maxInFlight \in 0 .. submitted
        /\ clientRes \subseteq Slots
    BY <1>1 DEF DualInv, ClientPosition, ClientHolds
  <2>4. cq \in Seq(Command) /\ lq \in Seq(Command)
    BY <1>1 DEF DualInv, QueueForm, RelayForm
  <2>5. (\A i \in DOMAIN cq : cq[i] \in Command) /\ (\A i \in DOMAIN lq : lq[i] \in Command)
    BY <2>4
  <2>6. /\ tex \in [Textures -> [Slots -> Pixel]] /\ history \in [Slots -> Pixel]
        /\ ready \in [Slots -> 0 .. Woken] /\ done \in [Slots -> 0 .. Woken]
    BY <1>1 DEF DualInv, Contents, FencesTell
  <2>7. {dispatching, hostGone, published, pipeOpen} \subseteq BOOLEAN
    BY <1>1, <2>2 DEF DualInv
  <2>8. QED
    BY <2>1, <2>2, <2>3, <2>5, <2>6, <2>7 DEF DualArchTypeOK, HostSteps, ClientSteps
<1>2. QED
  BY <1>1, DualInductive, PTL

\* While a compute pass runs, no command of the client that touches its
\* texture is at the head of the client's queue.
LEMMA AccessIsExclusive ==
  ASSUME DualInv
  PROVE  ExclusiveAccess
<1> SUFFICES ASSUME dispatching, cq # << >>,
                    TouchesShared(Head(cq), Slot(o, dispatched))
             PROVE  FALSE
  BY DEF ExclusiveAccess
<1>1. HostAlive /\ dispatched < recorded /\ recorded \in 0 .. Total /\ dispatched \in 0 .. recorded
  BY DEF DualInv, HostPosition
<1>2. dispatched \in FrameId /\ dispatched \in Nat
  BY <1>1, FrameIdIsNat
<1>3. ~Early /\ cpc # "ended"
  <2>1. recorded # 0
    BY <1>1, <1>2
  <2>2. QED
    BY <2>1 DEF DualInv, HostPosition, QueueForm
<1>4. dispatched < Signalled /\ completed <= dispatched
  BY <1>1, <1>3 DEF DualInv, InOrder
<1>5. /\ Signalled \in Int /\ Signalled <= submitted /\ submitted \in Nat /\ completed \in Nat
  <2>1. Signalled \in Int /\ Prepared \in Int /\ Signalled <= Prepared /\ Prepared <= submitted
    BY SignalledFacts
  <2>2. QED
    BY <2>1, SignalledFacts
<1>6. dispatched < submitted
  BY <1>2, <1>4, <1>5
<1>7. CASE cpc = "map" /\ Len(cq) = 1 /\ Head(cq) = Copy("shared", "staging", Slot(o, completed))
  <2>1. completed < dispatched
    BY <1>1, <1>7 DEF DualInv, InOrder
  <2>2. completed \in FrameId
    BY <1>2, <1>5, <2>1, FrameIdIsNat, <1>1
  <2>3. completed <= completed /\ completed < submitted /\ completed # dispatched
    BY <1>2, <1>5, <1>6, <2>1
  <2>4. Slot(o, completed) # Slot(o, dispatched)
    BY <1>2, <1>4, <1>6, <2>2, <2>3, InFlightSlots
  <2>5. Head(cq).slot = Slot(o, completed)
    BY <1>7 DEF Copy
  <2>6. QED
    BY <2>4, <2>5 DEF TouchesShared
<1>8. CASE Head(cq) = Wait(Timeline(o, completed), FenceValue(o, completed))
  BY <1>8 DEF Wait, TouchesShared
<1>9. ASSUME NEW n \in FrameId, NEW k \in 0 .. 3, Head(cq) = Work(o, n, k),
             completed <= n, n < submitted, Signalled = n
      PROVE  FALSE
  <2>1. n # dispatched
    BY <1>2, <1>4, <1>9, FrameIdIsNat
  <2>2. Slot(o, n) # Slot(o, dispatched)
    BY <1>2, <1>4, <1>6, <1>9, <2>1, InFlightSlots
  <2>3. Head(cq).op \in {"put", "copy"} => Head(cq).slot = Slot(o, n)
    BY <1>9 DEF Work, Signal, Put, Copy
  <2>4. QED
    BY <2>2, <2>3 DEF TouchesShared
<1>10. QED
  <2>1. SUFFICES ASSUME NEW n \in FrameId, NEW k \in 0 .. 3,
                        Head(cq) = Work(o, n, k), completed <= n, n < submitted,
                        \/ Ring(o) /\ k <= 1 /\ n = submitted - 2 /\ Unsent = k + 3
                        \/ Ring(o) /\ k <= 1 /\ n = submitted - 1 /\ Unsent = k + 1
                        \/ ~Ring(o) /\ n = submitted - 1 /\ Unsent = k + 1
                 PROVE  FALSE
    BY <1>3, <1>7, <1>8, HeadOfQueue
  <2>2. Signalled = n
    BY <1>5, <2>1 DEF Signalled
  <2>3. QED
    BY <1>9, <2>1, <2>2

LEMMA WorkIsHeld ==
  ASSUME DualInv
  PROVE  QueuedWorkIsHeld
<1>0. Consistent(o) /\ FRAMES \in Nat /\ FRAMES > 0 /\ FrameId \subseteq Nat /\ Total \in Nat
  BY InvIsConsistent, FrameIdIsNat
<1>1. ASSUME HostAlive, NEW n \in dispatched .. recorded - 1
      PROVE  Slot(o, n) \in hostRes
  <2>1. recorded \in 0 .. Total /\ dispatched \in 0 .. recorded
    BY DEF DualInv, HostPosition
  <2>2. n \in FrameId /\ n \in Nat /\ dispatched <= n /\ n < recorded /\ recorded \in Nat
        /\ dispatched \in Nat
    BY <1>0, <2>1, FrameIdIsNat
  <2>3. CASE ~Replaces(o)
    BY <1>0, <2>2, <2>3, SlotFacts DEF DualInv, HostHolds
  <2>4. CASE Replaces(o)
    <3>1. Slot(o, n) = IF n < FRAMES THEN 0 ELSE 1
      BY <1>0, <2>2, <2>4, SlotFacts
    <3>2. \/ hostRes = {0} /\ recorded <= FRAMES
          \/ recorded = FRAMES /\ dispatched = FRAMES
          \/ hostRes = {1} /\ dispatched >= FRAMES
      BY <1>1, <2>4 DEF DualInv, HostHolds
    <3>3. QED
      BY <1>0, <2>2, <3>1, <3>2
  <2>5. QED
    BY <2>3, <2>4
<1>2. ASSUME NEW i \in DOMAIN cq, NEW s \in Slots, TouchesShared(cq[i], s)
      PROVE  s \in clientRes
  <2>0. cq \in Seq(Command)
    BY DEF DualInv, QueueForm
  <2>1. Len(cq) \in Nat /\ i \in 1 .. Len(cq) /\ cq # << >>
    BY <2>0
  <2>2. ~Early
    <3>1. Early => cq = << Signal(0, 1) >>
      BY <2>1 DEF DualInv, QueueForm
    <3>2. Early => cq[i] = Signal(0, 1)
      BY <2>1, <3>1
    <3>3. QED
      BY <1>2, <3>2 DEF Signal, TouchesShared
  <2>3. Working /\ cpc # "read" /\ cpc # "relay"
    BY <2>1 DEF DualInv, QueueForm, Working
  <2>4. submitted \in Nat /\ completed \in Nat /\ submitted <= Total /\ completed <= submitted
        /\ Unsent \in Int /\ submitted <= completed + Room
    <3>1. submitted \in 0 .. Total /\ completed \in 0 .. submitted /\ submitted <= completed + Room
      BY DEF DualInv, ClientPosition
    <3>2. QED
      BY <1>0, <3>1, SignalledFacts
  <2> DEFINE k == Len(cq) - i
  <2>5. k \in Nat /\ k < Len(cq) /\ cq[i] = Program(k)
    BY <2>1, <2>2 DEF DualInv, QueueForm
  <2> HIDE DEF k
  <2>6. \E n \in FrameId : s = Slot(o, n) /\ (~Ring(o) => n = submitted - 1 /\ cpc = "map")
    <3>1. ~Ring(o) => cpc = "map" /\ completed = submitted - 1
      <4>1. SUFFICES ASSUME ~Ring(o) PROVE cpc = "map" /\ completed = submitted - 1
        OBVIOUS
      <4>2. cpc = "map"
        <5>1. \/ cpc = "map" /\ Len(cq) = 1
              \/ cpc = "map" /\ Len(cq) = 2
              \/ Ring(o)
              \/ cpc = "map"
          BY <2>1, <2>2, HeadOfQueue
        <5>2. QED
          BY <4>1, <5>1
      <4>3. completed < submitted /\ Room = 1
        BY <4>1, <4>2 DEF DualInv, ClientPosition, Room
      <4>4. QED
        BY <2>4, <4>2, <4>3
    <3>2. CASE cpc = "map" /\ k = 0
      <4>1. cq[i] = Copy("shared", "staging", Slot(o, completed))
        BY <2>5, <3>2 DEF Program
      <4>2. s = Slot(o, completed)
        BY <1>2, <4>1 DEF Copy, TouchesShared
      <4>3. completed < submitted
        BY <3>2 DEF DualInv, ClientPosition
      <4>4. completed \in FrameId
        BY <2>4, <4>3, FrameIdIsNat
      <4>5. QED
        BY <3>1, <4>2, <4>4
    <3>3. CASE cpc = "map" /\ k = 1
      <4>1. cq[i] = Wait(Timeline(o, completed), FenceValue(o, completed))
        BY <2>5, <3>3 DEF Program
      <4>2. QED
        BY <1>2, <4>1 DEF Wait, TouchesShared
    <3>4. CASE ~(cpc = "map" /\ k \in {0, 1})
      <4> DEFINE j == IF cpc = "map" THEN k - 2 ELSE k
      <4>1. cq[i] = Pending(j) /\ j \in Nat /\ j < Unsent
        BY <2>1, <2>5, <3>4 DEF Program, Unsent
      <4> HIDE DEF j
      <4>2. CASE Ring(o) /\ j > 1
        <5>1. Unsent <= 2 * (submitted - completed)
          BY <2>2, <4>2 DEF DualInv, QueueForm
        <5>2. submitted - 2 \in FrameId
          BY <2>4, <4>1, <4>2, <5>1, FrameIdIsNat
        <5>3. cq[i] = Work(o, submitted - 2, j - 2)
          BY <4>1, <4>2 DEF Pending
        <5>4. s = Slot(o, submitted - 2)
          BY <1>2, <5>3 DEF Work, Signal, Put, Copy, TouchesShared
        <5>5. QED
          BY <4>2, <5>2, <5>4
      <4>3. CASE ~(Ring(o) /\ j > 1)
        <5>1. Ring(o) => Unsent <= 2 * (submitted - completed)
          BY <2>2 DEF DualInv, QueueForm
        <5>2. submitted > 0
          <6>1. CASE Ring(o)
            BY <2>4, <4>1, <5>1, <6>1
          <6>2. CASE ~Ring(o)
            BY <2>4, <3>1, <6>2
          <6>3. QED
            BY <6>1, <6>2
        <5>3. submitted - 1 \in FrameId
          BY <2>4, <5>2, FrameIdIsNat
        <5>4. cq[i] = Work(o, submitted - 1, j)
          BY <4>1, <4>3 DEF Pending
        <5>5. s = Slot(o, submitted - 1)
          BY <1>2, <5>4 DEF Work, Signal, Put, Copy, TouchesShared
        <5>6. QED
          BY <3>1, <5>3, <5>5
      <4>4. QED
        BY <4>2, <4>3
    <3>5. QED
      BY <3>2, <3>3, <3>4
  <2>7. PICK n \in FrameId : s = Slot(o, n) /\ (~Ring(o) => n = submitted - 1 /\ cpc = "map")
    BY <2>6
  <2>8. CASE ~Replaces(o)
    BY <1>0, <2>3, <2>7, <2>8, SlotFacts DEF DualInv, ClientHolds
  <2>9. CASE Replaces(o)
    <3>1. s = IF n < FRAMES THEN 0 ELSE 1
      BY <1>0, <2>7, <2>9, SlotFacts
    <3>2. n = submitted - 1 /\ cpc = "map"
      BY <2>7, <2>9 DEF Replaces
    <3>3. \/ clientRes = {0} /\ submitted <= FRAMES
          \/ clientRes = {1} /\ submitted > FRAMES
      BY <2>3, <2>9, <3>2 DEF DualInv, ClientHolds
    <3>4. QED
      BY <1>0, <2>4, <3>1, <3>2, <3>3
  <2>10. QED
    BY <2>8, <2>9
<1>3. QED
  BY <1>1, <1>2 DEF QueuedWorkIsHeld

\* The two GPUs and the two devices of the client use the shared textures one
\* at a time, none is released or overwritten while a queue needs it, and the
\* client is never more than its ring ahead.
THEOREM TexturesStaySafe == Spec => []TexturesAreSafe
<1>1. ASSUME DualInv PROVE TexturesAreSafe
  <2>1. RelayIsSettled
    <3>1. lq # << >> => cq = << >>
      BY <1>1 DEF DualInv, RelayForm, QueueForm
    <3>2. QED
      BY <3>1 DEF RelayIsSettled
  <2>2. RingIsBounded
    <3>1. submitted <= completed + Room /\ submitted \in Nat /\ completed \in Nat
      BY <1>1, SignalledFacts DEF DualInv, ClientPosition
    <3>2. Room \in Nat
      BY <1>1, InvIsConsistent DEF Room, Consistent, Options
    <3>3. QED
      BY <3>1, <3>2 DEF RingIsBounded, Room
  <2>3. QED
    BY <1>1, <2>1, <2>2, AccessIsExclusive, WorkIsHeld DEF TexturesAreSafe
<1>2. QED
  BY <1>1, DualInductive, PTL

\* As long as the host lives, the frames rejected and the frames found to show
\* the other eye are those the defect of the run spoils, and no others.
THEOREM DetectorsStayExact == Spec => []DetectorsAreExact
<1>1. DualInv => DetectorsAreExact
  BY DEF DualInv
<1>2. QED
  BY <1>1, DualInductive, PTL

\* The host claims success only of a run in which everything it vouches for
\* has happened, whatever failed or was killed on the way.
THEOREM ClaimsStayEarned == Spec => []ClaimsAreEarned
<1>1. ASSUME DualInv PROVE ClaimsAreEarned
  <2>0. Consistent(o) /\ FRAMES \in Nat /\ Total \in Nat
    BY <1>1, InvIsConsistent, FrameIdIsNat
  <2>1. ASSUME hexit = 0, o.negative = "none"
        PROVE  /\ dispatched = Total /\ completed = Total
               /\ (mismatched = 0) = (Expected(o) = 0)
    <3>1. cexit = Expected(o) /\ dispatched = Total /\ mismatched = contaminated
      BY <1>1, <2>1 DEF DualInv, CodesTell
    <3>2. Expected(o) \in {0, 25}
      BY <2>1 DEF Expected
    <3>3. CASE Expected(o) = 0
      BY <1>1, <3>1, <3>3 DEF DualInv, CodesTell
    <3>4. CASE Expected(o) = 25
      <4>1. completed = Total /\ mismatched # 0
        BY <1>1, <3>1, <3>4 DEF DualInv, CodesTell
      <4>2. Expected(o) # 0
        BY <3>4
      <4>3. QED
        BY <3>1, <4>1, <4>2
    <3>5. QED
      BY <3>2, <3>3, <3>4
  <2>2. ASSUME hexit = 0, o.negative \in SetupNegatives \cup {"host-stall"}
        PROVE  submitted = 0 /\ dispatched = 0
    <3>1. Early
      BY <2>2 DEF Early
    <3>2. submitted = 0 /\ recorded = 0 /\ dispatched \in 0 .. recorded
      BY <1>1, <3>1 DEF DualInv, HostPosition, ClientPosition
    <3>3. QED
      BY <3>2
  <2>3. ASSUME hexit = 0, Deferred(o)
        PROVE  /\ submitted = FRAMES /\ dispatched = FRAMES /\ mismatched = 0
               /\ completed >= (IF o.negative = "client-termination" THEN FRAMES - 1
                                ELSE FRAMES)
    <3>1. cexit = Expected(o) /\ dispatched = FRAMES /\ mismatched = 0
      BY <1>1, <2>3 DEF DualInv, CodesTell
    <3>2. CASE o.negative = "client-termination"
      <4>1. cexit = 21
        BY <3>1, <3>2 DEF Expected
      <4>2. QED
        BY <1>1, <2>3, <3>1, <3>2, <4>1 DEF DualInv, CodesTell
    <3>3. CASE o.negative # "client-termination"
      <4>1. cexit = 19
        BY <2>3, <3>1, <3>3 DEF Expected, Deferred, DeferredNegatives
      <4>2. submitted = FRAMES /\ completed = FRAMES
        BY <1>1, <2>3, <4>1 DEF DualInv, CodesTell
      <4>3. QED
        BY <2>0, <3>1, <3>3, <4>2
    <3>4. QED
      BY <3>2, <3>3
  <2>4. ASSUME o.negative \in HostLossNegatives
        PROVE  completed = 0
    <3>1. CASE o.negative = "host-termination"
      <4>1. submitted = 0 /\ completed \in 0 .. submitted
        BY <1>1, <3>1 DEF DualInv, ClientPosition, Early
      <4>2. QED
        BY <4>1
    <3>2. CASE o.negative = "backpressure-host-termination"
      BY <1>1, <3>2 DEF DualInv, ClientPosition
    <3>3. QED
      BY <2>4, <3>1, <3>2 DEF HostLossNegatives
  <2>5. QED
    BY <2>1, <2>2, <2>3, <2>4 DEF ClaimsAreEarned, ExitZeroIsEarned, NegativePassIsEarned,
       WokenFenceIsNoCompletion
<1>2. QED
  BY <1>1, DualInductive, PTL

\* Only ClientValidates counts a frame.
LEMMA CompletedByValidation ==
  ASSUME DualInv, [Next]_vars, completed' = completed + 1
  PROVE  ClientValidates
<1> USE DEF setup, hostVars, hostGpu, clientVars, clientFrames, fences
<1>1. completed' # completed
  BY SignalledFacts
<1>2. ASSUME NEW code, HostExit(code) PROVE FALSE
  BY <1>1, <1>2 DEF HostExit
<1>3. ASSUME NEW code, ClientExit(code) PROVE FALSE
  BY <1>1, <1>3 DEF ClientExit, ClientEnds
<1>4. ~UNCHANGED vars
  BY <1>1 DEF vars
<1>5. ~HostGivesUp
  BY <1>2 DEF HostGivesUp, HostGivesUpOpening, HostGivesUpAwaiting, HostGivesUpTransition,
     HostGivesUpResolve, HostGivesUpJudging
<1>6. ~Host
  <2>1. ASSUME NEW pc, HostGoes(pc) PROVE FALSE
    BY <1>1, <2>1 DEF HostGoes
  <2>2. ~HostLaunches /\ ~HostIsGone /\ ~HostKillsClient
    BY <1>1 DEF HostLaunches, HostIsGone, HostKillsClient, ClientEnds
  <2>3. ~HostTerminatesItself /\ ~HostCannotReplace /\ ~HostJudges
    BY <1>2 DEF HostTerminatesItself, HostCannotReplace, HostJudges
  <2>4. ~HostOpensFences /\ ~HostRecords /\ ~HostReleasesGeneration /\ ~HostReplaces
        /\ ~HostRemovesDevice /\ ~HostResolves
    BY <2>1 DEF HostOpensFences, HostRecords, HostReleasesGeneration, HostReplaces,
       HostRemovesDevice, HostResolves
  <2>5. QED
    BY <2>2, <2>3, <2>4 DEF Host
<1>7. ~HostGpu
  BY <1>1 DEF HostGpu, HostGpuStarts, HostGpuFinishes
<1>8. ~ClientGivesUp
  BY <1>3 DEF ClientGivesUp, ClientGivesUpOnHost, ClientGivesUpRelay
<1>9. ~ClientGpu /\ ~LegacyGpu
  BY <1>1 DEF ClientGpu, LegacyGpu
<1>10. ~HostFails /\ ~ClientFails
  BY <1>1 DEF HostFails, ClientFails, ClientEnds
<1>11. Client => ClientValidates
  <2>1. ~ClientSeesStall /\ ~ClientSeesDone /\ ~ClientSeesHostLoss /\ ~ClientReadFails
        /\ ~ClientReports
    BY <1>3 DEF ClientSeesStall, ClientSeesDone, ClientSeesHostLoss, ClientReadFails,
       ClientReports
  <2>2. ~ClientStarts /\ ~ClientReads
    BY <1>1, <1>3 DEF ClientStarts, ClientReads
  <2>3. ~ClientPublishes /\ ~ClientProbes /\ ~ClientChecksHost /\ ~ClientDrawsRelay
        /\ ~ClientSubmits /\ ~ClientReuses /\ ~ClientReleasesGeneration
    BY <1>1 DEF ClientPublishes, ClientProbes, ClientChecksHost, ClientDrawsRelay,
       ClientSubmits, ClientReuses, ClientReleasesGeneration
  <2>4. QED
    BY <2>1, <2>2, <2>3 DEF Client
<1>12. QED
  BY <1>4, <1>5, <1>6, <1>7, <1>8, <1>9, <1>10, <1>11 DEF Next

\* A frame the comparison accepts is the very frame, processed by the host
\* from the right history - also in the scene mode, whose four samples cannot
\* tell one frame from another, and also when the host died in between.
THEOREM AcceptedStaysCurrent == Spec => AcceptedIsCurrent
<1>1. ASSUME DualInv, [Next]_vars, completed' = completed + 1, mismatched' = mismatched
      PROVE  tex["staging"][Slot(o, completed)] = Wanted(o, completed)
  <2> DEFINE n == completed
             p == tex["staging"][Slot(o, n)]
  <2>1. ClientValidates
    BY <1>1, CompletedByValidation
  <2>2. cpc = "map" /\ cq = << >> /\ mismatched' = mismatched + (IF LooksRight(o, n, p) THEN 0 ELSE 1)
    BY <2>1 DEF ClientValidates
  <2>3. mismatched \in Nat
    <3>1. mismatched \in 0 .. completed /\ completed \in Nat
      BY <1>1, SignalledFacts DEF DualInv, ClientPosition
    <3>2. QED
      BY <3>1
  <2>4. LooksRight(o, n, p)
    BY <1>1, <2>2, <2>3
  <2>5. n \in FrameId
    <3>1. n < submitted /\ submitted \in 0 .. Total /\ n \in Nat
      BY <1>1, <2>2, SignalledFacts DEF DualInv, ClientPosition
    <3>2. QED
      BY <3>1, FrameIdIsNat
  <2>6. p \in {Payload(o, n), Result(o, n)}
    BY <1>1, <2>2 DEF DualInv, Contents
  <2>7. QED
    BY <1>1, <2>4, <2>5, <2>6, InvIsConsistent, AcceptedIsWanted
<1>2. DualInv /\ [Next]_vars =>
        [completed' = completed + 1 /\ mismatched' = mismatched
           => tex["staging"][Slot(o, completed)] = Wanted(o, completed)]_vars
  BY <1>1
<1>3. QED
  BY <1>2, DualInductive, PTL DEF Spec, AcceptedIsCurrent

=============================================================================
