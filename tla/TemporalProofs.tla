--------------------------- MODULE TemporalProofs ---------------------------
(***************************************************************************)
(* Proofs about the temporal contract for every width of the integers, and *)
(* about the harness for every set of window sizes, scenarios and times.   *)
(***************************************************************************)
EXTENDS TemporalHarness, TLAPS

----------------------------------------------------------------------------
(* The contract.                                                           *)

\* A value of the type is not changed by the reduction to its width.
LEMMA WrapIdentity ==
  /\ \A n \in U32 : Wrap32(n) = n
  /\ \A n \in U64 : Wrap64(n) = n
  BY WidthAssumption DEF U32, U64, Wrap32, Wrap64

\* The reduction gives a value of the type.
LEMMA WrapInRange ==
  /\ \A n \in Int : Wrap32(n) \in U32
  /\ \A n \in Int : Wrap64(n) \in U64
  BY WidthAssumption DEF U32, U64, Wrap32, Wrap64

\* HasValidSubrect accepts exactly the rectangles that lie in the extent, in
\* the arithmetic of the integers: none of its unsigned operations wraps.
THEOREM SubrectIsExact ==
  ASSUME NEW r \in Rect, NEW e \in Extent
  PROVE  HasValidSubrect(r, e) <=>
           /\ r.width > 0 /\ r.height > 0
           /\ r.x + r.width <= e.width /\ r.y + r.height <= e.height
<1>1. /\ r.x \in Nat /\ r.y \in Nat /\ r.width \in Nat /\ r.height \in Nat
      /\ e.width \in U32 /\ e.height \in U32
  BY WidthAssumption DEF Rect, Extent, U32
<1>2. r.x <= e.width => Wrap32(e.width - r.x) = e.width - r.x
  <2>1. r.x <= e.width => e.width - r.x \in U32
    BY <1>1, WidthAssumption DEF U32
  <2> QED BY <2>1, WrapIdentity
<1>3. r.y <= e.height => Wrap32(e.height - r.y) = e.height - r.y
  <2>1. r.y <= e.height => e.height - r.y \in U32
    BY <1>1, WidthAssumption DEF U32
  <2> QED BY <2>1, WrapIdentity
<1>4. e.width \in Nat /\ e.height \in Nat
  BY <1>1, WidthAssumption DEF U32
<1> QED BY <1>1, <1>2, <1>3, <1>4 DEF HasValidSubrect

\* A frame whose history may be reused is the next one of the renderer, with no
\* wrap between the two, and a newer one: CanReuseHistory implies
\* IsNewerSourceFrame.
THEOREM ReuseIsNewer ==
  ASSUME NEW p, NEW c, p.identity \in Identity, c.identity \in Identity,
         CanReuseHistory(p, c)
  PROVE  /\ c.identity.frame = p.identity.frame + 1
         /\ IsNewerSourceFrame(p, c)
<1>1. /\ p.identity.frame \in U64 /\ c.identity.frame \in U64
      /\ p.identity.resource \in U32 /\ p.identity.history \in U32
      /\ p.identity.camera \in U32 /\ p.identity.config \in U32
  BY DEF Identity
<1>2. p.identity.frame + 1 \in U64
  BY <1>1, WidthAssumption DEF CanReuseHistory, U64
<1>3. c.identity.frame = p.identity.frame + 1
  BY <1>2, WrapIdentity DEF CanReuseHistory
<1> QED
  BY <1>1, <1>3, WidthAssumption
  DEF CanReuseHistory, SameGenerations, IsNewerSourceFrame, U32, U64

\* Inputs that join with the color as reference join with any of them as
\* reference: CanJoinTemporalInputs compares two with the first only.
THEOREM JoinIsMutual ==
  ASSUME NEW a, NEW b, NEW c, NEW null,
         CanJoinTemporalInputs(a, b, c, null)
  PROVE  /\ CanJoinTemporalInputs(b, a, c, null)
         /\ CanJoinTemporalInputs(c, a, b, null)
  BY DEF CanJoinTemporalInputs, SameTemporalFrameIdentity, SameGenerations,
         SameTemporalGeometry, SameTemporalSampleMetadata

----------------------------------------------------------------------------
(* The harness.                                                            *)

\* Two sides, so that something can be drawn.
Drawable(s) == s \in Sizes /\ s.width # 0 /\ s.height # 0

\* What relates the frame described last to the state of the renderer: it was
\* drawn in the current size, and in the current scenario unless a reset is
\* pending.
FrameInv ==
  /\ Drawable(size) /\ pending \in Sizes
  /\ previousValid =>
       /\ previousScene.size = size
       /\ pendingReset = "none" => previousScene.scenario = scenario
  /\ last # None => previousValid /\ motion.from = previousScene

IInv == FrameInv /\ FramesAreValid /\ VectorsJoinOneScenario

LEMMA SidesAreU32 == Sides \subseteq U32 /\ InitialSize \in Sizes
  BY HarnessAssumption

\* A frame of a size with two sides is described by valid metadata.
LEMMA DescribedIsValid ==
  ASSUME NEW id, NEW s, Drawable(s), NEW d \in Nat
  PROVE  HasValidTemporalMetadata(Described(id, s, d))
<1>1. s.width \in U32 /\ s.height \in U32 /\ s.width # 0 /\ s.height # 0
  BY SidesAreU32 DEF Drawable, Sizes
<1>2. HasValidSubrect(Full(s), s)
  <2>1. Wrap32(s.width - 0) = s.width /\ Wrap32(s.height - 0) = s.height
    <3>1. s.width - 0 = s.width /\ s.height - 0 = s.height
      BY <1>1, WidthAssumption DEF U32
    <3> QED BY <1>1, <3>1, WrapIdentity
  <2> QED BY <1>1, <2>1, WidthAssumption DEF HasValidSubrect, Full, U32
<1>3. HasValidDimensions(Described(id, s, d))
  BY <1>1 DEF HasValidDimensions, Described
<1>4. HasValidDepth(Described(id, s, d).depth)
  BY DEF HasValidDepth, Described, Finite
<1>5. HasValidMotion(Described(id, s, d).motion)
  BY DEF HasValidMotion, Described, KnownCoverage
<1> QED BY <1>2, <1>3, <1>4, <1>5 DEF HasValidTemporalMetadata, Described, Finite

\* A clock reading taken from an earlier one, or no time at all.
LEMMA ElapsedIsNat ==
  ASSUME NEW t \in Nat, NEW reset, previousTime \in Nat \cup {None}
  PROVE  Elapsed(t, reset) \in Nat
<1>1. CASE previousTime \in Nat
  BY <1>1 DEF Elapsed
<1>2. CASE previousTime = None
  BY <1>2 DEF Elapsed
<1> QED BY <1>1, <1>2

TimeInv == previousTime \in Nat \cup {None}

\* What a frame establishes and keeps.
LEMMA RenderKeepsInv ==
  ASSUME IInv, TimeInv, NEW t \in Nat, Render(t)
  PROVE  IInv' /\ TimeInv'
<1> DEFINE now == IF Resizes THEN pending ELSE size
           drawn == Scene(now, t)
<1>1. Drawable(now)
  BY DEF IInv, FrameInv, Drawable, Resizes
<1>2. size' = now /\ previousScene' = drawn /\ scenario' = scenario
      /\ previousValid' = TRUE /\ previousTime' = t /\ pendingReset' = "none"
  BY DEF Render
<1>3. pending' \in Sizes
  BY HarnessAssumption DEF Render, IInv, FrameInv, NoSize, Sizes, Drawable
<1>4. motion' = [from |-> drawn,
                 to |-> IF LeadsBack(ResetOfFrame) THEN previousScene ELSE drawn]
  BY DEF Render
<1>5. PICK d \in Nat : \E id : last' = Described(id, now, d)
  BY ElapsedIsNat DEF Render, TimeInv
<1>6. drawn.size = now /\ drawn.scenario = scenario
  BY DEF Scene
<1>7. motion'.from = drawn
  BY <1>4
<1>8. FrameInv'
  BY <1>1, <1>2, <1>3, <1>4, <1>6, <1>7 DEF FrameInv, Drawable
<1>9. FramesAreValid'
  BY <1>1, <1>5, DescribedIsValid DEF FramesAreValid
<1>10. VectorsJoinOneScenario'
  BY <1>2, <1>4, <1>6
  DEF VectorsJoinOneScenario, LeadsBack, ResetOfFrame, IInv, FrameInv
<1>11. TimeInv'
  BY <1>2 DEF TimeInv
<1> QED BY <1>8, <1>9, <1>10, <1>11 DEF IInv

\* A message leaves what was rendered, and a reset comes with a new scenario.
LEMMA MessageKeepsInv ==
  ASSUME IInv, TimeInv, UNCHANGED << renderVars, size >>, pending' \in Sizes,
         \/ UNCHANGED << scenario, pendingReset >>
         \/ pendingReset' # "none"
  PROVE  IInv' /\ TimeInv'
  BY DEF IInv, FrameInv, FramesAreValid, VectorsJoinOneScenario, TimeInv,
         Drawable, renderVars

LEMMA InitInv == Init => IInv /\ TimeInv
  BY HarnessAssumption, SidesAreU32
  DEF Init, IInv, FrameInv, FramesAreValid, VectorsJoinOneScenario, TimeInv,
      Drawable, NoSize, Sizes

\* Every action keeps the invariant.
LEMMA StepInv == IInv /\ TimeInv /\ [Next]_vars => IInv' /\ TimeInv'
<1> SUFFICES ASSUME IInv, TimeInv, [Next]_vars PROVE IInv' /\ TimeInv'
  OBVIOUS
<1>p. pending \in Sizes
  BY DEF IInv, FrameInv
<1>1. CASE OnSize
  BY <1>1, MessageKeepsInv DEF OnSize, OnMessage
<1>2. CASE OnManualReset
  BY <1>2, <1>p, MessageKeepsInv DEF OnManualReset, OnMessage
<1>3. CASE OnScenario
  BY <1>3, <1>p, MessageKeepsInv DEF OnScenario, OnMessage, Chooses
<1>4. CASE RenderFrame
  BY <1>4, RenderKeepsInv, HarnessAssumption DEF RenderFrame
<1>5. CASE CheckBegins
  BY <1>5, <1>p, MessageKeepsInv DEF CheckBegins, Chooses
<1>6. CASE RenderReset
  BY <1>6, RenderKeepsInv DEF RenderReset
<1>7. CASE CheckReset
  BY <1>7, <1>p, MessageKeepsInv DEF CheckReset, windowVars
<1>8. CASE RenderSteady
  BY <1>8, RenderKeepsInv DEF RenderSteady
<1>9. CASE CheckSteady
  BY <1>9, <1>p, MessageKeepsInv DEF CheckSteady, windowVars
<1>10. CASE UNCHANGED vars
  BY <1>10, <1>p, MessageKeepsInv DEF vars, windowVars
<1> QED
  BY <1>1, <1>2, <1>3, <1>4, <1>5, <1>6, <1>7, <1>8, <1>9, <1>10 DEF Next

\* Whatever sizes the window takes, every frame is described by metadata that
\* HasValidTemporalMetadata accepts.
THEOREM FramesValid == Spec => []FramesAreValid
<1>1. IInv /\ TimeInv => FramesAreValid
  BY DEF IInv
<1> QED BY <1>1, InitInv, StepInv, PTL DEF Spec

\* The motion vectors never join two scenarios or two sizes.
THEOREM VectorsJoin == Spec => []VectorsJoinOneScenario
<1>1. IInv /\ TimeInv => VectorsJoinOneScenario
  BY DEF IInv
<1> QED BY <1>1, InitInv, StepInv, PTL DEF Spec

\* A frame with no reset follows, in size and scenario, the one before.
LEMMA RenderLeadsBack ==
  ASSUME IInv, NEW t, Render(t), last # None, CanReuseHistory(last, last')
  PROVE  /\ motion'.to = motion.from
         /\ motion'.from.size = motion.from.size
         /\ motion'.from.scenario = motion.from.scenario
<1>1. last'.identity.reset = ResetOfFrame
  BY DEF Render, Described
<1>2. ResetOfFrame = "none"
  BY <1>1 DEF CanReuseHistory
<1>3. ~Resizes /\ pendingReset = "none"
  BY <1>2 DEF ResetOfFrame
<1>4. /\ motion.from = previousScene
      /\ previousScene.size = size /\ previousScene.scenario = scenario
      /\ previousValid
  BY <1>3 DEF IInv, FrameInv
<1>5. motion'.from = Scene(size, t) /\ motion'.to = previousScene
  BY <1>2, <1>3, <1>4 DEF Render, LeadsBack
<1> QED BY <1>4, <1>5 DEF Scene

\* When two consecutive identities allow the history to be reused, the motion
\* vectors lead to the scene of the frame before.
THEOREM HistoryIsTrue == Spec => HistoryLeadsBack
<1> DEFINE Leads ==
      last # None /\ last' # last /\ CanReuseHistory(last, last')
        => /\ motion'.to = motion.from
           /\ motion'.from.size = motion.from.size
           /\ motion'.from.scenario = motion.from.scenario
<1>1. IInv /\ [Next]_vars => [Leads]_vars
  <2> SUFFICES ASSUME IInv, Next, last # None, last' # last,
                      CanReuseHistory(last, last')
               PROVE  /\ motion'.to = motion.from
                      /\ motion'.from.size = motion.from.size
                      /\ motion'.from.scenario = motion.from.scenario
    OBVIOUS
  <2>1. \E t : Render(t)
    BY DEF Next, OnSize, OnManualReset, OnScenario, OnMessage, RenderFrame,
           CheckBegins, RenderReset, CheckReset, RenderSteady, CheckSteady,
           renderVars
  <2> QED BY <2>1, RenderLeadsBack
<1> QED BY <1>1, InitInv, StepInv, PTL DEF Spec, HistoryLeadsBack

\* Every frame is described by metadata a consumer accepts, and joined to a scene
\* of its own scenario and size.
THEOREM FramesAreWhatTheySay == Spec => []FramesAreTrue
<1>1. FramesAreValid /\ VectorsJoinOneScenario => FramesAreTrue
  BY DEF FramesAreTrue
<1> QED BY <1>1, FramesValid, VectorsJoin, PTL

----------------------------------------------------------------------------
(* Types.                                                                  *)

\* The locals of the self test.
IsTest(t) == t = [left |-> t.left, generation |-> t.generation,
                  frame |-> t.frame, resetFrame |-> t.resetFrame]

\* Once a frame has been drawn, what was drawn is a scene.
TypeInv ==
  /\ HarnessTypeOK
  /\ IsTest(test)
  /\ previousValid => previousScene \in Drawn

\* One frame stays within the ranges of the counters, wrapped or not.
LEMMA RenderKeepsTypes ==
  ASSUME IInv, TypeInv, NEW t \in Times, Render(t),
         UNCHANGED << test, ok >>, pc' \in {"loop", "check_reset", "check_steady"}
  PROVE  TypeInv'
<1> DEFINE now == IF Resizes THEN pending ELSE size
           drawn == Scene(now, t)
           reset == ResetOfFrame
<1>1. now \in Sizes /\ reset \in ResetReasons
  BY DEF TypeInv, HarnessTypeOK, ResetOfFrame, ResetReasons
<1>2. drawn \in Drawn
  BY <1>1, HarnessAssumption DEF Scene, Drawn, TypeInv, HarnessTypeOK
<1>3. pending' \in Sizes
  BY HarnessAssumption DEF Render, TypeInv, HarnessTypeOK, NoSize, Sizes
<1>4. /\ counters.frame \in U64 /\ counters.resource \in U32
      /\ counters.history \in U32 /\ counters.config \in U32
  BY DEF TypeInv, HarnessTypeOK, Counters
<1>5. /\ counters' = [frame |-> Wrap64(counters.frame + 1),
                      resource |-> IF Resizes THEN Wrap32(counters.resource + 1)
                                   ELSE counters.resource,
                      history |-> NextHistory(reset), config |-> counters.config]
  BY DEF Render
<1>6. /\ Wrap64(counters.frame + 1) \in U64 /\ Wrap32(counters.resource + 1) \in U32
      /\ NextHistory(reset) \in U32
  <2>1. counters.frame + 1 \in Int /\ counters.resource + 1 \in Int
        /\ counters.history + 1 \in Int
    BY <1>4 DEF U32, U64
  <2> QED BY <2>1, <1>4, WrapInRange DEF NextHistory
<1>7. counters' \in Counters
  BY <1>4, <1>5, <1>6 DEF Counters
<1>8. last'.identity =
        [frame |-> counters.frame, transport |-> counters.frame, view |-> 0,
         resource |-> counters'.resource, history |-> counters'.history,
         camera |-> 1, config |-> counters'.config, reset |-> reset]
  BY <1>5 DEF Render, Described
<1>9. 0 \in U32 /\ 1 \in U32
  BY WidthAssumption DEF U32
<1>10. last'.identity \in Identity
  BY <1>1, <1>4, <1>7, <1>8, <1>9 DEF Identity, Counters
<1>11. motion' \in [from : Drawn, to : Drawn]
  <2>1. motion' = [from |-> drawn,
                   to |-> IF LeadsBack(reset) THEN previousScene ELSE drawn]
    BY DEF Render
  <2> QED BY <2>1, <1>2 DEF TypeInv, LeadsBack
<1>12. /\ size' = now /\ scenario' = scenario /\ pendingReset' = "none"
       /\ previousValid' = TRUE /\ previousTime' = t /\ previousScene' = drawn
  BY DEF Render
<1> QED
  BY <1>1, <1>2, <1>3, <1>7, <1>10, <1>11, <1>12
  DEF TypeInv, HarnessTypeOK, ResetReasons

\* A message changes what the window knows, within its types.
LEMMA ChoosesKeepsTypes ==
  ASSUME TypeInv, NEW s \in Scenarios, Chooses(s)
  PROVE  /\ size' \in Sizes /\ pending' \in Sizes /\ scenario' \in Scenarios
         /\ counters' \in Counters /\ pendingReset' \in ResetReasons
<1>1. counters.config + 1 \in Int
  BY WidthAssumption DEF TypeInv, HarnessTypeOK, Counters, U32
<1>2. Wrap32(counters.config + 1) \in U32
  BY <1>1, WrapInRange
<1> QED BY <1>2 DEF Chooses, TypeInv, HarnessTypeOK, Counters, ResetReasons

LEMMA TypeInit == Init => TypeInv
<1> SUFFICES ASSUME Init PROVE TypeInv
  OBVIOUS
<1>1. NoSize \in Sizes /\ Head(Order) \in Scenarios
  BY HarnessAssumption DEF NoSize, Sizes
<1>2. counters \in Counters
  BY WidthAssumption DEF Init, Counters, U32, U64
<1>3. test.left \in Seq(Scenarios) /\ IsTest(test)
  <2>1. CASE test = NoTest
    BY <2>1 DEF NoTest, IsTest
  <2>2. CASE test = [NoTest EXCEPT !.left = Order]
    <3>1. test = [left |-> Order, generation |-> 0, frame |-> 0, resetFrame |-> None]
      BY <2>2 DEF NoTest
    <3> QED BY <3>1, HarnessAssumption DEF IsTest
  <2> QED BY <2>1, <2>2 DEF Init
<1> QED
  BY <1>1, <1>2, <1>3, HarnessAssumption
  DEF Init, TypeInv, HarnessTypeOK, ResetReasons

LEMMA TypeStep == IInv /\ TypeInv /\ [Next]_vars => TypeInv'
<1> SUFFICES ASSUME IInv, TypeInv, [Next]_vars PROVE TypeInv'
  OBVIOUS
<1>1. CASE OnSize
  BY <1>1 DEF OnSize, OnMessage, renderVars, testVars, TypeInv, HarnessTypeOK
<1>2. CASE OnManualReset
  BY <1>2 DEF OnManualReset, OnMessage, renderVars, testVars, TypeInv,
              HarnessTypeOK, ResetReasons
<1>3. CASE OnScenario
  BY <1>3, ChoosesKeepsTypes
  DEF OnScenario, OnMessage, renderVars, testVars, TypeInv, HarnessTypeOK
<1>4. CASE RenderFrame
  BY <1>4, RenderKeepsTypes DEF RenderFrame, testVars
<1>5. CASE CheckBegins
  <2>1. Head(test.left) \in Scenarios /\ Tail(test.left) \in Seq(Scenarios)
    BY <1>5 DEF CheckBegins, TypeInv, HarnessTypeOK
  <2>2. test'.left \in Seq(Scenarios) /\ IsTest(test')
    BY <1>5, <2>1 DEF CheckBegins, TypeInv, HarnessTypeOK, IsTest
  <2> QED
    BY <1>5, <2>1, <2>2, ChoosesKeepsTypes
    DEF CheckBegins, renderVars, TypeInv, HarnessTypeOK
<1>6. CASE RenderReset
  BY <1>6, RenderKeepsTypes, HarnessAssumption DEF RenderReset
<1>7. CASE CheckReset
  <2>1. test'.left = test.left /\ IsTest(test')
    BY <1>7 DEF CheckReset, TypeInv, IsTest
  <2> QED
    BY <1>7, <2>1 DEF CheckReset, windowVars, renderVars, TypeInv, HarnessTypeOK
<1>8. CASE RenderSteady
  BY <1>8, RenderKeepsTypes, HarnessAssumption DEF RenderSteady
<1>9. CASE CheckSteady
  BY <1>9 DEF CheckSteady, windowVars, renderVars, TypeInv, HarnessTypeOK
<1>10. CASE UNCHANGED vars
  BY <1>10 DEF vars, windowVars, renderVars, testVars, TypeInv, HarnessTypeOK
<1> QED
  BY <1>1, <1>2, <1>3, <1>4, <1>5, <1>6, <1>7, <1>8, <1>9, <1>10 DEF Next

\* Every variable stays in its range, for every width and any number of frames.
THEOREM HarnessIsTyped == Spec => []HarnessTypeOK
<1>1. TypeInv => HarnessTypeOK
  BY DEF TypeInv
<1> QED BY <1>1, TypeInit, TypeStep, InitInv, StepInv, PTL DEF Spec

----------------------------------------------------------------------------
(* The self test.                                                          *)

\* The frame of a self test that is drawn after a change of scenario, before
\* and after its check.
ResetFrame(frame) ==
  Described(
    [frame |-> frame, transport |-> frame, view |-> 0,
     resource |-> counters.resource, history |-> test.generation, camera |-> 1,
     config |-> counters.config, reset |-> "scenario_change"], size, 0)

AfterReset(frame) ==
  /\ frame \in U64 /\ frame % 2 = 0
  /\ last = ResetFrame(frame) /\ counters.frame = Wrap64(frame + 1)
  /\ counters.history = test.generation
  /\ previousTime = 0 /\ previousValid /\ previousScene = Scene(size, 0)
  /\ motion.from = Scene(size, 0) /\ motion.to = motion.from
  /\ pendingReset = "none"

\* Between two scenarios of a self test the frame index is even, so that a
\* change of scenario is never drawn at the last value of the counter.
SelfInv ==
  /\ ok
  /\ pc # "loop" => pending = NoSize
  /\ pc \in {"request", "reset", "check_steady", "done"} => counters.frame % 2 = 0
  /\ pc = "reset" => /\ pendingReset = "scenario_change"
                     /\ test.generation = NextHistory("scenario_change")
  /\ pc = "check_reset" => AfterReset(last.identity.frame)
  /\ pc = "steady" =>
       /\ AfterReset(last.identity.frame)
       /\ test.resetFrame = last /\ test.frame = counters.frame
       /\ surfaces \in SurfaceIds /\ surfaces.size = size
  /\ pc = "check_steady" => SteadyOk
\* A frame while no other size is pending.
LEMMA RenderPlain ==
  ASSUME NEW t, Render(t), pending = NoSize
  PROVE  /\ size' = size /\ pending' = NoSize /\ scenario' = scenario
         /\ last' = Described(
              [frame |-> counters.frame, transport |-> counters.frame, view |-> 0,
               resource |-> counters.resource, history |-> NextHistory(pendingReset),
               camera |-> 1, config |-> counters.config, reset |-> pendingReset],
              size, Elapsed(t, pendingReset))
         /\ motion' = [from |-> Scene(size, t),
                       to |-> IF previousValid /\ pendingReset = "none"
                              THEN previousScene ELSE Scene(size, t)]
         /\ previousScene' = Scene(size, t) /\ previousValid' /\ previousTime' = t
         /\ counters' = [frame |-> Wrap64(counters.frame + 1),
                         resource |-> counters.resource,
                         history |-> NextHistory(pendingReset),
                         config |-> counters.config]
         /\ pendingReset' = "none" /\ surfaces' = surfaces
<1>1. ~Resizes /\ ResetOfFrame = pendingReset
  BY DEF Resizes, ResetOfFrame, NoSize
<1>2. LeadsBack(pendingReset) <=> previousValid /\ pendingReset = "none"
  BY <1>1 DEF LeadsBack
<1>3. QED
  BY <1>1, <1>2 DEF Render

\* The frame index stays even over the two frames of a scenario, also when it
\* wraps: its largest value is odd.
LEMMA TwoFrames ==
  ASSUME U64Max % 2 = 1, NEW f \in U64, f % 2 = 0
  PROVE  /\ f # U64Max /\ Wrap64(f + 1) \in U64 /\ Wrap64(f + 1) = f + 1
         /\ Wrap64(Wrap64(f + 1) + 1) % 2 = 0
<1>1. U64Max \in Nat /\ f \in Nat /\ f <= U64Max /\ f # U64Max
  BY WidthAssumption DEF U64
<1>2. f + 1 \in U64 /\ Wrap64(f + 1) = f + 1
  <2>1. f + 1 \in U64
    BY <1>1 DEF U64
  <2>2. QED
    BY <2>1, WrapIdentity
<1>3. CASE f + 1 = U64Max
  <2>1. Wrap64(U64Max + 1) = 0
    BY <1>1 DEF Wrap64
  <2>2. QED
    BY <1>1, <1>2, <1>3, <2>1
<1>4. CASE f + 1 # U64Max
  <2>1. f + 2 \in U64
    BY <1>1, <1>4 DEF U64
  <2>2. Wrap64(f + 2) = f + 2
    BY <2>1, WrapIdentity
  <2>3. (f + 1) + 1 = f + 2 /\ (f + 2) % 2 = 0
    BY <1>1
  <2>4. QED
    BY <1>1, <1>2, <2>2, <2>3
<1>5. QED
  BY <1>3, <1>4

LEMMA FrameTypes ==
  ASSUME TypeInv
  PROVE  /\ size \in Sizes /\ counters.frame \in U64 /\ IsTest(test)
         /\ 0 \in Times /\ 0 # None /\ None \notin SurfaceIds
  BY HarnessAssumption DEF TypeInv, HarnessTypeOK, Counters

\* The frame after a change of scenario starts a history of its own.
LEMMA SelfResets ==
  ASSUME IInv, TypeInv, SelfInv, RenderReset
  PROVE  SelfInv'
<1>1. /\ pc = "reset" /\ Render(0) /\ pc' = "check_reset" /\ UNCHANGED << test, ok >>
      /\ pending = NoSize /\ pendingReset = "scenario_change"
      /\ test.generation = NextHistory("scenario_change") /\ counters.frame % 2 = 0
  BY DEF RenderReset, SelfInv
<1>2. Elapsed(0, "scenario_change") = 0
  BY DEF Elapsed
<1>3. PICK f : f = counters.frame
  OBVIOUS
<1>4. /\ last' = Described(
              [frame |-> f, transport |-> f, view |-> 0,
               resource |-> counters.resource, history |-> test.generation,
               camera |-> 1, config |-> counters.config, reset |-> "scenario_change"],
              size, 0)
      /\ size' = size /\ scenario' = scenario /\ pending' = NoSize
      /\ motion' = [from |-> Scene(size, 0), to |-> Scene(size, 0)]
      /\ counters' = [frame |-> Wrap64(f + 1), resource |-> counters.resource,
                      history |-> test.generation, config |-> counters.config]
      /\ previousTime' = 0 /\ previousValid' /\ previousScene' = Scene(size, 0)
      /\ pendingReset' = "none"
  BY <1>1, <1>2, <1>3, RenderPlain
<1>5. last'.identity.frame = f
  BY <1>4 DEF Described
<1>6. /\ counters'.frame = Wrap64(f + 1) /\ counters'.resource = counters.resource
      /\ counters'.history = test.generation /\ counters'.config = counters.config
      /\ motion'.from = Scene(size, 0) /\ motion'.to = Scene(size, 0)
  BY <1>4
<1>7. Scene(size, 0)' = Scene(size, 0)
  BY <1>4 DEF Scene
<1>8. last' = ResetFrame(f)'
  BY <1>1, <1>4, <1>6 DEF ResetFrame
<1>9. AfterReset(f)'
  BY <1>1, <1>3, <1>4, <1>6, <1>7, <1>8, FrameTypes DEF AfterReset
<1>10. QED
  BY <1>1, <1>4, <1>5, <1>9 DEF SelfInv

\* The frame after that continues the history, and its vectors lead back.
LEMMA SelfContinues ==
  ASSUME IInv, TypeInv, SelfInv, U64Max % 2 = 1, RenderSteady
  PROVE  SelfInv'
<1>1. /\ pc = "steady" /\ Render(1) /\ pc' = "check_steady" /\ UNCHANGED << test, ok >>
      /\ pending = NoSize /\ AfterReset(last.identity.frame)
      /\ test.resetFrame = last /\ test.frame = counters.frame
      /\ surfaces \in SurfaceIds /\ surfaces.size = size
  BY DEF RenderSteady, SelfInv
<1>2. PICK f \in U64 : f = last.identity.frame
  BY <1>1 DEF AfterReset
<1>3. /\ f % 2 = 0 /\ last = ResetFrame(f) /\ counters.frame = Wrap64(f + 1)
      /\ counters.history = test.generation /\ previousTime = 0 /\ previousValid
      /\ previousScene = Scene(size, 0) /\ pendingReset = "none"
  BY <1>1, <1>2 DEF AfterReset
<1>4. Elapsed(1, "none") = 1
  BY <1>3, FrameTypes DEF Elapsed
<1>5. NextHistory("none") = test.generation
  BY <1>3 DEF NextHistory
<1>6. /\ last' = Described(
              [frame |-> counters.frame, transport |-> counters.frame, view |-> 0,
               resource |-> counters.resource, history |-> test.generation,
               camera |-> 1, config |-> counters.config, reset |-> "none"], size, 1)
      /\ size' = size /\ scenario' = scenario /\ pending' = NoSize
      /\ motion' = [from |-> Scene(size, 1), to |-> Scene(size, 0)]
      /\ counters' = [frame |-> Wrap64(counters.frame + 1),
                      resource |-> counters.resource,
                      history |-> test.generation, config |-> counters.config]
      /\ surfaces' = surfaces
  BY <1>1, <1>3, <1>4, <1>5, RenderPlain
<1>7. /\ HasValidTemporalMetadata(last) /\ HasValidTemporalMetadata(last')
  BY <1>3, <1>6, DescribedIsValid DEF IInv, FrameInv, ResetFrame
<1>8. /\ last'.identity =
           [frame |-> counters.frame, transport |-> counters.frame, view |-> 0,
            resource |-> counters.resource, history |-> test.generation,
            camera |-> 1, config |-> counters.config, reset |-> "none"]
      /\ last'.render = size /\ last'.output = size /\ last'.delta = Finite(1)
  BY <1>6 DEF Described
<1>9. /\ last.identity =
           [frame |-> f, transport |-> f, view |-> 0,
            resource |-> counters.resource, history |-> test.generation,
            camera |-> 1, config |-> counters.config, reset |-> "scenario_change"]
      /\ last.render = size /\ last.output = size
  BY <1>3 DEF Described, ResetFrame
<1>10. CanReuseHistory(last, last')
  BY <1>3, <1>8, <1>9, TwoFrames DEF CanReuseHistory, SameGenerations
<1>11. /\ SameTemporalGeometry(last, last') /\ last.ownership = last'.ownership
       /\ last.depth = last'.depth /\ last.motion = last'.motion
  BY <1>3, <1>6 DEF Described, ResetFrame, SameTemporalGeometry
<1>12. CanReuseValidatedHistory(last, last')
  BY <1>7, <1>8, <1>10, <1>11 DEF CanReuseValidatedHistory, Finite
<1>13. (motion'.to # motion'.from) <=> scenario' \in Moving
  BY <1>6 DEF Scene
<1>14. surfaces' # None /\ surfaces'.size = last'.render
  BY <1>1, <1>6, <1>8, FrameTypes
<1>15. /\ last'.identity.frame = counters.frame
       /\ last'.identity.history = test.generation /\ last'.identity.reset = "none"
  BY <1>8
<1>16. SteadyOk'
  BY <1>1, <1>7, <1>8, <1>12, <1>13, <1>14, <1>15 DEF SteadyOk
<1>17. counters'.frame % 2 = 0
  BY <1>3, <1>6, TwoFrames
<1>18. QED
  BY <1>1, <1>6, <1>16, <1>17 DEF SelfInv

LEMMA SelfChecksReset ==
  ASSUME IInv, TypeInv, SelfInv, U64Max % 2 = 1, CheckReset
  PROVE  SelfInv'
<1>1. /\ pc = "check_reset" /\ pc' = "steady" /\ ok' = (ok /\ ResetOk)
      /\ pending = NoSize /\ AfterReset(last.identity.frame)
      /\ surfaces' = SurfacesOfFrame
      /\ UNCHANGED << size, pending, scenario, counters, pendingReset, previousValid,
                      previousTime, previousScene, last, motion >>
  BY DEF CheckReset, SelfInv, windowVars, renderVars
<1>2. PICK f \in U64 : f = last.identity.frame
  BY <1>1 DEF AfterReset
<1>3. f % 2 = 0 /\ last = ResetFrame(f) /\ counters.frame = Wrap64(f + 1)
  BY <1>1, <1>2 DEF AfterReset
<1>4. /\ test'.resetFrame = last /\ test'.frame = Wrap64(f + 1)
      /\ test'.generation = test.generation
  <2>1. test' = [test EXCEPT !.resetFrame = last, !.frame = Wrap64(f + 1)]
    BY <1>2 DEF CheckReset
  <2>2. test = [left |-> test.left, generation |-> test.generation,
                frame |-> test.frame, resetFrame |-> test.resetFrame]
    BY FrameTypes DEF IsTest
  <2>3. QED
    BY <2>1, <2>2
<1>5. /\ last.identity.history = test.generation
      /\ last.identity.reset = "scenario_change" /\ last.delta = Finite(0)
      /\ last.render = size
  BY <1>3 DEF ResetFrame, Described
<1>6. HasValidTemporalMetadata(last)
  BY <1>3, DescribedIsValid DEF IInv, FrameInv, ResetFrame
<1>7. ResetOk
  BY <1>1, <1>5, <1>6 DEF ResetOk, AfterReset
<1>8. surfaces' \in SurfaceIds /\ surfaces'.size = size
  BY <1>1, <1>2, <1>5, FrameTypes DEF SurfacesOfFrame, SurfaceIds
<1>9. AfterReset(f)'
  <2>1. ResetFrame(f)' = ResetFrame(f) /\ Scene(size, 0)' = Scene(size, 0)
    BY <1>1, <1>4 DEF ResetFrame, Scene
  <2>2. QED
    BY <1>1, <1>2, <1>4, <2>1 DEF AfterReset
<1>10. QED
  BY <1>1, <1>2, <1>3, <1>4, <1>7, <1>8, <1>9 DEF SelfInv

LEMMA SelfStep ==
  ASSUME U64Max % 2 = 1
  PROVE  IInv /\ TypeInv /\ SelfInv /\ [Next]_vars => SelfInv'
<1> SUFFICES ASSUME IInv, TypeInv, SelfInv, [Next]_vars PROVE SelfInv'
  OBVIOUS
<1>1. CASE OnSize \/ OnManualReset \/ OnScenario \/ RenderFrame
  <2>1. pc' = "loop" /\ ok'
    BY <1>1 DEF OnSize, OnManualReset, OnScenario, RenderFrame, OnMessage, testVars,
       SelfInv
  <2>2. QED
    BY <2>1 DEF SelfInv
<1>2. CASE CheckBegins
  <2>1. /\ pc = "request" /\ pc' = "reset" /\ UNCHANGED << pending, ok >>
        /\ pendingReset' = "scenario_change" /\ counters.frame % 2 = 0
        /\ pending = NoSize /\ ok
    BY <1>2 DEF CheckBegins, Chooses, SelfInv
  <2>2. counters'.frame = counters.frame /\ counters'.history = counters.history
    BY <1>2 DEF CheckBegins, Chooses, TypeInv, HarnessTypeOK, Counters
  <2>3. test'.generation = Wrap32(counters.history + 1)
    <3>1. test' = [test EXCEPT !.left = Tail(@),
                               !.generation = Wrap32(counters.history + 1)]
      BY <1>2 DEF CheckBegins
    <3>2. test = [left |-> test.left, generation |-> test.generation,
                  frame |-> test.frame, resetFrame |-> test.resetFrame]
      BY FrameTypes DEF IsTest
    <3>3. QED
      BY <3>1, <3>2
  <2>4. test'.generation = NextHistory("scenario_change")'
    BY <2>2, <2>3 DEF NextHistory
  <2>5. QED
    BY <2>1, <2>2, <2>4 DEF SelfInv
<1>3. CASE RenderReset
  BY <1>3, SelfResets
<1>4. CASE CheckReset
  BY <1>4, SelfChecksReset
<1>5. CASE RenderSteady
  BY <1>5, SelfContinues
<1>6. CASE CheckSteady
  <2>1. /\ pc = "check_steady" /\ pc' \in {"done", "request"} /\ ok'
        /\ pending' = NoSize /\ counters'.frame % 2 = 0
    BY <1>6 DEF CheckSteady, SelfInv, windowVars
  <2>2. QED
    BY <2>1 DEF SelfInv
<1>7. CASE UNCHANGED vars
  BY <1>7 DEF vars, windowVars, renderVars, testVars, SelfInv, AfterReset, ResetFrame,
     Scene, NextHistory, SteadyOk
<1>8. QED
  BY <1>1, <1>2, <1>3, <1>4, <1>5, <1>6, <1>7 DEF Next

LEMMA SelfInit == Init => SelfInv
<1> SUFFICES ASSUME Init PROVE SelfInv
  OBVIOUS
<1>1. counters.frame = 0 /\ pc \in {"loop", "request"} /\ ok /\ pending = NoSize
  BY DEF Init
<1>2. QED
  BY <1>1 DEF SelfInv

\* The self test passes with any list of scenarios, however long: also when the
\* frame index wraps in between, no frame that must continue a history follows
\* the one frame after which none can be continued, because a scenario takes
\* two frames and the largest index is odd (RunScenarioCheck, CanReuseHistory).
THEOREM SelfTestAlwaysPasses ==
  ASSUME U64Max % 2 = 1
  PROVE  Spec => []SelfTestPasses
<1>1. IInv /\ TypeInv /\ SelfInv => SelfTestPasses
  BY DEF SelfInv, SelfTestPasses
<1>2. QED
  BY <1>1, TypeInit, TypeStep, InitInv, StepInv, SelfInit, SelfStep, PTL DEF Spec
=============================================================================
