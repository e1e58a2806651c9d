--------------------------- MODULE TemporalHarness ---------------------------
(***************************************************************************)
(* The temporal side of src/harness/main.cpp: one thread that renders      *)
(* frames, describes each with the records of TemporalContract, and takes  *)
(* the messages of its window between two frames, or runs the checks of    *)
(* the self test instead.  Images are left out: a frame is the scene its   *)
(* motion vectors start from and the scene they lead to.                   *)
(***************************************************************************)
EXTENDS TemporalContract, Sequences

CONSTANTS
  None,
  Scenarios,    \* Scenario
  Moving,       \* those whose motion vectors are not zero
  Order,        \* the scenarios of the self test, from the first on
  InitialSize,  \* 1280 x 720
  Sides,        \* the sides a window message may carry, 0 when it has none
  Times         \* the readings of the clock, in seconds

Sizes == [width : Sides, height : Sides]

\* What g_previous_surface_ids is of: a frame that was read, in its size.
SurfaceIds == [frame : U64, size : Sizes]

ASSUME HarnessAssumption ==
  /\ Moving \subseteq Scenarios
  /\ Order \in Seq(Scenarios) /\ Order # << >>
  /\ Sides \subseteq U32 /\ 0 \in Sides /\ InitialSize \in Sizes
  /\ InitialSize.width # 0 /\ InitialSize.height # 0
  /\ Times \subseteq Nat /\ {0, 1} \subseteq Times
  /\ None \notin Times \cup SurfaceIds

VARIABLES
  size,           \* g_width, g_height
  pending,        \* g_pending_width, g_pending_height
  scenario,       \* g_scenario
  counters,       \* g_frame_index and the generations
  pendingReset,   \* g_pending_reset
  previousValid,  \* g_previous_valid
  previousTime,   \* g_previous_render_seconds, None until it is valid
  previousScene,  \* g_previous_world, g_previous_vp: what was last drawn
  surfaces,       \* g_previous_surface_ids: the frame they were read from
  last,           \* g_last_frame
  motion,         \* history: the scenes the motion vectors of `last` join
  pc,             \* the message loop, or where the self test is
  test,           \* the locals of RunScenarioCheck
  ok              \* history: every check so far passed

windowVars == << size, pending, scenario, counters, pendingReset >>
renderVars == << previousValid, previousTime, previousScene, last, motion >>
testVars == << pc, test, ok >>
vars == << windowVars, renderVars, surfaces, testVars >>

NoSize == [width |-> 0, height |-> 0]
NoTest == [left |-> << >>, generation |-> 0, frame |-> 0, resetFrame |-> None]

\* CreateDeviceAndPipeline made the first resources.
Init ==
  /\ size = InitialSize /\ pending = NoSize /\ scenario = Head(Order)
  /\ counters = [frame |-> 0, resource |-> 1, history |-> 0, config |-> 1]
  /\ pendingReset = "startup"
  /\ previousValid = FALSE /\ previousTime = None /\ previousScene = None
  /\ surfaces = None /\ last = None /\ motion = None
  /\ \/ pc = "loop" /\ test = NoTest
     \/ pc = "request" /\ test = [NoTest EXCEPT !.left = Order]
  /\ ok = TRUE

----------------------------------------------------------------------------
(* WindowProc.  The self test takes no message.                            *)

OnMessage == pc = "loop" /\ UNCHANGED << renderVars, surfaces, testVars >>

\* WM_SIZE, of a window that is not minimised.
OnSize ==
  /\ OnMessage
  /\ pending' \in Sizes
  /\ UNCHANGED << size, scenario, counters, pendingReset >>

\* The key R.
OnManualReset ==
  /\ OnMessage
  /\ pendingReset' = "manual"
  /\ UNCHANGED << size, pending, scenario, counters >>

\* A scenario is chosen: a new configuration only when it is another one.
Chooses(s) ==
  /\ scenario' = s
  /\ counters' = IF s = scenario THEN counters
                 ELSE [counters EXCEPT !.config = Wrap32(@ + 1)]
  /\ pendingReset' = "scenario_change"
  /\ UNCHANGED << size, pending >>

\* The keys 1 to 9.
OnScenario == OnMessage /\ \E s \in Scenarios : Chooses(s)

----------------------------------------------------------------------------
(* Render, with CreateFrameResources.                                      *)

\* Without the test of the sides: a bug that makes a frame of no size.
ResizesToAny == pending # NoSize /\ pending # size

\* A size was announced, it has two sides and is another one.
Resizes == pending.width # 0 /\ pending.height # 0 /\ pending # size

ResetOfFrame == IF Resizes THEN "resize" ELSE pendingReset

\* A reset does not begin a new history: a bug.
NextHistoryNever(reset) == counters.history

NextHistory(reset) ==
  IF reset = "none" THEN counters.history ELSE Wrap32(counters.history + 1)

Elapsed(seconds, reset) ==
  IF previousTime # None /\ reset = "none" /\ seconds >= previousTime
  THEN seconds - previousTime ELSE 0

Full(s) == [x |-> 0, y |-> 0, width |-> s.width, height |-> s.height]

\* The description of a frame; its jitter is a function of its number.
Described(id, s, delta) ==
  [identity |-> id, render |-> s, output |-> s,
   colorRect |-> Full(s), depthRect |-> Full(s), motionRect |-> Full(s),
   depth |-> [convention |-> "hardware", samples |-> 1, inverted |-> FALSE,
              infinite |-> FALSE, near |-> Finite(1), far |-> Finite(1000)],
   ownership |-> "game", delta |-> Finite(delta),
   jitterX |-> Finite(id.frame % 8), jitterY |-> Finite(id.frame % 8),
   motion |-> [coverage |-> {"camera", "rigid_objects"},
               exclusions |-> KnownCoverage \ {"camera", "rigid_objects"},
               jittered |-> FALSE]]

\* What is drawn: a scenario that does not move looks the same at any time.
Scene(s, seconds) ==
  [size |-> s, scenario |-> scenario,
   seconds |-> IF scenario \in Moving THEN seconds ELSE 0]

\* The reset is not looked at: a bug that joins two unrelated scenes.
LeadsBackOverResets(reset) == previousValid /\ ~Resizes

\* Whether the motion vectors lead to the scene drawn before, or nowhere.
LeadsBack(reset) == previousValid /\ ~Resizes /\ reset = "none"

Render(seconds) ==
  LET reset == ResetOfFrame
      now == IF Resizes THEN pending ELSE size
      drawn == Scene(now, seconds)
      next == [frame |-> Wrap64(counters.frame + 1),
               resource |-> IF Resizes THEN Wrap32(counters.resource + 1)
                            ELSE counters.resource,
               history |-> NextHistory(reset), config |-> counters.config] IN
  /\ size' = now
  /\ pending' = IF pending.width # 0 /\ pending.height # 0 THEN NoSize ELSE pending
  /\ last' = Described(
       [frame |-> counters.frame, transport |-> counters.frame, view |-> 0,
        resource |-> next.resource, history |-> next.history, camera |-> 1,
        config |-> next.config, reset |-> reset],
       now, Elapsed(seconds, reset))
  /\ motion' = [from |-> drawn,
                to |-> IF LeadsBack(reset) THEN previousScene ELSE drawn]
  /\ previousScene' = drawn /\ previousValid' = TRUE /\ previousTime' = seconds
  /\ counters' = next /\ pendingReset' = "none"
  /\ surfaces' = IF Resizes THEN None ELSE surfaces
  /\ UNCHANGED scenario

\* A frame of the message loop: the clock does not run backwards.
RenderFrame ==
  /\ pc = "loop"
  /\ \E t \in Times : (previousTime # None => t >= previousTime) /\ Render(t)
  /\ UNCHANGED testVars

----------------------------------------------------------------------------
(* RunDeterministicSelfTest, RunScenarioCheck.  A check of the images is   *)
(* whether the vectors join different scenes.                              *)

CheckBegins ==
  /\ pc = "request" /\ test.left # << >>
  /\ Chooses(Head(test.left))
  /\ test' = [test EXCEPT !.left = Tail(@),
                          !.generation = Wrap32(counters.history + 1)]
  /\ pc' = "reset"
  /\ UNCHANGED << renderVars, surfaces, ok >>

RenderReset ==
  /\ pc = "reset" /\ Render(0) /\ pc' = "check_reset" /\ UNCHANGED << test, ok >>

ResetOk ==
  /\ last.identity.history = test.generation
  /\ last.identity.reset = "scenario_change"
  /\ HasValidTemporalMetadata(last) /\ last.delta = Finite(0)
  /\ motion.to = motion.from

\* ReadbackHistoryValidity keeps the surfaces of the frame it read.
SurfacesOfFrame == [frame |-> last.identity.frame, size |-> last.render]

CheckReset ==
  /\ pc = "check_reset"
  /\ ok' = (ok /\ ResetOk)
  /\ test' = [test EXCEPT !.resetFrame = last,
                          !.frame = Wrap64(last.identity.frame + 1)]
  /\ surfaces' = SurfacesOfFrame
  /\ pc' = "steady"
  /\ UNCHANGED << windowVars, renderVars >>

RenderSteady ==
  /\ pc = "steady" /\ Render(1) /\ pc' = "check_steady" /\ UNCHANGED << test, ok >>

\* At the wrap of the frame index the history cannot be reused.
SteadyOk ==
  /\ last.identity.frame = test.frame
  /\ last.identity.history = test.generation
  /\ last.identity.reset = "none"
  /\ HasValidTemporalMetadata(last) /\ last.delta = Finite(1)
  /\ CanReuseValidatedHistory(test.resetFrame, last)
  /\ (motion.to # motion.from) = (scenario \in Moving)
  /\ surfaces # None /\ surfaces.size = last.render

CheckSteady ==
  /\ pc = "check_steady"
  /\ ok' = (ok /\ SteadyOk)
  /\ surfaces' = SurfacesOfFrame
  /\ pc' = IF test.left = << >> THEN "done" ELSE "request"
  /\ UNCHANGED << windowVars, renderVars, test >>

----------------------------------------------------------------------------
Next ==
  \/ OnSize \/ OnManualReset \/ OnScenario \/ RenderFrame
  \/ CheckBegins \/ RenderReset \/ CheckReset \/ RenderSteady \/ CheckSteady

Spec == Init /\ [][Next]_vars

----------------------------------------------------------------------------
(* Properties.                                                             *)

Counters == [frame : U64, resource : U32, history : U32, config : U32]
Drawn == [size : Sizes, scenario : Scenarios, seconds : Times]

\* Every variable stays in its range; every frame is described by a valid
\* identity.
HarnessTypeOK ==
  /\ size \in Sizes /\ pending \in Sizes /\ scenario \in Scenarios
  /\ counters \in Counters /\ pendingReset \in ResetReasons
  /\ previousValid \in BOOLEAN /\ previousTime \in Times \cup {None}
  /\ previousScene \in Drawn \cup {None}
  /\ last # None => last.identity \in Identity
  /\ motion \in [from : Drawn, to : Drawn] \cup {None}
  /\ pc \in {"loop", "request", "reset", "check_reset", "steady",
             "check_steady", "done"}
  /\ test.left \in Seq(Scenarios) /\ ok \in BOOLEAN

\* Whatever sizes the window took between two frames, a frame that is rendered
\* is described by metadata a consumer accepts (Render, OnSize).
FramesAreValid == last # None => HasValidTemporalMetadata(last)

\* When the identities say that a history may be reused, the motion vectors do
\* lead to the scene of the frame before, drawn in the same size and scenario:
\* no message between two frames may make them disagree (Render, WindowProc).
HistoryLeadsBack ==
  [][ last # None /\ last' # last /\ CanReuseHistory(last, last')
        => /\ motion'.to = motion.from
           /\ motion'.from.size = motion.from.size
           /\ motion'.from.scenario = motion.from.scenario ]_vars

\* Two scenes that have nothing in common are never joined: vectors that lead
\* to another scene lead to the one before, of the same scenario and size.
VectorsJoinOneScenario ==
  motion # None =>
    motion.to.scenario = motion.from.scenario /\ motion.to.size = motion.from.size

\* A frame is what its metadata and its vectors say, both.
FramesAreTrue == FramesAreValid /\ VectorsJoinOneScenario

\* The self test finds nothing wrong with the identities it checks, in any
\* order of its scenarios (RunScenarioCheck).
SelfTestPasses == ok
=============================================================================
