-------------------------- MODULE TemporalContract --------------------------
(***************************************************************************)
(* The predicates of src/temporal/temporal_frame.h: which inputs describe  *)
(* the same frame, when a history may be reused, which metadata is valid.  *)
(* U32Max and U64Max are the largest values of the two unsigned types; a   *)
(* float is a record, so that one may be without a finite value.  Equality *)
(* of floats is only reached here after both were found finite.            *)
(***************************************************************************)
EXTENDS Integers

CONSTANTS U32Max, U64Max

ASSUME WidthAssumption == U32Max \in Nat \ {0} /\ U64Max \in Nat \ {0}

U32 == 0 .. U32Max
U64 == 0 .. U64Max
Wrap32(n) == n % (U32Max + 1)

Wrap64(n) == n % (U64Max + 1)

Finite(n) == [finite |-> TRUE, value |-> n]

ResetReasons == {"none", "startup", "resize", "scenario_change", "manual"}

\* FrameIdentity: the frame of the renderer, the serial of the transport, the
\* view, and a generation for each kind of discontinuity.
Identity ==
  [frame : U64, transport : U64, view : U32, resource : U32, history : U32,
   camera : U32, config : U32, reset : ResetReasons]

Rect == [x : U32, y : U32, width : U32, height : U32]
Extent == [width : U32, height : U32]

----------------------------------------------------------------------------
HasValidSubrect(rect, extent) ==
  /\ rect.width # 0 /\ rect.height # 0
  /\ rect.x <= extent.width /\ rect.y <= extent.height
  /\ rect.width <= Wrap32(extent.width - rect.x)
  /\ rect.height <= Wrap32(extent.height - rect.y)

HasValidDimensions(f) ==
  /\ f.render.width # 0 /\ f.render.height # 0
  /\ f.output.width # 0 /\ f.output.height # 0

HasValidDepth(d) ==
  /\ d.convention # "unknown" /\ d.samples > 0
  /\ d.near.finite /\ d.near.value > 0
  /\ d.far.finite
  /\ IF d.infinite THEN d.far.value >= 0 ELSE d.far.value > d.near.value

KnownCoverage ==
  {"camera", "rigid_objects", "skinned_geometry", "particles", "transparency",
   "hud"}

HasValidMotion(m) ==
  /\ m.coverage \cup m.exclusions \subseteq KnownCoverage
  /\ m.coverage \cap m.exclusions = {}

HasValidTemporalMetadata(f) ==
  /\ HasValidDimensions(f)
  /\ HasValidSubrect(f.colorRect, f.render)
  /\ HasValidSubrect(f.depthRect, f.render)
  /\ HasValidSubrect(f.motionRect, f.render)
  /\ HasValidDepth(f.depth)
  /\ f.delta.finite /\ f.delta.value >= 0
  /\ f.jitterX.finite /\ f.jitterY.finite
  /\ f.ownership # "unknown"
  /\ HasValidMotion(f.motion)

----------------------------------------------------------------------------
\* What two identities have in common besides the frame and the reset reason.
SameGenerations(a, b) ==
  /\ a.view = b.view /\ a.resource = b.resource /\ a.history = b.history
  /\ a.camera = b.camera /\ a.config = b.config

SameTemporalFrameIdentity(a, b) ==
  /\ a.identity.frame = b.identity.frame
  /\ SameGenerations(a.identity, b.identity)
  /\ a.identity.reset = b.identity.reset

\* Without the test of the reset reason: a bug that reuses a history whose
\* motion vectors were cleared.
CanReuseHistoryAfterReset(p, c) ==
  /\ p.identity.view = c.identity.view
  /\ p.identity.resource = c.identity.resource
  /\ p.identity.frame # U64Max
  /\ c.identity.frame = Wrap64(p.identity.frame + 1)
  /\ c.render = p.render /\ c.output = p.output

CanReuseHistory(p, c) ==
  /\ c.identity.reset = "none"
  /\ SameGenerations(c.identity, p.identity)
  /\ p.identity.frame # U64Max
  /\ c.identity.frame = Wrap64(p.identity.frame + 1)
  /\ c.render = p.render /\ c.output = p.output

SameTemporalGeometry(a, b) ==
  /\ a.render = b.render /\ a.output = b.output
  /\ a.colorRect = b.colorRect /\ a.depthRect = b.depthRect
  /\ a.motionRect = b.motionRect

SameTemporalSampleMetadata(a, b) ==
  /\ a.delta = b.delta /\ a.jitterX = b.jitterX /\ a.jitterY = b.jitterY
  /\ a.depth = b.depth /\ a.motion = b.motion

\* An input is [description, resource, device]; `null` is the null pointer.
CanJoinTemporalInputs(color, depth, motion, null) ==
  LET inputs == {color, depth, motion} IN
  /\ \A i \in inputs : i.description # null /\ i.resource # null
  /\ color.device # null
  /\ \A i \in inputs : i.device = color.device
  /\ \A i \in inputs :
       LET a == color.description
           b == i.description IN
       /\ HasValidTemporalMetadata(b)
       /\ SameTemporalFrameIdentity(a, b)
       /\ SameTemporalGeometry(a, b)
       /\ SameTemporalSampleMetadata(a, b)
       /\ a.ownership = b.ownership

IsNewerSourceFrame(last, candidate) ==
  LET l == last.identity
      c == candidate.identity IN
  /\ c.view = l.view /\ c.frame > l.frame
  /\ c.resource >= l.resource /\ c.history >= l.history
  /\ c.camera >= l.camera /\ c.config >= l.config

CanReuseValidatedHistory(p, c) ==
  /\ HasValidTemporalMetadata(p) /\ HasValidTemporalMetadata(c)
  /\ c.delta.value > 0
  /\ CanReuseHistory(p, c)
  /\ SameTemporalGeometry(p, c)
  /\ p.ownership = c.ownership
  /\ p.depth = c.depth /\ p.motion = c.motion
=============================================================================
