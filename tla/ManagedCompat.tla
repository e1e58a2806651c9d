--------------------------- MODULE ManagedCompat ---------------------------
(***************************************************************************)
(* The rules of src/d3d9_real_observer_probe/managed_compat.h: when a      *)
(* refused D3DPOOL_MANAGED creation is tried again and how, when a binding *)
(* counts as stale, when a draw is sampled.  A usage is the set of its     *)
(* flags, so that "usage == 0" is the empty set.                           *)
(***************************************************************************)
EXTENDS Naturals

Classes == {"texture2d", "volume_texture", "cube_texture", "vertex_buffer",
            "index_buffer"}
Usages == SUBSET {"dynamic", "writeonly", "other"}
Pools == {"default", "managed", "systemmem"}
Results == {"ok", "invalidcall", "failed"}

\* One sample too many: a bug in the limit.
ShouldSampleOneMore(generation, samples, limit) ==
  generation > 1 /\ samples <= limit

\* should_sample_post_reset_draw_state
ShouldSample(generation, samples, limit) == generation > 1 /\ samples < limit

\* The comparison with "<=": a bug that calls a new resource stale.
ShouldTraceStaleAtOnce(creation, current) ==
  creation # 0 /\ current # 0 /\ creation <= current

\* should_trace_stale_managed_binding; generation 0 stands for "not known"
ShouldTraceStale(creation, current) ==
  creation # 0 /\ current # 0 /\ creation < current

Textures == {"texture2d", "cube_texture"}
Buffers == {"vertex_buffer", "index_buffer"}

\* The usages the rules adapt: none for textures, write-only for buffers.
Adaptable(class, usage) ==
  \/ class \in Textures /\ usage = {}
  \/ class \in Buffers /\ usage = {"writeonly"}

\* A creation the rules may repeat: MANAGED, not shared, refused as invalid.
Refused(pool, shared, hr) == pool = "managed" /\ ~shared /\ hr = "invalidcall"

\* The plan without the DYNAMIC flag: a bug that makes textures unlockable.
PlanWithoutDynamic(class, usage, pool, shared, hr) ==
  IF Refused(pool, shared, hr) /\ Adaptable(class, usage)
  THEN [retry |-> TRUE, pool |-> "default", usage |-> usage]
  ELSE [retry |-> FALSE, pool |-> pool, usage |-> usage]

\* plan_managed_resource_adaptation
Plan(class, usage, pool, shared, hr) ==
  IF Refused(pool, shared, hr) /\ Adaptable(class, usage)
  THEN [retry |-> TRUE, pool |-> "default",
        usage |-> IF class \in Textures THEN usage \cup {"dynamic"} ELSE usage]
  ELSE [retry |-> FALSE, pool |-> pool, usage |-> usage]
=============================================================================
