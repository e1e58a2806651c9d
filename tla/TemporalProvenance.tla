------------------------- MODULE TemporalProvenance -------------------------
(***************************************************************************)
(* The bookkeeping of temporal provenance                                  *)
(* (src/d3d9_real_observer_probe/temporal_provenance.h): which draws and   *)
(* which Presents of a device are sampled, and under which identity.  The  *)
(* state is a record, the operations are operators on it; the hooks that   *)
(* call them under a mutex are in ObserverDevice.  view_id is never        *)
(* assigned and is left out.                                               *)
(***************************************************************************)
EXTENDS Integers

CONSTANTS
  FrameLimit,   \* kTemporalProvenanceGenerationFrameLimit
  SampleLimit   \* kTemporalProvenanceDrawSampleLimit

ASSUME LimitAssumption == FrameLimit \in Nat /\ SampleLimit \in Nat

ProvenanceState ==
  [source         : Nat,      \* source_frame_index
   frame          : Nat,      \* generation_frame_index
   sampledGen     : Nat,      \* sampled_resource_generation_
   sampledSource  : Nat,      \* sampled_source_frame_index_
   taken          : Nat,      \* samples_taken_
   presentSampled : BOOLEAN,  \* present_sampled_
   presentGen     : Nat,      \* sampled_present_resource_generation_
   presentSource  : Nat]      \* sampled_present_source_frame_index_

FreshProvenance ==
  [source |-> 0, frame |-> 0, sampledGen |-> 0, sampledSource |-> 0, taken |-> 0,
   presentSampled |-> FALSE, presentGen |-> 0, presentSource |-> 0]

GenerationIsSampled(p, generation) ==
  /\ generation # 0
  /\ FrameLimit # 0
  /\ p.frame < FrameLimit
-----------------------------------------------------------------------------
(* acquire_draw_sample                                                     *)

DrawsAreSampled(p, generation) ==
  GenerationIsSampled(p, generation) /\ SampleLimit # 0

\* A new generation or a new source frame restarts the count of samples.
Taken(p, generation) ==
  IF p.sampledGen = generation /\ p.sampledSource = p.source THEN p.taken ELSE 0

DrawIsSampled(p, generation) ==
  DrawsAreSampled(p, generation) /\ Taken(p, generation) < SampleLimit

AfterDraw(p, generation) ==
  IF DrawsAreSampled(p, generation)
  THEN [p EXCEPT !.sampledGen = generation, !.sampledSource = p.source,
                 !.taken = IF DrawIsSampled(p, generation)
                           THEN Taken(p, generation) + 1
                           ELSE Taken(p, generation)]
  ELSE p
-----------------------------------------------------------------------------
(* acquire_present_sample                                                  *)

\* (mutant) every Present call of a frame is sampled, retries included.
PresentIsSampledAgain(p, generation) == GenerationIsSampled(p, generation)

PresentIsSampled(p, generation) ==
  /\ GenerationIsSampled(p, generation)
  /\ ~ (/\ p.presentSampled
        /\ p.presentGen = generation
        /\ p.presentSource = p.source)

AfterPresent(p, generation) ==
  IF PresentIsSampled(p, generation)
  THEN [p EXCEPT !.presentSampled = TRUE, !.presentGen = generation,
                 !.presentSource = p.source]
  ELSE p
-----------------------------------------------------------------------------
(* on_present_result(true) and on_reset_result(true); a failure changes    *)
(* nothing.                                                                *)

\* (mutant) the frames of a generation are not counted.
OnPresentedSourceOnly(p) ==
  [p EXCEPT !.source = p.source + 1, !.sampledSource = p.source + 1, !.taken = 0]

OnPresented(p) ==
  [p EXCEPT !.source = p.source + 1, !.frame = p.frame + 1,
            !.sampledSource = p.source + 1, !.taken = 0]

\* (mutant) a new generation goes on counting where the last one ended.
OnResetKeepsFrame(p) ==
  [FreshProvenance EXCEPT !.source = p.source, !.frame = p.frame,
                          !.sampledSource = p.source, !.presentSource = p.source]

OnReset(p) ==
  [FreshProvenance EXCEPT !.source = p.source,
                          !.sampledSource = p.source, !.presentSource = p.source]
=============================================================================
