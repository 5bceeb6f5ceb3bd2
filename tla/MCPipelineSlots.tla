--------------------------- MODULE MCPipelineSlots ---------------------------
(* PipelineSlots for TLC, with 4 or 5 invocations as model values.  They are *)
(* interchangeable, but the runs check liveness, for which symmetry is not   *)
(* sound.                                                                    *)
EXTENDS PipelineSlots
==============================================================================
