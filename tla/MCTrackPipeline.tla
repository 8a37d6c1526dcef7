--------------------------- MODULE MCTrackPipeline --------------------------
(* TrackPipeline for TLC: every request is an initial state.               *)
EXTENDS TrackPipeline
=============================================================================
