----------------------------- MODULE MCMetrics -----------------------------
(* Values for model checking Metrics and RequestPath. *)
EXTENDS Metrics

SmallShapes == [prompt : {1, 2}, token : 1 .. 4]
=============================================================================
