------------------------ MODULE MCTelemetryPipeline -------------------------
(* Model checking of TelemetryPipeline; n1, n2 are edge nodes, m1, m2 are  *)
(* metrics.                                                                *)
EXTENDS TelemetryPipeline

CONSTANTS n1, n2, m1, m2
=============================================================================
