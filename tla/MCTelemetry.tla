------------------------------ MODULE MCTelemetry ------------------------------
(* Batches for Telemetry: an empty one, and one whose sources alternate, with   *)
(* the empty source and differing severities.                                   *)
EXTENDS Telemetry

SomeKinds == <<{"beat", "other", "logs", "metrics", "event", "result"}>>

SomeBatches ==
  {<<>>,
   <<[source |-> "", severity |-> "info", line |-> 1],
     [source |-> "app", severity |-> "error", line |-> 2],
     [source |-> "", severity |-> "error", line |-> 3]>>}
=============================================================================
