------------------------------- MODULE MCShutdown -------------------------------
(* Messages for Shutdown: an event or a heartbeat and then a log batch or a     *)
(* result, so that two jobs may need a connection at once.  The batches are an  *)
(* empty one, and one whose sources alternate, with the empty source and        *)
(* differing severities.  A metric batch is written as a log batch is.          *)
EXTENDS Shutdown

SomeKinds == <<{"event", "beat", "other"}, {"logs", "result"}>>

SomeBatches ==
  {<<>>,
   <<[source |-> "", severity |-> "info", line |-> 1],
     [source |-> "app", severity |-> "error", line |-> 2],
     [source |-> "", severity |-> "error", line |-> 3]>>}
=============================================================================
