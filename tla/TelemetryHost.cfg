SPECIFICATION TelemetrySpec
CONSTANTS
  Hosts = {h1, h2}
  Streams = {s1}
  Cap = 1
  MaxMsgs = 1
  Kinds <- SomeKinds
  Batches <- SomeBatches
  None = None
INVARIANTS HostIsCertified
CHECK_DEADLOCK FALSE
