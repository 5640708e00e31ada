SPECIFICATION FairShutdownSpec
CONSTANTS
  Hosts = {h1}
  Streams = {s1}
  Cap = 1
  MaxMsgs = 2
  Kinds <- SomeKinds
  Batches <- SomeBatches
  Requests = {r1}
  None = None
INVARIANTS ServerTypeOK InOrder StoredOnce ReportsAreTrue PushKeepsBatch CutOnlyWhenLate
PROPERTIES ImplementsRegistry OpenStreamIsRead ClosedStreamReturns ReceiverEnds WritesEnd WritesOnlyAdvance SignalEnds
CHECK_DEADLOCK FALSE
