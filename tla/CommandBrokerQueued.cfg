SPECIFICATION FairBrokerSpec
CONSTANTS
  Hosts = {h1}
  Streams = {s1, s2}
  Cmds = {c1}
  None = None
PROPERTIES QueuedIsDelivered
CHECK_DEADLOCK FALSE
