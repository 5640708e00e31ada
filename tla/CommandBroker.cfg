SPECIFICATION FairBrokerSpec
CONSTANTS
  Hosts = {h1, h2}
  Streams = {s1, s2}
  Cmds = {c1}
  None = None
INVARIANTS RegisteredIsLive UnlistedOnlyByRival AuditedBeforeSent OnlyToTarget ErrorMeansNotRun
PROPERTIES DeadStreamForgotten AuditKept SentIsSettled
CHECK_DEADLOCK FALSE
