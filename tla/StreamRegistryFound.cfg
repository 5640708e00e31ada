SPECIFICATION Spec
CONSTANTS
  Hosts = {h1}
  Streams = {s1, s2}
  None = None
INVARIANTS ConnectedIsFound
CHECK_DEADLOCK FALSE
