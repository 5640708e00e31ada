SPECIFICATION ConfigSpec
CONSTANTS
  Hosts = {h1, h2}
  Streams = {s1, s2}
  Pushes = {p1}
  MaxVersion = 2
  None = None
SYMMETRY Symmetry
INVARIANTS SentIsOwnConfig SyncIsFresh UndisputedIsSynced
CHECK_DEADLOCK FALSE
