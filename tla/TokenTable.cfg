SPECIFICATION Spec
CONSTANTS
  Tokens = {t1, t2}
  Half = 16
  Second = 3
  Default = 2
  Cap = 6
  Skew = 1
  Gone = 2
SYMMETRY Symmetry
INVARIANTS TypeOK ListsAgree
PROPERTIES LifeKept
