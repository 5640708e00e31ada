SPECIFICATION Spec
CONSTANTS
  Agents = {a1, a2}
  MaxStarts = 4
INVARIANTS StartSucceeds
CHECK_DEADLOCK FALSE
