SPECIFICATION Spec
CONSTANTS
  Agents = {a1, a2}
  MaxStarts = 4
INVARIANTS TrustSurvives
PROPERTIES TrustKept
CHECK_DEADLOCK FALSE
