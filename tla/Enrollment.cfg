SPECIFICATION Spec
CONSTANTS
  Calls = {c1, c2, c3}
  Tokens = {t1, t2}
  Machines = {m1, m2}
  None = None
  NoMachine = NoMachine
  Absent = Absent
SYMMETRY Symmetry
INVARIANTS SingleUse CertificateBacked TokenTraceable StableHostID
PROPERTIES LifeKept
CHECK_DEADLOCK FALSE
