\* Every schema and selection: cycles, self references, double references.
SPECIFICATION Spec
CONSTANTS
  Table = {t1, t2, t3}
  Constraint = {c1, c2, c3}
INVARIANTS Correct
PROPERTIES Ends
CHECK_DEADLOCK FALSE
