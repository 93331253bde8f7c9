\* Can every selection of tables be ordered?
SPECIFICATION Spec
CONSTANTS
  Table = {t1, t2, t3}
  Constraint = {c1, c2, c3}
SYMMETRY Renamed
INVARIANTS AnySelection
CHECK_DEADLOCK FALSE
