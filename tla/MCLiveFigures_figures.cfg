\* A question read while the sync writes: what is told, and whether the
\* services agree.  A behaviour ends with the answer to its question.
CONSTANTS
  OrderId = {o1, o2, o3}
  Row <- MCRow
  Question <- MCQuestion
  FullyNamed <- MCFullyNamed
  MaxWrites = 2
SPECIFICATION Spec
INVARIANTS QuotientsServed FiguresAgree AnswersWhole
SYMMETRY Orders
CHECK_DEADLOCK FALSE
