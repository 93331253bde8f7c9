\* Two runs that may overlap, over rows of every kind or over ids that share a
\* phrase, with deaths and concurrent source writes.
SPECIFICATION Spec
CONSTANTS
  profiles = profiles
  orders = orders
  halls = halls
  translate = translate
  p1 = p1
  p2 = p2
  o1 = o1
  t1 = t1
  t2 = t2
  Table = {profiles, orders, translate}
  RowId = {p1, p2, o1, t1, t2}
  Parents <- MCParents
  Unsyncable = {}
  Translate = translate
  TableOf <- MCTableOf
  KeyOf <- MCKeyOf
  Content <- MixedContent
  Run = {r1, r2}
  Params <- OverlapRuns
  BatchSize = 2
  Overlap = TRUE
  NoRow = NoRow
  NoTable = NoTable
SYMMETRY SameRuns
CONSTRAINT SameTables
INVARIANTS TypeOK CoverageInv SuccessIsComplete SkipsExplained
PROPERTIES NoRegression
CHECK_DEADLOCK FALSE
