\* Runs one at a time, with every kind of command line; each of them ends.
SPECIFICATION FairSpec
CONSTANTS
  profiles = profiles
  orders = orders
  halls = halls
  translate = translate
  p1 = p1
  p2 = p2
  o1 = o1
  t1 = t1
  t2 = t2
  Table = {profiles, orders, halls, translate}
  RowId = {p1, o1, t1, t2}
  Parents <- ChainParents
  Unsyncable = {halls}
  Translate = translate
  TableOf <- MCTableOf
  KeyOf <- MCKeyOf
  Content <- EditedContent
  Run = {r1, r2}
  Params <- ChainRuns
  BatchSize = 1
  Overlap = FALSE
  NoRow = NoRow
  NoTable = NoTable
CONSTRAINT Separately
PROPERTIES NoRegression ImplementsLedger RunsEnd
CHECK_DEADLOCK FALSE
