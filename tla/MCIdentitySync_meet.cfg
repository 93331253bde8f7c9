\* Runs of two source systems that claim the same nicks, in opposite orders.
SPECIFICATION FairSpec
CONSTANTS
  A = A
  B = B
  a1 = a1
  a2 = a2
  b1 = b1
  b2 = b2
  u1 = u1
  u2 = u2
  n1 = n1
  n2 = n2
  SourceSystem = {A, B}
  Profile = {a1, a2, b1, b2}
  User = {}
  SystemOf <- MCSystemOf
  KeyOf <- MCKeyOf
  Nick = {n1, n2}
  DefaultNick <- MCDefaultNick
  Content <- MeetContent
  Run = {r1, r2}
  Volatile = {}
  BatchSize = 2
  Hiccups = TRUE
  Overlap = TRUE
  Blank = Blank
  Null = Null
  NoNick = NoNick
  NoRow = NoRow
PROPERTIES CleanRunsEnd ImplementsStore
CHECK_DEADLOCK FALSE
