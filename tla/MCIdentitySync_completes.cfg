\* Does every run end?
SPECIFICATION FairSpec
CONSTANTS
  A = A
  B = B
  a1 = a1
  a2 = a2
  b1 = b1
  b2 = b2
  u1 = u1
  u2 = u2
  n1 = n1
  n2 = n2
  SourceSystem = {A}
  Profile = {a1, a2}
  User = {u1}
  SystemOf <- MCSystemOf
  KeyOf <- MCKeyOf
  Nick = {n1, n2}
  DefaultNick <- MCDefaultNick
  Content <- StreamContent
  Run = {r1}
  Volatile = {}
  BatchSize = 2
  Hiccups = FALSE
  Overlap = FALSE
  Blank = Blank
  Null = Null
  NoNick = NoNick
  NoRow = NoRow
PROPERTIES RunsEnd
CHECK_DEADLOCK FALSE
