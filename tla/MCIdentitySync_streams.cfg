\* Two overlapping runs of one source system.
SPECIFICATION Spec
CONSTANTS
  A = A
  B = B
  a1 = a1
  a2 = a2
  b1 = b1
  b2 = b2
  u1 = u1
  u2 = u2
  n1 = n1
  n2 = n2
  SourceSystem = {A}
  Profile = {a1, a2}
  User = {u1}
  SystemOf <- MCSystemOf
  KeyOf <- MCKeyOf
  Nick = {n1, n2}
  DefaultNick <- MCDefaultNick
  Content <- StreamContent
  Run = {r1, r2}
  Volatile = {a1, a2}
  BatchSize = 2
  Hiccups = TRUE
  Overlap = TRUE
  Blank = Blank
  Null = Null
  NoNick = NoNick
  NoRow = NoRow
SYMMETRY SameRuns
INVARIANTS SuccessIsComplete OrphansExplained CursorIsMapped
PROPERTIES ImplementsLedger
CHECK_DEADLOCK FALSE
