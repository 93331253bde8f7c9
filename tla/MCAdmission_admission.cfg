\* One request of every kind, while everything it reads may change.
SPECIFICATION Spec
CONSTANTS
  a1 = a1
  b1 = b1
  u1 = u1
  u2 = u2
  v1 = v1
  A = A
  B = B
  C = C
  n1 = n1
  n2 = n2
  Profile = {a1, b1}
  User = {u1, u2, v1}
  SystemOf <- MCSystemOf
  KeyOf <- MCKeyOf
  CanonicalId <- MCCanonicalId
  SourceSystem = {A, B, C}
  Known = {A, B}
  Configured = A
  Nick = {n1, n2}
  NoNick = NoNick
  Target = 1
  UserId = {1, 2}
  Requests <- MCRequests
  Rows <- MCRows
  MaxAge = 0
  MaxSkew = 0
  MaxTime = 1
  Never = Never
  NoRow = NoRow
INVARIANTS TypeOK AdmittedInTime MappedIsOwn AdminRefusedForCause
CHECK_DEADLOCK FALSE
