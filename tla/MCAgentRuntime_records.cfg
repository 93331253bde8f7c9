\* Two requests, of one process or two, with outages, deaths and deletions.
SPECIFICATION Spec
CONSTANTS
  Request = {r1, r2}
  Chat = {c1}
  Process = {w1, w2}
  Outages = TRUE
  Deletions = TRUE
SYMMETRY Renamed
INVARIANTS TypeOK RecordedWhole CleanAnswerIsRecorded WarningsTell
PROPERTIES ImplementsLog
CHECK_DEADLOCK FALSE
