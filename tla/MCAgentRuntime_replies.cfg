\* Does every request get its reply when only processes die?
SPECIFICATION FairSpec
CONSTANTS
  Request = {r1, r2}
  Chat = {c1}
  Process = {w1, w2}
  Outages = FALSE
  Deletions = FALSE
INVARIANTS UnavailableMeansMeeting
PROPERTIES RepliesCome
CHECK_DEADLOCK FALSE
