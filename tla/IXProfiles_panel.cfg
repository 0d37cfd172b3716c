CONSTANTS
  q1 = q1
  q2 = q2
  r1 = r1
  line = line
  Request = {q1, q2}
  Rules = {r1}
  NoRules = NoRules
  Unreadable = Unreadable
  Task <- Tasks
  Lane = {line}
  NoLane = NoLane
  Outcome <- Outcomes
SYMMETRY Requests
CONSTRAINT Apart
SPECIFICATION IXSpec
INVARIANTS
  TypeOK
  LastSwitchWins
  SyncRepairs
CHECK_DEADLOCK FALSE
