CONSTANTS
  q1 = q1
  q2 = q2
  a = a
  b = b
  r1 = r1
  r2 = r2
  Request = {q1, q2}
  Link <- ThereAndBack
  Rule = {r1, r2}
  NoRule = NoRule
  Given <- Payloads
  Task <- Tasks
  Lane = {a, b}
  NoLane = NoLane
  Outcome <- Outcomes
SYMMETRY Requests
CONSTRAINT Followed
ACTION_CONSTRAINT Alone
SPECIFICATION FwSpec
INVARIANTS
  TypeOK
  ShownIsThere
  AppliedIsEarned
CHECK_DEADLOCK FALSE
