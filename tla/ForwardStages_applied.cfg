CONSTANTS
  q1 = q1
  q2 = q2
  a = a
  b = b
  r1 = r1
  r2 = r2
  Request = {q1}
  Link <- There
  Rule = {r1}
  NoRule = NoRule
  Given <- Payloads
  Task <- Tasks
  Lane = {a, b}
  NoLane = NoLane
  Outcome <- Outcomes
CONSTRAINT Orderly
ACTION_CONSTRAINT Planned
SPECIFICATION FwSpec
INVARIANTS
  BothStagesApplied
CHECK_DEADLOCK FALSE
