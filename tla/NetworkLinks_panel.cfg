CONSTANTS
  q1 = q1
  Request = {q1}
  Task <- Tasks
  Lane <- Ends
  NoLane = NoLane
  Outcome <- Outcomes
  Secret <- Secrets
  NoSecret = NoSecret
CONSTRAINT Few
SPECIFICATION LinkSpec
INVARIANTS
  TypeOK
  EndsAgree
  ShownHasMet
  ActiveIsFresh
CHECK_DEADLOCK FALSE
