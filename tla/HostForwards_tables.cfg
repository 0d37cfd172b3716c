CONSTANTS
  r1 = r1
  r2 = r2
  Rule = {r1, r2}
  Stage <- Stages
  NoRule = NoRule
SYMMETRY Rules
SPECIFICATION Spec
INVARIANTS
  TypeOK
  ReportedIsDone
  VerifiedIsLoaded
CHECK_DEADLOCK FALSE
