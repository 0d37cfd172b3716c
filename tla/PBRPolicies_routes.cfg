CONSTANTS
  p1 = p1
  p2 = p2
  q1 = q1
  q2 = q2
  Policy = {p1, p2}
  NoPolicy = NoPolicy
  Request = {q1, q2}
  Group <- Groups
  Mark <- Marks
  Task <- Tasks
  Lane <- Lanes
  NoLane = NoLane
  Outcome <- Outcomes
SYMMETRY Symmetry
CONSTRAINT FewRequests
SPECIFICATION PBRSpec
INVARIANTS
  MarkedTakesItsLine
CHECK_DEADLOCK FALSE
