CONSTANTS
  t1 = t1
  Task = {t1}
SPECIFICATION FairSpec
INVARIANTS
  TypeOK
  RefreshedWhenDone
PROPERTIES
  ReleasedMeansEnded
  LearnsTheEnd
CHECK_DEADLOCK FALSE
