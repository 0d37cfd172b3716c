CONSTANTS
  n1 = n1
  n2 = n2
  m1 = m1
  NoNode = NoNode
  NoMachine = NoMachine
  Nodes = {n1}
  Machines = {m1}
  Home <- Single
  MaxTasks = 2
SPECIFICATION FairSpec
INVARIANTS
  ResultsAreReal
  HeadOfLine
PROPERTIES
  NeverBackwards
  PendingFinishes
  WaitingIsHandedOver
CHECK_DEADLOCK FALSE
