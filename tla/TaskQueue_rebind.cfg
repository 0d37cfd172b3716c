CONSTANTS
  n1 = n1
  n2 = n2
  m1 = m1
  NoNode = NoNode
  NoMachine = NoMachine
  Nodes = {n1, n2}
  Machines = {m1}
  Home <- SharedMachine
  MaxTasks = 2
SYMMETRY Hosts
CONSTRAINT FewFaults
SPECIFICATION Spec
INVARIANTS
  TypeOK
  WaitingMeansUnbound
  RunsWhereAddressed
PROPERTIES
  TerminalStays
  Delivers
CHECK_DEADLOCK FALSE
