CONSTANTS
  m1 = m1
  m2 = m2
  m3 = m3
  m4 = m4
  Mutation = {m1, m2, m3, m4}
  Careless = {m1}
SYMMETRY AnyCareful
SPECIFICATION StoreSpec
INVARIANTS
  StoreTypeOK
  AllOrNothing
  AckedIsOnFile
CHECK_DEADLOCK FALSE
