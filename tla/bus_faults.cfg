CONSTANTS
  e1 = e1  e2 = e2  e3 = e3  f1 = f1  f2 = f2
  Events <- MCEvents
  Foreign <- MCForeign
  KindOf <- MCKindOf
  MaxOutages = 1
  MaxFaults = 1
  MaxRestarts = 1
SPECIFICATION FairSpec
INVARIANTS
  TypeOK
PROPERTIES
  QueueDrains
