CONSTANTS
  A = A
  B = B
  s1 = s1
  s2 = s2
  NPorts <- MCNPorts
  Names <- MCNames
  Slaves <- MCSlaves
  Values = {1, 2}
  NoValue = NoValue
  NumDests = 3
  Malformed = {2}
  Nameless = {2}
SPECIFICATION Spec
INVARIANTS TypeOK IInv SingleSnapshot DoneIsComplete
PROPERTIES ImplementsStoreOnce SnapshotFrozen
