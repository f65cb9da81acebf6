CONSTANTS
  A = A
  B = B
  s1 = s1
  s2 = s2
  NPorts <- MCShared
  Names <- MCNames
  Slaves <- MCSlaves
  Values = {1}
  NoValue = NoValue
  Malformed = {}
  Nameless = {}
  Targets <- MCTwoTargets
  Modes <- MCModes
  Traffic <- MCSharedTraffic
SPECIFICATION Spec
INVARIANTS TypeOK NoStoreCutShort StoredWereDetected OneLateFrame
PROPERTIES AgentStoresOnce CollectionEndsRun ShutdownCompletes TimedTestEnds
