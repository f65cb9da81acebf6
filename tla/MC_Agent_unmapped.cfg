CONSTANTS
  A = A
  B = B
  s1 = s1
  s2 = s2
  NPorts <- MCMixedListed
  Names <- MCNames
  Slaves <- MCSlaves
  Values = {1}
  NoValue = NoValue
  Malformed = {}
  Nameless = {}
  Targets <- MCOneTarget
  Modes <- MCStore
  Traffic <- MCListedTraffic
SPECIFICATION Spec
PROPERTY SeenSlavesAreStored
