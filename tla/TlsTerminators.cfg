CONSTANTS
  Sessions = {s1, s2}
  MaxCalls = 2
  NoFile = NoFile
  Torn = Torn
  Ports = {p1}
  Other = Other
  Nobody = Nobody
SYMMETRY Symmetry
SPECIFICATION SetupSpec
INVARIANTS SetupTypeOK OkMeansPair OwnServer
PROPERTIES CacheStays
