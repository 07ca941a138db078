SPECIFICATION FairSpec
CONSTANTS
  Configs <- AllConfigs
  MaxClients = 2
INVARIANTS TypeOK Released HandlesOutliveThread RuntimeFallbackUnreachable
PROPERTIES ShutdownCompletes ServerFailureStops
