SPECIFICATION FairSpec
CONSTANTS
  Configs <- FallbackConfigs
  MaxClients = 1
PROPERTIES FallbackHonoured
