SPECIFICATION FairSpec
CONSTANTS
  SizeModulus = 16
  Script <- RequestScript
  InitialMax = 10
  RecvMax = 7
  MaxBuffered = 10
  DecideSize = 4
  TunnelModes = {"opaque"}
  PeerFaults = {}
  Patch <- MCPatch
PROPERTIES EventuallyForwarded
