SPECIFICATION FairSpec
CONSTANTS
  SizeModulus = 16
  Script <- RawScript
  InitialMax = 2
  RecvMax = 2
  MaxBuffered = 2
  DecideSize = 2
  TunnelModes = {"opaque"}
  PeerFaults = {"stalled", "reset"}
  Patch <- MCPatch
INVARIANT FlushUnreachable
PROPERTIES ImplementsPipes EventuallyForwarded SessionEnds
