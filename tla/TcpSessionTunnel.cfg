SPECIFICATION Spec
CONSTANTS
  SizeModulus = 32
  Script <- HttpScript
  InitialMax = 10
  RecvMax = 7
  MaxBuffered = 10
  DecideSize = 4
  TunnelModes = {"mitm", "plaintext", "opaque"}
  PeerFaults = {"reset"}
  Patch <- PatchPump
  Upstream <- MCUpstream
  HostOrder <- MCHostOrder
  UlongModulus = 1000000
  PortMax = 65535
INVARIANTS StreamIntegrity SocketsReleased WholeMessages MessagesArrive
PROPERTY CutsAreTheStreams
