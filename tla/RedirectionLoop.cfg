SPECIFICATION LoopSpec
CONSTANTS
  host = host
  server = server
  loopback = loopback
  Packets <- AllPackets
  ClientPackets <- FromClient
  ProxyAddress = host
  ProxyPort = 2001
  Capture = capture
  Threads = {capture, w1}
  LoopbackIpv6 = loopback
  ListenPort <- Ports
  Enabled <- BothEnabled
  ListenFamily = 6
  MaxInbox = 1
  Keys <- MCKeys
  Dests <- MCDests
  TTL = 2
  Capacity = 1
  MaxSkew = 1
  MaxClock = 1
INVARIANTS ForwardsReachTarget
