SPECIFICATION CaptureSpec
CONSTANTS
  host = host
  server = server
  loopback = loopback
  v4client = v4client
  Packets <- MixedPackets
  Capture = capture
  Threads = {capture, w1}
  LoopbackIpv6 = loopback
  ListenPort <- Ports
  Enabled <- UdpEnabled
  ListenFamily = 6
  MaxInbox = 1
  Keys <- MCKeys
  Dests <- MCDests
  TTL = 2
  Capacity = 1
  MaxSkew = 1
  MaxClock = 4
INVARIANTS RedirectionTypeOK FreshKept
PROPERTIES LookupWindow OverflowIsFresh TransparentTarget
