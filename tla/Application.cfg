SPECIFICATION Spec
CONSTANTS
  SizeModulus = 64
  UlongModulus = 1000000
  PortMax = 65535
  Upstream <- MCUpstream
  HostOrder <- MCHostOrder
  Setups <- MCSetups
  Payloads <- MCPayloads
INVARIANTS TypeOK ConfigAsWritten RulesAsWritten FramingKept UntouchedUnlessHit HeadersKept
PROPERTIES RefusedForCause
