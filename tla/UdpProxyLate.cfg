SPECIFICATION Spec
CONSTANTS
  c1 = c1
  c2 = c2
  a = a
  b = b
  fixed = fixed
  Clients = {c1, c2}
  Servers = {a, b}
  Default = fixed
  Family <- Families
  Addresses <- Conversations
  TTL = 1
  MaxClock = 0
  MaxDatagrams = 2
  MaxQueued = 1
INVARIANTS ReplyToRequester
