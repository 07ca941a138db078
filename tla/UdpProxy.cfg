SPECIFICATION FairSpec
CONSTANTS
  c1 = c1
  c2 = c2
  a = a
  b = b
  fixed = fixed
  Clients = {c1, c2}
  Servers = {a, b}
  Default = fixed
  Family <- Families
  Addresses <- Conversations
  TTL = 1
  MaxClock = 2
  MaxDatagrams = 2
  MaxQueued = 2
INVARIANTS TypeOK OriginalTarget UndisturbedReply
PROPERTIES OnceInOrder Stops
