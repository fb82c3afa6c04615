\* Clients, the proxy with two workers and Tiny together.
CONSTANTS
  w1 = w1
  w2 = w2
  c1 = c1
  c2 = c2
  c3 = c3
  NoPeer = NoPeer
  NoConn = NoConn
  Peers = {w1, w2}
  Conns = {c1, c2}
  Files <- MCFiles
  Pages <- MCPages
  ForkFails = TRUE
  Cap = 1
  Uris <- MCUris
  Requests = {"eof", "POST", "GET"}
  Headers <- MCHeaders
  Addresses <- MCAddresses
  Leftovers <- MCLeftovers
  MaxCache = 1
  MAX_OBJECT_SIZE = 3
  Resets = TRUE
SPECIFICATION FairSpec
INVARIANTS TypeOK Descriptors CacheSound Answered
PROPERTIES RequestsEnd
CHECK_DEADLOCK FALSE
