\* A server both of whose addresses refuse the connection.
CONSTANTS
  w1 = w1
  w2 = w2
  c1 = c1
  c2 = c2
  c3 = c3
  NoPeer = NoPeer
  NoConn = NoConn
  Peers = {w1, w2}
  Conns = {c1, c2}
  Files <- MCFiles
  Pages <- MCPages
  ForkFails = FALSE
  Cap = 1
  Uris <- DownUris
  Requests = {"GET"}
  Headers <- MCHeaders
  Addresses <- DownAddresses
  Leftovers <- MCLeftovers
  MaxCache = 1
  MAX_OBJECT_SIZE = 3
  Resets = FALSE
SPECIFICATION FairSpec
PROPERTIES RequestsEnd
CHECK_DEADLOCK FALSE
