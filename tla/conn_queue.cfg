SPECIFICATION FairSpec
CONSTANTS
  main = main
  w1 = w1
  w2 = w2
  w3 = w3
  c1 = c1
  c2 = c2
  c3 = c3
  c4 = c4
  Pusher <- MainOnly
  Popper <- Workers
  Conn <- FourConns
  Cap = 2
  NoConn = NoConn
INVARIANTS
  TypeOK
  OneOwner
PROPERTIES
  FifoSpec
  PushCompletes
