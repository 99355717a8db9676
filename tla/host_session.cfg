CONSTANTS
  g1 = g1
  g2 = g2
  k1 = k1
  k2 = k2
  c1 = c1
  c2 = c2
  page1 = page1
  page2 = page2
  Cap = 1
  MaxLen = 1
  MaxSeq = 1
  Epochs <- MCEpochs
  Epoch = "e1"
  Receivers <- MCReceivers
  NoSink = NoSink
  Owners = {page1, page2}
  Opener = page1
  Gates = {g1, g2}
  Parks = {k1}
  NoGate = NoGate
  Conns = {c1, c2}
  NoConn = NoConn
  OutLimit = 2
  PaceHigh = 1
  Requests = {"adopt"}
SYMMETRY MCSymmetry
SPECIFICATION HostSpec
INVARIANTS
  ResponseComesFirst
  NoRouteToTheGone
  RouteIsTheSink
CHECK_DEADLOCK FALSE
