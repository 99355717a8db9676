CONSTANTS
  g1 = g1
  g2 = g2
  k1 = k1
  k2 = k2
  c1 = c1
  c2 = c2
  page1 = page1
  page2 = page2
  Cap = 1
  MaxLen = 1
  MaxSeq = 2
  Epochs <- MCEpochs
  Epoch = "e1"
  Receivers <- MCReceivers
  NoSink = NoSink
  Owners = {page1}
  Opener = page1
  Gates = {g1}
  Parks = {k1}
  NoGate = NoGate
  Conns = {c1}
  NoConn = NoConn
  OutLimit = 2
  PaceHigh = 1
  Requests = {"closeAll", "detach", "close", "other", "die"}
SPECIFICATION FairHostSpec
INVARIANTS
  HostTypeOK
  ExitComesLast
  GaplessWhileUp
PROPERTIES
  PacingEnds
  ExitIsSent
CHECK_DEADLOCK FALSE
