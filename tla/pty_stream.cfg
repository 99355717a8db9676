CONSTANTS
  r1 = r1
  r2 = r2
  r3 = r3
  page1 = page1
  page2 = page2
  Cap = 3
  MaxLen = 4
  MaxSeq = 7
  Epochs <- MCEpochs
  Epoch = "e1"
  Receivers = {r1, r2, r3}
  NoSink = NoSink
  Owners = {page1, page2}
  Opener = page1
SPECIFICATION FairSpec
INVARIANTS
  TypeOK
  RetainedIsTheTail
  CutsAreChunkBoundaries
  ExactReplayIsWhatWasMissed
  ReanchorOnlyWhenUnrecoverable
  EachChunkOnce
  ExitOnceAndLast
PROPERTIES
  NothingAfterTheSwap
  ExitReachesTheReceiver
CHECK_DEADLOCK FALSE
