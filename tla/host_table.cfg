CONSTANTS
  t1 = t1
  t2 = t2
  NoTask = NoTask
  Tasks = {t1, t2}
  page1 = page1
  page2 = page2
  NoPage = NoPage
  Pages = {page1, page2}
  Names = {"n"}
  NoName = NoName
  MaxPtys = 2
  MaxAsked <- MCAsked
SYMMETRY MCSymmetry
SPECIFICATION TableSpec
INVARIANTS
  TableTypeOK
  ReceiverHearsTheEnd
PROPERTIES
  ImplementsLife
CHECK_DEADLOCK FALSE
