CONSTANTS
  Last = 3
  Bounds = {1, 3}
  SndWnd = 1
  RcvWnd = 2
  FirstWnd = 3
  LinkCap = 2
  Vanishing = {"w", "r"}
SPECIFICATION FairSpec
INVARIANTS
  TypeOK
PROPERTIES
  WrittenIsRead
  WriterGoesOn
  ReaderEnds
CHECK_DEADLOCK FALSE
