CONSTANTS
  Peers = {p1, p2}
  Convs = {1, 2}
  None = None
  InputCap = 1
  CloseCap = 1
  AcceptCap = 1
  MaxSessions = 2
  MaxPackets = 3
SPECIFICATION FairSpec
INVARIANTS
  TypeOK
  NoOrphan
  NoticePending
PROPERTIES
  ListenerGoesOn
  ClosedEnds
CHECK_DEADLOCK FALSE
