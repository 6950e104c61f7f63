CONSTANTS
  Peers = {p1}
  Convs = {1, 2}
  None = None
  InputCap = 64
  CloseCap = 64
  AcceptCap = 1024
  MaxSessions = 2
  MaxPackets = 3
SPECIFICATION Spec
PROPERTIES
  RemovedWhenClosed
CHECK_DEADLOCK FALSE
