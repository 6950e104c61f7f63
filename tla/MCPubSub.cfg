CONSTANTS
  n1 = n1
  pr = pr
  sr = sr
  pb = pb
  sb = sb
  sb2 = sb2
  l1 = l1
  l2 = l2
  eth = eth
  Ros = Ros
  NoIface = NoIface
  NoUpdate = NoUpdate
  Idle = Idle
  NoAnswer = NoAnswer
  NoChan = NoChan
  Names = {n1}
  Ifaces = {eth}
  Defaults = {eth}
  Home <- MCHome
  IfaceOf <- MCIfaceOf
  Peer <- MCPeer
  Ready <- MCReady
  BoundChans <- MCNone
  Offers <- MCOffers
  Inputs <- MCNone
  ClockSteps <- MCClock
  MaxArrivals = 0
  Routers = {pr, sr}
  Chans = {pb, sb, sb2, l1, l2}
  NetChans = {l1, l2}
  Guids = {g1, g2}
  LateAnswers = FALSE
  Breakable = {l1, l2}
  Crashing = {pr, sr}
  MaxRestarts = 1
SPECIFICATION FairRSpec
INVARIANTS
  TopicOnce
PROPERTIES
  MessageArrives
CHECK_DEADLOCK FALSE
