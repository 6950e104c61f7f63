CONSTANTS
  n1 = n1
  cr = cr
  s1 = s1
  s2 = s2
  cl = cl
  v1 = v1
  v2 = v2
  q1 = q1
  q2 = q2
  p1 = p1
  p2 = p2
  eth = eth
  Ros = Ros
  NoIface = NoIface
  NoUpdate = NoUpdate
  Idle = Idle
  NoAnswer = NoAnswer
  NoChan = NoChan
  Names = {n1}
  Ifaces = {eth}
  Defaults = {eth}
  Home <- MCHome
  IfaceOf <- MCIfaceOf
  Peer <- MCPeer
  Ready <- MCReady
  BoundChans <- MCNone
  Offers <- MCOffers
  Inputs <- MCNone
  ClockSteps <- MCClock
  MaxArrivals = 0
  Routers = {cr, s1, s2}
  Chans = {cl, v1, v2, q1, q2, p1, p2}
  NetChans = {q1, q2, p1, p2}
  Guids = {g1, g2}
  LateAnswers = FALSE
  Breakable = {q1, p1}
  Crashing = {s1}
  MaxRestarts = 1
SPECIFICATION FairRSpec
INVARIANTS
  RTypeOK
  AnswerMatches
  NoPanic
PROPERTIES
  CallAnswered
CHECK_DEADLOCK FALSE
