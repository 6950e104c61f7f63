CONSTANTS
  r1 = r1
  ros = ros
  net = net
  eth = eth
  Ros = Ros
  NoIface = NoIface
  NoUpdate = NoUpdate
  Routers = {r1}
  n1 = n1
  n2 = n2
  g1 = g1
  Names = {n1, n2}
  Guids = {g1, g2}
  Chans = {ros, net}
  Ifaces = {eth}
  Defaults = {eth, NoIface}
  Home <- MCHome
  IfaceOf <- MCIfaceOf
  BoundChans <- MCBound
  Offers <- MCOffers
  Inputs <- MCInputs
  ClockSteps <- MCClock
  MaxArrivals = 3
  MaxRestarts = 1
SPECIFICATION Spec
INVARIANTS
  TypeOK
  AtMostOnce
  Isolation
  SubscribersAgree
PROPERTIES
  ImplementsMulticast
CHECK_DEADLOCK FALSE
