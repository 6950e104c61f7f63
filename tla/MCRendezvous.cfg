CONSTANTS
  Senders = {s1}
  Receivers = {r1}
  Hidden = {s1, r1}
  Failing = {r1}
  Aging = {s1}
  Closing = {s1, r1}
  Slow = {r1}
  Ending = {r1}
SPECIFICATION FairSpec
INVARIANTS
  TypeOK
  SenderHasReader
PROPERTIES
  PairConnects
  HandshakeEnds
CHECK_DEADLOCK FALSE
