CONSTANTS
  t1 = t1
  Topics = {t1}
  Pubs = {p1, p2}
  Subs = {s1, s2}
  TopicOf <- MCTopicOf
  Garbled = {s2}
  Leaving = {s2}
  Expiry = 1
  Cap = 1
  MaxTicks = 3
  NoConn = NoConn
SPECIFICATION FairSpec
INVARIANTS
  TypeOK
  ToldInOrder
  ToldAtMostTwice
PROPERTIES
  Learns
CHECK_DEADLOCK FALSE
