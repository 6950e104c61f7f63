CONSTANTS
  r = r
  a = a
  b = b
  Order <- MCOrder
  Robot = r
  First = a
  NoProfile = NoProfile
  Never = Never
  AutoSwitch = TRUE
  Skip = 2
  Profiles <- MCProfiles
  MaxRequests = 3
  MaxLosses = 1
SPECIFICATION FairSpec
INVARIANTS
  TypeOK
  OneService
  ProfilesInTurn
PROPERTIES
  ProfilingEnds
CHECK_DEADLOCK FALSE
