CONSTANTS
  Packets = {a, b, c, d}
  Sizes = {0, 2}
  HeadSize = 3
  NoHeader = NoHeader
SPECIFICATION Spec
INVARIANTS
  TypeOK
  HandedIsSent
  NothingLeft
CHECK_DEADLOCK FALSE
