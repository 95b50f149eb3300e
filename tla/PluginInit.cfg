CONSTANTS
  Plugins = {p1, p2, p3}
  WithInit = {p1, p2}
  MayFail = {p1, p2}
  MaxInits = 3
SPECIFICATION Spec
INVARIANTS
  ClientBitCoversPlugins
PROPERTY
  AbsSpec
CHECK_DEADLOCK FALSE
