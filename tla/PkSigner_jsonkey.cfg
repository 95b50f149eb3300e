CONSTANTS
  Accounts = {a1, a2}
  Garbage = Garbage
  MaxSigners = 3
  MaxPaths = 2
SPECIFICATION Spec
INVARIANT RegisteredKeysAreSound
