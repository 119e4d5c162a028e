SPECIFICATION Spec
CONSTANTS
  a = a
  b = b
  c = c
  Jobs = {a, b, c}
  Plans <- MCSequential
  Horizon = 4
  MaxSkew = 0
  MaxInFlight = 2
  MaxFaults = 1
INVARIANT
  SequentialIsNotParallel
