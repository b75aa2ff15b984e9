\* The first call of qcedev_control_clocks may fail, which the function reports; engines of either order of the calls.
CONSTANTS
  h1 = h1
  h2 = h2
  h3 = h3
  Handles <- MCHandles
  FailCalls = {"first"}
  CountBound = 4
SYMMETRY Sym
SPECIFICATION Spec
INVARIANT TypeOK
INVARIANT ClocksFollowVotes
