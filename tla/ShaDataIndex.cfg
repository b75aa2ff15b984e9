\* Sessions of up to 2 ioctls on one handle, no failures.
CONSTANTS
  Block = 2
  MaxOper = 4
  MaxBuffers = 2
  Lens <- MCLens
  MaxCalls = 2
  FailModes = {}
SPECIFICATION Spec
INVARIANT DataWithinArray
\* The caller has made its MaxCalls ioctls.
CHECK_DEADLOCK FALSE
