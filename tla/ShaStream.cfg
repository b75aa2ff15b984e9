\* Sessions of up to three ioctls on one handle; every allocation, user
\* copy and engine start may fail.
CONSTANTS
  Block = 2
  MaxOper = 4
  MaxBuffers = 2
  Lens <- MCLens
  MaxCalls = 3
  FailModes = {"alloc", "fault", "submit"}
SPECIFICATION Spec
INVARIANT TypeOK
INVARIANT PassesWellFormed
INVARIANT StreamPreserved
PROPERTY LoopProgress
\* The caller has made its MaxCalls ioctls.
CHECK_DEADLOCK FALSE
