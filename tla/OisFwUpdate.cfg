\* Images of 4 to 6 bytes in chunks of 4 (the code's 256, scaled), the
\* version in the last 4 bytes (the code's 12 from the end, scaled); any
\* transfer may fail.
CONSTANTS
  Images <- MCImages
  DevVers <- MCDevVers
  Chunk = 4
  VerTail = 4
  IoMayFail = TRUE
SPECIFICATION Spec
INVARIANT TypeOK
INVARIANT SuccessMeansInstalled
INVARIANT InstallsWhenNoFault
\* The function has returned.
CHECK_DEADLOCK FALSE
