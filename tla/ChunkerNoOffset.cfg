\* Requests without a CTR byte offset; chunks may fail.
CONSTANTS
  MaxOper = 4
  MaxBuffers = 3
  Lens <- MCLens
  ByteOffsets = {0}
  XferMayFail = TRUE
SPECIFICATION Spec
INVARIANT TypeOK
INVARIANT OutputIsSource
INVARIANT DstWithinEntries
PROPERTY Terminates
\* qcedev_vbuf_ablk_cipher has returned.
CHECK_DEADLOCK FALSE
