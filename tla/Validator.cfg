\* 3-bit lengths, two buffers, a 2-byte cipher block; a device with AES-192,
\* XTS and CMAC support but no hardware keys.
CONSTANTS
  MaxBuffers = 2
  Width = 3
  Block = 2
  MaxIv = 2
  Lens <- MCLens
  HwKeySupport = FALSE
  AesKey192 = TRUE
  AesXts = TRUE
  CmacSupport = TRUE
SPECIFICATION Spec
INVARIANT TypeOK
INVARIANT AcceptedLengthsExact
\* The ioctl has returned its verdict.
CHECK_DEADLOCK FALSE
