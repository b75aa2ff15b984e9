\* Two threads running SHA sessions on one handle; no failure of any call,
\* so only the order of their steps matters.
CONSTANTS
  t1 = t1
  t2 = t2
  Threads = {t1, t2}
  None = None
  MaxCalls = 4
  Algs = {"sha"}
  HmacHw = TRUE
  CmacHw = FALSE
  KeyMayFail = FALSE
  Faults = FALSE
SPECIFICATION Spec
INVARIANT UpdateOnOpenSession
\* Every ioctl has returned: the handle idles.
CHECK_DEADLOCK FALSE
