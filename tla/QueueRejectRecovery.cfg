\* A start rejected with -ENXIO while another request holds an engine slot.
CONSTANTS
  r1 = r1
  r2 = r2
  r3 = r3
  NoReq = NoReq
  Reqs <- MCReqs
  OpOf <- MCOpOf
  Slots <- MCSlots
  StartResults = {"ok", "enxio"}
  Anomalies = {"none"}
  TimeoutsPossible = FALSE
SPECIFICATION Spec
INVARIANT SuccessMeansExecuted
\* Every ioctl call has returned: the driver idles.
CHECK_DEADLOCK FALSE
