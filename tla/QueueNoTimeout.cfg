\* Engines that always answer before MAX_CRYPTO_WAIT_TIME, may reject a
\* start (-ENXIO) and show no status anomaly.
CONSTANTS
  r1 = r1
  r2 = r2
  r3 = r3
  NoReq = NoReq
  Reqs <- MCReqs
  OpOf <- MCOpOf
  Slots <- MCSlots
  StartResults = {"ok", "enxio"}
  Anomalies = {"none"}
  TimeoutsPossible = FALSE
SPECIFICATION Spec
INVARIANT TypeOK
INVARIANT NoMemoryFault
INVARIANT DispatchFailureReported
PROPERTY EveryRequestReturns
PROPERTY QueueRefinement
\* Every ioctl call has returned: the driver idles.
CHECK_DEADLOCK FALSE
