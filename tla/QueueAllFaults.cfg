\* Engines that may reject a start (-ENXIO), parameters start_offload_cipher_req
\* rejects (-EINVAL), waits that expire, and every status anomaly.
CONSTANTS
  r1 = r1
  r2 = r2
  r3 = r3
  NoReq = NoReq
  Reqs <- MCReqs
  OpOf <- MCOpOf
  Slots <- MCSlots
  StartResults = {"ok", "enxio", "einval"}
  Anomalies = {"none", "key_timer", "key_pause", "generic"}
  TimeoutsPossible = TRUE
SPECIFICATION Spec
INVARIANT SingleServer
INVARIANT NoStrandedRequest
\* Every ioctl call has returned: the driver idles.
CHECK_DEADLOCK FALSE
