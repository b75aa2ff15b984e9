\* Two sensors, the first marked need_uevent, two listener zones; probe,
\* uevent allocation may fail; remove may come while files are open.
CONSTANTS
  t1 = t1
  t2 = t2
  w = w
  Threads <- MCThreads
  Worker = w
  NumSensors = 2
  NumListeners = 2
  NeedUevent = {1}
  Threshold = 40000
  Temps <- MCTemps
  ZoneTemps = {30000}
  ProbeFaults = TRUE
  UeventMayFail = TRUE
SYMMETRY Sym
SPECIFICATION Spec
INVARIANT TypeOK
INVARIANT ZonesOnLiveDevice
\* After a failed probe, or a remove with every file closed and no
\* listener, nothing can reach the driver.
CHECK_DEADLOCK FALSE
