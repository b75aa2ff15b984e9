\* One user task and the power-supply work on two sensors, the first marked
\* need_uevent; no probe or allocation failure.
CONSTANTS
  t1 = t1
  t2 = t2
  w = w
  Threads = {t1}
  Worker = w
  NumSensors = 2
  NumListeners = 2
  NeedUevent = {1}
  Threshold = 40000
  Temps <- MCTemps
  ZoneTemps = {30000}
  ProbeFaults = FALSE
  UeventMayFail = FALSE
SPECIFICATION Spec
INVARIANT HotTempReported
\* After a remove with every file closed, nothing but power-supply events
\* reach the driver.
CHECK_DEADLOCK FALSE
