----------------------------- MODULE MmiSysTemp -----------------------------
(***************************************************************************)
(* The virtual thermal sensors of mmi_sys_temp.c.  User space writes a    *)
(* sensor's temperature through the unlocked MMI_SYS_TEMP_SET_TEMP ioctl; *)
(* the thermal core reads it back through the sensor's thermal zone, and  *)
(* uevent_generate tells user space when a sensor marked need_uevent is   *)
(* at or above the threshold in a degree it has not reported yet.  A      *)
(* power-supply notifier schedules a work item that reads the listener    *)
(* zones and calls uevent_generate for each listener index.               *)
(*                                                                         *)
(* Every ioctl thread and the work item are actors; uevent_generate is    *)
(* split where it reads or writes the sensor: the check (67-73), the      *)
(* allocation and the pre_temp write (75-81), and the uevent, whose TEMP   *)
(* is read again (83-88).  Nothing in the driver takes a lock.  Probe and *)
(* remove run from the driver core, one at a time; probe is one step      *)
(* because no file or zone user can reach the device before it returns,   *)
(* apart from the zones it registers.                                      *)
(***************************************************************************)
EXTENDS Integers, FiniteSets

CONSTANTS
  Threads,       \* user tasks calling the ioctl on an open file
  Worker,        \* the psy_changed_work item
  NumSensors,    \* entries of mmi,temperature-names
  NumListeners,  \* entries of mmi,sensor-listener-names
  NeedUevent,    \* the sensors uevent_parse_dt marked need_uevent
  Threshold,     \* uevent_temp_threshold (m°C)
  Temps,         \* temperatures user space writes (m°C)
  ZoneTemps,     \* temperatures the listener zones report (m°C)
  ProbeFaults,   \* a registration in probe may fail
  UeventMayFail  \* devm_kzalloc or kobject_uevent_env in uevent_generate may fail

Sensors == 1..NumSensors
Listeners == 1..NumListeners
Actors == Threads \cup {Worker}
NoReport == -1

ASSUME /\ Worker \notin Threads /\ NeedUevent \subseteq Sensors
       /\ Threshold >= 0 /\ \A v \in Temps : v >= 0
       /\ ProbeFaults \in BOOLEAN /\ UeventMayFail \in BOOLEAN

VARIABLES
  drv,       \* "unprobed"; "probing", "unwinding", "bound" or "removing"
             \* while sys_temp_dev is live; "failed" or "removed" once it is
             \* freed (the global is never cleared)
  zones,     \* sensors whose thermal zone is registered
  pi,        \* the sensor the probe or remove loop is at (i + 1)
  nreg,      \* num_registered of probe
  badunreg,  \* a zone never registered was unregistered (history)
  notifier,  \* psy_nb is on the power-supply notifier chain
  opened,    \* threads with the misc device open
  temp,      \* sensor[i].temp
  pre_temp,  \* sensor[i].pre_temp
  ltemp,     \* sensor_listener[i].temp
  pending,   \* the work item is queued
  pc,        \* where each actor is
  at,        \* the index the actor's uevent_generate (or loop) works on
  reported,  \* TEMP of the last uevent of each sensor (history)
  uaf,       \* sys_temp_dev was dereferenced after it was freed (history)
  oob        \* uevent_generate indexed sensor[] past num_sensors (history)

life == <<drv, zones, notifier, pi, nreg, badunreg>>
vars == <<life, opened, temp, pre_temp, ltemp, pending, pc, at, reported, uaf, oob>>

Freed == drv \in {"failed", "removed"}

\* A step that dereferences sys_temp_dev.
Deref == uaf' = (uaf \/ Freed)

Init ==
  /\ drv = "unprobed" /\ zones = {} /\ notifier = FALSE /\ opened = {}
  /\ pi = 1 /\ nreg = 0 /\ badunreg = FALSE
  /\ temp = [s \in Sensors |-> 0] /\ pre_temp = [s \in Sensors |-> 0]
  /\ ltemp = [l \in Listeners |-> 0] /\ pending = FALSE
  /\ pc = [a \in Actors |-> "idle"] /\ at = [a \in Actors |-> 0]
  /\ reported = [s \in Sensors |-> NoReport] /\ uaf = FALSE /\ oob = FALSE

-----------------------------------------------------------------------------
(* Probe and remove.                                                       *)

NumRegisteredStale(k) == k - 1

\* num_registered = i + 1 once sensor k = i + 1 has its zone.
NumRegistered(k) == k

Others == <<opened, temp, pre_temp, ltemp, pending, pc, at, reported, uaf, oob>>

\* thermal_zone_device_unregister(sensor[k - 1].tz_dev); for a zone never
\* registered that is NULL or an ERR_PTR.
Unregister(k) == zones' = zones \ {k} /\ badunreg' = (badunreg \/ k \notin zones)

\* mmi_sys_temp_probe up to the loop (290-340): a failed allocation of
\* sys_temp_dev leaves the global NULL and nothing else happens; a failed
\* allocation of the sensor array returns -ENOMEM, and devres frees the
\* device the global points to.
ProbeStart ==
  /\ drv = "unprobed"
  /\ \/ ProbeFaults /\ drv' = "failed" /\ UNCHANGED <<pi, nreg>>
     \/ drv' = "probing" /\ pi' = 1 /\ nreg' = 0
  /\ UNCHANGED <<zones, notifier, badunreg, Others>>

\* One turn of the zone loop (342-365): reading the name or registering the
\* zone of sensor pi fails (goto err_thermal_unreg), or the zone is
\* registered, and the thermal core may read it from then on.
ProbeRegister ==
  /\ drv = "probing" /\ pi <= NumSensors
  /\ \/ ProbeFaults /\ drv' = "unwinding" /\ pi' = 1 /\ UNCHANGED <<zones, nreg>>
     \/ zones' = zones \cup {pi} /\ nreg' = NumRegistered(pi) /\ pi' = pi + 1
        /\ UNCHANGED drv
  /\ UNCHANGED <<notifier, badunreg, Others>>

\* After the loop (367-426): misc_register fails (goto err_thermal_unreg),
\* or probe returns 0, having registered psy_nb only when every listener
\* zone was found.
ProbeFinish ==
  /\ drv = "probing" /\ pi = NumSensors + 1
  /\ \/ ProbeFaults /\ drv' = "unwinding" /\ pi' = 1 /\ UNCHANGED notifier
     \/ /\ drv' = "bound" /\ UNCHANGED pi
        /\ \E found \in IF ProbeFaults THEN BOOLEAN ELSE {TRUE} :
             notifier' = (NumListeners > 0 /\ found)
  /\ UNCHANGED <<zones, nreg, badunreg, Others>>

\* err_thermal_unreg (428-433): unregister the zones of sensors
\* 1..num_registered, then devm_kfree(sys_temp_dev).
ProbeUnwind ==
  /\ drv = "unwinding" /\ pi <= nreg
  /\ Unregister(pi) /\ pi' = pi + 1
  /\ UNCHANGED <<drv, notifier, nreg, Others>>

ProbeFree ==
  /\ drv = "unwinding" /\ pi > nreg /\ drv' = "failed"
  /\ UNCHANGED <<zones, notifier, pi, nreg, badunreg, Others>>

\* mmi_sys_temp_remove (436-448): unregister the zones of all num_sensors
\* sensors, then misc_deregister and devm_kfree(sys_temp_dev); psy_nb stays
\* registered, the work is not cancelled, and files already open stay
\* open.
Remove ==
  /\ drv = "bound" /\ drv' = "removing" /\ pi' = 1
  /\ UNCHANGED <<zones, notifier, nreg, badunreg, Others>>

RemoveUnreg ==
  /\ drv = "removing" /\ pi <= NumSensors
  /\ Unregister(pi) /\ pi' = pi + 1
  /\ UNCHANGED <<drv, notifier, nreg, Others>>

RemoveFree ==
  /\ drv = "removing" /\ pi > NumSensors /\ drv' = "removed"
  /\ UNCHANGED <<zones, notifier, pi, nreg, badunreg, Others>>

Open(t) ==
  /\ drv \in {"bound", "removing"} /\ t \notin opened /\ opened' = opened \cup {t}
  /\ UNCHANGED <<life, temp, pre_temp, ltemp, pending, pc, at,
                 reported, uaf, oob>>

Close(t) ==
  /\ t \in opened /\ pc[t] = "idle" /\ opened' = opened \ {t}
  /\ UNCHANGED <<life, temp, pre_temp, ltemp, pending, pc, at,
                 reported, uaf, oob>>

-----------------------------------------------------------------------------
(* uevent_generate, one step per access to the sensor.                    *)

ReturnNoBound(a) ==
  IF a = Worker
  THEN pc' = [pc EXCEPT ![a] = "wread"] /\ at' = [at EXCEPT ![a] = @ + 1]
  ELSE pc' = [pc EXCEPT ![a] = "idle"] /\ UNCHANGED at

\* The actor returns from uevent_generate: an ioctl returns, the work
\* loop goes on to the next listener.
Return(a) ==
  IF a = Worker /\ at[a] < NumListeners
  THEN pc' = [pc EXCEPT ![a] = "wread"] /\ at' = [at EXCEPT ![a] = @ + 1]
  ELSE pc' = [pc EXCEPT ![a] = "idle"] /\ UNCHANGED at

\* Lines 67-73: no uevent for a sensor not marked, below the threshold, or
\* in the degree of pre_temp.
UeCheck(a) ==
  LET i == at[a] IN
  /\ pc[a] = "check" /\ Deref
  /\ IF i \notin Sensors
     THEN oob' = TRUE /\ Return(a)
     ELSE IF i \notin NeedUevent \/ temp[i] < Threshold
             \/ temp[i] \div 1000 = pre_temp[i] \div 1000
          THEN Return(a) /\ UNCHANGED oob
          ELSE pc' = [pc EXCEPT ![a] = "alloc"] /\ UNCHANGED <<at, oob>>
  /\ UNCHANGED <<life, opened, temp, pre_temp, ltemp, pending, reported>>

\* Lines 75-81: a failed allocation returns -1; else pre_temp takes the
\* temperature as it is now.
UeAlloc(a) ==
  LET i == at[a] IN
  /\ pc[a] = "alloc" /\ Deref
  /\ \/ UeventMayFail /\ Return(a) /\ UNCHANGED pre_temp
     \/ pre_temp' = [pre_temp EXCEPT ![i] = temp[i]]
        /\ pc' = [pc EXCEPT ![a] = "send"] /\ UNCHANGED at
  /\ UNCHANGED <<life, opened, temp, ltemp, pending, reported, oob>>

\* Lines 83-88: the uevent's TEMP reads the sensor once more;
\* kobject_uevent_env may fail, with pre_temp already set.
UeSend(a) ==
  LET i == at[a] IN
  /\ pc[a] = "send" /\ Deref
  /\ \/ reported' = [reported EXCEPT ![i] = temp[i]]
     \/ UeventMayFail /\ UNCHANGED reported
  /\ Return(a)
  /\ UNCHANGED <<life, opened, temp, pre_temp, ltemp, pending, oob>>

-----------------------------------------------------------------------------
(* The ioctl and the power-supply work.                                   *)

\* MMI_SYS_TEMP_SET_TEMP for the sensor named s: write the temperature and
\* call uevent_generate.  (A failed copy or an unknown name returns before
\* any write.)
SetTemp(t, s, v) ==
  /\ t \in opened /\ pc[t] = "idle" /\ drv # "unprobed" /\ Deref
  /\ temp' = [temp EXCEPT ![s] = v]
  /\ pc' = [pc EXCEPT ![t] = "check"] /\ at' = [at EXCEPT ![t] = s]
  /\ UNCHANGED <<life, opened, pre_temp, ltemp, pending, reported, oob>>

\* psy_changed on PSY_EVENT_PROP_CHANGED: schedule_work.
PsyChanged ==
  /\ notifier /\ Deref /\ pending' = TRUE
  /\ UNCHANGED <<life, opened, temp, pre_temp, ltemp, pc, at, reported,
                 oob>>

\* The workqueue runs the queued work; it is never run twice at once.
WorkStart ==
  /\ pending /\ pc[Worker] = "idle" /\ Deref
  /\ pending' = FALSE
  /\ pc' = [pc EXCEPT ![Worker] = "wread"] /\ at' = [at EXCEPT ![Worker] = 1]
  /\ UNCHANGED <<life, opened, temp, pre_temp, ltemp, reported, oob>>

\* One turn of the first loop of psy_changed_work_func: read listener i's
\* zone, then uevent_generate(sys_temp_dev, i) on sensor[i].
WorkRead ==
  LET i == at[Worker] IN
  /\ pc[Worker] = "wread" /\ Deref
  /\ \E z \in ZoneTemps : ltemp' = [ltemp EXCEPT ![i] = z]
  /\ pc' = [pc EXCEPT ![Worker] = "check"]
  /\ UNCHANGED <<life, opened, temp, pre_temp, pending, at, reported,
                 oob>>

Next ==
  \/ ProbeStart \/ ProbeRegister \/ ProbeFinish \/ ProbeUnwind \/ ProbeFree
  \/ Remove \/ RemoveUnreg \/ RemoveFree
  \/ PsyChanged \/ WorkStart \/ WorkRead
  \/ \E t \in Threads : Open(t) \/ Close(t) \/ \E s \in Sensors, v \in Temps : SetTemp(t, s, v)
  \/ \E a \in Actors : UeCheck(a) \/ UeAlloc(a) \/ UeSend(a)

Spec == Init /\ [][Next]_vars

-----------------------------------------------------------------------------

TypeOK ==
  /\ drv \in {"unprobed", "probing", "unwinding", "bound", "removing", "failed", "removed"}
  /\ zones \subseteq Sensors /\ pi \in 1..(NumSensors + 1) /\ nreg \in 0..NumSensors
  /\ badunreg \in BOOLEAN /\ notifier \in BOOLEAN /\ opened \subseteq Threads
  /\ temp \in [Sensors -> Temps \cup {0}] /\ pre_temp \in [Sensors -> Temps \cup {0}]
  /\ ltemp \in [Listeners -> ZoneTemps \cup {0}] /\ pending \in BOOLEAN
  /\ pc \in [Actors -> {"idle", "check", "alloc", "send", "wread"}]
  /\ at \in [Actors -> 0..NumListeners \cup Sensors]
  /\ reported \in [Sensors -> Temps \cup {0, NoReport}]
  /\ uaf \in BOOLEAN /\ oob \in BOOLEAN

\* The thermal core may call mmi_sys_temp_get on a registered zone at any
\* time; its devdata is the sensor array of sys_temp_dev.  Probe's error
\* path and remove unregister zones one by one before the free: no zone is
\* still registered once sys_temp_dev is freed, and neither loop hands
\* thermal_zone_device_unregister a zone that was never registered.  This
\* needs num_registered to follow the zone loop wherever it fails.
ZonesOnLiveDevice == (zones # {} => ~Freed) /\ ~badunreg

\* When no ioctl or work is inside uevent_generate, a marked sensor at or
\* above the threshold has had a uevent in its current degree: user space
\* has heard of the temperature the thermal core reads.
HotTempReported ==
  (\A a \in Actors : pc[a] = "idle") =>
    \A s \in NeedUevent :
      temp[s] >= Threshold =>
        reported[s] # NoReport /\ reported[s] \div 1000 = temp[s] \div 1000

\* Nothing dereferences sys_temp_dev after probe's error path or remove
\* freed it: not an ioctl on a file opened before, not psy_changed, not
\* the work.
NoUseAfterFree == ~uaf

\* psy_changed_work_func passes listener indexes to uevent_generate, which
\* indexes sensor[] with them: never past num_sensors.
SensorIndexInRange == ~oob
====
