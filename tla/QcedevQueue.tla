----------------------------- MODULE QcedevQueue -----------------------------
(***************************************************************************)
(* The single-server request queue of the qcedev crypto driver and the     *)
(* completion / timeout path around it (src/crypto-qti/qcedev.c).          *)
(*                                                                         *)
(* Every ioctl allocates one qcedev_async_req and runs submit_req on it in *)
(* its own thread.  Under podev->lock the request either becomes           *)
(* active_command and is started on the engine (start_cipher_req,          *)
(* start_offload_cipher_req, start_sha_req) or is appended to              *)
(* ready_commands.  The thread then waits on the request's completion for  *)
(* at most MAX_CRYPTO_WAIT_TIME.  The engine's completion callback         *)
(* schedules the done_tasklet, whose handler req_done clears              *)
(* active_command, starts the head of ready_commands and signals the      *)
(* finished request.  When the wait returns 0 the thread reads the status *)
(* registers and calls qce_manage_timeout, then returns; the ioctl then   *)
(* frees the request (kfree at the end of qcedev_ioctl).                   *)
(*                                                                         *)
(* A request is a model value.  Its data is abstracted away: what matters  *)
(* here is which thread, tasklet or callback holds a reference to it and  *)
(* whether it is still allocated when that reference is used.             *)
(***************************************************************************)
EXTENDS Naturals, Sequences, FiniteSets, SequencesExt

CONSTANTS
  Reqs,             \* the qcedev_async_req of each ioctl call
  OpOf,             \* its op_type: "cipher", "offload" or "sha"
  Slots,            \* request-info slots of the qce engine (current_req_info)
  StartResults,     \* outcomes start_*_req may have (see StartOutcomes)
  Anomalies,        \* what qcedev_check_crypto_status may classify
  TimeoutsPossible, \* may a wait expire before its completion is signalled?
  NoReq             \* NULL

ASSUME /\ Reqs # {} /\ NoReq \notin Reqs
       /\ OpOf \in [Reqs -> {"cipher", "offload", "sha"}]
       /\ Slots \subseteq Nat /\ 0 \in Slots
       /\ StartResults \subseteq {"ok", "enxio", "einval"} /\ StartResults # {}
       /\ Anomalies \subseteq {"none", "key_timer", "key_pause", "generic"}
       /\ "none" \in Anomalies
       /\ TimeoutsPossible \in BOOLEAN

VARIABLES
  active,    \* podev->active_command
  ready,     \* podev->ready_commands, oldest first
  hw,        \* hw[s]: the request the engine is executing in slot s
  st,        \* where each request's ioctl thread is in submit_req
  err,       \* qcedev_areq->err: "ok" (0) or "enxio" (-ENXIO)
  info,      \* the thread's local current_req_info
  done,      \* the request's completion has been signalled
  executed,  \* the engine has finished the request's operation
  result,    \* what submit_req returned, and how its wait ended
  tpend,     \* done_tasklet is scheduled
  tpc,       \* where req_done is
  tareq,     \* req_done's local areq
  tnew,      \* req_done's local new_req
  tfail,     \* req_done's local ret # 0
  faults,    \* memory faults some step has committed (history)
  failed     \* requests whose start_*_req failed (history)

vars == <<active, ready, hw, st, err, info, done, executed, result,
          tpend, tpc, tareq, tnew, tfail, faults, failed>>

ThreadStates == {"new", "waiting", "timedout", "rejected", "returned"}
Outcomes == [status : {"none", "ok", "fail"},
             via : {"none", "signal", "timeout", "reject"}]
NoResult == [status |-> "none", via |-> "none"]
FaultKinds == {"use_after_free", "null_deref", "wrong_request"}

DefaultInfoUninit == 7

\* int current_req_info = 0 in submit_req.
DefaultInfo == 0

FreeSlots == {s \in Slots : hw[s] = NoReq}

\* The switches of the two cipher start functions return -EINVAL before
\* setting err: start_cipher_req for a mode its switch lacks (CCM, which
\* qcedev_check_cipher_params admits below QCEDEV_AES_DES_MODE_LAST), and
\* start_offload_cipher_req for a mode other than CBC/CTR or an unknown
\* offload op, which qcedev_check_offload_cipher_params lets through.
\* start_sha_req is only reached with algorithms its switch accepts.
StartOutcomes(r) ==
  IF OpOf[r] = "sha" THEN StartResults \ {"einval"} ELSE StartResults

\* A step touching request x references freed memory once x's ioctl has
\* returned (and kfree'd it).
Touch(x) == IF st[x] = "returned" THEN {"use_after_free"} ELSE {}

(***************************************************************************)
(* submit_req, under podev->lock.                                          *)
(***************************************************************************)
SubmitNoBusyCheck(r) ==
  /\ st[r] = "new"
  /\ \E res \in StartOutcomes(r) :
       \/ /\ res = "ok" /\ FreeSlots # {}
          /\ \E s \in FreeSlots : hw' = [hw EXCEPT ![s] = r]
                                  /\ info' = [info EXCEPT ![r] = s]
          /\ active' = r
          /\ err' = [err EXCEPT ![r] = "ok"]
          /\ st' = [st EXCEPT ![r] = "waiting"]
       \/ /\ res # "ok"
          /\ active' = NoReq
          /\ err' = [err EXCEPT ![r] = IF res = "enxio" THEN "enxio" ELSE "ok"]
          /\ st' = [st EXCEPT ![r] = "rejected"]
          /\ UNCHANGED <<hw, info>>
  /\ failed' = IF st'[r] = "rejected" THEN failed \cup {r} ELSE failed
  /\ UNCHANGED <<ready, done, executed, result, tpend, tpc, tareq, tnew,
                 tfail, faults>>

Submit(r) ==
  /\ st[r] = "new"
  /\ IF active = NoReq
       THEN /\ UNCHANGED ready
            /\ \E res \in StartOutcomes(r) :
              \/ /\ res = "ok" /\ FreeSlots # {}
                 /\ \E s \in FreeSlots : hw' = [hw EXCEPT ![s] = r]
                                         /\ info' = [info EXCEPT ![r] = s]
                 /\ active' = r
                 /\ err' = [err EXCEPT ![r] = "ok"]
                 /\ st' = [st EXCEPT ![r] = "waiting"]
              \/ /\ res = "enxio" \/ (res = "ok" /\ FreeSlots = {})
                 \* the engine rejected it; creq.current_req_info is
                 \* whatever qce left in the uninitialised stack struct
                 /\ \E s \in Slots : info' = [info EXCEPT ![r] = s]
                 /\ active' = NoReq
                 /\ err' = [err EXCEPT ![r] = "enxio"]
                 /\ st' = [st EXCEPT ![r] = "rejected"]
                 /\ UNCHANGED hw
              \/ /\ res = "einval"
                 /\ active' = NoReq
                 /\ err' = [err EXCEPT ![r] = "ok"]
                 /\ st' = [st EXCEPT ![r] = "rejected"]
                 /\ UNCHANGED <<hw, info>>
       ELSE /\ ready' = Append(ready, r)
            /\ err' = [err EXCEPT ![r] = "ok"]
            /\ st' = [st EXCEPT ![r] = "waiting"]
            /\ UNCHANGED <<active, hw, info>>
  /\ failed' = IF st'[r] = "rejected" THEN failed \cup {r} ELSE failed
  /\ UNCHANGED <<done, executed, result, tpend, tpc, tareq, tnew, tfail,
                 faults>>

(***************************************************************************)
(* The thread's wait and what submit_req returns.                          *)
(***************************************************************************)
WakeIgnoringDone(r) ==
  /\ st[r] = "waiting"
  /\ st' = [st EXCEPT ![r] = "returned"]
  /\ result' = [result EXCEPT ![r] =
                  [status |-> IF err[r] = "ok" THEN "ok" ELSE "fail",
                   via |-> "signal"]]
  /\ UNCHANGED <<active, ready, hw, err, info, done, executed, tpend, tpc,
                 tareq, tnew, tfail, faults, failed>>

\* wait_for_completion_timeout returned non-zero: submit_req returns err.
Wake(r) ==
  /\ st[r] = "waiting"
  /\ done[r]
  /\ st' = [st EXCEPT ![r] = "returned"]
  /\ result' = [result EXCEPT ![r] =
                  [status |-> IF err[r] = "ok" THEN "ok" ELSE "fail",
                   via |-> "signal"]]
  /\ UNCHANGED <<active, ready, hw, err, info, done, executed, tpend, tpc,
                 tareq, tnew, tfail, faults, failed>>

\* The wait expired before the request's completion was signalled.
Timeout(r) ==
  /\ TimeoutsPossible
  /\ st[r] = "waiting"
  /\ ~done[r]
  /\ st' = [st EXCEPT ![r] = "timedout"]
  /\ UNCHANGED <<active, ready, hw, err, info, done, executed, result, tpend,
                 tpc, tareq, tnew, tfail, faults, failed>>

\* qce_manage_timeout(podev->qce, req_info): the engine resets the pipe of
\* slot s, frees the slot and runs that operation's completion callback
\* without output, which schedules the done_tasklet.
ManageTimeout(s) ==
  IF hw[s] = NoReq
    THEN UNCHANGED <<hw, tpend>>
    ELSE /\ hw' = [hw EXCEPT ![s] = NoReq]
         /\ tpend' = TRUE

\* The wait returned 0, because it expired or because the dispatch failed
\* and the wait was skipped: read the status registers, recover the slot
\* named by current_req_info, and return 0 if an anomaly was classified,
\* else -EIO for a failed dispatch, else err.
Recover(r) ==
  /\ st[r] \in {"timedout", "rejected"}
  /\ \E a \in Anomalies :
       result' = [result EXCEPT ![r] =
         [status |-> IF a # "none" THEN "ok"
                     ELSE IF st[r] = "rejected" THEN "fail"
                     ELSE IF err[r] = "ok" THEN "ok" ELSE "fail",
          via |-> IF st[r] = "rejected" THEN "reject" ELSE "timeout"]]
  /\ ManageTimeout(info[r])
  /\ st' = [st EXCEPT ![r] = "returned"]
  /\ UNCHANGED <<active, ready, err, info, done, executed, tpc, tareq, tnew,
                 tfail, faults, failed>>

(***************************************************************************)
(* The engine finishes the operation in slot s and runs its callback:      *)
(* qcedev_cipher_req_cb / qcedev_offload_cipher_req_cb copy the output IV *)
(* into podev->active_command (not into the request that finished);        *)
(* qcedev_sha_req_cb writes the handle's sha_ctxt.  Both schedule the      *)
(* done_tasklet.                                                           *)
(***************************************************************************)
CallbackFaults(r) ==
  IF OpOf[r] = "sha" THEN {}
  ELSE IF active = NoReq THEN {"null_deref"}
  ELSE IF st[active] = "returned" THEN {"use_after_free"}
  ELSE IF active # r THEN {"wrong_request"}
  ELSE {}

HwDone(s) ==
  /\ hw[s] # NoReq
  /\ hw' = [hw EXCEPT ![s] = NoReq]
  /\ executed' = [executed EXCEPT ![hw[s]] = TRUE]
  /\ tpend' = TRUE
  /\ faults' = faults \cup CallbackFaults(hw[s])
  /\ UNCHANGED <<active, ready, st, err, info, done, result, tpc, tareq,
                 tnew, tfail, failed>>

(***************************************************************************)
(* req_done, the done_tasklet handler.                                     *)
(***************************************************************************)
TryDispatchNewest ==
  IF ready = <<>>
    THEN /\ active' = NoReq /\ tnew' = NoReq /\ tfail' = FALSE
         /\ UNCHANGED <<ready, hw, err, failed>>
    ELSE LET n == Last(ready) IN
         /\ ready' = Front(ready)
         /\ active' = n
         /\ tnew' = n
         /\ \E res \in StartOutcomes(n) :
              \/ /\ res = "ok" /\ FreeSlots # {}
                 /\ \E s \in FreeSlots : hw' = [hw EXCEPT ![s] = n]
                 /\ err' = [err EXCEPT ![n] = "ok"] /\ tfail' = FALSE
                 /\ UNCHANGED failed
              \/ /\ res = "enxio" \/ (res = "ok" /\ FreeSlots = {})
                 /\ err' = [err EXCEPT ![n] = "enxio"] /\ tfail' = TRUE
                 /\ failed' = failed \cup {n}
                 /\ UNCHANGED hw
              \/ /\ res = "einval"
                 /\ err' = [err EXCEPT ![n] = "ok"] /\ tfail' = TRUE
                 /\ failed' = failed \cup {n}
                 /\ UNCHANGED hw

TryDispatchKeepErr ==
  IF ready = <<>>
    THEN /\ active' = NoReq /\ tnew' = NoReq /\ tfail' = FALSE
         /\ UNCHANGED <<ready, hw, err, failed>>
    ELSE LET n == Head(ready) IN
         /\ ready' = Tail(ready)
         /\ active' = n
         /\ tnew' = n
         /\ \E res \in StartOutcomes(n) :
              \/ /\ res = "ok" /\ FreeSlots # {}
                 /\ \E s \in FreeSlots : hw' = [hw EXCEPT ![s] = n]
                 /\ err' = [err EXCEPT ![n] = "ok"] /\ tfail' = FALSE
                 /\ UNCHANGED failed
              \/ /\ res # "ok" \/ FreeSlots = {}
                 /\ err' = [err EXCEPT ![n] = "ok"] /\ tfail' = TRUE
                 /\ failed' = failed \cup {n}
                 /\ UNCHANGED hw

\* Lines "again:" to the unlock, with active_command already NULL: start
\* the head of ready_commands, if any, as the new active_command.
TryDispatch ==
  IF ready = <<>>
    THEN /\ active' = NoReq /\ tnew' = NoReq /\ tfail' = FALSE
         /\ UNCHANGED <<ready, hw, err, failed>>
    ELSE LET n == Head(ready) IN
         /\ ready' = Tail(ready)
         /\ active' = n
         /\ tnew' = n
         /\ \E res \in StartOutcomes(n) :
              \/ /\ res = "ok" /\ FreeSlots # {}
                 /\ \E s \in FreeSlots : hw' = [hw EXCEPT ![s] = n]
                 /\ err' = [err EXCEPT ![n] = "ok"] /\ tfail' = FALSE
                 /\ UNCHANGED failed
              \/ /\ res = "enxio" \/ (res = "ok" /\ FreeSlots = {})
                 /\ err' = [err EXCEPT ![n] = "enxio"] /\ tfail' = TRUE
                 /\ failed' = failed \cup {n}
                 /\ UNCHANGED hw
              \/ /\ res = "einval"
                 /\ err' = [err EXCEPT ![n] = "ok"] /\ tfail' = TRUE
                 /\ failed' = failed \cup {n}
                 /\ UNCHANGED hw

DispatchFaults == IF ready = <<>> THEN {} ELSE Touch(Head(ready))

TaskletStartKeepPending ==
  /\ tpend /\ tpc = "idle"
  /\ tareq' = active
  /\ TryDispatch
  /\ faults' = faults \cup DispatchFaults
  /\ tpc' = "signal"
  /\ UNCHANGED <<st, info, done, executed, result, tpend>>

\* The tasklet runs: take active_command as the finished request, clear it
\* and dispatch the next one, all under podev->lock.
TaskletStart ==
  /\ tpend /\ tpc = "idle"
  /\ tpend' = FALSE
  /\ tareq' = active
  /\ TryDispatch
  /\ faults' = faults \cup DispatchFaults
  /\ tpc' = "signal"
  /\ UNCHANGED <<st, info, done, executed, result>>

Signalled == {x \in {tareq} : x # NoReq} \cup {x \in {tnew} : tfail}

TaskletCompleteNoNew ==
  /\ tpc = "signal"
  /\ done' = [x \in Reqs |-> done[x] \/ (x = tareq /\ st[x] # "returned")]
  /\ faults' = faults \cup UNION {Touch(x) : x \in {y \in {tareq} : y # NoReq}}
  /\ tpc' = IF tfail THEN "retry" ELSE "idle"
  /\ UNCHANGED <<active, ready, hw, st, err, info, executed, result, tpend,
                 tareq, tnew, tfail, failed>>

\* Outside the lock: complete(&areq->complete), and complete(&new_req->
\* complete) when starting new_req failed.
TaskletComplete ==
  /\ tpc = "signal"
  /\ done' = [x \in Reqs |-> done[x] \/ (x \in Signalled /\ st[x] # "returned")]
  /\ faults' = faults \cup UNION {Touch(x) : x \in Signalled}
  /\ tpc' = IF tfail THEN "retry" ELSE "idle"
  /\ UNCHANGED <<active, ready, hw, st, err, info, executed, result, tpend,
                 tareq, tnew, tfail, failed>>

TaskletRetryNoLoop ==
  /\ tpc = "retry"
  /\ active' = NoReq
  /\ tareq' = NoReq /\ tnew' = NoReq /\ tfail' = FALSE
  /\ tpc' = "idle"
  /\ UNCHANGED <<ready, hw, st, err, info, done, executed, result, tpend,
                 faults, failed>>

\* After a failed start: retake the lock, clear active_command and
\* "goto again" with areq = NULL.
TaskletRetry ==
  /\ tpc = "retry"
  /\ tareq' = NoReq
  /\ TryDispatch
  /\ faults' = faults \cup DispatchFaults
  /\ tpc' = "signal"
  /\ UNCHANGED <<st, info, done, executed, result, tpend>>

(***************************************************************************)
(* The specification.                                                      *)
(***************************************************************************)

\* qcedev_probe_device: empty ready_commands, no active_command, tasklet
\* initialised; each ioctl's request is kzalloc'ed (err = 0, not signalled).
Init ==
  /\ active = NoReq
  /\ ready = <<>>
  /\ hw = [s \in Slots |-> NoReq]
  /\ st = [r \in Reqs |-> "new"]
  /\ err = [r \in Reqs |-> "ok"]
  /\ info = [r \in Reqs |-> DefaultInfo]
  /\ done = [r \in Reqs |-> FALSE]
  /\ executed = [r \in Reqs |-> FALSE]
  /\ result = [r \in Reqs |-> NoResult]
  /\ tpend = FALSE
  /\ tpc = "idle"
  /\ tareq = NoReq /\ tnew = NoReq /\ tfail = FALSE
  /\ faults = {}
  /\ failed = {}

Next ==
  \/ \E r \in Reqs : Submit(r) \/ Wake(r) \/ Timeout(r) \/ Recover(r)
  \/ \E s \in Slots : HwDone(s)
  \/ TaskletStart \/ TaskletComplete \/ TaskletRetry

\* The engine eventually finishes what it accepted, the tasklet runs once
\* scheduled, a woken or expired thread resumes.  Nothing forces an ioctl
\* to be made.
Fairness ==
  /\ \A s \in Slots : WF_vars(HwDone(s))
  /\ WF_vars(TaskletStart) /\ WF_vars(TaskletComplete) /\ WF_vars(TaskletRetry)
  /\ \A r \in Reqs : WF_vars(Wake(r)) /\ WF_vars(Timeout(r)) /\ WF_vars(Recover(r))

Spec == Init /\ [][Next]_vars /\ Fairness

(***************************************************************************)
(* Properties.                                                             *)
(***************************************************************************)

TypeOK ==
  /\ active \in Reqs \cup {NoReq}
  /\ ready \in Seq(Reqs)
  /\ hw \in [Slots -> Reqs \cup {NoReq}]
  /\ st \in [Reqs -> ThreadStates]
  /\ err \in [Reqs -> {"ok", "enxio"}]
  /\ info \in [Reqs -> Slots]
  /\ done \in [Reqs -> BOOLEAN] /\ executed \in [Reqs -> BOOLEAN]
  /\ result \in [Reqs -> Outcomes]
  /\ tpend \in BOOLEAN /\ tpc \in {"idle", "signal", "retry"}
  /\ tareq \in Reqs \cup {NoReq} /\ tnew \in Reqs \cup {NoReq}
  /\ tfail \in BOOLEAN
  /\ faults \subseteq FaultKinds
  /\ failed \subseteq Reqs

\* Single server: whatever the engine is executing for qcedev is the
\* request in active_command, so at most one request is on the engine and
\* the callbacks' use of active_command finds the request that finished.
\* Breaks if submit_req or req_done start a request while another is active.
SingleServer == \A s \in Slots : hw[s] # NoReq => hw[s] = active

\* No stranded request: whenever active_command is NULL, ready_commands is
\* empty.  Only a completion runs req_done, so a request left queued
\* behind a NULL active_command would never be started.
NoStrandedRequest == active = NoReq => ready = <<>>

\* Memory safety of the queue: no callback, tasklet step or list operation
\* ever dereferences a request whose ioctl has returned and freed it, nor
\* NULL, nor writes one request's output into another.
NoMemoryFault == faults = {}

\* A request reported successful (submit_req returned 0) was executed by
\* the engine: the ioctl copies its buffers out as the operation's output.
SuccessMeansExecuted ==
  \A r \in Reqs : result[r].status = "ok" => executed[r]

\* Spec section 7: a timed-out plain cipher or hash request is reported to
\* its caller as an I/O failure (only offload requests report the anomaly
\* in the descriptor and return 0).
TimeoutIsFailure ==
  \A r \in Reqs : (result[r].via = "timeout" /\ OpOf[r] # "offload")
                    => result[r].status = "fail"

\* Spec section 4.4: when start_*_req fails, the request is completed
\* with the failure; whether the start failed in submit_req or in the
\* tasklet's req_done, the caller never sees submit_req return 0 for it.
DispatchFailureReported ==
  \A r \in failed : result[r].status # "ok"

\* The abstract queue seen in the driver's state: ready_commands is the
\* queue and active_command the server, started unless req_done's start
\* of it has just failed (the window between complete(&new_req->complete)
\* and the retaken lock that clears active_command).
Phase == [r \in Reqs |-> IF st[r] \in {"new", "returned"} THEN st[r] ELSE "waiting"]

QA == INSTANCE QueueAbstract
        WITH queue <- ready, server <- active,
             started <- active # NoReq /\ ~(tfail /\ tnew = active),
             phase <- Phase

\* Spec section 3: submit_req and req_done implement a single-server FIFO
\* queue: every request is started in arrival order, one at a time, no
\* caller returns while its request is queued or running, and every
\* served request is retired and its caller returns.
QueueRefinement == QA!Spec

\* Every submitted request eventually returns to its caller.
EveryRequestReturns ==
  \A r \in Reqs : (st[r] # "new") ~> (st[r] = "returned")

=============================================================================
