# TLA+ models of the sm8550 kernel modules

This directory holds TLA+ specifications of the parts of the kernel modules
under `src/` whose behaviour turns on concurrency, ordering or arithmetic
edges, with the TLC configurations that check them. `PROJECT.json` records:

- every component, and whether it is modelled;
- every run and what it shows;
- the mutant that each checked property must catch;
- the source lines behind each definition;
- the findings;
- the hazards the code is exposed to.

## The system

| Part | Source | What it does |
|------|--------|--------------|
| qcedev | `src/crypto-qti/qcedev.c` | Character device in front of the Qualcomm crypto engine (qce). See below. |
| mmi_sys_temp | `src/motorola/drivers/misc/mmi_sys_temp/mmi_sys_temp.c` | Virtual thermal zones whose temperatures user space sets by ioctl. A power-supply notifier work item reads "listener" zones. `uevent_generate` emits a uevent when a sensor crosses a threshold and its whole-degree value changed. |
| sem1217s | `src/qcom/.../cam_ois/cam_ois_sem1217s.c` | Firmware update of an OIS controller: version check, register handshake, 256-byte burst download with a 16-bit checksum, error check, reset, version re-check. |
| headers | `nfc/common.h`, `aw9610x_reg.h`, `mmi_device.h`, `dataipa_le.h` | Register maps and declarations only. |

### qcedev in detail

Every ioctl allocates a `qcedev_async_req` and runs `submit_req` on it in
the caller's thread. The ioctls are cipher, offload cipher, SHA, HMAC,
CMAC and buffer map/unmap.

- **Queue.** `submit_req` takes `podev->lock`. The request then either
  becomes `active_command` and is started on the engine, or is appended
  to `ready_commands`.
- **Completion.** The engine's completion callback schedules
  `done_tasklet`. Its handler, `req_done`, retires the active request,
  starts the next one and signals the waiter.
- **Timeout.** A wait that expires after `MAX_CRYPTO_WAIT_TIME` reads the
  status registers (`qcedev_check_crypto_status`). It then asks the engine
  to abort the slot (`qce_manage_timeout`) and returns. The ioctl frees
  the request in every case.
- **Around the queue:**
  - Buffer chunking splits user buffers into engine-sized pieces
    (`qcedev_vbuf_ablk_cipher*`, `qcedev_sha_update*`).
  - The per-handle hash context (`sha_ctxt`) is guarded by
    `hash_access_lock` and the `init_done` flag.
  - Parameter validation (`qcedev_check_*`) uses u32 overflow checks.
  - A bandwidth vote reference count (`high_bw_req_count`) drives the
    clocks, and suspend/resume switches them.

### How the parts interact

qcedev, mmi_sys_temp and sem1217s share no state. Within qcedev:

- The ioctl threads, the qce completion callbacks (interrupt context) and
  the tasklet all interact through `podev->active_command`,
  `podev->ready_commands` and each request's completion.
- The hash ioctls of one handle also share `handle->sha_ctxt`, which the
  SHA callback writes.

## Modules

### QcedevQueue (`QcedevQueue.tla`, `MC_QcedevQueue.tla`)

This module models the request queue and the completion and timeout path.
A request is a model value with an operation type (cipher, offload, sha).
The data it carries is abstracted away. The module tracks:

- which thread, tasklet or callback holds a reference to each request;
- whether the request is still allocated;
- what `submit_req` returned.

| Variable | Code |
|----------|------|
| `active`, `ready` | `podev->active_command`, `podev->ready_commands` |
| `hw[s]` | the request the engine runs in request-info slot `s` |
| `st[r]` | where request r's ioctl thread is |
| `err[r]` | `qcedev_areq->err` |
| `info[r]` | the thread's local `current_req_info` |
| `done[r]` | completion signalled |
| `executed[r]` | the engine ran the operation |
| `result[r]` | status returned, and whether by signal, timeout or rejected start |
| `tpend`, `tpc`, `tareq`, `tnew`, `tfail` | tasklet scheduled, and `req_done`'s program counter and locals |
| `faults` | memory faults committed (history) |
| `failed` | requests whose start failed (history) |

| Action | Code |
|--------|------|
| `Submit(r)` | `submit_req` up to the unlock, including the three possible start outcomes (`StartOutcomes`) |
| `Wake(r)` | the wait returns because the request was signalled |
| `Timeout(r)` | the wait expires |
| `Recover(r)` | the `!wait` branch, with `ManageTimeout` |
| `HwDone(s)` | the engine finishes slot `s` and runs the completion callback; `CallbackFaults` is the cipher callbacks' write through `active_command` |
| `TaskletStart` | `req_done` from its entry, with `TryDispatch`, up to the unlock |
| `TaskletComplete` | the two `complete()` calls |
| `TaskletRetry` | the `goto again` after a failed start |

`qce_manage_timeout` lives in the qce driver, outside `src/`. It is
modelled from its contract: it frees the slot and runs the operation's
callback, which schedules the tasklet.

The model checks these properties:

- **`SingleServer`**: the engine only ever runs `active_command`.
- **`NoStrandedRequest`**: `active_command == NULL` implies the ready list
  is empty.
- **`NoMemoryFault`**: no step uses a freed request or NULL, or writes into
  the wrong request.
- **`DispatchFailureReported`**: a failed start is never reported as
  success.
- **`SuccessMeansExecuted`**: success implies the engine ran the request.
- **`TimeoutIsFailure`**: a timed-out cipher or hash request is reported
  as a failure.
- **`EveryRequestReturns`**: every ioctl returns (liveness).
- **`QueueRefinement`**: the queue implements `QueueAbstract` (below).

### QcedevCipherChunker (`QcedevCipherChunker.tla`, `MC_QcedevCipherChunker.tla`)

This module models `qcedev_vbuf_ablk_cipher` and `qcedev_vbuf_ablk_cipher_max_xfer`:
how a cipher request larger than one engine operation is fed to the engine.

- A source byte is named `<<entry, offset>>`, by the user buffer it came
  from and its offset in it. The cipher is the identity on these names, so
  the destination bytes can be compared with the source.
- `QCE_MAX_OPER_DATA` is `MaxOper` and `QCEDEV_MAX_BUFFERS` is `MaxBuffers`,
  both scaled down.
- `Whole` sends a request that fits in one operation.
- `Big` cuts a buffer longer than one operation.
- `Group` gathers several buffers into one operation. It compacts them to
  the front of the array when `i > 0`, and counts the CTR `byteoffset`.
- `Restore` puts the caller's buffer list back.
- `MaxXfer` is the copy-in, in-place cipher and copy-out (`CopyOut`,
  RECURSIVE), with failure of the copy or of `submit_req` when
  `XferMayFail`.

The properties:

- **`OutputIsSource`**: the destination receives the source bytes in order.
- **`DstWithinEntries`**: the copy-out never walks past the destination
  entries.
- **`Terminates`**: the split loop returns.
- **`SrcWithinArray`** is also stated; see "Observations without a run".

### QcedevShaUpdate (`QcedevShaUpdate.tla`, `MC_QcedevShaUpdate.tla`)

This module models the data path of the SHA ioctls on one handle:
`qcedev_sha_init`, `qcedev_sha_update` with its split loop,
`qcedev_sha_update_max_xfer`, `qcedev_sha_final`, and the INIT, UPDATE,
FINAL and GET_SHA cases of `qcedev_ioctl`.

- **Bytes.** A byte is named `<<call, entry, offset>>`.
- **Engine passes.** `sent` is the sequence of passes handed to the
  engine. Each pass is `[data, first, last]`, with `first_blk` and
  `last_blk` as `start_sha_req` passes them.
- **Messages.** `fed` is every byte the caller has given since the last
  INIT.
- **Failures.** `FailModes` lets `kmalloc` fail (`alloc`), `copy_from_user`
  fail (`fault`) and `submit_req` fail (`submit`). Each failure takes the
  code's own error path.
- **Actions:**
  - `IoctlInit`, `IoctlUpdate`, `IoctlFinal` and `IoctlGetSha` are the
    ioctl cases.
  - `Big`, `Group` and `Restore` are the three branches of the split loop
    in `qcedev_sha_update`.
  - `MaxXfer` and `Final` are the operators for the two functions that
    talk to the engine.
- **Sizes.** `Block` stands for `QCE_SHA_BLOCK_SIZE`.

The properties:

- **`PassesWellFormed`**: in a session with no failed call, only the last
  pass may be shorter than a block, and only the first pass has
  `first_blk` set.
- **`StreamPreserved`**: the passes followed by the trailing buffer are
  exactly the bytes fed. A valid digest covers exactly the message.
- **`LoopProgress`**: every turn of the split loop strictly decreases
  `Unsent`, so under the weak fairness of `Loop` the loop returns. It is
  checked as an action property, not as a `~>` property, because that
  takes about 70 times less time.
- **`DataWithinArray`**: the loop's `data[i]` write stays inside the array.
- **`TrailingBelowBlock`** is also stated; see "Observations without a
  run".

### QcedevHashSession (`QcedevHashSession.tla`, `MC_QcedevHashSession.tla`)

This module models the hash ioctls of one handle issued by several
threads, with `hash_access_lock` and `init_done`. The hashed bytes are
abstracted away, because `QcedevShaUpdate` models them.

- **`owner`** is the ioctl that last seeded the context. It is 0 once
  `sha_final` has cleared it.
- **Split ioctls.** Each ioctl is split where the code leaves the lock:
  - INIT into `InitRegion` and `InitPost`. `InitPost` is the write of
    `init_done` after the unlock, at line 2188.
  - FINAL into `FinalCheck`, `FinalRegion` and `FinalPost`. These are the
    unlocked check at 2256 and the write after the unlock at 2296.
  - GET_SHA into three steps, all under the lock. `GetShaInit` ignores
    the result of `qcedev_hash_init` (2316), as the code does.
- **`HashInitResults`** and **`Seeded`**: `qcedev_hash_init`, which goes to
  `qcedev_set_hmac_auth_key` for HMAC. With `KeyMayFail`, the key copy
  (1184) or the key hash (1210-1214) can fail after `sha_init` has set
  `init_done`. The INIT then returns an error, and the context is marked
  initialised with `owner = 0`.
- **`Cmac`** is GET_CMAC, or SHA_UPDATE with AES-CMAC, under the lock.
  With `CmacHw`, `qcedev_hash_cmac` (1117-1174) does not test
  `init_done`. It overwrites `sha_ctxt.authkey`, `diglen` and, through
  its callback, the digest. An open session then belongs to no INIT, so
  `owner` becomes -1. Without `CmacHw` the request is refused (2192).
- **`stale`** records what a later accepted UPDATE or FINAL found: a
  context already cleared (`"cleared"`), or a context overwritten by a
  CMAC (`"cmac"`).
- **`HashFinal`** is the set of outcomes of `qcedev_hash_final`:
  - With software HMAC, `hmac_final` calls `sha_final` a second time,
    and that call finds `init_done` cleared.
  - With `Faults`, `sha_final`'s kmalloc may fail. It then returns
    -ENOMEM with `init_done` still set (1089-1090).
- **Other error returns with `Faults`:**
  - the `copy_to_user` after INIT (2183-2186) and after FINAL
    (2291-2295) may fail, so the ioctl returns before its `init_done`
    write;
  - the update inside GET_SHA may fail, and GET_SHA unlocks and returns
    with the context still initialised.

The properties:

- **`UpdateOnOpenSession`**: no accepted UPDATE or FINAL works on a
  context that has already been cleared. It is violated; see the run
  `hash_stale_update`.
- **`NoLostInit`**: no UPDATE or FINAL of an open session is rejected.
- **`NoCmacInSession`**: no UPDATE or FINAL is accepted on a session a
  CMAC has overwritten.

Every one of these is violated, by two threads or by one thread with a
feature enabled. With one thread and none of those features they hold,
but then nothing in the model can break them. So the module has no
passing run: its one run shows the race the code really has.

### QueueAbstract (`QueueAbstract.tla`)

This is what spec section 3 promises of the queue: one request at a time
on the engine, the rest served in arrival order, and every caller
returning once its request is neither queued nor served. It has:

- `queue`, the waiting requests;
- `server`, the request holding the engine;
- `started`, whether the engine accepted that request;
- `phase`, each caller's progress.

Its actions are `Arrive`, `Retire` and `Return`. `QcedevQueue` maps onto it
(`QA == INSTANCE QueueAbstract WITH ...`):

- `queue` is `ready`, `server` is `active`, and `phase` collapses `st`;
- `started` is FALSE while `req_done` holds a request whose start failed
  (`tfail`).

`req_done` calls `complete()` on such a request before it retakes the lock
and clears `active_command` (qcedev.c:334-338). A caller can therefore
return while its request is still the server, and the abstract `Return`
allows this only for a request that was not started. The refinement is
checked as the `PROPERTY QueueRefinement` of `queue_no_timeout`. Its
fairness, WF of `Retire` and of each `Return`, is checked too: a queue
that stops serving violates it.

### QcedevValidator (`QcedevValidator.tla`, `MC_QcedevValidator.tla`)

This module models the parameter checks the ioctls run after
`copy_from_user`: `qcedev_check_cipher_key` and `_params`,
`qcedev_check_offload_cipher_key` and `_params`, and
`qcedev_check_sha_params`.

- **State.** The request (`req`) is chosen in `Init` from every request
  a caller can pass. `verdict` is "pending", "ok" (0) or "einval".
- **Actions.** `CipherIoctl`, `OffloadIoctl` and `ShaIoctl` apply the
  check of their ioctl.
- **Lengths.** Lengths are u32 scaled to `Width` bits (`U32Max =
  2^Width - 1`). `Accumulate` is the code's `for` loop:
  - a NULL-vaddr test, where the loop has one;
  - the overflow test, `>` for sources and `>=` for destinations;
  - the wrapping addition, `Add32`.
- **Inputs.** Non-length fields vary over every combination on one valid
  segment layout. Segment layouts vary over every combination on valid
  other fields. The checks on the two are independent conjuncts, except
  for the byte-offset rules, which both vary.

The properties:

- **`AcceptedLengthsExact`**: for every accepted request, the segment
  lengths, summed over the unbounded integers, equal `data_len`, and no
  NULL segment has a length. It is checked against the plain sum
  (`NatSum`), so an overflow test that is missing or off by one shows up
  as a wrapped sum that was accepted.
- **`TypeOK`**: an accepted request has `1..MAX_BUFFERS` entries.
- **`LengthsAccepted`**, **`XtsKeyDoubleLength`** and
  **`OffloadModeStartable`** are stated too; see "Observations without a
  run".

### QcedevBandwidth (`QcedevBandwidth.tla`, `MC_QcedevBandwidth.tla`)

This module models the bandwidth vote and the clocks. Every operation
runs under the `qcedev_sent_bw_req` mutex, so each is one step.

| Variable | Code |
|----------|------|
| `high_bw_req_count` | `podev->high_bw_req_count` |
| `req_bw_before_clk` | `ce_support.req_bw_before_clk`, chosen at probe |
| `clk` | enable count of the engine clocks (`qce_enable_clk`/`qce_disable_clk`) |
| `bw` | the interconnect vote set by `icc_set_bw` |
| `opened`, `suspended` | handles whose `qcedev_open` ran; between suspend and resume |
| `unbalanced`, `errored` | history: a disable found the clock off; `qcedev_control_clocks` returned an error |

| Action or operator | Code |
|--------------------|------|
| `Order(enable)` | the `control_flag` choice: two calls and the undo of the first |
| `ControlClocks` | `qcedev_control_clocks`: first call fails and returns the error; both succeed; the second fails and the undo's own result is returned; the undo fails too |
| `HighBwReq` | `qcedev_ce_high_bw_req`: switch on the 0→1 and 1→0 edges, count only on a 0 return |
| `Open(h)`, `Release(h)` | `qcedev_open`, `qcedev_release`, which ignore the vote's result |
| `Suspend`, `Resume` | switch when the count is non-zero and ignore the result |

The clock and interconnect drivers are outside `src/` and are modelled
by their contract. A failed call changes nothing. A disable of a clock
that is off is recorded in `unbalanced`, which is what the clock
framework warns about. User tasks are frozen across system suspend, so
open and release wait for resume.

The properties:

- **`ClocksFollowVotes`**: as long as `qcedev_control_clocks` has
  returned no error, the count equals the open handles, and the clock
  (enabled once) and the bus vote are on exactly while a handle is open
  and the device is awake. This is what `qcedev_ce_high_bw_req` assumes
  when it counts a vote on a 0 return.
- **`NoUnbalancedDisable`**: no disable finds the clock off. It is
  stated and violated; see "Observations without a run".

### MmiSysTemp (`MmiSysTemp.tla`, `MC_MmiSysTemp.tla`)

The actors are the ioctl threads (`Threads`) and the `psy_changed_work`
item (`Worker`). Probe and remove come from the driver core, one at a
time. Both are split at their zone loops, because the thermal core may
read a registered zone at any moment. No file and no power-supply
event can reach the device before probe returns.

| Variable | Code |
|----------|------|
| `drv` | `sys_temp_dev`: NULL (`"unprobed"`); live while probing, unwinding, bound or removing; or freed by a failed probe or by remove. The global is never cleared. |
| `zones` | the sensors whose thermal zone is registered |
| `pi`, `nreg` | the loop index `i + 1` of probe or remove, and probe's `num_registered` |
| `badunreg` | a cleanup loop unregistered a zone that was never registered (history) |
| `notifier` | `psy_nb` is on the power-supply chain |
| `temp`, `pre_temp` | `sensor[i].temp` and `.pre_temp` |
| `ltemp` | `sensor_listener[i].temp` |
| `pending` | the work item is queued |
| `reported` | TEMP of each sensor's last uevent (history) |
| `uaf`, `oob` | a freed `sys_temp_dev` was dereferenced; `sensor[]` was indexed past `num_sensors` (history) |

The actions:

- **Probe:**
  - `ProbeStart` is the allocations. A failed sensor-array allocation
    leaves the global pointing at memory that devres frees.
  - `ProbeRegister` is one turn of the zone loop. Either the name read
    or the registration fails, or the zone is registered and
    `num_registered = i + 1` (`NumRegistered`).
  - `ProbeFinish` is `misc_register`, which may fail, then the listener
    lookups. The notifier is registered only when every listener zone is
    found.
  - `ProbeUnwind` and `ProbeFree` are `err_thermal_unreg`: one zone per
    step for `i < num_registered` (`Unregister`), then the free.
- **Remove:** `Remove`, then `RemoveUnreg` once per sensor, then
  `RemoveFree` (`misc_deregister` and the free). Remove does not
  unregister the notifier or cancel the work (436-448).
- **`Open`**, **`Close`** and **`SetTemp`** are the misc-device file
  operations. `SetTemp` stores the value and then runs `uevent_generate`
  on that sensor, with no lock.
- **`uevent_generate` is three steps**, so that a concurrent write can
  fall between its reads of `temp`:
  - `UeCheck`: `need_uevent`, the threshold, and whether the whole degree
    (`temp / 1000`) differs from `pre_temp / 1000` (62-73);
  - `UeAlloc`: the allocation, which may fail, and `pre_temp = temp`
    (75-81);
  - `UeSend`: the uevent, whose TEMP is read again (83-94). With
    `UeventMayFail`, `kobject_uevent_env` may fail after `pre_temp` was
    set.
- **`PsyChanged`** is the notifier, which queues the work.
- **`WorkStart`** and **`WorkRead`** run the work: for each listener it
  reads the listener's zone and calls `uevent_generate(i)` with the
  listener index `i` (250-258). `Return` ends a `uevent_generate` and
  steps the loop.

The properties:

- **`ZonesOnLiveDevice`**: no zone is still registered once
  `sys_temp_dev` is freed, and no cleanup loop unregisters a zone that
  was never registered (that would be the ERR_PTR of the zone that
  failed). This needs `num_registered` to follow the zone loop at
  whichever turn it fails, and needs remove to unregister before it
  frees.
- **`HotTempReported`**: when every actor is idle, each `need_uevent`
  sensor at or above the threshold has had a uevent in the degree it now
  holds. It is violated; see the run `sys_temp_stale_uevent`.
- **`NoUseAfterFree`** and **`SensorIndexInRange`** are stated and
  violated; see "Observations without a run".

### Sem1217sFwUpdate (`Sem1217sFwUpdate.tla`, `MC_Sem1217sFwUpdate.tla`)

This is `sem1217s_fw_update`, one step per I2C transfer. `pc` names the
transfer. Any transfer may fail (`Fail`), and the function then returns
-EINVAL at once.

- **Values.** A u32 is kept as its four bytes, most significant first,
  so that `Swap32` (`sem1217s_cci_read_u32_little_endian`) and the image
  version load (`ImgVer`) are what they do to bytes. `Swap16` is the
  u16 swap of `sem1217s_cci_write_u16_little_endian`.
- **The checksum.** `ChunkSum` is the inner loop of the download. At
  every odd `i` it adds `(buff[i] << 8) | buff[i-1]` to a u16 (223-242).
- **The chip is outside `src/`, so it is modelled by its register
  contract:**
  - `REG_APP_VER` reads back the image's version bytes in order;
  - the checksum register is little-endian, and a WORD write puts its
    high byte on the bus first (`ChipWord`);
  - the chip sums what it received in little-endian words, an odd last
    byte counting as a word of its own (`ChipSum`). It sets `FWUP_ERR`
    when the sums differ;
  - a reset boots the new image only when `FWUP_ERR` is clear;
  - a failed transfer changes nothing on the chip.

The properties:

- **`SuccessMeansInstalled`**: a return of 0 means the chip runs the
  image. This needs the version read, the swap, and the image load to
  agree, both on the skip path and after the download.
- **`InstallsWhenNoFault`**: with no failed transfer, an image of whole
  16-bit words is installed. This needs the chunked u16 sum, its swap on
  the way to `REG_FWUP_CHKSUM`, and the chip's sum to agree.
- **`LeavesDownloadMode`** is stated and violated; see "Observations
  without a run".

## Runs

| Run | Expect | Shows |
|-----|--------|-------|
| `queue_no_timeout` | pass | Engines answer in time and may reject a start (-ENXIO). No step touches a freed, NULL or wrong request, every failed start reaches its caller as a failure, every ioctl returns, and the queue refines `QueueAbstract`. |
| `queue_all_faults` | pass | Every start failure, timeout and status anomaly is enabled. The engine serves one request at a time, and nothing is stranded in `ready_commands`. |
| `queue_reject_recovery` | violation | A start rejected in `submit_req` goes down the timeout path and aborts the slot named by `current_req_info`. That slot may hold another, running request, which is then completed without output and reported successful. |
| `chunker_no_offset` | pass | Without a CTR byte offset, with chunks that may fail, the output is the input, the copy-out stays in the destination entries, and the loop returns. |
| `sha_stream` | pass | Sessions of up to three SHA ioctls, with every allocation, copy and start able to fail. The trailing buffer stays within one block, the split loop terminates, and in a session with no failed call the engine receives the message in order, in well-formed passes. |
| `sha_data_index` | violation | An update whose last buffer is gathered whole writes `data[entries]`, one past the array once `entries == QCEDEV_MAX_BUFFERS`. |
| `hash_stale_update` | violation | Two threads run SHA sessions on one handle. Thread 1's INIT sets `init_done = true` after the unlock (qcedev.c:2188), after thread 2's FINAL has cleared the context. The next UPDATE is then accepted on a context no INIT opened. |
| `validator` | pass | For every request the cipher, offload and SHA checks accept, the lengths sum to `data_len` with no wrap-around, and no NULL buffer has a length. |
| `bandwidth_votes` | pass | Three handles are opened and released in any order around suspend and resume, on engines of either call order, and the first call of `qcedev_control_clocks` may fail. Until a call reports an error, the count is the number of open handles and the clock and vote follow it. |
| `sys_temp_lifecycle` | pass | Two threads and the work item, with probe failing at any registration, allocations that fail, and remove while files are open. Probe fails at any turn of its zone loop or at `misc_register`, and remove unregisters zone by zone. No zone outlives the freed device, and no cleanup unregisters a zone that was never registered (about 2.4M states). |
| `sys_temp_stale_uevent` | violation | One thread sets a hot temperature, and `uevent_generate` reads it for the check and for `pre_temp`. The thread then sets a cool one before the TEMP read, so the uevent reports the cool value. `pre_temp` keeps the hot degree, so the next write of that degree sends no uevent (mmi_sys_temp.c:83). |
| `ois_fw_update` | pass | Every image of 4 to 6 bytes, on a chip running the image's version, another one, or none. Any transfer may fail. A return of 0 means the chip runs the image, and with no failure an even-length image is always installed. |

### Bounds

The queue runs use three requests, one of each operation type, and two
engine slots. That is enough for:

- one request to be active while another is queued;
- a third submission to arrive while the tasklet runs;
- a recovery to name a slot that another request occupies.

The chunker runs use `MaxOper = 4`, `MaxBuffers = 3`, and buffer lengths
from `MCLens`. These let a request need:

- a single operation;
- a cut of one buffer over several operations;
- a group of buffers;
- a group that ends at the array's last entry.

The SHA runs use `Block = 2`, `MaxOper = 4`, `MaxBuffers = 2`, buffer
lengths `{0, 1, 3, 5}` and up to three ioctls. That reaches:

- an update that stays in the trailing buffer (total ≤ one block);
- an update with a partial trailing block;
- one with an exact multiple of a block;
- a buffer longer than `MaxOper` (the `Big` branch);
- compaction after `i > 0`.

The session run uses two threads and four ioctls: INIT, FINAL and
UPDATE, plus one to spare. Its violation needs five steps.

The validator run uses `Width = 3` (u32 sums wrap at 8), lengths
`{0, 1, 2, 7}`, `MaxBuffers = 2` and `Block = 2`. A length of 7 (`U32_MAX`)
next to a length of 1 or 2 reaches both overflow tests, both at equality
and one past it. Entry counts run from 0 to `MaxBuffers + 1`. Its 307,572
states are the distinct requests.

The bandwidth runs use three handles (symmetric) and `CountBound = 4`.
Open and release wait when the count reaches ±4, and suspend waits when
the clock enable count reaches 4. Three handles give a first open, a
vote riding on it, and a last release that is not the first one.
Failures can drive the count below zero and double the clock enable;
the bound stops these drifts, and there the model still has an action
enabled.

The mmi_sys_temp runs use two sensors, only the first marked
`need_uevent`, and two listeners. That gives a sensor that never reports
and a listener index that is also a sensor. `Temps` is
`{0, 40300, 40700, 41000}`: below the threshold, two values in one
degree, and the next degree. The lifecycle run has two threads
(symmetric), which lets one file stay open across a remove. The
stale-uevent run needs only one thread, because the work item is the
second actor. With `NumListeners = 0` and one thread, `HotTempReported`
holds (905 states). So the race needs the work item.

The sem1217s run scales the chunk from 256 to 4 bytes, and the version
offset from 12 bytes before the end to 4. Images of 4 to 6 bytes from
`{0, 1, 255}` then cover:

- one chunk, a full chunk and a short one, and an odd length;
- a sum that wraps the u16;
- bytes that differ under a swap.

The version may be blank, the image's own, or another one. The chip
versions include one that equals the image's only after a byte swap.

Every run except the bandwidth runs turns deadlock checking off. Once the ioctls the model allows
have returned, the driver idles, which is the correct final state.

## Fairness

`QcedevQueue.Spec` assumes weak fairness of:

- `HwDone`: the engine finishes what it accepted, or a timeout path
  aborts it;
- the three tasklet steps: a scheduled tasklet runs;
- `Wake`, `Timeout` and `Recover`: a thread whose wait can end resumes.

Submissions carry no fairness: nothing forces user space to make an
ioctl. The tasklet and the interrupt are driven by the kernel and the
hardware, which is what justifies the fairness on them.

`QcedevCipherChunker` and `QcedevShaUpdate` assume weak fairness of the
split loop. It runs in the ioctl thread without waiting on anything
except `submit_req`, whose return the queue model checks.
`QcedevHashSession`, `QcedevValidator`, `MmiSysTemp` and
`Sem1217sFwUpdate` have no fairness, because their properties are
safety.

## Observations without a run

Each of these is a property stated in a module and violated under a small
change of a cfg. No run is kept for them: the checker keeps at most twelve
runs, and the runs above either show the same code path or ask a
question no other run asks.

- **`TimeoutIsFailure`** (QcedevQueue). With the constants of
  `QueueNoTimeout.cfg` with `TimeoutsPossible = TRUE`, a timeout with
  clean status registers returns 0:
  `err` is never set (qcedev.c:781).
- **`DispatchFailureReported`** (QcedevQueue). Two changes of
  `QueueNoTimeout.cfg` violate it:
  - Add `"einval"` to `StartResults`. Then a start that returns -EINVAL
    without setting `err` is reported as success. This happens in
    `start_cipher_req` for a mode its switch lacks (CCM, which
    `qcedev_check_cipher_params` admits; qcedev.c:437), and in
    `start_offload_cipher_req` for ECB or an unknown op (559).
  - Add an anomaly, such as `"generic"`, to `Anomalies`. Then a
    rejected start whose status registers show it returns 0 at 776-778,
    before `err` is set to -EIO.
- **`SrcWithinArray`** (QcedevCipherChunker). With `ByteOffsets = {0}`,
  a group that ends the source list reads `vbuf.src[entries]`
  (qcedev.c:1586).
- **`TrailingBelowBlock`** (QcedevShaUpdate). With `MaxCalls = 2`, a
  session can leave a whole block in the trailing buffer:
  - an update of exactly one block is appended to it, because
    `total <= sha_block_size` (qcedev.c:866);
  - a larger update whose total is a multiple of a block keeps its last
    block there, because `trailing_buf_len` is set to
    `block - (ALIGN(total) - total)` (930-931).

  The spec says the trailing buffer is strictly shorter than a block.
  `StreamPreserved` still holds, so no byte is lost.
- **`LengthsAccepted`** (QcedevValidator). A cipher request whose
  destination lengths sum to exactly `U32_MAX` is refused, because the
  destination loop tests `len >= U32_MAX - total` (qcedev.c:1843) where
  the source loop tests `>`.
- **`XtsKeyDoubleLength`** (QcedevValidator). With `aes_key_192`, an XTS
  request with a 24-byte key passes. The AES-192 branch (qcedev.c:1720)
  runs before the XTS rule that demands a key pair.
- **`OffloadModeStartable`** (QcedevValidator). The offload check admits
  every mode up to CTR, ECB included (qcedev.c:1973).
  `start_offload_cipher_req` starts only CBC and CTR (536-544). This is
  the input behind the -EINVAL observation on `DispatchFailureReported`
  above.
- **`OutputIsSource`** with a byte offset (QcedevCipherChunker). With
  `ByteOffsets = {1}` and `XferMayFail = FALSE` in
  `ChunkerNoOffset.cfg`, the grouping branch of the split loop starts
  `total` at `byteoffset` (qcedev.c:1547). `max_data_xfer` already has
  the offset taken off, so the first chunk counts it twice:
  `byteoffset` stale bounce-buffer bytes reach the output, and every
  later byte lands `byteoffset` places late. The spec says a chunked CTR
  request gives what the unchunked one would.
- **`NoLostInit`** with software HMAC (QcedevHashSession). With one
  thread, `Algs = {"hmac"}` and `HmacHw = FALSE` in `HashStaleUpdate.cfg`,
  SHA_FINAL always fails. `qcedev_hmac_final` calls `qcedev_sha_final`
  twice; the first call clears `init_done` (1109), and the second
  returns -EINVAL (1078) after the outer pad was submitted (1343). The
  spec says the software path returns the RFC 2104 digest.
- **`NoUnbalancedDisable`** (QcedevBandwidth). With
  `FailCalls = {"first"}`:
  1. an open's vote fails, and open returns 0 with the count still 0;
  2. the release decrements the count to -1 (qcedev.c:295);
  3. suspend sees a non-zero count and disables a clock that is off
     (2614).

  With `FailCalls = {"second"}`, the rollback bug below leads to the
  same result at the last release.
- **`ClocksFollowVotes`** (QcedevBandwidth). With
  `FailCalls = {"second"}` in `BandwidthVotes.cfg`, the second call
  fails and its undo succeeds, so `qcedev_control_clocks` returns 0. The
  first open then counts a vote with the clock or the bus vote off
  (qcedev.c:115; also 131, 146, 161).
- **`NoMemoryFault`** (QcedevQueue). With `StartResults = {"ok"}`,
  `Anomalies = {"none"}` and `TimeoutsPossible = TRUE`, a timed-out
  ioctl frees a request that is still `active_command` or queued. The
  late callback or `req_done` then uses it.
- **`NoCmacInSession`** (QcedevHashSession). With one thread and
  `CmacHw = TRUE` in `HashStaleUpdate.cfg`, a CMAC request between an INIT and its UPDATE
  overwrites the key and digest of the open session. The UPDATE is then
  accepted and continues from the CMAC state. The spec (section 4.4)
  treats a hash session as one INIT, UPDATE... FINAL sequence.
- **`UpdateOnOpenSession`** with one thread, `Algs = {"hmac"}` and
  `KeyMayFail = TRUE` (QcedevHashSession). An HMAC INIT whose key copy fails returns -EFAULT, but
  `qcedev_set_hmac_auth_key` has already set `init_done` (1183). The next
  UPDATE is accepted on a session nobody opened. GET_SHA ignores the
  INIT's result (2316), so it computes the HMAC with the key left from
  before and returns 0.
- **`NoLostInit`** with two threads (QcedevHashSession). Under
  `HashStaleUpdate.cfg`, the FINAL's late `init_done = false` (2296) can
  clear a session that another thread's INIT has just opened.
- **`NoUseAfterFree`** (MmiSysTemp). Under `SysTempLifecycle.cfg`,
  after remove the notifier is still registered and the work may still
  be queued (436-448). The next power-supply event dereferences the
  freed `sys_temp_dev` (153-154). So does an ioctl on a file opened
  before remove. Probe's failures cannot cause this: they all come
  before the notifier is registered.
- **`SensorIndexInRange`** (MmiSysTemp). With `NumSensors = 1` and
  `NumListeners = 2`, the work calls `uevent_generate(i)` with a
  listener index (258). It reads `sensor[1]`, one past the array.
- **`LeavesDownloadMode`** (Sem1217sFwUpdate). Under `OisFwUpdate.cfg`,
  a failed transfer after `FWUP_CTRL_256_SET` returns with the chip in
  download mode. No `RESET_REQ` follows.
- **Odd-length images** (Sem1217sFwUpdate). The loop sums only up to the
  last even index (230), so the last byte of an odd image is never
  summed. The chip counts it, refuses the download and returns -EINVAL.
  `InstallsWhenNoFault` is stated for even lengths. Without that
  conjunct it is violated.
- **Short images** (sem1217s). The version is read at `fw->size - 12`
  (161), and only `fw->size == 0` is refused. An image shorter than 12
  bytes reads before the buffer. The model assumes `Len >= VerTail`, so
  this case is outside it.

## Plan

Each sitting added to the project:

1. QcedevQueue, QcedevCipherChunker, QcedevShaUpdate and
   QcedevHashSession.
2. QcedevValidator and the QueueAbstract refinement.
3. QcedevBandwidth. Its two runs took the places of
   `chunker_byte_offset` and `hash_hmac_software`, whose violations are
   now observations above.

   This sitting also added CMAC requests and the failing HMAC key setup
   to QcedevHashSession. Their violations are observations above.

4. MmiSysTemp and Sem1217sFwUpdate, with the runs `sys_temp_lifecycle`,
   `sys_temp_stale_uevent` and `ois_fw_update`. They took the places of
   `queue_timeout_uaf`, `hash_stale_update` and `bandwidth_rollback`.
   Those runs' violations are now observations above, with the constants
   that reproduce them. GET_SHA in QcedevHashSession now always takes
   the lock and proceeds, as the code does whatever `qcedev_hash_init`
   returns.

5. Review fixes:
   - `hash_serial`, whose one-thread properties could not fail, became
     the violation run `hash_stale_update`. QcedevHashSession gained the
     error returns that leave `init_done` as it was.
   - `LoopEnabled` was dropped, because it held whatever the code does.
   - Probe and remove in MmiSysTemp are now their loop steps.
   - `StartOutcomes` lets the cipher start return -EINVAL too.

Next: larger instances of the existing runs, and the CMAC data path
(`qcedev_hash_cmac`'s byte count) in `QcedevShaUpdate`.

## Not modelled

- **The SMMU map/unmap ioctls and the probe/remove of qcedev.** These are
  I/O into other drivers, with no interleaving of their own.
- **The device-tree parsing of mmi_sys_temp and the sem1217s I2C
  plumbing.** These are I/O. Their results enter the models as
  constants (sensor counts, `need_uevent`, threshold) or as transfers
  that may fail.
- **The thermal core and the OIS chip.** They are outside `src/`, and are
  modelled only by the contract the driver relies on.
- **The logging and debugfs statistics.**
- **The header-only files.**
