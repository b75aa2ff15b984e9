-------------------------- MODULE QcedevHashSession --------------------------
(***************************************************************************)
(* The hash ioctls of one qcedev handle issued by several threads          *)
(* (src/crypto-qti/qcedev.c, qcedev_ioctl): SHA_INIT, SHA_UPDATE,          *)
(* SHA_FINAL and GET_SHA on the same handle->sha_ctxt.  Their work on the  *)
(* context runs under the global hash_access_lock, but SHA_INIT sets       *)
(* sha_ctxt.init_done again after the unlock (line 2188), SHA_FINAL reads  *)
(* it before the lock (2256) and clears it again after the unlock (2296).  *)
(*                                                                         *)
(* The bytes hashed are abstracted away (QcedevShaUpdate models them): the *)
(* context is reduced to init_done and owner, the ioctl whose sha_init     *)
(* last seeded it, 0 once sha_final has cleared it or when the INIT that  *)
(* seeded it failed, and -1 once a CMAC has overwritten the key, digest    *)
(* and byte counts of the session it held.  Since sha_init and sha_final  *)
(* run under the lock, owner # 0 is exactly "in lock order, an INIT has    *)
(* opened a session that no FINAL has closed".                             *)
(***************************************************************************)
EXTENDS Integers

CONSTANTS
  Threads,   \* user threads calling ioctl on the handle
  None,      \* hash_access_lock is free
  MaxCalls,  \* ioctls made in all
  Algs,      \* algorithms the threads use: "sha" and/or "hmac"
  HmacHw,    \* podev->ce_support.sha_hmac
  CmacHw,    \* podev->ce_support.cmac
  KeyMayFail, \* an HMAC key copy or key hash in SHA_INIT may fail
  Faults      \* a kmalloc, copy_to_user or engine pass of a hash ioctl may fail

ASSUME /\ None \notin Threads /\ MaxCalls \in Nat
       /\ Algs \subseteq {"sha", "hmac"} /\ Algs # {} /\ HmacHw \in BOOLEAN
       /\ CmacHw \in BOOLEAN /\ KeyMayFail \in BOOLEAN /\ Faults \in BOOLEAN

VARIABLES
  init_done,  \* handle->sha_ctxt.init_done
  owner,      \* the ioctl that seeded sha_ctxt, 0 or -1 (see above)
  lock,       \* holder of hash_access_lock between steps (only GET_SHA)
  pc,         \* where each thread is
  talg,       \* sha_op_req.alg of each thread's session
  calls,      \* ioctls made so far; numbers them
  stale,      \* an UPDATE/FINAL ran on a context no open session holds:
              \* "cleared" (owner 0) or "cmac" (owner -1) (history)
  lost        \* an UPDATE/FINAL of an open session was rejected (history)

vars == <<init_done, owner, lock, pc, talg, calls, stale, lost>>

PCs == {"idle", "init_post", "final_pre", "final_post", "gs_update", "gs_final"}

Init ==
  /\ init_done = FALSE /\ owner = 0 /\ lock = None
  /\ pc = [t \in Threads |-> "idle"]
  /\ talg = [t \in Threads |-> CHOOSE a \in Algs : TRUE]
  /\ calls = 0 /\ stale = {} /\ lost = FALSE

\* A new ioctl by thread t, while no one holds the lock (a locked region
\* that starts and ends in one step needs the lock free).
Begin(t) == /\ pc[t] = "idle" /\ calls < MaxCalls /\ calls' = calls + 1
Free == lock = None

\* The verdict of an init_done check: rejecting an open session, or
\* accepting a cleared one, is recorded.
Accept ==
  /\ stale' = CASE owner = 0  -> stale \cup {"cleared"}
               [] owner = -1 -> stale \cup {"cmac"}
               [] OTHER      -> stale
  /\ UNCHANGED lost
Reject == lost' = (lost \/ owner # 0) /\ UNCHANGED stale

\* The outcomes of qcedev_hash_final for algorithm a: sha_final rejects an
\* uninitialised context (line 1078); else its kmalloc may fail, and it
\* returns -ENOMEM with the context still initialised (1089-1090); else it
\* sends the last pass and clears the context, init_done included.
\* Software HMAC (hmac_final) then hashes the outer pad and calls sha_final
\* a second time, which finds init_done cleared by the first and returns
\* -EINVAL.  v is "rejected" when an init_done check failed.
HashFinal(a) ==
  IF ~init_done THEN {[v |-> "rejected", id |-> init_done, owner |-> owner]}
  ELSE {[v |-> IF a = "sha" \/ HmacHw THEN "ok" ELSE "rejected", id |-> FALSE,
         owner |-> 0]}
       \cup (IF Faults THEN {[v |-> "nomem", id |-> TRUE, owner |-> owner]} ELSE {})

\* The results of qcedev_hash_init for algorithm a.  hmac_init runs
\* qcedev_set_hmac_auth_key, which calls sha_init (init_done = true) and
\* then copies the key, or for a long key hashes it with sha_update and
\* sha_final and calls sha_init again; a failed copy or key hash returns
\* the error with init_done left true (1181-1185, 1210-1214).
HashInitResults(a) == IF a = "hmac" /\ KeyMayFail THEN BOOLEAN ELSE {TRUE}

\* The context after qcedev_hash_init by call n: seeded for the caller, or,
\* after a failed key setup, initialised for a session nobody opened.
Seeded(ok, n) == init_done' = TRUE /\ owner' = IF ok THEN n ELSE 0

\* SHA_INIT up to the unlock: qcedev_hash_init seeds the context; on an
\* error the ioctl unlocks and returns it (2177-2180).
InitRegion(t) ==
  /\ Begin(t) /\ Free
  /\ \E a \in Algs, ok \in BOOLEAN :
       /\ ok \in HashInitResults(a)
       /\ talg' = [talg EXCEPT ![t] = a] /\ Seeded(ok, calls + 1)
       /\ pc' = [pc EXCEPT ![t] = IF ok THEN "init_post" ELSE "idle"]
  /\ UNCHANGED <<lock, stale, lost>>

\* SHA_INIT after the unlock: copy_to_user, whose failure returns -EFAULT
\* (2183-2186), then init_done = true (2188).
InitPost(t) ==
  /\ pc[t] = "init_post"
  /\ \E copied \in IF Faults THEN BOOLEAN ELSE {TRUE} :
       init_done' = (copied \/ init_done)
  /\ pc' = [pc EXCEPT ![t] = "idle"]
  /\ UNCHANGED <<owner, lock, talg, calls, stale, lost>>

\* SHA_UPDATE: under the lock, rejected unless init_done (2222, again in
\* qcedev_sha_update at 969); the update itself leaves init_done and the
\* seeding alone.
Update(t) ==
  /\ Begin(t) /\ Free
  /\ IF init_done THEN Accept ELSE Reject
  /\ UNCHANGED <<init_done, owner, lock, pc, talg>>

\* SHA_FINAL before the lock: the unlocked init_done check (2256).
FinalCheck(t) ==
  /\ Begin(t)
  /\ IF init_done THEN pc' = [pc EXCEPT ![t] = "final_pre"] /\ UNCHANGED <<stale, lost>>
     ELSE Reject /\ UNCHANGED pc
  /\ UNCHANGED <<init_done, owner, lock, talg>>

\* SHA_FINAL under the lock: qcedev_hash_final; an error unlocks and
\* returns it.
FinalRegion(t) ==
  /\ pc[t] = "final_pre" /\ Free
  /\ \E r \in HashFinal(talg[t]) :
     /\ init_done' = r.id /\ owner' = r.owner
     /\ IF r.v = "rejected" THEN Reject ELSE Accept
     /\ pc' = [pc EXCEPT ![t] = IF r.v = "ok" THEN "final_post" ELSE "idle"]
  /\ UNCHANGED <<lock, talg, calls>>

\* SHA_FINAL after the unlock: copy_to_user, whose failure returns -EFAULT
\* (2291-2295), then init_done = false (2296).
FinalPost(t) ==
  /\ pc[t] = "final_post"
  /\ \E copied \in IF Faults THEN BOOLEAN ELSE {TRUE} :
       init_done' = (~copied /\ init_done)
  /\ pc' = [pc EXCEPT ![t] = "idle"]
  /\ UNCHANGED <<owner, lock, talg, calls, stale, lost>>

\* GET_SHA takes the lock and runs qcedev_hash_init, ignoring its result
\* (2316) ...
GetShaInit(t) ==
  /\ Begin(t) /\ Free
  /\ \E a \in Algs, ok \in BOOLEAN :
       /\ ok \in HashInitResults(a)
       /\ talg' = [talg EXCEPT ![t] = a] /\ Seeded(ok, calls + 1)
       /\ lock' = t /\ pc' = [pc EXCEPT ![t] = "gs_update"]
  /\ UNCHANGED <<stale, lost>>

\* ... then qcedev_hash_update, whose sha_update reads init_done (969),
\* which other threads may write outside the lock in between; an error of
\* the update (an allocation or the engine pass) unlocks and returns it,
\* leaving the context initialised (2317-2321) ...
GetShaUpdate(t) ==
  /\ pc[t] = "gs_update"
  /\ IF init_done
     THEN /\ Accept
          /\ \E ok \in IF Faults THEN BOOLEAN ELSE {TRUE} :
               IF ok THEN pc' = [pc EXCEPT ![t] = "gs_final"] /\ UNCHANGED lock
               ELSE pc' = [pc EXCEPT ![t] = "idle"] /\ lock' = None
     ELSE Reject /\ pc' = [pc EXCEPT ![t] = "idle"] /\ lock' = None
  /\ UNCHANGED <<init_done, owner, talg, calls>>

\* ... and qcedev_hash_final, then unlocks.
GetShaFinal(t) ==
  /\ pc[t] = "gs_final"
  /\ \E r \in HashFinal(talg[t]) :
     /\ init_done' = r.id /\ owner' = r.owner
     /\ IF r.v = "rejected" THEN Reject ELSE Accept
  /\ lock' = None /\ pc' = [pc EXCEPT ![t] = "idle"]
  /\ UNCHANGED <<talg, calls>>

\* QCEDEV_IOCTL_GET_CMAC_REQ, and SHA_UPDATE with alg AES-CMAC, under the
\* lock: without ce_support.cmac it is refused (-ENOTTY at 2192, or -EINVAL
\* from qcedev_check_sha_params); else qcedev_hash_cmac, with no init_done
\* check, copies the AES key into sha_ctxt.authkey and sets diglen, and
\* qcedev_sha_req_cb writes the CMAC into sha_ctxt.digest and auth_data.
Cmac(t) ==
  /\ Begin(t) /\ Free
  /\ owner' = IF CmacHw /\ owner # 0 THEN -1 ELSE owner
  /\ UNCHANGED <<init_done, lock, pc, talg, stale, lost>>

Next ==
  \E t \in Threads :
    \/ Cmac(t)
    \/ InitRegion(t) \/ InitPost(t) \/ Update(t)
    \/ FinalCheck(t) \/ FinalRegion(t) \/ FinalPost(t)
    \/ GetShaInit(t) \/ GetShaUpdate(t) \/ GetShaFinal(t)

Spec == Init /\ [][Next]_vars

(***************************************************************************)
(* Properties.                                                             *)
(***************************************************************************)

\* hash_access_lock is held between steps exactly by a thread inside
\* GET_SHA: every other ioctl has released it when its step ends.
TypeOK ==
  /\ init_done \in BOOLEAN /\ owner \in -1 .. MaxCalls
  /\ pc \in [Threads -> PCs] /\ talg \in [Threads -> Algs]
  /\ calls \in 0 .. MaxCalls /\ stale \subseteq {"cleared", "cmac"}
  /\ lost \in BOOLEAN
  /\ lock \in Threads \cup {None}
  /\ \A t \in Threads : (lock = t) <=> pc[t] \in {"gs_update", "gs_final"}

\* Spec section 4.3: UPDATE and FINAL run only in state Initialized or
\* Updating.  No SHA_UPDATE, SHA_FINAL or GET_SHA step that passes the
\* init_done checks works on a context that sha_final has already cleared
\* (first_blk 0, trailing buffer empty, digest the previous result).
UpdateOnOpenSession == "cleared" \notin stale

\* Spec section 4.3: calling UPDATE or FINAL while Uninitialized is a usage
\* error, and only then.  No init_done check rejects an UPDATE or FINAL,
\* and no FINAL fails, while a session opened by an INIT is still open.
NoLostInit == ~lost

\* Spec section 4.4: CMAC is single-shot and the hash context carries a
\* session from Init to Final.  No SHA_UPDATE, SHA_FINAL or GET_SHA step
\* is accepted on a session whose key, digest and byte counts a CMAC on
\* the same handle (qcedev_hash_cmac) has overwritten since its INIT.
NoCmacInSession == "cmac" \notin stale

====
