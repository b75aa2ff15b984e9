--------------------------- MODULE QcedevShaUpdate ---------------------------
(***************************************************************************)
(* The SHA ioctls of one qcedev handle (src/crypto-qti/qcedev.c), issued   *)
(* one after another: SHA_INIT, SHA_UPDATE, SHA_FINAL and the one-shot     *)
(* GET_SHA, with the hash context handle->sha_ctxt they carry between      *)
(* calls.  An UPDATE longer than one engine operation goes through the     *)
(* split loop of qcedev_sha_update; every piece goes through                *)
(* qcedev_sha_update_max_xfer, which prepends the trailing buffer, sends   *)
(* the block-aligned part to the engine and keeps the rest.                *)
(*                                                                         *)
(* A message byte is named <<call, entry, offset>>: the ioctl it was       *)
(* passed to, the user buffer and the offset in it.  The engine is         *)
(* modelled by what it is given: each pass it accepts is recorded with the *)
(* first_blk and last_blk flags it was sent with, so the digest it returns *)
(* is the digest of the passes' bytes in order exactly when those flags    *)
(* and the block alignment are right.  CE_SHA_BLOCK_SIZE, QCE_MAX_OPER_DATA*)
(* and QCEDEV_MAX_BUFFERS are constants scaled down from 64, 32 KB and 16. *)
(***************************************************************************)
EXTENDS Naturals, Sequences, SequencesExt

CONSTANTS
  Block,        \* CE_SHA_BLOCK_SIZE (= SHA1/SHA256_BLOCK_SIZE)
  MaxOper,      \* QCE_MAX_OPER_DATA, a multiple of Block
  MaxBuffers,   \* QCEDEV_MAX_BUFFERS: size of sha_op_req.data[]
  Lens,         \* lengths a user buffer may have
  MaxCalls,     \* number of ioctls the caller makes
  FailModes     \* which failures may happen: "alloc" (kmalloc), "fault"
                \* (copy_from_user) and "submit" (submit_req)

ASSUME /\ Block \in Nat \ {0} /\ MaxOper \in Nat \ {0} /\ MaxOper % Block = 0
       /\ MaxBuffers \in Nat \ {0} /\ Lens \subseteq Nat /\ MaxCalls \in Nat
       /\ FailModes \subseteq {"alloc", "fault", "submit"}

Idx == 0 .. MaxBuffers - 1
\* No SHA_FINAL or GET_SHA has returned a digest yet.
NoDigest == [msg |-> <<>>, passes |-> <<>>, valid |-> FALSE]

VARIABLES
  trailing_buf,  \* sha_ctxt.trailing_buf[0 .. trailing_buf_len - 1]
  first_blk,     \* sha_ctxt.first_blk
  last_blk,      \* sha_ctxt.last_blk
  init_done,     \* sha_ctxt.init_done
  sent,          \* the passes the engine has accepted since sha_init
  fed,           \* bytes of the UPDATEs since INIT that returned 0
  errs,          \* a call since INIT returned an error
  digest,        \* what the digest last returned to user space covers
  calls,         \* ioctls made so far
  pc,            \* "idle" between ioctls, "loop" inside the split loop
  mode,          \* the ioctl in the split loop: "update" or "oneshot"
  nent,          \* req.entries
  src0,          \* saved_req->data: the caller's buffers
  creq,          \* qcedev_areq->sha_op_req.data, rewritten for each piece
  req,           \* the local copy req.data, advanced past what was sent
  i,             \* i: the buffer the next piece starts at
  xerr,          \* err of the split loop
  faults         \* accesses past sha_op_req.data[] (history)

vars == <<trailing_buf, first_blk, last_blk, init_done, sent, fed, errs,
          digest, calls, pc, mode, nent, src0, creq, req, i, xerr, faults>>
ctx == <<trailing_buf, first_blk, last_blk, init_done, sent>>
loopvars == <<mode, nent, src0, creq, req, i, xerr>>

Advance(va, n) == <<va[1], va[2], va[3] + n>>
Bytes(b) == [k \in 1 .. b.len |-> Advance(b.va, k - 1)]
\* The bytes of the first n buffers of c, in order.
Gather(c, n) == FlattenSeq([k \in 1 .. n |-> Bytes(c[k - 1])])
\* The bytes the engine has hashed, in order.
Hashed(ps) == FlattenSeq([k \in 1 .. Len(ps) |-> ps[k].data])

Outcomes == {"ok"} \cup FailModes
RoundUp(x) == ((x + Block - 1) \div Block) * Block

\* The context as a record, so that the helpers below can be composed
\* within one ioctl.
Ctx == [tb |-> trailing_buf, fb |-> first_blk, lb |-> last_blk,
        id |-> init_done, sent |-> sent]
SetCtx(c) == /\ trailing_buf' = c.tb /\ first_blk' = c.fb
             /\ last_blk' = c.lb /\ init_done' = c.id /\ sent' = c.sent

\* submit_req of a hash pass: the engine hashes it from the context's
\* digest with the context's flags, or the start fails.
Submit(c, data, o) ==
  IF o = "ok"
    THEN c.sent \o <<[data |-> data, first |-> c.fb, last |-> c.lb]>>
    ELSE c.sent

\* sha_init: clear the context and seed it (hash_init of SHA1/SHA256).
ShaInit == [tb |-> <<>>, fb |-> 1, lb |-> 0, id |-> TRUE, sent |-> <<>>]

MaxXferShortMax(c, data, o) ==
  LET total == Len(c.tb) + Len(data)
      buf == c.tb \o data
      tl == Block - (RoundUp(total) - total)
      pass == SubSeq(buf, 1, total - tl)
  IN IF total <= MaxOper
       THEN IF o = "fault" THEN [c |-> c, err |-> TRUE]
            ELSE [c |-> [c EXCEPT !.tb = buf], err |-> FALSE]
     ELSE IF o \in {"alloc", "fault"} THEN [c |-> c, err |-> TRUE]
     ELSE [c |-> [c EXCEPT !.tb = SubSeq(buf, total - tl + 1, total),
                           !.sent = Submit(c, pass, o), !.fb = 0, !.lb = 0],
           err |-> o # "ok"]

MaxXferPadTail(c, data, o) ==
  LET total == Len(c.tb) + Len(data)
      buf == c.tb \o data
      tl == RoundUp(total) - total
      pass == SubSeq(buf, 1, total - tl)
  IN IF total <= Block
       THEN IF o = "fault" THEN [c |-> c, err |-> TRUE]
            ELSE [c |-> [c EXCEPT !.tb = buf], err |-> FALSE]
     ELSE IF o \in {"alloc", "fault"} THEN [c |-> c, err |-> TRUE]
     ELSE [c |-> [c EXCEPT !.tb = SubSeq(buf, total - tl + 1, total),
                           !.sent = Submit(c, pass, o), !.fb = 0, !.lb = 0],
           err |-> o # "ok"]

\* qcedev_sha_update_max_xfer on data (the gathered user buffers), with
\* the outcome o of whichever of its steps fails.  Returns the new context
\* and whether it returned an error.
MaxXfer(c, data, o) ==
  LET total == Len(c.tb) + Len(data)
      buf == c.tb \o data
      tl == Block - (RoundUp(total) - total)
      pass == SubSeq(buf, 1, total - tl)
  IN IF total <= Block
       THEN IF o = "fault" THEN [c |-> c, err |-> TRUE]
            ELSE [c |-> [c EXCEPT !.tb = buf], err |-> FALSE]
     ELSE IF o \in {"alloc", "fault"} THEN [c |-> c, err |-> TRUE]
     ELSE [c |-> [c EXCEPT !.tb = SubSeq(buf, total - tl + 1, total),
                           !.sent = Submit(c, pass, o), !.fb = 0, !.lb = 0],
           err |-> o # "ok"]

\* qcedev_sha_final: send the trailing buffer as the last pass and clear
\* the context, whether or not the pass succeeded.
\* It copies no user memory, so o is "ok", "alloc" or "submit".
Final(c, o) ==
  IF ~c.id THEN [c |-> c, err |-> TRUE]
  ELSE IF o = "alloc" THEN [c |-> [c EXCEPT !.lb = 1], err |-> TRUE]
  ELSE LET c1 == [c EXCEPT !.lb = 1] IN
       [c |-> [c1 EXCEPT !.sent = Submit(c1, c.tb, o), !.fb = 0, !.lb = 0,
                         !.tb = <<>>, !.id = FALSE],
        err |-> o # "ok"]
FinalOutcomes == Outcomes \ {"fault"}

\* The UPDATE requests qcedev_check_sha_params accepts: 1..MAX_BUFFERS
\* entries whose lengths sum to data_len.
Requests == UNION {[1 .. n -> Lens] : n \in 1 .. MaxBuffers}
Bufs(s) == [k \in Idx |-> [va |-> <<calls, k, 0>>,
                           len |-> IF k < Len(s) THEN s[k + 1] ELSE 0]]
DataLen(s) == SumFunction(s)

Init ==
  /\ trailing_buf = <<>> /\ first_blk = 0 /\ last_blk = 0
  /\ init_done = FALSE /\ sent = <<>> /\ fed = <<>> /\ errs = FALSE
  /\ digest = NoDigest /\ calls = 0 /\ pc = "idle" /\ mode = "update"
  /\ nent = 1 /\ src0 = Bufs(<<>>) /\ creq = Bufs(<<>>) /\ req = Bufs(<<>>)
  /\ i = 0 /\ xerr = FALSE /\ faults = {}

\* QCEDEV_IOCTL_SHA_INIT_REQ.
IoctlInit ==
  /\ pc = "idle" /\ calls < MaxCalls
  /\ SetCtx(ShaInit)
  /\ fed' = <<>> /\ errs' = FALSE /\ calls' = calls + 1
  /\ UNCHANGED <<digest, pc, loopvars, faults>>

\* Start the split loop of qcedev_sha_update on request s, for an UPDATE
\* or a GET_SHA; its saved_req allocation may fail.
StartLoop(s, m, e0) ==
  \E o \in Outcomes \ {"submit", "fault"} :
    IF o = "alloc"
      THEN /\ errs' = TRUE /\ UNCHANGED <<pc, loopvars>>
      ELSE /\ pc' = "loop" /\ mode' = m /\ nent' = Len(s)
           /\ src0' = Bufs(s) /\ creq' = Bufs(s) /\ req' = Bufs(s)
           /\ i' = 0 /\ xerr' = FALSE /\ errs' = e0

\* QCEDEV_IOCTL_SHA_UPDATE_REQ with a SHA algorithm: rejected unless INIT
\* was called; qcedev_sha_update sends data_len <= QCE_MAX_OPER_DATA
\* through max_xfer at once and larger requests through the split loop.
IoctlUpdate ==
  /\ pc = "idle" /\ calls < MaxCalls /\ calls' = calls + 1
  /\ \E s \in Requests :
       IF ~init_done
         THEN /\ errs' = TRUE /\ UNCHANGED <<ctx, fed, pc, loopvars>>
       ELSE IF DataLen(s) > MaxOper
         THEN StartLoop(s, "update", errs) /\ UNCHANGED <<ctx, fed>>
       ELSE \E o \in Outcomes :
              LET r == MaxXfer(Ctx, Gather(Bufs(s), Len(s)), o) IN
              /\ SetCtx(r.c)
              /\ IF r.err THEN errs' = TRUE /\ UNCHANGED fed
                 ELSE fed' = fed \o Gather(Bufs(s), Len(s)) /\ UNCHANGED errs
              /\ UNCHANGED <<pc, loopvars>>
  /\ UNCHANGED <<digest, faults>>

\* QCEDEV_IOCTL_SHA_FINAL_REQ: rejected unless INIT was called (line
\* 2256); on success the digest of the session is copied to user space and
\* init_done cleared again.
IoctlFinal ==
  /\ pc = "idle" /\ calls < MaxCalls /\ calls' = calls + 1
  /\ \E o \in FinalOutcomes :
       LET r == Final(Ctx, o) IN
       /\ SetCtx(r.c)
       /\ IF r.err THEN errs' = TRUE /\ UNCHANGED digest
          ELSE /\ digest' = [msg |-> fed, passes |-> r.c.sent, valid |-> ~errs]
               /\ UNCHANGED errs
  /\ UNCHANGED <<fed, pc, loopvars, faults>>

\* QCEDEV_IOCTL_GET_SHA_REQ: hash_init, hash_update and hash_final of
\* request s under one hold of hash_access_lock.
IoctlGetSha ==
  /\ pc = "idle" /\ calls < MaxCalls /\ calls' = calls + 1
  /\ \E s \in Requests :
       LET data == Gather(Bufs(s), Len(s)) IN
       IF DataLen(s) > MaxOper
         THEN /\ SetCtx(ShaInit) /\ fed' = <<>>
              /\ StartLoop(s, "oneshot", FALSE) /\ UNCHANGED digest
         ELSE \E o1 \in Outcomes, o2 \in FinalOutcomes :
                LET r1 == MaxXfer(ShaInit, data, o1)
                    r2 == Final(r1.c, o2)
                IN /\ fed' = <<>>
                   /\ IF r1.err
                        THEN SetCtx(r1.c) /\ errs' = TRUE /\ UNCHANGED digest
                      ELSE IF r2.err
                        THEN SetCtx(r2.c) /\ errs' = TRUE /\ UNCHANGED digest
                      ELSE /\ SetCtx(r2.c) /\ errs' = FALSE
                           /\ digest' = [msg |-> data, passes |-> r2.c.sent,
                                         valid |-> TRUE]
                   /\ UNCHANGED <<pc, loopvars>>
  /\ UNCHANGED faults

(***************************************************************************)
(* The split loop of qcedev_sha_update, one max_xfer call per step.  It    *)
(* runs while i < req.entries and err == 0.                                *)
(***************************************************************************)

BigNoAdvance ==
  /\ pc = "loop" /\ i < nent /\ ~xerr /\ creq[i].len > MaxOper
  /\ LET c1 == [creq EXCEPT ![0] = [va |-> IF i > 0 THEN creq[i].va ELSE @.va,
                                    len |-> MaxOper]]
         rem == req[i]
     IN \E o \in Outcomes :
          LET r == MaxXfer(Ctx, Gather(c1, 1), o) IN
          /\ SetCtx(r.c) /\ xerr' = r.err
          /\ creq' = [c1 EXCEPT ![i] = rem] /\ req' = [req EXCEPT ![i] = rem]
  /\ UNCHANGED <<fed, errs, digest, calls, pc, mode, nent, src0, i, faults>>

\* data[i] alone exceeds QCE_MAX_OPER_DATA: send its first
\* QCE_MAX_OPER_DATA bytes as a one-entry request, then advance it.
Big ==
  /\ pc = "loop" /\ i < nent /\ ~xerr /\ creq[i].len > MaxOper
  /\ LET c1 == [creq EXCEPT ![0] = [va |-> IF i > 0 THEN creq[i].va ELSE @.va,
                                    len |-> MaxOper]]
         rem == [va |-> Advance(req[i].va, MaxOper), len |-> req[i].len - MaxOper]
     IN \E o \in Outcomes :
          LET r == MaxXfer(Ctx, Gather(c1, 1), o) IN
          /\ SetCtx(r.c) /\ xerr' = r.err
          /\ creq' = [c1 EXCEPT ![i] = rem] /\ req' = [req EXCEPT ![i] = rem]
  /\ UNCHANGED <<fed, errs, digest, calls, pc, mode, nent, src0, i, faults>>

\* The inner for loop: add whole buffers from j until the total reaches
\* QCE_MAX_OPER_DATA (brk) or none is left; total is the sum before j.
RECURSIVE GroupEnd(_, _, _)
GroupEnd(c, j, total) ==
  IF j >= nent THEN [j |-> j, total |-> total, brk |-> FALSE]
  ELSE IF total + c[j].len >= MaxOper THEN [j |-> j, total |-> total, brk |-> TRUE]
  ELSE GroupEnd(c, j + 1, total + c[j].len)

GroupNoCompact ==
  /\ pc = "loop" /\ i < nent /\ ~xerr /\ creq[i].len <= MaxOper
  /\ LET g == GroupEnd(creq, i, 0)
         j == g.j
         c1 == IF g.brk THEN [creq EXCEPT ![j].len = MaxOper - g.total] ELSE creq
         ne == IF g.brk THEN j - i + 1 ELSE nent - i
         c2 == c1
         rem == [va |-> Advance(req[j].va, c2[j].len), len |-> req[j].len - c2[j].len]
     IN \E o \in Outcomes :
          LET r == MaxXfer(Ctx, Gather(c2, ne), o) IN
          /\ SetCtx(r.c) /\ xerr' = r.err
          /\ IF j \in Idx
               THEN /\ creq' = [c2 EXCEPT ![j] = rem]
                    /\ req' = [req EXCEPT ![j] = rem]
                    /\ i' = IF rem.len = 0 THEN j + 1 ELSE j
                    /\ UNCHANGED faults
               ELSE /\ creq' = c2 /\ req' = req /\ i' = j + 1
                    /\ faults' = faults \cup {"data_overrun"}
  /\ UNCHANGED <<fed, errs, digest, calls, pc, mode, nent, src0>>

\* Otherwise: gather buffers i..j into one request, cutting buffer j to
\* fit, move them to the front of data[], send it, and continue from the
\* rest of buffer j.  When no buffer was cut, j is req.entries and the
\* code still reads and writes data[j].
Group ==
  /\ pc = "loop" /\ i < nent /\ ~xerr /\ creq[i].len <= MaxOper
  /\ LET g == GroupEnd(creq, i, 0)
         j == g.j
         c1 == IF g.brk THEN [creq EXCEPT ![j].len = MaxOper - g.total] ELSE creq
         ne == IF g.brk THEN j - i + 1 ELSE nent - i
         c2 == IF i > 0 THEN [k \in Idx |-> IF k < ne THEN c1[i + k] ELSE c1[k]]
               ELSE c1
         rem == [va |-> Advance(req[j].va, c2[j].len), len |-> req[j].len - c2[j].len]
     IN \E o \in Outcomes :
          LET r == MaxXfer(Ctx, Gather(c2, ne), o) IN
          /\ SetCtx(r.c) /\ xerr' = r.err
          /\ IF j \in Idx
               THEN /\ creq' = [c2 EXCEPT ![j] = rem]
                    /\ req' = [req EXCEPT ![j] = rem]
                    /\ i' = IF rem.len = 0 THEN j + 1 ELSE j
                    /\ UNCHANGED faults
               \* data[QCEDEV_MAX_BUFFERS] is past the array: the write lands
               \* on entries, data_len and digest[], and the model takes
               \* the outcome where the loop then ends.
               ELSE /\ creq' = c2 /\ req' = req /\ i' = j + 1
                    /\ faults' = faults \cup {"data_overrun"}
  /\ UNCHANGED <<fed, errs, digest, calls, pc, mode, nent, src0>>

\* The loop has ended: restore sha_op_req from saved_req and return; for
\* GET_SHA go on with hash_final.
Restore ==
  /\ pc = "loop" /\ (i >= nent \/ xerr)
  /\ creq' = src0 /\ pc' = "idle"
  /\ LET data == Gather(src0, nent) IN
     IF xerr THEN errs' = TRUE /\ UNCHANGED <<ctx, fed, digest>>
     ELSE IF mode = "update"
       THEN fed' = fed \o data /\ UNCHANGED <<ctx, errs, digest>>
     ELSE \E o \in FinalOutcomes :
            LET r == Final(Ctx, o) IN
            /\ SetCtx(r.c) /\ fed' = data
            /\ IF r.err THEN errs' = TRUE /\ UNCHANGED digest
               ELSE /\ digest' = [msg |-> data, passes |-> r.c.sent, valid |-> TRUE]
                    /\ UNCHANGED errs
  /\ UNCHANGED <<calls, mode, nent, src0, req, i, xerr, faults>>

Ioctl == IoctlInit \/ IoctlUpdate \/ IoctlFinal \/ IoctlGetSha
Loop == Big \/ Group \/ Restore
Next == Ioctl \/ Loop

\* The split loop runs in the caller's thread until it returns.
Spec == Init /\ [][Next]_vars /\ WF_vars(Loop)

(***************************************************************************)
(* Properties.                                                             *)
(***************************************************************************)

\* The trailing buffer is the 64-byte array sha_ctxt.trailing_buf: no
\* call leaves more bytes in it than one block.
TypeOK ==
  /\ trailing_buf \in Seq(Nat \X Nat \X Nat) /\ Len(trailing_buf) <= Block
  /\ first_blk \in {0, 1} /\ last_blk \in {0, 1} /\ init_done \in BOOLEAN
  /\ fed \in Seq(Nat \X Nat \X Nat) /\ errs \in BOOLEAN
  /\ pc \in {"idle", "loop"} /\ mode \in {"update", "oneshot"}
  /\ nent \in 1 .. MaxBuffers /\ i \in Nat /\ xerr \in BOOLEAN
  /\ faults \subseteq {"data_overrun"}

\* What the engine is given hashes to the digest of the message it was
\* given in that order: every pass but the last is a non-empty multiple
\* of the block size and fits one engine operation, only the first carries
\* first_blk and only the last last_blk.
WellFormed(ps) ==
  \A k \in 1 .. Len(ps) :
    /\ Len(ps[k].data) <= MaxOper
    /\ ps[k].last = 0 => Len(ps[k].data) > 0 /\ Len(ps[k].data) % Block = 0
    /\ ps[k].first = (IF k = 1 THEN 1 ELSE 0)
    /\ ps[k].last = 1 => k = Len(ps)

\* The engine passes that max_xfer and sha_final build from the trailing
\* buffer and the user's data are block-aligned and within one engine
\* operation, and the first_blk/last_blk flags sha_init, max_xfer and
\* sha_final set mark the first and the last pass of the session, in
\* every session in which no call has failed.
PassesWellFormed == ~errs => WellFormed(sent)

\* Spec section 5 (streaming idempotence): however the caller splits the
\* message into UPDATE calls and buffers, and however the split loop and
\* max_xfer cut it into engine passes, the bytes hashed so far followed by
\* the trailing buffer are the message so far, and the digest that
\* SHA_FINAL or GET_SHA returns covers exactly the message.
StreamPreserved ==
  /\ (init_done /\ ~errs /\ pc = "idle") => Hashed(sent) \o trailing_buf = fed
  /\ digest.valid => Hashed(digest.passes) = digest.msg

\* Spec section 3 (Hash Context): the trailing buffer is always shorter
\* than one hash block between calls.
TrailingBelowBlock == pc = "idle" => Len(trailing_buf) < Block

\* The split loop of qcedev_sha_update never writes data[QCEDEV_MAX_BUFFERS],
\* one past sha_op_req.data[].
DataWithinArray == "data_overrun" \notin faults

\* What the split loop has left to do: the bytes of req.data[] not yet
\* sent and the entries not yet passed.
Unsent == SumFunction([k \in {x \in Idx : x >= i /\ x < nent} |-> req[k].len])
          + (nent + 1 - i)

\* Every iteration of the while loop in qcedev_sha_update sends bytes or
\* passes an entry: Unsent strictly decreases, so under the weak fairness
\* of Loop every SHA_UPDATE or GET_SHA that enters the loop returns.
LoopProgress == [][pc = "loop" /\ pc' = "loop" => Unsent' < Unsent]_vars

====
