------------------------- MODULE QcedevCipherChunker -------------------------
(***************************************************************************)
(* How qcedev_vbuf_ablk_cipher (src/crypto-qti/qcedev.c) feeds a cipher    *)
(* request whose data exceeds one engine operation to the engine, chunk by *)
(* chunk, and how qcedev_vbuf_ablk_cipher_max_xfer copies each chunk in,   *)
(* has it encrypted in place and copies it out to the destination buffers. *)
(*                                                                         *)
(* A source byte is named by the user buffer it came from and its offset   *)
(* in it, <<entry, offset>>, and a user address (vbuf.src[i].vaddr) by the *)
(* same pair; the cipher itself is abstracted to the identity on these     *)
(* names, so the bytes written to the destination can be compared with the *)
(* source bytes they should be.  Bytes of the bounce buffer that no source *)
(* byte was copied to are Junk.  QCE_MAX_OPER_DATA and QCEDEV_MAX_BUFFERS  *)
(* are constants scaled down from 32 KB and 16.                            *)
(***************************************************************************)
EXTENDS Naturals, Sequences, SequencesExt

CONSTANTS
  MaxOper,      \* QCE_MAX_OPER_DATA
  MaxBuffers,   \* QCEDEV_MAX_BUFFERS: size of vbuf.src[] and vbuf.dst[]
  Lens,         \* lengths a user buffer may have
  ByteOffsets,  \* cipher_op_req.byteoffset values (non-zero only in CTR mode)
  XferMayFail   \* may a chunk's copy_from_user or submit_req fail?

ASSUME /\ MaxOper \in Nat \ {0} /\ MaxBuffers \in Nat \ {0}
       /\ Lens \subseteq Nat /\ ByteOffsets \subseteq 0 .. MaxOper - 1
       /\ XferMayFail \in BOOLEAN

Idx == 0 .. MaxBuffers - 1
\* A bounce-buffer byte that no caller buffer supplied.
Junk == <<MaxBuffers, 0>>

VARIABLES
  nent,    \* req.entries, the caller's number of buffers
  src0,    \* saved_req->vbuf.src: the caller's source buffers
  creq,    \* areq->cipher_op_req.vbuf.src, rewritten for each chunk
  req,     \* the local copy req.vbuf.src, advanced past what was sent
  dst,     \* areq->cipher_op_req.vbuf.dst[].len, consumed by the copy-out
  di,      \* di: the destination buffer the next chunk is copied to
  i,       \* i: the source buffer the next chunk starts at
  abo,     \* areq->cipher_op_req.byteoffset
  mdx,     \* max_data_xfer
  pc,      \* "whole" (line 1605), "loop" (line 1514), "restore" (1608), "done"
  out,     \* the bytes copied to the destination buffers, in order
  xerr,    \* some chunk returned an error
  faults,  \* array accesses beyond the caller's buffers (history)
  dst0     \* saved_req->vbuf.dst[].len

vars == <<nent, src0, creq, req, dst, di, i, abo, mdx, pc, out, xerr, faults,
          dst0>>

Advance(va, n) == <<va[1], va[2] + n>>
Bytes(b) == [k \in 1 .. b.len |-> Advance(b.va, k - 1)]

\* The caller's data, in order: what the destination must receive.
Ref == FlattenSeq([k \in 1 .. nent |-> Bytes(src0[k - 1])])

\* copy_from_user of the chunk's n source buffers into the bounce buffer
\* after byteoffset bytes, and the dl bytes after byteoffset that are
\* copied out again once the engine has processed the chunk in place.
Gather(c, n) == FlattenSeq([k \in 1 .. n |-> Bytes(c[k - 1])])
Padded(s, dl) == [k \in 1 .. dl |-> IF k <= Len(s) THEN s[k] ELSE Junk]

\* The copy-out loop of qcedev_vbuf_ablk_cipher_max_xfer: fill dst[x]
\* while it fits in what is left, else fill part of it and advance it.
\* With err # 0 the loop runs without copy_to_user.  Stops, reporting
\* overrun, where the loop would read a dst[] entry past the caller's.
RECURSIVE CopyOutSkipRest(_, _, _, _, _)
CopyOutSkipRest(d, x, dl, data, write) ==
  IF dl = 0 THEN [d |-> d, x |-> x, out |-> <<>>, overrun |-> FALSE]
  ELSE IF x >= nent THEN [d |-> d, x |-> x, out |-> <<>>, overrun |-> TRUE]
  ELSE IF d[x] <= dl
    THEN LET rest == CopyOutSkipRest(d, x + 1, dl - d[x],
                                     SubSeq(data, d[x] + 1, Len(data)), write)
         IN [rest EXCEPT !.out = (IF write THEN SubSeq(data, 1, d[x])
                                  ELSE <<>>) \o @]
    ELSE [d |-> [d EXCEPT ![x] = @ - dl], x |-> x + 1,
          out |-> IF write THEN data ELSE <<>>, overrun |-> FALSE]

RECURSIVE CopyOut(_, _, _, _, _)
CopyOut(d, x, dl, data, write) ==
  IF dl = 0 THEN [d |-> d, x |-> x, out |-> <<>>, overrun |-> FALSE]
  ELSE IF x >= nent THEN [d |-> d, x |-> x, out |-> <<>>, overrun |-> TRUE]
  ELSE IF d[x] <= dl
    THEN LET rest == CopyOut(d, x + 1, dl - d[x],
                             SubSeq(data, d[x] + 1, Len(data)), write)
         IN [rest EXCEPT !.out = (IF write THEN SubSeq(data, 1, d[x])
                                  ELSE <<>>) \o @]
    ELSE [d |-> [d EXCEPT ![x] = @ - dl], x |-> x,
          out |-> IF write THEN data ELSE <<>>, overrun |-> FALSE]

\* qcedev_vbuf_ablk_cipher_max_xfer on the first n entries of c with
\* data_len dl: the byteoffset it adds before submit_req it subtracts
\* again before the copy-out.  Sets xerr' and faults'; the caller's own
\* faults after a successful chunk are passed in as extra.
MaxXfer(c, n, dl, extra) ==
  \E ok \in IF XferMayFail THEN BOOLEAN ELSE {TRUE} :
    LET r == CopyOut(dst, di, dl, Padded(Gather(c, n), dl), ok) IN
    /\ dst' = r.d
    /\ di' = r.x
    /\ out' = out \o r.out
    /\ xerr' = ~ok
    /\ faults' = faults \cup (IF r.overrun THEN {"dst_overrun"} ELSE {})
                         \cup (IF ok THEN extra ELSE {})

(***************************************************************************)
(* The entry of qcedev_vbuf_ablk_cipher, for every request                 *)
(* qcedev_check_cipher_params accepts: 1..MAX_BUFFERS entries, the source  *)
(* and the destination lengths both summing to data_len > 0, and           *)
(* data_len >= byteoffset.  max_data_xfer is QCE_MAX_OPER_DATA less the    *)
(* byte offset; more data than that takes the split loop.                  *)
(***************************************************************************)
Init ==
  \E n \in 1 .. MaxBuffers, b \in ByteOffsets :
  \E s \in [0 .. n - 1 -> Lens], d \in [0 .. n - 1 -> Lens] :
    LET dl == SumFunction(s)
        pad(f) == [k \in Idx |-> IF k < n THEN f[k] ELSE 0]
        bufs == [k \in Idx |-> [va |-> <<k, 0>>, len |-> pad(s)[k]]]
    IN /\ dl > 0 /\ SumFunction(d) = dl /\ b <= dl
       /\ nent = n /\ src0 = bufs /\ creq = bufs /\ req = bufs
       /\ dst = pad(d) /\ dst0 = pad(d) /\ di = 0 /\ i = 0
       /\ abo = b /\ mdx = MaxOper - b
       /\ pc = IF dl > MaxOper - b THEN "loop" ELSE "whole"
       /\ out = <<>> /\ xerr = FALSE /\ faults = {}

DataLen == SumFunction([k \in 0 .. nent - 1 |-> src0[k].len])

\* data_len <= max_data_xfer: one max_xfer call on the request as it is.
Whole ==
  /\ pc = "whole"
  /\ MaxXfer(creq, nent, DataLen, {})
  /\ pc' = "restore"
  /\ UNCHANGED <<nent, src0, creq, req, i, abo, mdx, dst0>>

\* A chunk error returns at once, without restoring the request.
Failed == /\ pc' = "done" /\ UNCHANGED <<creq, req, i, abo, mdx>>

BigSwappedRem ==
  /\ pc = "loop" /\ i < nent /\ creq[i].len > mdx
  /\ LET c1 == [creq EXCEPT ![0] = [va |-> IF i > 0 THEN creq[i].va ELSE @.va,
                                    len |-> mdx]]
         rem == [va |-> Advance(req[i].va, mdx), len |-> mdx - req[i].len]
     IN /\ MaxXfer(c1, 1, mdx, {})
        /\ IF xerr' THEN Failed
           ELSE /\ creq' = [c1 EXCEPT ![i] = rem] /\ req' = [req EXCEPT ![i] = rem]
                /\ abo' = 0 /\ mdx' = MaxOper
                /\ UNCHANGED <<pc, i>>
  /\ UNCHANGED <<nent, src0, dst0>>

\* The loop body when vbuf.src[i] alone exceeds max_data_xfer: send its
\* first max_data_xfer bytes as a one-entry request, then advance it.
Big ==
  /\ pc = "loop" /\ i < nent /\ creq[i].len > mdx
  /\ LET c1 == [creq EXCEPT ![0] = [va |-> IF i > 0 THEN creq[i].va ELSE @.va,
                                    len |-> mdx]]
         rem == [va |-> Advance(req[i].va, mdx), len |-> req[i].len - mdx]
     IN /\ MaxXfer(c1, 1, mdx, {})
        /\ IF xerr' THEN Failed
           ELSE /\ creq' = [c1 EXCEPT ![i] = rem] /\ req' = [req EXCEPT ![i] = rem]
                /\ abo' = 0 /\ mdx' = MaxOper
                /\ UNCHANGED <<pc, i>>
  /\ UNCHANGED <<nent, src0, dst0>>

\* The inner for loop: starting from total = areq's byteoffset, add whole
\* buffers from j until one reaches max_data_xfer (brk) or none is left.
\* total is the sum before buffer j.
RECURSIVE GroupEnd(_, _, _)
GroupEnd(c, j, total) ==
  IF j >= nent THEN [j |-> j, total |-> total, brk |-> FALSE]
  ELSE IF total + c[j].len >= mdx THEN [j |-> j, total |-> total, brk |-> TRUE]
  ELSE GroupEnd(c, j + 1, total + c[j].len)

GroupNoCompact ==
  /\ pc = "loop" /\ i < nent /\ creq[i].len <= mdx
  /\ LET g == GroupEnd(creq, i, abo)
         j == g.j
         c1 == IF g.brk THEN [creq EXCEPT ![j].len = mdx - g.total] ELSE creq
         ne == IF g.brk THEN j - i + 1 ELSE nent - i
         dl == IF g.brk THEN mdx ELSE g.total
         rem == [va |-> Advance(req[j].va, c1[j].len), len |-> req[j].len - c1[j].len]
     IN /\ MaxXfer(c1, ne, dl, IF j \in Idx THEN {} ELSE {"src_overrun"})
        /\ IF xerr' THEN Failed
           ELSE /\ abo' = 0 /\ mdx' = MaxOper
                /\ IF j \in Idx
                     THEN /\ creq' = [c1 EXCEPT ![j] = rem]
                          /\ req' = [req EXCEPT ![j] = rem]
                          /\ i' = IF rem.len = 0 THEN j + 1 ELSE j
                     ELSE /\ creq' = c1 /\ req' = req /\ i' = j
                /\ UNCHANGED pc
  /\ UNCHANGED <<nent, src0, dst0>>

\* The loop body otherwise: gather buffers i..j into one request (cutting
\* buffer j to fit), move them to the front of vbuf.src[], send it, and
\* continue from the rest of buffer j.
Group ==
  /\ pc = "loop" /\ i < nent /\ creq[i].len <= mdx
  /\ LET g == GroupEnd(creq, i, abo)
         j == g.j
         c1 == IF g.brk THEN [creq EXCEPT ![j].len = mdx - g.total] ELSE creq
         ne == IF g.brk THEN j - i + 1 ELSE nent - i
         dl == IF g.brk THEN mdx ELSE g.total
         c2 == IF i > 0 THEN [k \in Idx |-> IF k < ne THEN c1[i + k] ELSE c1[k]]
               ELSE c1
         rem == [va |-> Advance(req[j].va, c2[j].len), len |-> req[j].len - c2[j].len]
     IN /\ MaxXfer(c2, ne, dl, IF j \in Idx THEN {} ELSE {"src_overrun"})
        /\ IF xerr' THEN Failed
           ELSE /\ abo' = 0 /\ mdx' = MaxOper
                /\ IF j \in Idx
                     THEN /\ creq' = [c2 EXCEPT ![j] = rem]
                          /\ req' = [req EXCEPT ![j] = rem]
                          /\ i' = IF rem.len = 0 THEN j + 1 ELSE j
                     \* vbuf.src[MAX_BUFFERS] is past the array
                     ELSE /\ creq' = c2 /\ req' = req /\ i' = j
                /\ UNCHANGED pc
  /\ UNCHANGED <<nent, src0, dst0>>

RestoreLate ==
  /\ \/ pc = "restore"
     \/ pc = "loop" /\ i > nent
  /\ creq' = src0 /\ dst' = dst0 /\ pc' = "done"
  /\ UNCHANGED <<nent, src0, req, di, i, abo, mdx, out, xerr, faults, dst0>>

\* The loop has consumed every source buffer, or the request was sent
\* whole: restore vbuf.src[], vbuf.dst[] and data_len from saved_req.
Restore ==
  /\ \/ pc = "restore"
     \/ pc = "loop" /\ i >= nent
  /\ creq' = src0 /\ dst' = dst0 /\ pc' = "done"
  /\ UNCHANGED <<nent, src0, req, di, i, abo, mdx, out, xerr, faults, dst0>>

Next == Whole \/ Big \/ Group \/ Restore

Spec == Init /\ [][Next]_vars /\ WF_vars(Next)

(***************************************************************************)
(* Properties.                                                             *)
(***************************************************************************)

TypeOK ==
  /\ nent \in 1 .. MaxBuffers /\ i \in Nat /\ di \in Nat
  /\ creq \in [Idx -> [va : Nat \X Nat, len : Nat]] /\ req \in [Idx -> [va : Nat \X Nat, len : Nat]]
  /\ dst \in [Idx -> Nat] /\ abo \in Nat /\ mdx \in Nat
  /\ pc \in {"whole", "loop", "restore", "done"}
  /\ xerr \in BOOLEAN /\ faults \subseteq {"dst_overrun", "src_overrun"}

\* The destination receives the source: every byte copy_to_user has
\* written so far is the source byte at that position (never bounce-buffer
\* junk, never a byte out of order), and a request that completes without
\* error has received all of it, however it was split into chunks.
OutputIsSource ==
  /\ IsPrefix(out, Ref)
  /\ (pc = "done" /\ ~xerr) => out = Ref

\* The copy-out of qcedev_vbuf_ablk_cipher_max_xfer never runs out of the
\* caller's destination entries with data left to copy (it would go on
\* reading vbuf.dst[] entries the caller did not fill, then past the array).
DstWithinEntries == "dst_overrun" \notin faults

\* The split loop never indexes vbuf.src[QCEDEV_MAX_BUFFERS], one past the
\* array, when advancing past the last chunk.
SrcWithinArray == "src_overrun" \notin faults

\* The split loop ends: every chunk makes progress.
Terminates == <>(pc = "done")

====
