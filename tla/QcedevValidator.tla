--------------------------- MODULE QcedevValidator ---------------------------
(***************************************************************************)
(* The parameter checks qcedev_ioctl runs on a request it has copied from  *)
(* user space before the request reaches the chunking code and the queue   *)
(* (src/crypto-qti/qcedev.c): qcedev_check_cipher_params with              *)
(* qcedev_check_cipher_key, qcedev_check_offload_cipher_params with        *)
(* qcedev_check_offload_cipher_key, and qcedev_check_sha_params.           *)
(*                                                                         *)
(* Lengths are u32 in the code; here they are Width-bit, so that the       *)
(* overflow tests and the wrap of "total +=" can be reached with small     *)
(* numbers.  Enumerations (algorithm, mode, operation) are strings; the    *)
(* AES and DES ECB modes are both "ecb".  A segment is its length and      *)
(* whether its vaddr is NULL.  Key and IV lengths keep their byte values.  *)
(***************************************************************************)
EXTENDS Integers, Functions, TLC

CONSTANTS
  MaxBuffers,    \* QCEDEV_MAX_BUFFERS
  Width,         \* bits of a length (32 in the code)
  Block,         \* AES_CE_BLOCK_SIZE
  MaxIv,         \* QCEDEV_MAX_IV_SIZE
  Lens,          \* segment lengths a caller may pass
  HwKeySupport,  \* podev->platform_support.hw_key_support
  AesKey192,     \* podev->ce_support.aes_key_192
  AesXts,        \* podev->ce_support.aes_xts
  CmacSupport    \* podev->ce_support.cmac

U32Max == 2^Width - 1
ASSUME /\ MaxBuffers \in Nat \ {0} /\ Width \in Nat \ {0} /\ Block \in Nat \ {0}
       /\ MaxIv \in Nat /\ Lens \subseteq 0 .. U32Max
       /\ {HwKeySupport, AesKey192, AesXts, CmacSupport} \subseteq BOOLEAN

\* Key sizes and QCEDEV_MAX_KEY_SIZE, in bytes, of the qcedev uapi header.
AES128 == 16
AES192 == 24
AES256 == 32
MaxKey == 64

Idx == 0 .. MaxBuffers - 1
\* The -EINVAL of an accumulation loop.
Invalid == -1

VARIABLES
  req,      \* the request qcedev_ioctl copied from user space
  verdict   \* "pending" before the check, then "ok" (0) or "einval"

vars == <<req, verdict>>

(***************************************************************************)
(* The length loops.                                                       *)
(***************************************************************************)

\* total += len in u32.
Add32(total, len) == (total + len) % 2^Width

\* The overflow test of a source (and sha data) loop.
SrcOverflow(len, total) == len > U32Max - total

DstOverflowDropped(len, total) == FALSE

\* The overflow test of a destination loop, written with >=.
DstOverflow(len, total) == len >= U32Max - total

\* "for (i = 0; i < entries; i++)" over segs from total = init: a NULL
\* vaddr with a length (when the loop checks it), then the overflow test,
\* then the u32 addition, with the destination loop's overflow test when
\* isDst and the source loop's otherwise.  The final total, or Invalid.
Accumulate(segs, n, init, nullChk, isDst) ==
  LET RECURSIVE Loop(_, _)
      Loop(k, total) ==
        IF k = n THEN total
        ELSE IF nullChk /\ segs[k].null /\ segs[k].len # 0 THEN Invalid
        ELSE IF IF isDst THEN DstOverflow(segs[k].len, total)
                         ELSE SrcOverflow(segs[k].len, total)
             THEN Invalid
        ELSE Loop(k + 1, Add32(total, segs[k].len))
  IN Loop(0, init)

\* The byteoffset rules, with the overflow-checked sum of the sources
\* from byteoffset that the code computes and then discards.
ByteOffsetOk(r) ==
  /\ r.byteoffset # 0 =>
       /\ r.mode = "ctr" /\ r.byteoffset < Block
       /\ Accumulate(r.src, r.entries, r.byteoffset, FALSE, FALSE) # Invalid
  /\ r.data_len >= r.byteoffset

\* The sum of the destination lengths, then of the source lengths, must
\* be data_len.
SegmentsMatch(r) ==
  /\ Accumulate(r.dst, r.entries, 0, TRUE, TRUE) = r.data_len
  /\ Accumulate(r.src, r.entries, 0, TRUE, FALSE) = r.data_len

(***************************************************************************)
(* The checks; TRUE is a return of 0.  The conjuncts are in the code's     *)
(* order, so that no array is read before entries is bounded.             *)
(***************************************************************************)

CheckCipherKey(r) ==
  IF r.encklen = 0
  THEN ~r.keyset /\ (r.op = "no_key" \/ HwKeySupport)
  ELSE IF r.encklen = AES192 THEN AesKey192
  ELSE IF r.mode = "xts" THEN r.encklen \in {2 * AES128, 2 * AES256}
  ELSE r.encklen \in {AES128, AES256}

CheckCipherParams(r) ==
  /\ ~r.use_pmem
  /\ r.entries # 0 /\ r.data_len # 0 /\ r.entries <= MaxBuffers
  /\ r.alg # "invalid" /\ r.mode # "invalid"
  /\ r.mode = "xts" => AesXts
  /\ r.alg = "aes" => CheckCipherKey(r)
  /\ ByteOffsetOk(r)
  /\ r.ivlen <= MaxIv /\ r.encklen <= MaxKey
  /\ IF r.ivlen > 0 THEN r.mode # "ecb" ELSE r.mode = "ecb"
  /\ SegmentsMatch(r)

CheckOffloadCipherKey(r) == r.encklen # 0 /\ r.encklen \in {AES128, AES256}

\* mode <= QCEDEV_AES_MODE_CTR: CBC, ECB and CTR.
CheckOffloadCipherParams(r) ==
  /\ r.entries # 0 /\ r.data_len # 0 /\ r.entries <= MaxBuffers
  /\ r.alg = "aes" /\ r.mode \in {"cbc", "ecb", "ctr"}
  /\ CheckOffloadCipherKey(r)
  /\ r.block_offset < Block
  /\ ByteOffsetOk(r)
  /\ r.ivlen <= MaxIv /\ r.encklen <= MaxKey
  /\ SegmentsMatch(r)

ShaParamsNoZeroEntries(r) ==
  /\ r.alg = "cmac" => CmacSupport
  /\ r.entries <= MaxBuffers
  /\ r.alg # "invalid"
  /\ r.alg \in {"sha1_hmac", "sha256_hmac"} => ~r.authkey_null /\ r.authklen > 0
  /\ r.alg = "cmac" => r.authklen \in {AES128, AES256}
  /\ Accumulate(r.data, r.entries, 0, FALSE, FALSE) = r.data_len

CheckShaParams(r) ==
  /\ r.alg = "cmac" => CmacSupport
  /\ r.entries # 0 /\ r.entries <= MaxBuffers
  /\ r.alg # "invalid"
  /\ r.alg \in {"sha1_hmac", "sha256_hmac"} => ~r.authkey_null /\ r.authklen > 0
  /\ r.alg = "cmac" => r.authklen \in {AES128, AES256}
  /\ Accumulate(r.data, r.entries, 0, FALSE, FALSE) = r.data_len

(***************************************************************************)
(* The requests a caller can pass.  The fields other than lengths vary     *)
(* over every combination on one valid segment layout, and the segment    *)
(* layouts vary over every combination on valid other fields; the checks  *)
(* on the two are independent conjuncts, except the byteoffset rules,     *)
(* which both families vary.                                              *)
(***************************************************************************)

Segs == {[len |-> l, null |-> FALSE] : l \in Lens} \cup {[len |-> 1, null |-> TRUE]}
OneSeg == [k \in Idx |-> [len |-> IF k = 0 THEN 1 ELSE 0, null |-> FALSE]]

Layouts == [entries : 0 .. MaxBuffers + 1, data_len : 0 .. U32Max,
            src : [Idx -> Segs], dst : [Idx -> Segs], byteoffset : 0 .. Block]
OneLayout == [entries |-> 1, data_len |-> 1, src |-> OneSeg, dst |-> OneSeg,
             byteoffset |-> 0]

CipherFields ==
  [use_pmem : BOOLEAN, alg : {"des", "3des", "aes", "invalid"},
   mode : {"cbc", "ecb", "ctr", "xts", "invalid"}, op : {"key", "no_key"},
   encklen : {0, AES128, AES192, AES256, 2 * AES256, MaxKey + 1},
   keyset : BOOLEAN, ivlen : {0, 1, MaxIv + 1}, byteoffset : 0 .. Block]
OneCipher == [use_pmem |-> FALSE, alg |-> "aes", mode |-> "ctr", op |-> "key",
              encklen |-> AES128, keyset |-> TRUE, ivlen |-> 1]

OffloadFields ==
  [alg : {"aes", "des"}, mode : {"cbc", "ecb", "ctr", "xts"},
   encklen : {0, AES128, AES192, AES256}, block_offset : {0, Block},
   ivlen : {0, 1, MaxIv + 1}, byteoffset : 0 .. Block]
OneOffload == [alg |-> "aes", mode |-> "ctr", encklen |-> AES128,
               block_offset |-> 0, ivlen |-> 1]

ShaFields ==
  [alg : {"sha1", "sha256", "sha1_hmac", "sha256_hmac", "cmac", "invalid"},
   authkey_null : BOOLEAN, authklen : {0, 5, AES128, AES256}]
ShaLayouts == [entries : 0 .. MaxBuffers + 1, data_len : 0 .. U32Max,
               data : [Idx -> {[len |-> l] : l \in Lens}]]

CipherReq(f, l) ==
  [kind |-> "cipher", use_pmem |-> f.use_pmem, alg |-> f.alg, mode |-> f.mode,
   op |-> f.op, encklen |-> f.encklen, keyset |-> f.keyset, ivlen |-> f.ivlen,
   byteoffset |-> l.byteoffset, entries |-> l.entries, data_len |-> l.data_len,
   src |-> l.src, dst |-> l.dst]

OffloadReq(f, l) ==
  [kind |-> "offload", alg |-> f.alg, mode |-> f.mode, encklen |-> f.encklen,
   block_offset |-> f.block_offset, ivlen |-> f.ivlen,
   byteoffset |-> l.byteoffset, entries |-> l.entries, data_len |-> l.data_len,
   src |-> l.src, dst |-> l.dst]

ShaReq(f, l) ==
  [kind |-> "sha", alg |-> f.alg, authkey_null |-> f.authkey_null,
   authklen |-> f.authklen, entries |-> l.entries, data_len |-> l.data_len,
   data |-> l.data]

(***************************************************************************)
(* The ioctl: copy_from_user has filled the request, then the check runs.  *)
(***************************************************************************)

Init ==
  /\ verdict = "pending"
  /\ \/ \E f \in CipherFields :
          req = CipherReq(f, [OneLayout EXCEPT !.byteoffset = f.byteoffset])
     \/ \E l \in Layouts : req = CipherReq(OneCipher, l)
     \/ \E f \in OffloadFields :
          req = OffloadReq(f, [OneLayout EXCEPT !.byteoffset = f.byteoffset])
     \/ \E l \in Layouts : req = OffloadReq(OneOffload, l)
     \/ \E f \in ShaFields, l \in ShaLayouts : req = ShaReq(f, l)

Verdict(ok) == verdict' = IF ok THEN "ok" ELSE "einval"

\* QCEDEV_IOCTL_ENC_REQ / DEC_REQ.
CipherIoctl ==
  /\ verdict = "pending" /\ req.kind = "cipher"
  /\ Verdict(CheckCipherParams(req)) /\ UNCHANGED req

\* QCEDEV_IOCTL_OFFLOAD_OP_REQ.
OffloadIoctl ==
  /\ verdict = "pending" /\ req.kind = "offload"
  /\ Verdict(CheckOffloadCipherParams(req)) /\ UNCHANGED req

\* QCEDEV_IOCTL_SHA_INIT_REQ, _UPDATE_REQ, _FINAL_REQ and GET_SHA_REQ.
ShaIoctl ==
  /\ verdict = "pending" /\ req.kind = "sha"
  /\ Verdict(CheckShaParams(req)) /\ UNCHANGED req

Next == CipherIoctl \/ OffloadIoctl \/ ShaIoctl

Spec == Init /\ [][Next]_vars

(***************************************************************************)
(* Properties.                                                             *)
(***************************************************************************)

\* A request let through is one the next stage can index: the chunking
\* loops and the copy loops walk vbuf.src[], vbuf.dst[] and data[] up to
\* entries, which must be a count of 1 .. QCEDEV_MAX_BUFFERS.
TypeOK ==
  /\ req.kind \in {"cipher", "offload", "sha"}
  /\ verdict \in {"pending", "ok", "einval"}
  /\ verdict = "ok" => req.entries \in 1 .. MaxBuffers

\* The sum over the first n segments, in the integers.
NatSum(segs, n) == SumFunction([k \in 0 .. n - 1 |-> segs[k].len])

\* Spec section 3: "declared total length must equal the sum of
\* per-segment lengths for both source and destination", with the sum
\* "computed with overflow-checked accumulation, rejecting on wrap".  For
\* every request the checks let through, the lengths really add up to
\* data_len in the integers (no u32 wrap made them appear to), and no
\* segment with a length has a NULL address: qcedev_vbuf_ablk_cipher and
\* qcedev_sha_update rely on both.
AcceptedLengthsExact ==
  verdict = "ok" /\ req.entries \in 1 .. MaxBuffers =>
    LET n == req.entries IN
    IF req.kind = "sha" THEN NatSum(req.data, n) = req.data_len
    ELSE /\ NatSum(req.src, n) = req.data_len
         /\ NatSum(req.dst, n) = req.data_len
         /\ \A k \in 0 .. n - 1 :
              /\ req.src[k].null => req.src[k].len = 0
              /\ req.dst[k].null => req.dst[k].len = 0

\* Spec section 4.1: a cipher request with valid AES-CTR fields is refused
\* only for a length reason: the checks let through every such request
\* whose segments have non-NULL addresses, lengths that sum to
\* data_len without passing U32_MAX (byteoffset included), and are 1 ..
\* QCEDEV_MAX_BUFFERS many.  The destination loop's ">=" refuses the sum
\* U32_MAX itself.
LengthsAccepted ==
  /\ verdict # "pending" /\ req.kind = "cipher"
  /\ req = CipherReq(OneCipher, req)
  /\ req.entries \in 1 .. MaxBuffers /\ req.data_len > 0
  /\ req.byteoffset < Block /\ req.byteoffset + req.data_len <= U32Max
  /\ NatSum(req.src, req.entries) = req.data_len
  /\ NatSum(req.dst, req.entries) = req.data_len
  /\ \A k \in 0 .. req.entries - 1 : ~req.src[k].null /\ ~req.dst[k].null
  => verdict = "ok"

\* Spec section 4.1: "XTS requires double-length keys".  A 24-byte AES key
\* on a device with aes_key_192 passes qcedev_check_cipher_key before the
\* XTS test is reached.
XtsKeyDoubleLength ==
  verdict = "ok" /\ req.kind = "cipher" /\ req.alg = "aes" /\ req.mode = "xts"
  /\ req.encklen # 0 => req.encklen \in {2 * AES128, 2 * AES256}

\* An offload request the checks let through is one
\* start_offload_cipher_req can start: its mode switch takes CBC and CTR
\* only and returns -EINVAL for the ECB mode the check admits.
OffloadModeStartable ==
  verdict = "ok" /\ req.kind = "offload" => req.mode \in {"cbc", "ctr"}

====
