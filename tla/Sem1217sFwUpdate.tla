--------------------------- MODULE Sem1217sFwUpdate ---------------------------
(***************************************************************************)
(* sem1217s_fw_update (cam_ois_sem1217s.c): the OIS firmware download.    *)
(* It reads the application version of the chip, skips when it equals    *)
(* the version stored in the image, turns OIS and AF off, puts the chip   *)
(* into download mode, writes the image in chunks while summing it in     *)
(* 16-bit little-endian words, writes the sum, reads the error register,  *)
(* resets the chip and reads the version again.  Every I2C transfer may   *)
(* fail, and the function then returns -EINVAL at once.                   *)
(*                                                                         *)
(* A u32 is kept as its four bytes, most significant first, so the byte   *)
(* swaps of the helpers are what they do to bytes.  The chip is modelled  *)
(* by its register contract: APP_VER reads back the image's version       *)
(* bytes in order, the checksum register is little-endian, the chip sums  *)
(* what it received in little-endian words (an odd last byte as a word of *)
(* its own) and sets FWUP_ERR when that differs, and a reset boots the    *)
(* new image only when FWUP_ERR is clear.  A failed transfer changes      *)
(* nothing on the chip.                                                   *)
(***************************************************************************)
EXTENDS Integers, Sequences, SequencesExt

CONSTANTS
  Images,      \* firmware files request_firmware may hand over
  DevVers,     \* application versions the chip may be running
  Chunk,       \* SEM1217S_CHUNCK_SIZE
  VerTail,     \* the version is read VerTail bytes before the end (12)
  IoMayFail    \* an I2C transfer may fail

ASSUME /\ Chunk > 0 /\ Chunk % 2 = 0 /\ VerTail >= 4
       /\ \A img \in Images : Len(img) >= VerTail

Blank == <<0, 0, 0, 0>>
NoChk == -1
NoRet == 1
Busy == {"start", "ois", "af", "fwup", "chunk", "chksum", "readerr", "reset", "verify"}

VARIABLES
  img,      \* fw->data
  devver,   \* the chip's REG_APP_VER bytes, in the order the bus returns them
  ois, af,  \* the chip's OIS and AF state: "ready" or "on"
  mode,     \* "app", or "fwup" after FWUP_CTRL_256_SET
  rx,       \* the bytes the chip received in download mode
  chk,      \* the chip's checksum register
  fwerr,    \* the chip's REG_FWUP_ERR
  pc,       \* where sem1217s_fw_update is, or "done"
  cur,      \* current_fw_ver
  newv,     \* new_fw_ver
  sum,      \* check_sum
  sent,     \* fw->size - remain_bytes
  ret,      \* the value returned, 0 or -1 (-EINVAL); NoRet before
  faulted   \* some transfer has failed (history)

vars == <<img, devver, ois, af, mode, rx, chk, fwerr, pc, cur, newv, sum, sent, ret,
         faulted>>

-----------------------------------------------------------------------------
(* Conversions.                                                            *)

\* camera_io_dev_read of a DWORD: the bus bytes, first byte most
\* significant.
BusDword(b) == b

Swap32Identity(v) == v

\* sem1217s_cci_read_u32_little_endian: the four byte masks and shifts.
Swap32(v) == <<v[4], v[3], v[2], v[1]>>

\* *(uint32_t *)(pFwData + fw->size - VerTail) on a little-endian CPU.
ImgVer(image) ==
  LET p == Len(image) - VerTail IN
  <<image[p + 4], image[p + 3], image[p + 2], image[p + 1]>>

\* The version bytes the chip reports after booting image.
ChipVer(image) == Reverse(ImgVer(image))

\* sem1217s_cci_write_u16_little_endian: send = (val << 8) | (val >> 8)
\* as a uint16.
Swap16(v) == ((v * 256) % 65536) + (v \div 256)

\* camera_io_dev_write of a WORD sends the high byte first; the chip reads
\* the register little-endian.
ChipWord(send) == LET bus == <<send \div 256, send % 256>> IN bus[1] + 256 * bus[2]

\* The chip's sum of what it received.
ChipSum(bytes) ==
  LET Word(k) == bytes[2 * k - 1] + 256 * (IF 2 * k <= Len(bytes) THEN bytes[2 * k] ELSE 0)
  IN  FoldLeft(LAMBDA s, k : (s + Word(k)) % 65536, 0,
               [k \in 1..((Len(bytes) + 1) \div 2) |-> k])

ChunkSumNoWrap(buf, acc) ==
  LET RECURSIVE Loop(_, _)
      Loop(i, s) == IF i = Len(buf) THEN s
                    ELSE Loop(i + 1, IF i % 2 # 0 THEN s + buf[i + 1] * 256 + buf[i] ELSE s)
  IN  Loop(0, acc)

ChunkSumBigEndian(buf, acc) ==
  LET RECURSIVE Loop(_, _)
      Loop(i, s) == IF i = Len(buf) THEN s
                    ELSE Loop(i + 1, IF i % 2 # 0 THEN (s + buf[i] * 256 + buf[i + 1]) % 65536
                                     ELSE s)
  IN  Loop(0, acc)

\* The inner for loop over one chunk: at every odd i (from 0) it adds
\* (buff[i] << 8) | buff[i-1] to check_sum, a uint16.  buf[i + 1] is
\* buff[i].
ChunkSum(buf, acc) ==
  LET RECURSIVE Loop(_, _)
      Loop(i, s) == IF i = Len(buf) THEN s
                    ELSE Loop(i + 1, IF i % 2 # 0 THEN (s + buf[i + 1] * 256 + buf[i]) % 65536
                                     ELSE s)
  IN  Loop(0, acc)

-----------------------------------------------------------------------------
(* The function, one step per transfer.                                   *)

Init ==
  /\ img \in Images
  /\ devver \in DevVers \cup {ChipVer(img)}
  /\ ois \in {"ready", "on"} /\ af \in {"ready", "on"}
  /\ devver = Blank => ois = "ready" /\ af = "ready"
  /\ mode = "app" /\ rx = <<>> /\ chk = NoChk /\ fwerr = 0
  /\ pc = "start" /\ cur = Blank /\ newv = Blank /\ sum = 0 /\ sent = 0
  /\ ret = NoRet /\ faulted = FALSE

Chip == <<devver, ois, af, mode, rx, chk, fwerr>>
Locals == <<cur, newv, sum, sent>>

\* A transfer fails: the function returns -EINVAL.
Fail ==
  /\ IoMayFail /\ pc \in Busy
  /\ pc' = "done" /\ ret' = -1 /\ faulted' = TRUE
  /\ UNCHANGED <<img, Chip, Locals>>

Goto(p) == pc' = p /\ UNCHANGED <<ret, faulted>>
Return(r) == pc' = "done" /\ ret' = r /\ UNCHANGED faulted

\* Read REG_APP_VER and the version in the image; skip when they match,
\* and turn OIS and AF off only when the chip runs an application.
ReadVersion ==
  LET c == Swap32(BusDword(devver)) IN
  /\ pc = "start"
  /\ cur' = c /\ newv' = ImgVer(img)
  /\ IF c = ImgVer(img) THEN Return(0)
     ELSE IF c # Blank THEN Goto("ois") ELSE Goto("fwup")
  /\ UNCHANGED <<img, Chip, sum, sent>>

\* Read REG_OIS_STS; write OIS_OFF when it is not STATE_READY.
OisOff ==
  /\ pc = "ois" /\ ois' = "ready" /\ Goto("af")
  /\ UNCHANGED <<img, devver, af, mode, rx, chk, fwerr, Locals>>

\* Read REG_AF_STS; write AF_OFF when it is not STATE_READY.
AfOff ==
  /\ pc = "af" /\ af' = "ready" /\ Goto("fwup")
  /\ UNCHANGED <<img, devver, ois, mode, rx, chk, fwerr, Locals>>

\* Write FWUP_CTRL_256_SET: the chip enters download mode.
EnterDownload ==
  /\ pc = "fwup" /\ mode' = "fwup" /\ rx' = <<>> /\ Goto("chunk")
  /\ sum' = 0 /\ sent' = 0
  /\ UNCHANGED <<img, devver, ois, af, chk, fwerr, cur, newv>>

\* One turn of the while loop: sum the next chunk and burst-write it.
WriteChunk ==
  LET wr == IF Len(img) - sent >= Chunk THEN Chunk ELSE Len(img) - sent
      buf == SubSeq(img, sent + 1, sent + wr)
  IN  /\ pc = "chunk" /\ sent < Len(img)
      /\ sum' = ChunkSum(buf, sum) /\ rx' = rx \o buf /\ sent' = sent + wr
      /\ Goto(IF sent + wr = Len(img) THEN "chksum" ELSE "chunk")
      /\ UNCHANGED <<img, devver, ois, af, mode, chk, fwerr, cur, newv>>

\* Write check_sum to REG_FWUP_CHKSUM; the chip checks what it received.
WriteChecksum ==
  LET c == ChipWord(Swap16(sum)) IN
  /\ pc = "chksum"
  /\ chk' = c /\ fwerr' = IF c = ChipSum(rx) THEN 0 ELSE 1
  /\ Goto("readerr")
  /\ UNCHANGED <<img, devver, ois, af, mode, rx, Locals>>

\* Read REG_FWUP_ERR.
ReadError ==
  /\ pc = "readerr"
  /\ IF fwerr # 0 THEN Return(-1) ELSE Goto("reset")
  /\ UNCHANGED <<img, Chip, Locals>>

\* Write RESET_REQ: the chip leaves download mode and boots.
ResetChip ==
  /\ pc = "reset" /\ mode' = "app"
  /\ devver' = IF fwerr = 0 THEN ChipVer(img) ELSE devver
  /\ Goto("verify")
  /\ UNCHANGED <<img, ois, af, rx, chk, fwerr, Locals>>

\* Read REG_APP_VER again and compare it with new_fw_ver.
Verify ==
  /\ pc = "verify"
  /\ Return(IF Swap32(BusDword(devver)) = newv THEN 0 ELSE -1)
  /\ UNCHANGED <<img, Chip, Locals>>

Next ==
  \/ Fail \/ ReadVersion \/ OisOff \/ AfOff \/ EnterDownload \/ WriteChunk
  \/ WriteChecksum \/ ReadError \/ ResetChip \/ Verify

Spec == Init /\ [][Next]_vars

-----------------------------------------------------------------------------

TypeOK ==
  /\ img \in Images /\ pc \in Busy \cup {"done"} /\ ret \in {NoRet, 0, -1}
  /\ mode \in {"app", "fwup"} /\ ois \in {"ready", "on"} /\ af \in {"ready", "on"}
  /\ sum \in 0..65535 /\ sent \in 0..Len(img) /\ fwerr \in {0, 1}
  /\ chk \in {NoChk} \cup 0..65535 /\ faulted \in BOOLEAN

\* sem1217s_fw_update returns 0 only when the chip runs the image: it
\* skipped because the version it read equals the image's, or the chip
\* booted the downloaded image.  The version read, the little-endian
\* load from the image and the swap in read_u32 must agree for that.
SuccessMeansInstalled ==
  ret = 0 => devver = ChipVer(img) /\ mode = "app"

\* With no failed transfer, an image of whole 16-bit words is installed:
\* the chunked sum, its swap on the way to REG_FWUP_CHKSUM and the
\* version checks agree with the chip, so the download is never refused.
InstallsWhenNoFault ==
  (pc = "done" /\ ~faulted /\ Len(img) % 2 = 0) => ret = 0

\* Whatever sem1217s_fw_update returns, the chip is left running an
\* application, not waiting in download mode: a failed chunk, checksum or
\* error-register transfer is followed by RESET_REQ.
LeavesDownloadMode == pc = "done" => mode = "app"
====
