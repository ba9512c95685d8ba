------------------------------- MODULE NvData -------------------------------
(***************************************************************************)
(* The nv_data store of samsung-ipc/rfs.c: the modem's calibration file,   *)
(* its MD5 file, and a backup pair, kept in the file system by             *)
(* ipc_nv_data_load, _restore, _backup, _read and _write on top of         *)
(* file_data_read and file_data_write (utils.c).                           *)
(*                                                                         *)
(* One step is one system call that changes a file (write of a chunk,      *)
(* unlink, creation by open), so that a crash may fall between any two of  *)
(* them.  Runs of calls that only read are one step: a crash inside such a *)
(* run is a crash before it.                                               *)
(***************************************************************************)
EXTENDS Integers, FiniteSets

CONSTANTS
    N,            \* chunks in an nv_data file of the right size
    Val,          \* what one chunk can hold
    Hole,         \* a chunk beyond the end of the file
    NoFile,       \* the path does not exist
    ShortFile,    \* an MD5 file whose size is not MD5_DIGEST_LENGTH_ASCII
    NoData,       \* no image / a NULL result
    IoFaults,     \* may stat, read, write, open and unlink fail?
    DirectBackup  \* does the client call ipc_nv_data_backup by itself?

Block == 1 .. N + 1                \* block N+1 lies beyond nv_data_size
File  == [Block -> Val \cup {Hole}]
Empty == [b \in Block |-> Hole]

(* Contents with st_size = nv_data_size: what the path checks accept. *)
Image == {f \in File : f[N + 1] = Hole /\ \A b \in 1 .. N : f[b] # Hole}

(* MD5 of the image and the secret; collisions are left out. *)
Md5(img) == [digest_of |-> img]
Digest   == {Md5(img) : img \in Image}
Extent   == {[b \in from .. to |-> f[b]] : from, to \in Block, f \in File}

ASSUME ConstantsAssumption ==
    /\ N \in Nat \ {0}
    /\ Val # {} /\ Hole \notin Val
    /\ NoFile \notin File /\ NoFile # ShortFile
    /\ NoFile \notin Digest /\ ShortFile \notin Digest
    /\ NoData \notin Image /\ NoData \notin Digest
    /\ IoFaults \in BOOLEAN /\ DirectBackup \in BOOLEAN

VARIABLES
    nv, md5,        \* nv_data_path, nv_data_md5_path
    bak, bakmd5,    \* nv_data_backup_path, nv_data_backup_md5_path
    pc,             \* where the running call is
    op,             \* the API call the client made
    buf, sum,       \* the heap buffers: image to write, digest to write
    pos, last,      \* next and last chunk of the running file_data_write
    booted,         \* the modem was booted with a loaded nv_data
    ret             \* what the last call returned

\* History of the run, read by the properties only.
VARIABLES
    whole,    \* images made of completely applied write requests
    tainted,  \* a write or a backup was started on an inconsistent nv_data
    stable    \* image acknowledged by the last load or write, if no write
              \* or restore was started since

files == <<nv, md5, bak, bakmd5>>
job   == <<buf, sum, pos, last>>
hist  == <<whole, tainted, stable>>
vars  == <<nv, md5, bak, bakmd5, pc, op, buf, sum, pos, last, booted, ret,
           whole, tainted, stable>>

Call == {"load", "restore", "backup", "write", "read"}
NoRet == [call |-> "none", rc |-> "none", data |-> NoData]

(***************************************************************************)
(* The checks.                                                             *)
(***************************************************************************)

(* ipc_nv_data_path_check and ipc_nv_data_backup_path_check: stat and size *)
FullSize(f) == f \in Image

(* ipc_nv_data_check and ipc_nv_data_backup_check: both sizes are right    *)
(* and the stored digest is the one calculated from the data.              *)
Intact(f, s) == FullSize(f) /\ s = Md5(f)

(* A sequence of reads fails on bad contents or on an I/O error. *)
Fails(good) == ~good \/ IoFaults

(***************************************************************************)
(* file_data_write: open(O_WRONLY|O_CREAT), then one chunk per step.  The  *)
(* file is not truncated.  rc <= 0 from write() ends the loop.             *)
(***************************************************************************)
Put(f, b, v) == [(IF f = NoFile THEN Empty ELSE f) EXCEPT ![b] = v]

(* Slip: write() returning 0 is not the end of the loop. *)
FileDataWriteStuck(f, fnew, here, next) ==
    /\ pc = here
    /\ fnew = Put(f, pos, buf[pos])
    /\ pos' = pos
    /\ pc' = IF pos = last THEN next ELSE here

FileDataWrite(f, fnew, here, next) ==
    /\ pc = here
    /\ fnew = Put(f, pos, buf[pos])
    /\ pos' = pos + 1
    /\ pc' = IF pos = last THEN next ELSE here

(* The file after a failed open or write. *)
Created(f, blank) == {f, IF f = NoFile THEN blank ELSE f}

(* unlink() whose failure is only logged. *)
Unlink(f, fnew) == fnew = NoFile \/ (IoFaults /\ fnew = f)

(***************************************************************************)
(* Returning from an API call frees the buffers.                           *)
(***************************************************************************)
Return(call, rc, data) ==
    /\ pc' = "idle" /\ op' = "none"
    /\ ret' = [call |-> call, rc |-> rc, data |-> data]
    /\ buf' = Empty /\ sum' = NoData /\ pos' = 1 /\ last' = N

Enter(call, at) ==
    /\ pc = "idle"
    /\ pc' = at /\ op' = call /\ ret' = NoRet

Init ==
    /\ nv \in Image /\ md5 = Md5(nv)
    /\ \/ bak = NoFile /\ bakmd5 = NoFile
       \/ bak \in Image /\ bakmd5 = Md5(bak)
    /\ pc = "idle" /\ op = "none"
    /\ buf = Empty /\ sum = NoData /\ pos = 1 /\ last = N
    /\ booted = FALSE /\ ret = NoRet
    /\ whole = {nv, bak} \cap Image
    /\ tainted = FALSE /\ stable = nv

(***************************************************************************)
(* ipc_nv_data_load                                                        *)
(***************************************************************************)
CallLoad ==
    /\ Enter("load", "load_check")
    /\ booted' = FALSE
    /\ UNCHANGED <<files, job, hist>>

(* Slip: the digests are not compared. *)
LoadCheckOkBySize ==
    /\ pc \in {"load_check", "load_recheck"}
    /\ FullSize(nv)
    /\ pc' = "load_backup"
    /\ UNCHANGED <<files, op, job, booted, ret, hist>>

LoadCheckOk ==
    /\ pc \in {"load_check", "load_recheck"}
    /\ Intact(nv, md5)
    /\ pc' = "load_backup"
    /\ UNCHANGED <<files, op, job, booted, ret, hist>>

(* Slip: load restores without checking nv_data first. *)
LoadCheckFailsAlways ==
    /\ pc = "load_check"
    /\ pc' = "restore_check"
    /\ UNCHANGED <<files, op, job, booted, ret, hist>>

LoadCheckFails ==
    /\ pc = "load_check" /\ Fails(Intact(nv, md5))
    /\ pc' = "restore_check"
    /\ UNCHANGED <<files, op, job, booted, ret, hist>>

LoadRecheckFails ==
    /\ pc = "load_recheck" /\ Fails(Intact(nv, md5))
    /\ Return("load", "error", NoData)
    /\ UNCHANGED <<files, booted, hist>>

(* Slip: load backs up whatever the backup is like. *)
LoadBackupAnyway ==
    /\ pc = "load_backup"
    /\ pc' = "backup_read"
    /\ UNCHANGED <<files, op, job, booted, ret, hist>>

(* Only the size of the backup decides whether a new one is made; when the *)
(* stat fails one is made over a backup that may be intact.                *)
LoadBackupPathCheck ==
    /\ pc = "load_backup"
    /\ \/ FullSize(bak) /\ pc' = "load_read"
       \/ Fails(FullSize(bak)) /\ pc' = "backup_read"
    /\ UNCHANGED <<files, op, job, booted, ret, hist>>

LoadRead ==
    /\ pc = "load_read" /\ FullSize(nv)
    /\ Return("load", "ok", nv)
    /\ booted' = TRUE /\ stable' = nv
    /\ UNCHANGED <<files, whole, tainted>>

LoadReadFails ==
    /\ pc = "load_read" /\ Fails(FullSize(nv))
    /\ Return("load", "error", NoData)
    /\ UNCHANGED <<files, booted, hist>>

(***************************************************************************)
(* ipc_nv_data_restore                                                     *)
(***************************************************************************)
CallRestore ==
    /\ Enter("restore", "restore_check")
    /\ stable' = NoData
    /\ UNCHANGED <<files, job, booted, whole, tainted>>

RestoreCheckOk ==
    /\ pc = "restore_check" /\ Intact(bak, bakmd5)
    /\ buf' = bak /\ pos' = 1 /\ last' = N
    /\ pc' = "restore_unlink"
    /\ UNCHANGED <<files, op, sum, booted, ret, hist>>

RestoreCheckFails ==
    /\ pc = "restore_check" /\ Fails(Intact(bak, bakmd5))
    /\ Return(op, "error", NoData)
    /\ UNCHANGED <<files, booted, hist>>

RestoreUnlink ==
    /\ pc = "restore_unlink" /\ Unlink(nv, nv')
    /\ pc' = "restore_write"
    /\ UNCHANGED <<md5, bak, bakmd5, op, job, booted, ret, hist>>

RestoreWrite ==
    /\ FileDataWrite(nv, nv', "restore_write", "restore_read_md5")
    /\ UNCHANGED <<md5, bak, bakmd5, op, buf, sum, last, booted, ret, hist>>

RestoreWriteFails ==
    /\ pc = "restore_write" /\ IoFaults
    /\ nv' \in Created(nv, Empty)
    /\ Return(op, "error", NoData)
    /\ UNCHANGED <<md5, bak, bakmd5, booted, hist>>

(* Slip: restore copies nv_data_md5 over itself. *)
RestoreReadMd5WrongPath ==
    /\ pc = "restore_read_md5" /\ md5 \in Digest
    /\ sum' = md5
    /\ pc' = "restore_unlink_md5"
    /\ UNCHANGED <<files, op, buf, pos, last, booted, ret, hist>>

RestoreReadMd5 ==
    /\ pc = "restore_read_md5" /\ bakmd5 \in Digest
    /\ sum' = bakmd5
    /\ pc' = "restore_unlink_md5"
    /\ UNCHANGED <<files, op, buf, pos, last, booted, ret, hist>>

RestoreReadMd5Fails ==
    /\ pc = "restore_read_md5" /\ Fails(bakmd5 \in Digest)
    /\ Return(op, "error", NoData)
    /\ UNCHANGED <<files, booted, hist>>

RestoreUnlinkMd5 ==
    /\ pc = "restore_unlink_md5" /\ Unlink(md5, md5')
    /\ pc' = "restore_write_md5"
    /\ UNCHANGED <<nv, bak, bakmd5, op, job, booted, ret, hist>>

RestoreWriteMd5 ==
    /\ pc = "restore_write_md5"
    /\ md5' = sum
    /\ \/ op = "load" /\ pc' = "load_recheck" /\ UNCHANGED <<op, job, ret>>
       \/ op = "restore" /\ Return("restore", "ok", NoData)
    /\ UNCHANGED <<nv, bak, bakmd5, booted, hist>>

RestoreWriteMd5Fails ==
    /\ pc = "restore_write_md5" /\ IoFaults
    /\ md5' \in Created(md5, ShortFile)
    /\ Return(op, "error", NoData)
    /\ UNCHANGED <<nv, bak, bakmd5, booted, hist>>

(***************************************************************************)
(* ipc_nv_data_backup.  It checks the size of nv_data, not its digest.     *)
(* Inside a load its failure is only logged.                               *)
(***************************************************************************)
CallBackup ==
    /\ DirectBackup
    /\ Enter("backup", "backup_read")
    /\ tainted' = (tainted \/ ~Intact(nv, md5))
    /\ UNCHANGED <<files, job, booted, whole, stable>>

BackupDone(rc) ==
    \/ op = "load" /\ pc' = "load_read" /\ UNCHANGED <<op, job, ret>>
    \/ op = "backup" /\ Return("backup", rc, NoData)

BackupRead ==
    /\ pc = "backup_read" /\ FullSize(nv)
    /\ buf' = nv /\ sum' = Md5(nv) /\ pos' = 1 /\ last' = N
    /\ pc' = "backup_unlink"
    /\ UNCHANGED <<files, op, booted, ret, hist>>

BackupReadFails ==
    /\ pc = "backup_read" /\ Fails(FullSize(nv))
    /\ BackupDone("error")
    /\ UNCHANGED <<files, booted, hist>>

BackupUnlink ==
    /\ pc = "backup_unlink" /\ Unlink(bak, bak')
    /\ pc' = "backup_write"
    /\ UNCHANGED <<nv, md5, bakmd5, op, job, booted, ret, hist>>

BackupWrite ==
    /\ FileDataWrite(bak, bak', "backup_write", "backup_unlink_md5")
    /\ UNCHANGED <<nv, md5, bakmd5, op, buf, sum, last, booted, ret, hist>>

BackupWriteFails ==
    /\ pc = "backup_write" /\ IoFaults
    /\ bak' \in Created(bak, Empty)
    /\ BackupDone("error")
    /\ UNCHANGED <<nv, md5, bakmd5, booted, hist>>

(* Slip: backup removes the MD5 file of nv_data. *)
BackupUnlinkMd5WrongPath ==
    /\ pc = "backup_unlink_md5" /\ Unlink(md5, md5')
    /\ pc' = "backup_write_md5"
    /\ UNCHANGED <<nv, bak, bakmd5, op, job, booted, ret, hist>>

BackupUnlinkMd5 ==
    /\ pc = "backup_unlink_md5" /\ Unlink(bakmd5, bakmd5')
    /\ pc' = "backup_write_md5"
    /\ UNCHANGED <<nv, md5, bak, op, job, booted, ret, hist>>

BackupWriteMd5 ==
    /\ pc = "backup_write_md5"
    /\ bakmd5' = sum
    /\ BackupDone("ok")
    /\ UNCHANGED <<nv, md5, bak, booted, hist>>

BackupWriteMd5Fails ==
    /\ pc = "backup_write_md5" /\ IoFaults
    /\ bakmd5' \in Created(bakmd5, ShortFile)
    /\ BackupDone("error")
    /\ UNCHANGED <<nv, md5, bak, booted, hist>>

(***************************************************************************)
(* ipc_nv_data_read and ipc_nv_data_write serve the modem's RFS requests,  *)
(* which come after a boot that loaded nv_data.  A request names the       *)
(* chunks off .. off + size - 1; the range is not checked against the size *)
(* of nv_data: a read beyond it meets the end of the file, a write beyond  *)
(* it makes the file longer.                                               *)
(***************************************************************************)
ReadFits(off, size) == size > 0 /\ \A b \in off .. off + size - 1 : nv[b] # Hole

CallRead(off, size) ==
    /\ pc = "idle" /\ booted
    /\ FullSize(nv) /\ ReadFits(off, size)
    /\ Return("read", "ok", [b \in off .. off + size - 1 |-> nv[b]])
    /\ UNCHANGED <<files, booted, hist>>

CallReadFails(off, size) ==
    /\ pc = "idle" /\ booted
    /\ Fails(FullSize(nv) /\ ReadFits(off, size))
    /\ Return("read", "error", NoData)
    /\ UNCHANGED <<files, booted, hist>>

(* The buffer holds the image the request asks for; only the chunks        *)
(* pos .. last of it are written.                                          *)
Patch(f, off, size, v) ==
    [b \in Block |-> IF b \in off .. off + size - 1 THEN v ELSE f[b]]

CallWrite(off, size, v) ==
    /\ Enter("write", "write_data")
    /\ booted /\ FullSize(nv) /\ size > 0
    /\ buf' = Patch(nv, off, size, v)
    /\ pos' = off /\ last' = off + size - 1
    /\ whole' = IF Intact(nv, md5) THEN whole \cup ({buf'} \cap Image)
                                   ELSE whole
    /\ tainted' = (tainted \/ ~Intact(nv, md5))
    /\ stable' = NoData
    /\ UNCHANGED <<files, sum, booted>>

CallWriteRejected(size) ==
    /\ pc = "idle" /\ booted
    /\ Fails(FullSize(nv) /\ size > 0)
    /\ Return("write", "error", NoData)
    /\ UNCHANGED <<files, booted, hist>>

WriteData ==
    /\ FileDataWrite(nv, nv', "write_data", "write_md5_calculate")
    /\ UNCHANGED <<md5, bak, bakmd5, op, buf, sum, last, booted, ret, hist>>

(* Slip: the result of file_data_write is not tested. *)
WriteDataFailsIgnored ==
    /\ pc = "write_data" /\ IoFaults
    /\ nv' \in Created(nv, Empty)
    /\ pc' = "write_md5_calculate"
    /\ UNCHANGED <<md5, bak, bakmd5, op, job, booted, ret, hist>>

WriteDataFails ==
    /\ pc = "write_data" /\ IoFaults
    /\ nv' \in Created(nv, Empty)
    /\ Return("write", "error", NoData)
    /\ UNCHANGED <<md5, bak, bakmd5, booted, hist>>

WriteMd5Calculate ==
    /\ pc = "write_md5_calculate" /\ FullSize(nv)
    /\ sum' = Md5(nv)
    /\ pc' = "write_unlink_md5"
    /\ UNCHANGED <<files, op, buf, pos, last, booted, ret, hist>>

WriteMd5CalculateFails ==
    /\ pc = "write_md5_calculate" /\ Fails(FullSize(nv))
    /\ Return("write", "error", NoData)
    /\ UNCHANGED <<files, booted, hist>>

(* Here a failing unlink, that of a missing file included, is an error. *)
WriteUnlinkMd5 ==
    /\ pc = "write_unlink_md5" /\ md5 # NoFile
    /\ md5' = NoFile
    /\ pc' = "write_write_md5"
    /\ UNCHANGED <<nv, bak, bakmd5, op, job, booted, ret, hist>>

WriteUnlinkMd5Fails ==
    /\ pc = "write_unlink_md5" /\ Fails(md5 # NoFile)
    /\ Return("write", "error", NoData)
    /\ UNCHANGED <<files, booted, hist>>

WriteWriteMd5 ==
    /\ pc = "write_write_md5"
    /\ md5' = sum
    /\ Return("write", "ok", NoData)
    /\ stable' = buf
    /\ UNCHANGED <<nv, bak, bakmd5, booted, whole, tainted>>

WriteWriteMd5Fails ==
    /\ pc = "write_write_md5" /\ IoFaults
    /\ md5' \in Created(md5, ShortFile)
    /\ Return("write", "error", NoData)
    /\ UNCHANGED <<nv, bak, bakmd5, booted, hist>>

(***************************************************************************)
(* The process dies: the files stay as they are, the next client boots the *)
(* modem anew.  A death between the open and the first write of            *)
(* file_data_write leaves an empty file.                                   *)
(***************************************************************************)
CutOff(f, blank, at) == IF pc \in at THEN Created(f, blank) ELSE {f}

Crash ==
    /\ Return("none", "none", NoData)
    /\ booted' = FALSE
    /\ nv' \in CutOff(nv, Empty, {"restore_write"})
    /\ md5' \in CutOff(md5, ShortFile, {"restore_write_md5", "write_write_md5"})
    /\ bak' \in CutOff(bak, Empty, {"backup_write"})
    /\ bakmd5' \in CutOff(bakmd5, ShortFile, {"backup_write_md5"})
    /\ UNCHANGED hist

LoadStep ==
    \/ LoadCheckOk \/ LoadCheckFails \/ LoadRecheckFails
    \/ LoadBackupPathCheck \/ LoadRead \/ LoadReadFails

RestoreStep ==
    \/ RestoreCheckOk \/ RestoreCheckFails \/ RestoreUnlink
    \/ RestoreWrite \/ RestoreWriteFails
    \/ RestoreReadMd5 \/ RestoreReadMd5Fails
    \/ RestoreUnlinkMd5 \/ RestoreWriteMd5 \/ RestoreWriteMd5Fails

BackupStep ==
    \/ BackupRead \/ BackupReadFails \/ BackupUnlink
    \/ BackupWrite \/ BackupWriteFails \/ BackupUnlinkMd5
    \/ BackupWriteMd5 \/ BackupWriteMd5Fails

WriteStep ==
    \/ WriteData \/ WriteDataFails
    \/ WriteMd5Calculate \/ WriteMd5CalculateFails
    \/ WriteUnlinkMd5 \/ WriteUnlinkMd5Fails
    \/ WriteWriteMd5 \/ WriteWriteMd5Fails

Step == LoadStep \/ RestoreStep \/ BackupStep \/ WriteStep

(* Requests reach at most one chunk beyond the end of nv_data. *)
ClientCall ==
    \/ CallLoad \/ CallRestore \/ CallBackup
    \/ \E off \in 1 .. N, size \in 0 .. N + 1 :
          /\ off + size - 1 \in 0 .. N + 1
          /\ \/ CallRead(off, size)
             \/ CallReadFails(off, size)
             \/ CallWriteRejected(size)
             \/ \E v \in Val : CallWrite(off, size, v)

Next == Step \/ ClientCall \/ Crash

Spec == Init /\ [][Next]_vars

(* A call that was entered keeps executing; crashes and calls are free. *)
FairSpec == Spec /\ WF_vars(Step)

-----------------------------------------------------------------------------
(***************************************************************************)
(* Properties.                                                             *)
(***************************************************************************)
PC == {"idle", "load_check", "load_recheck", "load_backup", "load_read",
       "restore_check", "restore_unlink", "restore_write",
       "restore_read_md5", "restore_unlink_md5", "restore_write_md5",
       "backup_read", "backup_unlink", "backup_write", "backup_unlink_md5",
       "backup_write_md5", "write_data", "write_md5_calculate",
       "write_unlink_md5", "write_write_md5"}

(* Every variable has its type: data files are chunk maps or absent, MD5   *)
(* files hold a digest of a full-size image, are short, or are absent.     *)
TypeOK ==
    /\ nv \in File \cup {NoFile} /\ bak \in File \cup {NoFile}
    /\ md5 \in Digest \cup {NoFile, ShortFile}
    /\ bakmd5 \in Digest \cup {NoFile, ShortFile}
    /\ pc \in PC /\ op \in Call \cup {"none"}
    /\ buf \in File /\ sum \in Digest \cup {NoData}
    /\ pos \in 1 .. N + 2 /\ last \in Block
    /\ booted \in BOOLEAN
    /\ ret \in [call : Call \cup {"none"}, rc : {"none", "ok", "error"},
                data : Image \cup Extent \cup {NoData}]
    /\ whole \subseteq Image /\ tainted \in BOOLEAN
    /\ stable \in Image \cup {NoData}

Loaded == ret.call = "load" /\ ret.rc = "ok"

(* What ipc_nv_data_load hands to the modem is never a torn image: every   *)
(* write request it reflects is in it completely, whatever crashes and I/O *)
(* errors interrupted writes, backups and restores before, unless a write  *)
(* or a backup was started on an nv_data that was inconsistent already.    *)
LoadedWhole == Loaded => (ret.data \in whole \/ tainted)

(* An acknowledged image (load returned it, or write returned 0) stays on  *)
(* disk with its digest through crashes and later loads, reads and         *)
(* backups, until a write or a restore is asked for.  Needs readable       *)
(* files: one failed read in the check makes load roll back to the backup. *)
AckedDurable ==
    ~IoFaults /\ stable # NoData => Intact(nv, md5) /\ nv = stable

(* ipc_nv_data_read answers from the acknowledged image even when I/O      *)
(* errors interrupt other calls.                                           *)
ReadsBack ==
    ret.call = "read" /\ ret.rc = "ok" /\ stable # NoData =>
        \A b \in DOMAIN ret.data : ret.data[b] = stable[b]

(* Without I/O errors load fails only when neither pair of files is        *)
(* intact: whatever point of an earlier load, restore or write a crash     *)
(* hit, an intact backup is enough.                                        *)
LoadFailsOnlyWhenLost ==
    ~IoFaults /\ ret.call = "load" /\ ret.rc = "error" =>
        ~Intact(nv, md5) /\ ~Intact(bak, bakmd5)

(* A load that returned data left an nv_data that the next load accepts.   *)
LoadedIsIntact == Loaded => Intact(nv, md5) /\ nv = ret.data

(* Without I/O errors the library never gives up an intact backup on its   *)
(* own: once the pair is intact it stays so, whatever crashes interrupt    *)
(* loads and restores, unless the client itself asks for a new backup.     *)
(* With them it does: a failed stat makes load replace the backup.         *)
BackupKept ==
    [][~IoFaults /\ ~DirectBackup /\ Intact(bak, bakmd5) =>
          Intact(bak, bakmd5)']_vars

(* Every call returns. *)
CallsReturn == pc # "idle" ~> pc = "idle"
=============================================================================
