---------------------------- MODULE NvDataProofs ----------------------------
(***************************************************************************)
(* What the nv_data store guarantees for every file size, every contents,  *)
(* with and without I/O errors: proofs for the module NvData, and for      *)
(* NvDataRefinement that the files implement the one-image store NvStore.  *)
(***************************************************************************)
EXTENDS NvDataRefinement, TLAPS

RestorePC == {"restore_check", "restore_unlink", "restore_write",
              "restore_read_md5", "restore_unlink_md5", "restore_write_md5"}
BackupPC  == {"backup_read", "backup_unlink", "backup_write",
              "backup_unlink_md5", "backup_write_md5"}
WritePC   == {"write_data", "write_md5_calculate", "write_unlink_md5",
              "write_write_md5"}
LoadPC    == {"load_check", "load_recheck", "load_backup", "load_read"}

(* Which API call each program point belongs to. *)
Control ==
    /\ pc \in LoadPC => op = "load"
    /\ pc \in RestorePC => op \in {"load", "restore"}
    /\ pc \in BackupPC => op \in {"load", "backup"}
    /\ pc \in WritePC => op = "write"
    /\ op = "backup" => DirectBackup
    /\ pc # "idle" => ret = NoRet
    /\ pc \in {"restore_unlink_md5", "restore_write_md5"} => sum \in Digest

(* A running ipc_nv_data_write: outside the chunks still to write, the     *)
(* file already is the image that was asked for.                           *)
Writing ==
    /\ pc = "write_data" =>
          /\ nv \in File /\ pos <= last
          /\ \A b \in Block : b \notin pos .. last => nv[b] = buf[b]
    /\ pc = "write_md5_calculate" => nv = buf
    /\ pc \in {"write_unlink_md5", "write_write_md5"} =>
          nv = buf /\ buf \in Image /\ sum = Md5(buf)

(* A running ipc_nv_data_backup, and the backup it leaves.  A backup that  *)
(* is not full-size has no digest, unless the client backs up by itself or *)
(* a stat fails: only backups without a digest are replaced.               *)
BackingUp ==
    /\ bak \in File => bak[N + 1] = Hole
    /\ pc \in BackupPC \ {"backup_read"} => buf \in Image /\ sum = Md5(buf)
    /\ pc = "backup_write" =>
          /\ last = N /\ pos <= N
          /\ \A b \in 1 .. pos - 1 : bak \in File /\ bak[b] = buf[b]
    /\ pc \in {"backup_unlink_md5", "backup_write_md5"} => bak = buf
    /\ pc = "backup_unlink" => last = N /\ pos = 1

BackupUndigested ==
    ~IoFaults /\ ~DirectBackup =>
       /\ bakmd5 \in Digest => FullSize(bak)
       /\ pc \in BackupPC => bakmd5 \notin Digest

(* A running ipc_nv_data_restore. *)
Restoring ==
    /\ pc \in {"restore_unlink", "restore_write"} =>
          last = N /\ pos \in 1 .. N /\ buf \in Image
    /\ pc \in RestorePC \ {"restore_check"} =>
          buf = bak /\ Intact(bak, bakmd5)
    /\ pc \in {"restore_unlink_md5", "restore_write_md5"} => sum = bakmd5
    /\ pc = "restore_unlink" => pos = 1
    /\ ~IoFaults =>
          /\ pc = "restore_write" =>
                /\ nv = NoFile => pos = 1
                /\ nv \in File =>
                      /\ nv[N + 1] = Hole
                      /\ \A b \in 1 .. pos - 1 : nv[b] = buf[b]
          /\ pc \in {"restore_read_md5", "restore_unlink_md5",
                     "restore_write_md5"} => nv = bak
          /\ pc = "load_recheck" => Intact(nv, md5)
          /\ pc = "restore_check" /\ op = "load" => ~Intact(nv, md5)

(* Digests on disk and in flight are of images made of complete writes. *)
WholeDigest == {Md5(img) : img \in whole}

DigestsWhole ==
    \/ tainted
    \/ /\ md5 \in WholeDigest \cup {NoFile, ShortFile}
       /\ bakmd5 \in WholeDigest \cup {NoFile, ShortFile}
       /\ sum \in WholeDigest \cup {NoData}
       /\ pc \in WritePC /\ buf \in Image => buf \in whole
       /\ pc = "backup_read" => Intact(nv, md5)

(* After its check a load works on an intact nv_data. *)
Checked ==
    pc \in {"load_backup", "load_read"} \/ (op = "load" /\ pc \in BackupPC) =>
        Intact(nv, md5)

(* Nothing acknowledged is at stake while nv_data or its MD5 is changed. *)
Unstable ==
    ~IoFaults =>
        /\ op \in {"write", "restore"} => stable = NoData
        /\ pc \in RestorePC \cup {"load_recheck"} => stable = NoData

IInv ==
    /\ TypeOK /\ Control /\ Writing /\ BackingUp /\ BackupUndigested
    /\ Restoring /\ DigestsWhole /\ Checked /\ Unstable
    /\ AckedDurable /\ LoadedWhole /\ LoadedIsIntact /\ LoadFailsOnlyWhenLost

-----------------------------------------------------------------------------
(***************************************************************************)
(* Facts about the operators.                                              *)
(***************************************************************************)

(* An image is a file whose block N + 1 is beyond the end. *)
LEMMA ImageFacts ==
    ASSUME NEW f \in Image
    PROVE  f \in File /\ f[N + 1] = Hole /\ f # NoFile /\ f # NoData
BY ConstantsAssumption DEF Image

(* The file created by open(O_CREAT). *)
LEMMA EmptyFacts ==
    /\ Empty \in File /\ \A b \in Block : Empty[b] = Hole
    /\ Empty \notin Image
<1>1. Empty \in File /\ \A b \in Block : Empty[b] = Hole
  BY DEF Empty, File
<1>2. 1 \in Block /\ 1 \in 1 .. N
  BY ConstantsAssumption DEF Block
<1>3. Empty \notin Image
  BY <1>1, <1>2 DEF Image
<1> QED
  BY <1>1, <1>3

(* Files with the same chunks are the same file. *)
LEMMA FileEqual ==
    ASSUME NEW f \in File, NEW g \in File, \A b \in Block : f[b] = g[b]
    PROVE  f = g
BY DEF File

(* One write() of file_data_write changes one chunk. *)
LEMMA PutFacts ==
    ASSUME NEW f \in File \cup {NoFile}, NEW b \in Block,
           NEW v \in Val \cup {Hole}
    PROVE  /\ Put(f, b, v) \in File
           /\ Put(f, b, v)[b] = v
           /\ \A c \in Block \ {b} :
                 Put(f, b, v)[c] = IF f = NoFile THEN Hole ELSE f[c]
BY EmptyFacts DEF Put, File

(* The image a write request asks for. *)
LEMMA PatchFacts ==
    ASSUME NEW f \in File, NEW off, NEW size, NEW v \in Val
    PROVE  /\ Patch(f, off, size, v) \in File
           /\ \A b \in Block : b \notin off .. off + size - 1 =>
                 Patch(f, off, size, v)[b] = f[b]
BY DEF Patch, File

(* Digests identify their image and are no file-system marker. *)
LEMMA DigestFacts ==
    /\ \A img \in Image : Md5(img) \in Digest
    /\ \A f, g : Md5(f) = Md5(g) => f = g
    /\ NoFile \notin Digest /\ ShortFile \notin Digest /\ NoData \notin Digest
BY ConstantsAssumption DEF Digest, Md5

(* A backup written up to its last chunk is the buffer. *)
LEMMA WrittenFacts ==
    ASSUME NEW f \in File, NEW g \in Image, f[N + 1] = Hole,
           \A b \in 1 .. N : f[b] = g[b]
    PROVE  f = g
<1>1. g \in File /\ g[N + 1] = Hole
  BY ImageFacts
<1>2. \A b \in Block : f[b] = g[b]
  BY <1>1, ConstantsAssumption DEF Block
<1> QED
  BY <1>1, <1>2, FileEqual

-----------------------------------------------------------------------------
(***************************************************************************)
(* Every step preserves each part of the inductive invariant.              *)
(***************************************************************************)
RetType == [call : Call \cup {"none"}, rc : {"none", "ok", "error"},
            data : Image \cup Extent \cup {NoData}]

(* Leaving an API call. *)
LEMMA ReturnType ==
    ASSUME NEW call \in Call \cup {"none"}, NEW rc \in {"none", "ok", "error"},
           NEW data \in Image \cup Extent \cup {NoData},
           Return(call, rc, data)
    PROVE  /\ pc' = "idle" /\ op' = "none"
           /\ ret' = [call |-> call, rc |-> rc, data |-> data]
           /\ ret' \in RetType
           /\ buf' \in File /\ sum' = NoData
           /\ pos' \in 1 .. N + 2 /\ last' \in Block
BY ConstantsAssumption, EmptyFacts DEF Return, RetType, Block

(* What a chunk holds. *)
LEMMA ChunkFacts ==
    ASSUME NEW f \in File, NEW b \in Block
    PROVE  f[b] \in Val \cup {Hole}
BY DEF File

(* What ipc_nv_data_read returns is a run of chunks. *)
LEMMA ExtentFacts ==
    ASSUME NEW off \in 1 .. N, NEW size \in 1 .. N + 1,
           off + size - 1 \in 0 .. N + 1, NEW f \in File
    PROVE  [b \in off .. off + size - 1 |-> f[b]] \in Extent
<1>1. off \in Block /\ off + size - 1 \in Block
  BY ConstantsAssumption DEF Block
<1> QED
  BY <1>1 DEF Extent

(* Type correctness. *)
LEMMA TypeStep == IInv /\ [Next]_vars => TypeOK'
<1> SUFFICES ASSUME IInv, [Next]_vars PROVE TypeOK'
  OBVIOUS
<1> USE ConstantsAssumption
<1> USE DEF files, job, hist, RetType
<1>1. TypeOK /\ Control /\ Writing /\ BackingUp /\ Restoring
  BY DEF IInv
<1>2. CASE LoadStep
  <2>1. CASE LoadRead
    BY <1>1, <2>1, ReturnType
       DEF TypeOK, LoadRead, Return, PC, Call, FullSize
  <2>2. CASE LoadCheckOk \/ LoadCheckFails \/ LoadRecheckFails
             \/ LoadBackupPathCheck \/ LoadReadFails
    BY <1>1, <2>2, ReturnType
       DEF TypeOK, LoadCheckOk, LoadCheckFails, LoadRecheckFails, Return,
          LoadBackupPathCheck, LoadReadFails, PC, Call
  <2> QED
    BY <1>2, <2>1, <2>2
       DEF LoadStep
<1>3. CASE RestoreStep
  <2>1. CASE RestoreCheckOk
    BY <1>1, <2>1, ImageFacts
       DEF TypeOK, RestoreCheckOk, PC, FullSize, Intact, Block
  <2>2. CASE RestoreWrite
    <3>1. pos \in Block /\ pos + 1 \in 1 .. N + 2
      BY <1>1, <2>2 DEF TypeOK, RestoreWrite, FileDataWrite, Restoring, Block
    <3>2. nv' \in File
      BY <1>1, <2>2, <3>1, ChunkFacts, PutFacts
         DEF TypeOK, RestoreWrite, FileDataWrite
    <3> QED
      BY <1>1, <2>2, <3>1, <3>2 DEF TypeOK, RestoreWrite, FileDataWrite, PC
  <2>3. CASE RestoreWriteFails
    BY <1>1, <2>3, ReturnType, EmptyFacts
       DEF TypeOK, RestoreWriteFails, Return, Created, PC, Call
  <2>4. CASE RestoreWriteMd5
    BY <1>1, <2>4, ReturnType
       DEF TypeOK, RestoreWriteMd5, Return, PC, Call, Control
  <2>5. CASE RestoreCheckFails \/ RestoreUnlink \/ RestoreReadMd5
             \/ RestoreReadMd5Fails \/ RestoreUnlinkMd5
             \/ RestoreWriteMd5Fails
    BY <1>1, <2>5, ReturnType
       DEF TypeOK, RestoreCheckFails, Return, RestoreUnlink, Unlink,
          RestoreReadMd5, RestoreReadMd5Fails, RestoreUnlinkMd5,
          RestoreWriteMd5Fails, Created, PC, Call
  <2> QED
    BY <1>3, <2>1, <2>2, <2>3, <2>4, <2>5
       DEF RestoreStep
<1>4. CASE BackupStep
  <2>1. CASE BackupRead
    BY <1>1, <2>1, DigestFacts, ImageFacts
       DEF TypeOK, BackupRead, PC, FullSize, Block
  <2>2. CASE BackupWrite
    <3>1. pos \in Block /\ pos + 1 \in 1 .. N + 2
      BY <1>1, <2>2 DEF TypeOK, BackupWrite, FileDataWrite, BackingUp, Block
    <3>2. bak' \in File
      BY <1>1, <2>2, <3>1, ChunkFacts, PutFacts
         DEF TypeOK, BackupWrite, FileDataWrite
    <3> QED
      BY <1>1, <2>2, <3>1, <3>2 DEF TypeOK, BackupWrite, FileDataWrite, PC
  <2>3. CASE BackupWriteFails
    BY <1>1, <2>3, ReturnType, EmptyFacts
       DEF TypeOK, BackupWriteFails, Return, BackupDone, Created, PC, Call
  <2>4. CASE BackupWriteMd5
    BY <1>1, <2>4, ReturnType, DigestFacts
       DEF TypeOK, BackupWriteMd5, Return, BackupDone, PC, Call, BackingUp,
          BackupPC
  <2>5. CASE BackupReadFails \/ BackupUnlink \/ BackupUnlinkMd5
             \/ BackupWriteMd5Fails
    BY <1>1, <2>5, ReturnType
       DEF TypeOK, BackupReadFails, Return, BackupDone, BackupUnlink, Unlink,
          BackupUnlinkMd5, BackupWriteMd5Fails, Created, PC, Call
  <2> QED
    BY <1>4, <2>1, <2>2, <2>3, <2>4, <2>5
       DEF BackupStep
<1>5. CASE WriteStep
  <2>1. CASE WriteData
    <3>1. pos \in Block /\ pos + 1 \in 1 .. N + 2
      BY <1>1, <2>1 DEF TypeOK, WriteData, FileDataWrite, Writing, Block
    <3>2. nv' \in File
      BY <1>1, <2>1, <3>1, ChunkFacts, PutFacts
         DEF TypeOK, WriteData, FileDataWrite
    <3> QED
      BY <1>1, <2>1, <3>1, <3>2 DEF TypeOK, WriteData, FileDataWrite, PC
  <2>2. CASE WriteDataFails
    BY <1>1, <2>2, ReturnType, EmptyFacts
       DEF TypeOK, WriteDataFails, Return, Created, PC, Call
  <2>3. CASE WriteMd5Calculate
    BY <1>1, <2>3, DigestFacts
       DEF TypeOK, WriteMd5Calculate, PC, FullSize
  <2>4. CASE WriteWriteMd5
    BY <1>1, <2>4, ReturnType, DigestFacts
       DEF TypeOK, WriteWriteMd5, Return, PC, Call, Writing
  <2>5. CASE WriteMd5CalculateFails \/ WriteUnlinkMd5 \/ WriteUnlinkMd5Fails
             \/ WriteWriteMd5Fails
    BY <1>1, <2>5, ReturnType
       DEF TypeOK, WriteMd5CalculateFails, Return, WriteUnlinkMd5,
          WriteUnlinkMd5Fails, WriteWriteMd5Fails, Created, PC, Call
  <2> QED
    BY <1>5, <2>1, <2>2, <2>3, <2>4, <2>5
       DEF WriteStep
<1>6. CASE ClientCall
  <2>1. CASE CallLoad
    BY <1>1, <2>1
       DEF TypeOK, CallLoad, Enter, PC, Call, NoRet
  <2>2. CASE CallRestore
    BY <1>1, <2>2
       DEF TypeOK, CallRestore, Enter, PC, Call, NoRet
  <2>3. CASE CallBackup
    BY <1>1, <2>3
       DEF TypeOK, CallBackup, Enter, PC, Call, NoRet
  <2>4. ASSUME NEW off \in 1 .. N, NEW size \in 0 .. N + 1,
               off + size - 1 \in 0 .. N + 1,
               \/ CallRead(off, size)
               \/ CallReadFails(off, size)
               \/ CallWriteRejected(size)
               \/ \E v \in Val : CallWrite(off, size, v)
        PROVE  TypeOK'
    <3>1. CASE CallRead(off, size)
      <4>1. nv \in File /\ size \in 1 .. N + 1
        BY <1>1, <3>1, ImageFacts DEF TypeOK, CallRead, FullSize, ReadFits
      <4>2. [b \in off .. off + size - 1 |-> nv[b]] \in Extent
        BY <2>4, <4>1, ExtentFacts
      <4> QED
        BY <1>1, <3>1, <4>2, ReturnType DEF TypeOK, CallRead, PC, Call
    <3>2. CASE CallReadFails(off, size) \/ CallWriteRejected(size)
      BY <1>1, <2>4, <3>2, ReturnType
         DEF TypeOK, CallReadFails, Return, CallWriteRejected, PC, Call
    <3>3. ASSUME NEW v \in Val, CallWrite(off, size, v)
          PROVE  TypeOK'
      BY <1>1, <2>4, <3>3, PatchFacts, ImageFacts
         DEF TypeOK, CallWrite, Enter, PC, FullSize, Call, NoRet, Block
    <3> QED
      BY <2>4, <3>1, <3>2, <3>3
  <2> QED
    BY <1>6, <2>1, <2>2, <2>3, <2>4
       DEF ClientCall
<1>7. CASE Crash
  <2>1. nv' \in File \cup {NoFile} /\ bak' \in File \cup {NoFile}
    BY <1>1, <1>7, EmptyFacts DEF TypeOK, Crash, CutOff, Created
  <2>2. /\ md5' \in Digest \cup {NoFile, ShortFile}
        /\ bakmd5' \in Digest \cup {NoFile, ShortFile}
    BY <1>1, <1>7 DEF TypeOK, Crash, CutOff, Created
  <2>3. Return("none", "none", NoData) /\ booted' = FALSE /\ UNCHANGED hist
    BY <1>7 DEF Crash
  <2> QED
    BY <1>1, <2>1, <2>2, <2>3, ReturnType DEF TypeOK, PC, Call
<1>8. CASE UNCHANGED vars
  BY <1>1, <1>8
     DEF TypeOK, vars, PC
<1> QED
  BY <1>2, <1>3, <1>4, <1>5, <1>6, <1>7, <1>8
     DEF Next, Step

(* Program points and API calls. *)
LEMMA ControlStep == IInv /\ [Next]_vars => Control'
<1> SUFFICES ASSUME IInv, [Next]_vars PROVE Control'
  OBVIOUS
<1> USE ConstantsAssumption
<1> USE DEF files, job, hist
<1>1. TypeOK /\ Control
  BY DEF IInv
<1>2. CASE LoadStep
  BY <1>1, <1>2
     DEF Control, LoadStep, LoadCheckOk, LoadCheckFails, LoadRecheckFails,
        Return, LoadBackupPathCheck, LoadRead, LoadReadFails, LoadPC,
        RestorePC, BackupPC, WritePC, PC, NoRet, TypeOK
<1>3. CASE RestoreStep
  BY <1>1, <1>3
     DEF Control, RestoreStep, RestoreCheckOk, RestoreCheckFails, Return,
        RestoreUnlink, Unlink, RestoreWrite, FileDataWrite,
        RestoreWriteFails, Created, RestoreReadMd5, RestoreReadMd5Fails,
        RestoreUnlinkMd5, RestoreWriteMd5, RestoreWriteMd5Fails, LoadPC,
        RestorePC, BackupPC, WritePC, PC, NoRet, TypeOK
<1>4. CASE BackupStep
  BY <1>1, <1>4
     DEF Control, BackupStep, BackupRead, BackupReadFails, Return,
        BackupDone, BackupUnlink, Unlink, BackupWrite, FileDataWrite,
        BackupWriteFails, Created, BackupUnlinkMd5, BackupWriteMd5,
        BackupWriteMd5Fails, LoadPC, RestorePC, BackupPC, WritePC, PC, NoRet,
        TypeOK
<1>5. CASE WriteStep
  BY <1>1, <1>5
     DEF Control, WriteStep, WriteData, FileDataWrite, WriteDataFails,
        Return, Created, WriteMd5Calculate, WriteMd5CalculateFails,
        WriteUnlinkMd5, WriteUnlinkMd5Fails, WriteWriteMd5,
        WriteWriteMd5Fails, LoadPC, RestorePC, BackupPC, WritePC, PC, NoRet,
        TypeOK
<1>6. CASE ClientCall
  BY <1>1, <1>6
     DEF Control, ClientCall, CallLoad, Enter, CallRestore, CallBackup,
        CallRead, Return, CallReadFails, CallWriteRejected, CallWrite,
        LoadPC, RestorePC, BackupPC, WritePC, PC, NoRet, TypeOK
<1>7. CASE Crash
  BY <1>1, <1>7
     DEF Control, Crash, Return, Created, CutOff, LoadPC, RestorePC,
        BackupPC, WritePC, PC, NoRet, TypeOK
<1>8. CASE UNCHANGED vars
  BY <1>1, <1>8
     DEF Control, vars, LoadPC, RestorePC, BackupPC, WritePC, PC, NoRet,
        TypeOK
<1> QED
  BY <1>2, <1>3, <1>4, <1>5, <1>6, <1>7, <1>8
     DEF Next, Step

(* A running write. *)
LEMMA WritingStep == IInv /\ [Next]_vars => Writing'
<1> SUFFICES ASSUME IInv, [Next]_vars PROVE Writing'
  OBVIOUS
<1> USE ConstantsAssumption
<1> USE DEF files, job, hist
<1>1. TypeOK /\ Control /\ Writing
  BY DEF IInv
<1>2. CASE LoadStep
  BY <1>1, <1>2, ImageFacts
     DEF Writing, LoadStep, LoadCheckOk, LoadCheckFails, LoadRecheckFails,
        Return, LoadBackupPathCheck, LoadRead, LoadReadFails, PC, TypeOK,
        Block, FullSize
<1>3. CASE RestoreStep
  BY <1>1, <1>3, ImageFacts
     DEF Writing, RestoreStep, RestoreCheckOk, RestoreCheckFails, Return,
        RestoreUnlink, Unlink, RestoreWrite, FileDataWrite,
        RestoreWriteFails, Created, RestoreReadMd5, RestoreReadMd5Fails,
        RestoreUnlinkMd5, RestoreWriteMd5, RestoreWriteMd5Fails, PC, TypeOK,
        Block, FullSize
<1>4. CASE BackupStep
  BY <1>1, <1>4, ImageFacts
     DEF Writing, BackupStep, BackupRead, BackupReadFails, Return,
        BackupDone, BackupUnlink, Unlink, BackupWrite, FileDataWrite,
        BackupWriteFails, Created, BackupUnlinkMd5, BackupWriteMd5,
        BackupWriteMd5Fails, PC, TypeOK, Block, FullSize
<1>5. CASE WriteStep
  <2>1. CASE WriteData
    <3>1. pos \in Block /\ last \in Block /\ pos <= last /\ nv \in File
      BY <1>1, <2>1 DEF TypeOK, Writing, WriteData, FileDataWrite, Block
    <3>2. /\ nv' = Put(nv, pos, buf[pos]) /\ nv' \in File
          /\ nv'[pos] = buf[pos]
          /\ \A b \in Block \ {pos} : nv'[b] = nv[b]
      <4>1. nv' = Put(nv, pos, buf[pos]) /\ buf[pos] \in Val \cup {Hole}
        BY <1>1, <2>1, <3>1, ChunkFacts DEF TypeOK, WriteData, FileDataWrite
      <4>2. nv \in File \cup {NoFile}
        BY <3>1
      <4>3. pos \in Block
        BY <3>1
      <4>4. /\ Put(nv, pos, buf[pos]) \in File
            /\ Put(nv, pos, buf[pos])[pos] = buf[pos]
            /\ \A c \in Block \ {pos} :
                  Put(nv, pos, buf[pos])[c] = IF nv = NoFile THEN Hole ELSE nv[c]
        BY <4>1, <4>2, <4>3 DEF Put, File, Empty
      <4>5. nv # NoFile
        BY <3>1, ConstantsAssumption
      <4> QED
        BY <4>1, <4>4, <4>5
    <3>3. \A b \in Block : b \notin pos + 1 .. last => nv'[b] = buf[b]
      BY <1>1, <2>1, <3>1, <3>2 DEF Writing, WriteData, FileDataWrite, Block
    <3>4. CASE pos = last
      <4>1. \A b \in Block : nv'[b] = buf[b]
        BY <3>1, <3>3, <3>4 DEF Block
      <4>2. nv' = buf
        BY <1>1, <3>2, <4>1, FileEqual DEF TypeOK
      <4> QED
        BY <2>1, <3>4, <4>2 DEF Writing, WriteData, FileDataWrite
    <3>5. CASE pos # last
      BY <1>1, <2>1, <3>1, <3>2, <3>3, <3>5
         DEF TypeOK, Writing, WriteData, FileDataWrite, Block
    <3> QED
      BY <3>4, <3>5
  <2>2. CASE WriteDataFails \/ WriteMd5Calculate \/ WriteMd5CalculateFails
             \/ WriteUnlinkMd5 \/ WriteUnlinkMd5Fails \/ WriteWriteMd5
             \/ WriteWriteMd5Fails
    BY <1>1, <2>2, ImageFacts
       DEF Writing, WriteDataFails, Return, Created, WriteMd5Calculate,
          WriteMd5CalculateFails, WriteUnlinkMd5, WriteUnlinkMd5Fails,
          WriteWriteMd5, WriteWriteMd5Fails, PC, TypeOK, Block, FullSize
  <2> QED
    BY <1>5, <2>1, <2>2
       DEF WriteStep
<1>6. CASE ClientCall
  <2>1. CASE CallLoad \/ CallRestore \/ CallBackup
    BY <1>1, <2>1, ImageFacts
       DEF Writing, CallLoad, Enter, CallRestore, CallBackup, PC, TypeOK,
          Block, FullSize
  <2>2. ASSUME NEW off \in 1 .. N, NEW size \in 0 .. N + 1,
               off + size - 1 \in 0 .. N + 1,
               \/ CallRead(off, size)
               \/ CallReadFails(off, size)
               \/ CallWriteRejected(size)
               \/ \E v \in Val : CallWrite(off, size, v)
        PROVE  Writing'
    <3>1. CASE CallRead(off, size) \/ CallReadFails(off, size) \/ CallWriteRejected(size)
      BY <1>1, <2>2, <3>1, ImageFacts
         DEF Writing, CallRead, Return, CallReadFails, CallWriteRejected, PC,
            TypeOK, Block, FullSize
    <3>2. ASSUME NEW v \in Val, CallWrite(off, size, v)
          PROVE  Writing'
      <4>1. nv \in File /\ nv' = nv /\ off <= off + size - 1
        BY <1>1, <3>2, ImageFacts DEF TypeOK, CallWrite, FullSize
      <4>2. \A b \in Block : b \notin off .. off + size - 1 => nv[b] = buf'[b]
        BY <4>1, <3>2, PatchFacts DEF CallWrite
      <4> QED
        BY <3>2, <4>1, <4>2 DEF Writing, CallWrite, Enter
    <3> QED
      BY <2>2, <3>1, <3>2
  <2> QED
    BY <1>6, <2>1, <2>2
       DEF ClientCall
<1>7. CASE Crash
  BY <1>1, <1>7, ImageFacts
     DEF Writing, Crash, Return, Created, CutOff, PC, TypeOK, Block, FullSize
<1>8. CASE UNCHANGED vars
  BY <1>1, <1>8
     DEF Writing, vars, PC, TypeOK, Block, FullSize
<1> QED
  BY <1>2, <1>3, <1>4, <1>5, <1>6, <1>7, <1>8
     DEF Next, Step

(* A running backup. *)
LEMMA BackingUpStep == IInv /\ [Next]_vars => BackingUp'
<1> SUFFICES ASSUME IInv, [Next]_vars PROVE BackingUp'
  OBVIOUS
<1> USE ConstantsAssumption
<1> USE DEF files, job, hist
<1>1. TypeOK /\ Control /\ BackingUp
  BY DEF IInv
<1>2. CASE LoadStep
  BY <1>1, <1>2
     DEF BackingUp, LoadStep, LoadCheckOk, LoadCheckFails, LoadRecheckFails,
        Return, LoadBackupPathCheck, LoadRead, LoadReadFails, BackupPC,
        TypeOK
<1>3. CASE RestoreStep
  BY <1>1, <1>3
     DEF BackingUp, RestoreStep, RestoreCheckOk, RestoreCheckFails, Return,
        RestoreUnlink, Unlink, RestoreWrite, FileDataWrite,
        RestoreWriteFails, Created, RestoreReadMd5, RestoreReadMd5Fails,
        RestoreUnlinkMd5, RestoreWriteMd5, RestoreWriteMd5Fails, BackupPC,
        TypeOK
<1>4. CASE BackupStep
  <2>1. CASE BackupRead
    BY <1>1, <2>1
       DEF BackingUp, BackupRead, BackupPC, TypeOK, FullSize
  <2>2. CASE BackupUnlink
    BY <1>1, <2>2, ImageFacts
       DEF BackingUp, BackupUnlink, Unlink, BackupPC, TypeOK, PC
  <2>3. CASE BackupWrite
    <3>1. pos \in 1 .. N /\ pos \in Block /\ N + 1 \in Block /\ last = N
      BY <1>1, <2>3 DEF TypeOK, BackingUp, BackupWrite, FileDataWrite, Block
    <3>2. /\ bak' \in File /\ bak'[pos] = buf[pos]
          /\ \A b \in Block \ {pos} :
                bak'[b] = IF bak = NoFile THEN Hole ELSE bak[b]
      <4>1. bak' = Put(bak, pos, buf[pos]) /\ buf[pos] \in Val \cup {Hole}
        BY <1>1, <2>3, <3>1, ChunkFacts DEF TypeOK, BackupWrite, FileDataWrite
      <4>2. bak \in File \cup {NoFile}
        BY <1>1 DEF TypeOK
      <4>3. /\ Put(bak, pos, buf[pos]) \in File
            /\ Put(bak, pos, buf[pos])[pos] = buf[pos]
            /\ \A c \in Block \ {pos} :
                  Put(bak, pos, buf[pos])[c] = IF bak = NoFile THEN Hole ELSE bak[c]
        BY <3>1, <4>1, <4>2 DEF Put, File, Empty
      <4> QED
        BY <4>1, <4>3
    <3>3. bak'[N + 1] = Hole
      BY <1>1, <3>1, <3>2 DEF TypeOK, BackingUp
    <3>4. \A b \in 1 .. pos : bak'[b] = buf[b]
      BY <1>1, <2>3, <3>1, <3>2 DEF BackingUp, BackupWrite, FileDataWrite, Block
    <3>5. buf \in Image /\ sum = Md5(buf)
      BY <1>1, <2>3 DEF BackingUp, BackupWrite, FileDataWrite, BackupPC
    <3>6. CASE pos = N
      <4>1. bak' = buf
        BY <3>2, <3>3, <3>4, <3>5, <3>6, WrittenFacts
      <4> QED
        BY <2>3, <3>1, <3>3, <3>5, <3>6, <4>1
           DEF BackingUp, BackupWrite, FileDataWrite
    <3>7. CASE pos # N
      BY <2>3, <3>1, <3>2, <3>3, <3>4, <3>5, <3>7
         DEF BackingUp, BackupWrite, FileDataWrite
    <3> QED
      BY <3>6, <3>7
  <2>4. CASE BackupWriteFails
    <3>1. bak' \in {bak, Empty} /\ Empty[N + 1] = Hole
      BY <2>4, EmptyFacts DEF BackupWriteFails, Created, Block
    <3> QED
      BY <1>1, <2>4, <3>1
         DEF BackingUp, BackupWriteFails, BackupDone, Return, BackupPC
  <2>5. CASE BackupReadFails \/ BackupUnlinkMd5 \/ BackupWriteMd5
             \/ BackupWriteMd5Fails
    BY <1>1, <2>5
       DEF BackingUp, BackupReadFails, Return, BackupDone, BackupUnlinkMd5,
          Unlink, BackupWriteMd5, BackupWriteMd5Fails, Created, BackupPC,
          TypeOK
  <2> QED
    BY <1>4, <2>1, <2>2, <2>3, <2>4, <2>5
       DEF BackupStep
<1>5. CASE WriteStep
  BY <1>1, <1>5
     DEF BackingUp, WriteStep, WriteData, FileDataWrite, WriteDataFails,
        Return, Created, WriteMd5Calculate, WriteMd5CalculateFails,
        WriteUnlinkMd5, WriteUnlinkMd5Fails, WriteWriteMd5,
        WriteWriteMd5Fails, BackupPC, TypeOK
<1>6. CASE ClientCall
  BY <1>1, <1>6
     DEF BackingUp, ClientCall, CallLoad, Enter, CallRestore, CallBackup,
        CallRead, Return, CallReadFails, CallWriteRejected, CallWrite,
        BackupPC, TypeOK
<1>7. CASE Crash
  <2>1. bak' \in {bak, Empty} /\ Empty[N + 1] = Hole
    BY <1>7, EmptyFacts DEF Crash, CutOff, Created, Block
  <2> QED
    BY <1>1, <1>7, <2>1 DEF BackingUp, Crash, Return, BackupPC
<1>8. CASE UNCHANGED vars
  BY <1>1, <1>8
     DEF BackingUp, vars, BackupPC, TypeOK
<1> QED
  BY <1>2, <1>3, <1>4, <1>5, <1>6, <1>7, <1>8
     DEF Next, Step

(* No digest for a half-made backup. *)
LEMMA BackupUndigestedStep == IInv /\ [Next]_vars => BackupUndigested'
<1> SUFFICES ASSUME IInv, [Next]_vars PROVE BackupUndigested'
  OBVIOUS
<1> USE ConstantsAssumption
<1> USE DEF files, job, hist
<1>1. TypeOK /\ Control /\ BackingUp /\ BackupUndigested
  BY DEF IInv
<1>2. CASE LoadStep
  BY <1>1, <1>2, DigestFacts
     DEF BackupUndigested, LoadStep, LoadCheckOk, LoadCheckFails,
        LoadRecheckFails, Return, LoadBackupPathCheck, LoadRead,
        LoadReadFails, PC, BackupPC, TypeOK, FullSize, Fails
<1>3. CASE RestoreStep
  BY <1>1, <1>3, DigestFacts
     DEF BackupUndigested, RestoreStep, RestoreCheckOk, RestoreCheckFails,
        Return, RestoreUnlink, Unlink, RestoreWrite, FileDataWrite,
        RestoreWriteFails, Created, RestoreReadMd5, RestoreReadMd5Fails,
        RestoreUnlinkMd5, RestoreWriteMd5, RestoreWriteMd5Fails, PC,
        BackupPC, TypeOK, FullSize
<1>4. CASE BackupStep
  <2>1. CASE BackupWriteMd5
    <3>1. bak \in Image /\ bak' = bak
      BY <1>1, <2>1 DEF BackingUp, BackupWriteMd5, BackupPC
    <3>2. pc' \in {"load_read", "idle"}
      BY <2>1 DEF BackupWriteMd5, BackupDone, Return
    <3> QED
      BY <3>1, <3>2 DEF BackupUndigested, FullSize, BackupPC
  <2>2. CASE BackupRead \/ BackupReadFails \/ BackupUnlink \/ BackupWrite
             \/ BackupWriteFails \/ BackupUnlinkMd5 \/ BackupWriteMd5Fails
    BY <1>1, <2>2, DigestFacts
       DEF BackupUndigested, BackupRead, BackupReadFails, Return, BackupDone,
          BackupUnlink, Unlink, BackupWrite, FileDataWrite, BackupWriteFails,
          Created, BackupUnlinkMd5, BackupWriteMd5Fails, PC, BackupPC,
          TypeOK, FullSize
  <2> QED
    BY <1>4, <2>1, <2>2
       DEF BackupStep
<1>5. CASE WriteStep
  BY <1>1, <1>5, DigestFacts
     DEF BackupUndigested, WriteStep, WriteData, FileDataWrite,
        WriteDataFails, Return, Created, WriteMd5Calculate,
        WriteMd5CalculateFails, WriteUnlinkMd5, WriteUnlinkMd5Fails,
        WriteWriteMd5, WriteWriteMd5Fails, PC, BackupPC, TypeOK, FullSize
<1>6. CASE ClientCall
  BY <1>1, <1>6, DigestFacts
     DEF BackupUndigested, ClientCall, CallLoad, Enter, CallRestore,
        CallBackup, CallRead, Return, CallReadFails, CallWriteRejected,
        CallWrite, PC, BackupPC, TypeOK, FullSize
<1>7. CASE Crash
  BY <1>1, <1>7, DigestFacts
     DEF BackupUndigested, Crash, Return, Created, CutOff, PC, BackupPC,
        TypeOK, FullSize
<1>8. CASE UNCHANGED vars
  BY <1>1, <1>8
     DEF BackupUndigested, vars, PC, BackupPC, TypeOK, FullSize
<1> QED
  BY <1>2, <1>3, <1>4, <1>5, <1>6, <1>7, <1>8
     DEF Next, Step

(* A running restore. *)
LEMMA RestoringStep == IInv /\ [Next]_vars => Restoring'
<1> SUFFICES ASSUME IInv, [Next]_vars PROVE Restoring'
  OBVIOUS
<1> USE ConstantsAssumption
<1> USE DEF files, job, hist
<1>1. TypeOK /\ Control /\ Restoring
  BY DEF IInv
<1>2. CASE LoadStep
  BY <1>1, <1>2, ImageFacts, EmptyFacts, DigestFacts
     DEF Restoring, LoadStep, LoadCheckOk, LoadCheckFails, LoadRecheckFails,
        Return, LoadBackupPathCheck, LoadRead, LoadReadFails, PC, RestorePC,
        TypeOK, Block, FullSize, Intact, Fails
<1>3. CASE RestoreStep
  <2>1. CASE RestoreWrite
    <3>1. /\ pos \in 1 .. N /\ pos \in Block /\ N + 1 \in Block /\ last = N
          /\ buf \in Image /\ buf = bak /\ Intact(bak, bakmd5)
      BY <1>1, <2>1
         DEF TypeOK, Restoring, RestoreWrite, FileDataWrite, Block, RestorePC
    <3>2. /\ nv' \in File /\ nv'[pos] = buf[pos]
          /\ \A b \in Block \ {pos} :
                nv'[b] = IF nv = NoFile THEN Hole ELSE nv[b]
      <4>1. nv' = Put(nv, pos, buf[pos]) /\ buf[pos] \in Val \cup {Hole}
        BY <1>1, <2>1, <3>1, ChunkFacts DEF TypeOK, RestoreWrite, FileDataWrite
      <4>2. nv \in File \cup {NoFile}
        BY <1>1 DEF TypeOK
      <4>3. /\ Put(nv, pos, buf[pos]) \in File
            /\ Put(nv, pos, buf[pos])[pos] = buf[pos]
            /\ \A c \in Block \ {pos} :
                  Put(nv, pos, buf[pos])[c] = IF nv = NoFile THEN Hole ELSE nv[c]
        BY <3>1, <4>1, <4>2 DEF Put, File, Empty
      <4> QED
        BY <4>1, <4>3
    <3>3. ~IoFaults => nv'[N + 1] = Hole /\ \A b \in 1 .. pos : nv'[b] = buf[b]
      BY <1>1, <2>1, <3>1, <3>2
         DEF TypeOK, Restoring, RestoreWrite, FileDataWrite, Block
    <3>4. CASE pos = N
      <4>1. ~IoFaults => nv' = buf
        BY <3>1, <3>2, <3>3, <3>4, WrittenFacts
      <4> QED
        BY <2>1, <3>1, <3>4, <4>1
           DEF Restoring, RestoreWrite, FileDataWrite, RestorePC
    <3>5. CASE pos # N
      BY <1>1, <2>1, <3>1, <3>2, <3>3, <3>5
         DEF Restoring, RestoreWrite, FileDataWrite, RestorePC
    <3> QED
      BY <3>4, <3>5
  <2>2. CASE RestoreCheckOk \/ RestoreCheckFails \/ RestoreUnlink
             \/ RestoreWriteFails \/ RestoreReadMd5 \/ RestoreReadMd5Fails
             \/ RestoreUnlinkMd5 \/ RestoreWriteMd5 \/ RestoreWriteMd5Fails
    BY <1>1, <2>2, ImageFacts, EmptyFacts, DigestFacts
       DEF Restoring, RestoreCheckOk, RestoreCheckFails, Return,
          RestoreUnlink, Unlink, RestoreWriteFails, Created, RestoreReadMd5,
          RestoreReadMd5Fails, RestoreUnlinkMd5, RestoreWriteMd5,
          RestoreWriteMd5Fails, PC, RestorePC, TypeOK, Block, FullSize,
          Intact, Fails
  <2> QED
    BY <1>3, <2>1, <2>2
       DEF RestoreStep
<1>4. CASE BackupStep
  BY <1>1, <1>4, ImageFacts, EmptyFacts, DigestFacts
     DEF Restoring, BackupStep, BackupRead, BackupReadFails, Return,
        BackupDone, BackupUnlink, Unlink, BackupWrite, FileDataWrite,
        BackupWriteFails, Created, BackupUnlinkMd5, BackupWriteMd5,
        BackupWriteMd5Fails, PC, RestorePC, TypeOK, Block, FullSize, Intact,
        Fails
<1>5. CASE WriteStep
  BY <1>1, <1>5, ImageFacts, EmptyFacts, DigestFacts
     DEF Restoring, WriteStep, WriteData, FileDataWrite, WriteDataFails,
        Return, Created, WriteMd5Calculate, WriteMd5CalculateFails,
        WriteUnlinkMd5, WriteUnlinkMd5Fails, WriteWriteMd5,
        WriteWriteMd5Fails, PC, RestorePC, TypeOK, Block, FullSize, Intact,
        Fails
<1>6. CASE ClientCall
  BY <1>1, <1>6, ImageFacts, EmptyFacts, DigestFacts
     DEF Restoring, ClientCall, CallLoad, Enter, CallRestore, CallBackup,
        CallRead, Return, CallReadFails, CallWriteRejected, CallWrite, PC,
        RestorePC, TypeOK, Block, FullSize, Intact, Fails
<1>7. CASE Crash
  BY <1>1, <1>7, ImageFacts, EmptyFacts, DigestFacts
     DEF Restoring, Crash, Return, Created, CutOff, PC, RestorePC, TypeOK,
        Block, FullSize, Intact, Fails
<1>8. CASE UNCHANGED vars
  BY <1>1, <1>8
     DEF Restoring, vars, PC, RestorePC, TypeOK, Block, FullSize, Intact,
        Fails
<1> QED
  BY <1>2, <1>3, <1>4, <1>5, <1>6, <1>7, <1>8
     DEF Next, Step

(* Digests are of whole images. *)
LEMMA DigestsWholeStep == IInv /\ [Next]_vars => DigestsWhole'
<1> SUFFICES ASSUME IInv, [Next]_vars PROVE DigestsWhole'
  OBVIOUS
<1> USE ConstantsAssumption
<1> USE DEF files, job, hist
<1>1. TypeOK /\ Control /\ Writing /\ BackingUp /\ DigestsWhole /\ Checked
  BY DEF IInv
<1>2. CASE LoadStep
  <2>1. CASE LoadBackupPathCheck
    <3>1. Intact(nv, md5)'
      BY <1>1, <2>1 DEF Checked, LoadBackupPathCheck, Intact, FullSize
    <3> QED
      BY <1>1, <2>1, <3>1
         DEF DigestsWhole, LoadBackupPathCheck, WholeDigest, WritePC
  <2>2. CASE LoadCheckOk \/ LoadCheckFails \/ LoadRecheckFails \/ LoadRead
             \/ LoadReadFails
    BY <1>1, <2>2, DigestFacts
       DEF DigestsWhole, LoadCheckOk, LoadCheckFails, LoadRecheckFails,
          Return, LoadRead, LoadReadFails, WritePC, BackupPC, TypeOK,
          FullSize, Intact, WholeDigest
  <2> QED
    BY <1>2, <2>1, <2>2
       DEF LoadStep
<1>3. CASE RestoreStep
  <2>1. CASE RestoreWriteMd5
    <3>1. pc' \in {"load_recheck", "idle"} /\ sum' \in {sum, NoData}
      BY <2>1 DEF RestoreWriteMd5, Return
    <3>2. sum # NoData
      BY <1>1, <2>1, DigestFacts DEF Control, RestoreWriteMd5
    <3>3. md5' = sum /\ UNCHANGED <<bakmd5, tainted, whole>>
      BY <2>1 DEF RestoreWriteMd5
    <3> QED
      BY <1>1, <3>1, <3>2, <3>3 DEF DigestsWhole, WholeDigest, WritePC
  <2>2. CASE RestoreCheckOk \/ RestoreCheckFails \/ RestoreUnlink
             \/ RestoreWrite \/ RestoreWriteFails \/ RestoreReadMd5
             \/ RestoreReadMd5Fails \/ RestoreUnlinkMd5
             \/ RestoreWriteMd5Fails
    BY <1>1, <2>2, DigestFacts
       DEF DigestsWhole, RestoreCheckOk, RestoreCheckFails, Return,
          RestoreUnlink, Unlink, RestoreWrite, FileDataWrite,
          RestoreWriteFails, Created, RestoreReadMd5, RestoreReadMd5Fails,
          RestoreUnlinkMd5, RestoreWriteMd5Fails, WritePC, BackupPC, TypeOK,
          FullSize, Intact, WholeDigest
  <2> QED
    BY <1>3, <2>1, <2>2
       DEF RestoreStep
<1>4. CASE BackupStep
  <2>1. CASE BackupWriteMd5
    <3>1. pc' \in {"load_read", "idle"} /\ sum' \in {sum, NoData}
      BY <2>1 DEF BackupWriteMd5, BackupDone, Return
    <3>2. sum # NoData
      BY <1>1, <2>1, DigestFacts DEF BackingUp, BackupWriteMd5, BackupPC
    <3>3. bakmd5' = sum /\ UNCHANGED <<md5, tainted, whole>>
      BY <2>1 DEF BackupWriteMd5
    <3> QED
      BY <1>1, <3>1, <3>2, <3>3 DEF DigestsWhole, WholeDigest, WritePC
  <2>2. CASE BackupRead \/ BackupReadFails \/ BackupUnlink \/ BackupWrite
             \/ BackupWriteFails \/ BackupUnlinkMd5 \/ BackupWriteMd5Fails
    BY <1>1, <2>2, DigestFacts
       DEF DigestsWhole, BackupRead, BackupReadFails, Return, BackupDone,
          BackupUnlink, Unlink, BackupWrite, FileDataWrite, BackupWriteFails,
          Created, BackupUnlinkMd5, BackupWriteMd5Fails, WritePC, BackupPC,
          TypeOK, FullSize, Intact, WholeDigest
  <2> QED
    BY <1>4, <2>1, <2>2
       DEF BackupStep
<1>5. CASE WriteStep
  <2>1. CASE WriteMd5Calculate
    <3>1. nv = buf /\ buf \in Image /\ sum' = Md5(buf)
      BY <1>1, <2>1 DEF Writing, WriteMd5Calculate, FullSize
    <3>2. tainted \/ sum' \in WholeDigest
      BY <1>1, <2>1, <3>1 DEF DigestsWhole, WriteMd5Calculate, WholeDigest, WritePC
    <3> QED
      BY <1>1, <2>1, <3>2
         DEF DigestsWhole, WriteMd5Calculate, WholeDigest, WritePC
  <2>2. CASE WriteWriteMd5
    <3>1. pc' = "idle" /\ sum' = NoData
      BY <2>2 DEF WriteWriteMd5, Return
    <3>2. sum # NoData
      BY <1>1, <2>2, DigestFacts DEF Writing, WriteWriteMd5
    <3>3. md5' = sum /\ UNCHANGED <<bakmd5, tainted, whole>>
      BY <2>2 DEF WriteWriteMd5
    <3> QED
      BY <1>1, <3>1, <3>2, <3>3 DEF DigestsWhole, WholeDigest, WritePC
  <2>3. CASE WriteData \/ WriteDataFails \/ WriteMd5CalculateFails
             \/ WriteUnlinkMd5 \/ WriteUnlinkMd5Fails \/ WriteWriteMd5Fails
    BY <1>1, <2>3, DigestFacts
       DEF DigestsWhole, WriteData, FileDataWrite, WriteDataFails, Return,
          Created, WriteMd5CalculateFails, WriteUnlinkMd5,
          WriteUnlinkMd5Fails, WriteWriteMd5Fails, WritePC, BackupPC, TypeOK,
          FullSize, Intact, WholeDigest
  <2> QED
    BY <1>5, <2>1, <2>2, <2>3
       DEF WriteStep
<1>6. CASE ClientCall
  BY <1>1, <1>6, DigestFacts
     DEF DigestsWhole, ClientCall, CallLoad, Enter, CallRestore, CallBackup,
        CallRead, Return, CallReadFails, CallWriteRejected, CallWrite,
        WritePC, BackupPC, TypeOK, FullSize, Intact, WholeDigest
<1>7. CASE Crash
  BY <1>1, <1>7, DigestFacts
     DEF DigestsWhole, Crash, Return, Created, CutOff, WritePC, BackupPC,
        TypeOK, FullSize, Intact, WholeDigest
<1>8. CASE UNCHANGED vars
  BY <1>1, <1>8
     DEF DigestsWhole, vars, WritePC, BackupPC, TypeOK, FullSize, Intact,
        WholeDigest
<1> QED
  BY <1>2, <1>3, <1>4, <1>5, <1>6, <1>7, <1>8
     DEF Next, Step

(* A load past its check. *)
LEMMA CheckedStep == IInv /\ [Next]_vars => Checked'
<1> SUFFICES ASSUME IInv, [Next]_vars PROVE Checked'
  OBVIOUS
<1> USE ConstantsAssumption
<1> USE DEF files, job, hist
<1>1. TypeOK /\ Control /\ Checked
  BY DEF IInv
<1>2. CASE LoadStep
  BY <1>1, <1>2
     DEF Checked, LoadStep, LoadCheckOk, LoadCheckFails, LoadRecheckFails,
        Return, LoadBackupPathCheck, LoadRead, LoadReadFails, PC, BackupPC,
        LoadPC, RestorePC, WritePC, TypeOK, FullSize, Intact
<1>3. CASE RestoreStep
  BY <1>1, <1>3
     DEF Checked, RestoreStep, RestoreCheckOk, RestoreCheckFails, Return,
        RestoreUnlink, Unlink, RestoreWrite, FileDataWrite,
        RestoreWriteFails, Created, RestoreReadMd5, RestoreReadMd5Fails,
        RestoreUnlinkMd5, RestoreWriteMd5, RestoreWriteMd5Fails, PC,
        BackupPC, LoadPC, RestorePC, WritePC, TypeOK, FullSize, Intact
<1>4. CASE BackupStep
  BY <1>1, <1>4
     DEF Checked, BackupStep, BackupRead, BackupReadFails, Return,
        BackupDone, BackupUnlink, Unlink, BackupWrite, FileDataWrite,
        BackupWriteFails, Created, BackupUnlinkMd5, BackupWriteMd5,
        BackupWriteMd5Fails, PC, BackupPC, LoadPC, RestorePC, WritePC,
        TypeOK, FullSize, Intact
<1>5. CASE WriteStep
  BY <1>1, <1>5
     DEF Checked, WriteStep, WriteData, FileDataWrite, WriteDataFails,
        Return, Created, WriteMd5Calculate, WriteMd5CalculateFails,
        WriteUnlinkMd5, WriteUnlinkMd5Fails, WriteWriteMd5,
        WriteWriteMd5Fails, PC, BackupPC, LoadPC, RestorePC, WritePC, TypeOK,
        FullSize, Intact
<1>6. CASE ClientCall
  BY <1>1, <1>6
     DEF Checked, ClientCall, CallLoad, Enter, CallRestore, CallBackup,
        CallRead, Return, CallReadFails, CallWriteRejected, CallWrite, PC,
        BackupPC, LoadPC, RestorePC, WritePC, TypeOK, FullSize, Intact
<1>7. CASE Crash
  BY <1>1, <1>7
     DEF Checked, Crash, Return, Created, CutOff, PC, BackupPC, LoadPC,
        RestorePC, WritePC, TypeOK, FullSize, Intact
<1>8. CASE UNCHANGED vars
  BY <1>1, <1>8
     DEF Checked, vars, PC, BackupPC, LoadPC, RestorePC, WritePC, TypeOK,
        FullSize, Intact
<1> QED
  BY <1>2, <1>3, <1>4, <1>5, <1>6, <1>7, <1>8
     DEF Next, Step

(* Nothing acknowledged is at stake. *)
LEMMA UnstableStep == IInv /\ [Next]_vars => Unstable'
<1> SUFFICES ASSUME IInv, [Next]_vars PROVE Unstable'
  OBVIOUS
<1> USE ConstantsAssumption
<1> USE DEF files, job, hist
<1>1. TypeOK /\ Control /\ Unstable /\ AckedDurable
  BY DEF IInv
<1>2. CASE LoadStep
  <2>1. CASE LoadCheckFails
    <3>1. ~IoFaults => stable = NoData
      BY <1>1, <2>1 DEF AckedDurable, LoadCheckFails, Fails
    <3> QED
      BY <1>1, <2>1, <3>1 DEF Unstable, LoadCheckFails, Control
  <2>2. CASE LoadCheckOk \/ LoadRecheckFails \/ LoadBackupPathCheck
             \/ LoadRead \/ LoadReadFails
    BY <1>1, <2>2
       DEF Unstable, LoadCheckOk, LoadRecheckFails, Return,
          LoadBackupPathCheck, LoadRead, LoadReadFails, PC, RestorePC,
          LoadPC, BackupPC, WritePC, TypeOK, Fails, Control
  <2> QED
    BY <1>2, <2>1, <2>2
       DEF LoadStep
<1>3. CASE RestoreStep
  BY <1>1, <1>3
     DEF Unstable, RestoreStep, RestoreCheckOk, RestoreCheckFails, Return,
        RestoreUnlink, Unlink, RestoreWrite, FileDataWrite,
        RestoreWriteFails, Created, RestoreReadMd5, RestoreReadMd5Fails,
        RestoreUnlinkMd5, RestoreWriteMd5, RestoreWriteMd5Fails, PC,
        RestorePC, LoadPC, BackupPC, WritePC, TypeOK, Fails, Control
<1>4. CASE BackupStep
  BY <1>1, <1>4
     DEF Unstable, BackupStep, BackupRead, BackupReadFails, Return,
        BackupDone, BackupUnlink, Unlink, BackupWrite, FileDataWrite,
        BackupWriteFails, Created, BackupUnlinkMd5, BackupWriteMd5,
        BackupWriteMd5Fails, PC, RestorePC, LoadPC, BackupPC, WritePC,
        TypeOK, Fails, Control
<1>5. CASE WriteStep
  BY <1>1, <1>5
     DEF Unstable, WriteStep, WriteData, FileDataWrite, WriteDataFails,
        Return, Created, WriteMd5Calculate, WriteMd5CalculateFails,
        WriteUnlinkMd5, WriteUnlinkMd5Fails, WriteWriteMd5,
        WriteWriteMd5Fails, PC, RestorePC, LoadPC, BackupPC, WritePC, TypeOK,
        Fails, Control
<1>6. CASE ClientCall
  BY <1>1, <1>6
     DEF Unstable, ClientCall, CallLoad, Enter, CallRestore, CallBackup,
        CallRead, Return, CallReadFails, CallWriteRejected, CallWrite, PC,
        RestorePC, LoadPC, BackupPC, WritePC, TypeOK, Fails, Control
<1>7. CASE Crash
  BY <1>1, <1>7
     DEF Unstable, Crash, Return, Created, CutOff, PC, RestorePC, LoadPC,
        BackupPC, WritePC, TypeOK, Fails, Control
<1>8. CASE UNCHANGED vars
  BY <1>1, <1>8
     DEF Unstable, vars, PC, RestorePC, LoadPC, BackupPC, WritePC, TypeOK,
        Fails, Control
<1> QED
  BY <1>2, <1>3, <1>4, <1>5, <1>6, <1>7, <1>8
     DEF Next, Step

(* Acknowledged data is durable. *)
LEMMA AckedDurableStep == IInv /\ [Next]_vars => AckedDurable'
<1> SUFFICES ASSUME IInv, [Next]_vars PROVE AckedDurable'
  OBVIOUS
<1> USE ConstantsAssumption
<1> USE DEF files, job, hist
<1>1. TypeOK /\ Control /\ Writing /\ Checked /\ Unstable /\ AckedDurable
  BY DEF IInv
<1>2. CASE LoadStep
  <2>1. CASE LoadRead
    BY <1>1, <2>1, ImageFacts
       DEF AckedDurable, LoadRead, Return, RestorePC, LoadPC, WritePC,
          FullSize, Intact, Control, Writing, Checked, Unstable
  <2>2. CASE LoadCheckOk \/ LoadCheckFails \/ LoadRecheckFails
             \/ LoadBackupPathCheck \/ LoadReadFails
    BY <1>1, <2>2
       DEF AckedDurable, LoadCheckOk, LoadCheckFails, LoadRecheckFails,
          Return, LoadBackupPathCheck, LoadReadFails, RestorePC, LoadPC,
          WritePC, FullSize, Intact, Control, Writing, Checked, Unstable
  <2> QED
    BY <1>2, <2>1, <2>2
       DEF LoadStep
<1>3. CASE RestoreStep
  BY <1>1, <1>3
     DEF AckedDurable, RestoreStep, RestoreCheckOk, RestoreCheckFails,
        Return, RestoreUnlink, Unlink, RestoreWrite, FileDataWrite,
        RestoreWriteFails, Created, RestoreReadMd5, RestoreReadMd5Fails,
        RestoreUnlinkMd5, RestoreWriteMd5, RestoreWriteMd5Fails, RestorePC,
        LoadPC, WritePC, FullSize, Intact, Control, Writing, Checked,
        Unstable
<1>4. CASE BackupStep
  BY <1>1, <1>4
     DEF AckedDurable, BackupStep, BackupRead, BackupReadFails, Return,
        BackupDone, BackupUnlink, Unlink, BackupWrite, FileDataWrite,
        BackupWriteFails, Created, BackupUnlinkMd5, BackupWriteMd5,
        BackupWriteMd5Fails, RestorePC, LoadPC, WritePC, FullSize, Intact,
        Control, Writing, Checked, Unstable
<1>5. CASE WriteStep
  <2>1. CASE WriteWriteMd5
    BY <1>1, <2>1, ImageFacts
       DEF AckedDurable, WriteWriteMd5, Return, RestorePC, LoadPC, WritePC,
          FullSize, Intact, Control, Writing, Checked, Unstable
  <2>2. CASE WriteData \/ WriteDataFails \/ WriteMd5Calculate
             \/ WriteMd5CalculateFails \/ WriteUnlinkMd5
             \/ WriteUnlinkMd5Fails \/ WriteWriteMd5Fails
    BY <1>1, <2>2
       DEF AckedDurable, WriteData, FileDataWrite, WriteDataFails, Return,
          Created, WriteMd5Calculate, WriteMd5CalculateFails, WriteUnlinkMd5,
          WriteUnlinkMd5Fails, WriteWriteMd5Fails, RestorePC, LoadPC,
          WritePC, FullSize, Intact, Control, Writing, Checked, Unstable
  <2> QED
    BY <1>5, <2>1, <2>2
       DEF WriteStep
<1>6. CASE ClientCall
  BY <1>1, <1>6
     DEF AckedDurable, ClientCall, CallLoad, Enter, CallRestore, CallBackup,
        CallRead, Return, CallReadFails, CallWriteRejected, CallWrite,
        RestorePC, LoadPC, WritePC, FullSize, Intact, Control, Writing,
        Checked, Unstable
<1>7. CASE Crash
  BY <1>1, <1>7
     DEF AckedDurable, Crash, Return, Created, CutOff, RestorePC, LoadPC,
        WritePC, FullSize, Intact, Control, Writing, Checked, Unstable
<1>8. CASE UNCHANGED vars
  BY <1>1, <1>8
     DEF AckedDurable, vars, RestorePC, LoadPC, WritePC, FullSize, Intact,
        Control, Writing, Checked, Unstable
<1> QED
  BY <1>2, <1>3, <1>4, <1>5, <1>6, <1>7, <1>8
     DEF Next, Step

(* A loaded nv_data is intact. *)
LEMMA LoadedIsIntactStep == IInv /\ [Next]_vars => LoadedIsIntact'
<1> SUFFICES ASSUME IInv, [Next]_vars PROVE LoadedIsIntact'
  OBVIOUS
<1> USE ConstantsAssumption
<1> USE DEF files, job, hist
<1>1. TypeOK /\ Control /\ Checked /\ LoadedIsIntact
  BY DEF IInv
<1>2. CASE LoadStep
  BY <1>1, <1>2
     DEF LoadedIsIntact, LoadStep, LoadCheckOk, LoadCheckFails,
        LoadRecheckFails, Return, LoadBackupPathCheck, LoadRead,
        LoadReadFails, Loaded, Control, Checked, NoRet, Intact, FullSize
<1>3. CASE RestoreStep
  BY <1>1, <1>3
     DEF LoadedIsIntact, RestoreStep, RestoreCheckOk, RestoreCheckFails,
        Return, RestoreUnlink, Unlink, RestoreWrite, FileDataWrite,
        RestoreWriteFails, Created, RestoreReadMd5, RestoreReadMd5Fails,
        RestoreUnlinkMd5, RestoreWriteMd5, RestoreWriteMd5Fails, Loaded,
        Control, Checked, NoRet, Intact, FullSize
<1>4. CASE BackupStep
  BY <1>1, <1>4
     DEF LoadedIsIntact, BackupStep, BackupRead, BackupReadFails, Return,
        BackupDone, BackupUnlink, Unlink, BackupWrite, FileDataWrite,
        BackupWriteFails, Created, BackupUnlinkMd5, BackupWriteMd5,
        BackupWriteMd5Fails, Loaded, Control, Checked, NoRet, Intact,
        FullSize
<1>5. CASE WriteStep
  BY <1>1, <1>5
     DEF LoadedIsIntact, WriteStep, WriteData, FileDataWrite, WriteDataFails,
        Return, Created, WriteMd5Calculate, WriteMd5CalculateFails,
        WriteUnlinkMd5, WriteUnlinkMd5Fails, WriteWriteMd5,
        WriteWriteMd5Fails, Loaded, Control, Checked, NoRet, Intact, FullSize
<1>6. CASE ClientCall
  BY <1>1, <1>6
     DEF LoadedIsIntact, ClientCall, CallLoad, Enter, CallRestore,
        CallBackup, CallRead, Return, CallReadFails, CallWriteRejected,
        CallWrite, Loaded, Control, Checked, NoRet, Intact, FullSize
<1>7. CASE Crash
  BY <1>1, <1>7
     DEF LoadedIsIntact, Crash, Return, Created, CutOff, Loaded, Control,
        Checked, NoRet, Intact, FullSize
<1>8. CASE UNCHANGED vars
  BY <1>1, <1>8
     DEF LoadedIsIntact, vars, Loaded, Control, Checked, NoRet, Intact,
        FullSize
<1> QED
  BY <1>2, <1>3, <1>4, <1>5, <1>6, <1>7, <1>8
     DEF Next, Step

(* A loaded nv_data is whole. *)
LEMMA LoadedWholeStep == IInv /\ [Next]_vars => LoadedWhole'
<1> SUFFICES ASSUME IInv, [Next]_vars PROVE LoadedWhole'
  OBVIOUS
<1> USE ConstantsAssumption
<1> USE DEF files, job, hist
<1>1. TypeOK /\ Control /\ Checked /\ DigestsWhole /\ LoadedWhole
  BY DEF IInv
<1>2. CASE LoadStep
  <2>1. CASE LoadRead
    <3>1. nv \in Image /\ md5 = Md5(nv)
      BY <1>1, <2>1 DEF LoadRead, Checked, Intact, FullSize
    <3>2. tainted \/ nv \in whole
      BY <1>1, <3>1, DigestFacts DEF DigestsWhole, WholeDigest
    <3> QED
      BY <2>1, <3>2 DEF LoadedWhole, Loaded, LoadRead, Return
  <2>2. CASE LoadCheckOk \/ LoadCheckFails \/ LoadRecheckFails
             \/ LoadBackupPathCheck \/ LoadReadFails
    BY <1>1, <2>2
       DEF LoadedWhole, LoadCheckOk, LoadCheckFails, LoadRecheckFails,
          Return, LoadBackupPathCheck, LoadReadFails, Loaded, Control, NoRet
  <2> QED
    BY <1>2, <2>1, <2>2
       DEF LoadStep
<1>3. CASE RestoreStep
  BY <1>1, <1>3
     DEF LoadedWhole, RestoreStep, RestoreCheckOk, RestoreCheckFails, Return,
        RestoreUnlink, Unlink, RestoreWrite, FileDataWrite,
        RestoreWriteFails, Created, RestoreReadMd5, RestoreReadMd5Fails,
        RestoreUnlinkMd5, RestoreWriteMd5, RestoreWriteMd5Fails, Loaded,
        Control, NoRet
<1>4. CASE BackupStep
  BY <1>1, <1>4
     DEF LoadedWhole, BackupStep, BackupRead, BackupReadFails, Return,
        BackupDone, BackupUnlink, Unlink, BackupWrite, FileDataWrite,
        BackupWriteFails, Created, BackupUnlinkMd5, BackupWriteMd5,
        BackupWriteMd5Fails, Loaded, Control, NoRet
<1>5. CASE WriteStep
  BY <1>1, <1>5
     DEF LoadedWhole, WriteStep, WriteData, FileDataWrite, WriteDataFails,
        Return, Created, WriteMd5Calculate, WriteMd5CalculateFails,
        WriteUnlinkMd5, WriteUnlinkMd5Fails, WriteWriteMd5,
        WriteWriteMd5Fails, Loaded, Control, NoRet
<1>6. CASE ClientCall
  BY <1>1, <1>6
     DEF LoadedWhole, ClientCall, CallLoad, Enter, CallRestore, CallBackup,
        CallRead, Return, CallReadFails, CallWriteRejected, CallWrite,
        Loaded, Control, NoRet
<1>7. CASE Crash
  BY <1>1, <1>7
     DEF LoadedWhole, Crash, Return, Created, CutOff, Loaded, Control, NoRet
<1>8. CASE UNCHANGED vars
  BY <1>1, <1>8
     DEF LoadedWhole, vars, Loaded, Control, NoRet
<1> QED
  BY <1>2, <1>3, <1>4, <1>5, <1>6, <1>7, <1>8
     DEF Next, Step

(* A load that fails found nothing intact. *)
LEMMA LoadFailsOnlyWhenLostStep == IInv /\ [Next]_vars => LoadFailsOnlyWhenLost'
<1> SUFFICES ASSUME IInv, [Next]_vars PROVE LoadFailsOnlyWhenLost'
  OBVIOUS
<1> USE ConstantsAssumption
<1> USE DEF files, job, hist
<1>1. TypeOK /\ Control /\ Restoring /\ Checked /\ LoadFailsOnlyWhenLost
  BY DEF IInv
<1>2. CASE LoadStep
  <2>1. CASE LoadRecheckFails
    BY <1>1, <2>1
       DEF LoadFailsOnlyWhenLost, LoadRecheckFails, Return, Control, NoRet,
          Fails, Restoring
  <2>2. CASE LoadReadFails
    BY <1>1, <2>2
       DEF LoadFailsOnlyWhenLost, LoadReadFails, Return, Control, NoRet,
          Fails, Checked, Intact
  <2>3. CASE LoadCheckOk \/ LoadCheckFails \/ LoadBackupPathCheck
             \/ LoadRead
    BY <1>1, <2>3
       DEF LoadFailsOnlyWhenLost, LoadCheckOk, LoadCheckFails,
          LoadBackupPathCheck, LoadRead, Return, Control, NoRet, Fails
  <2> QED
    BY <1>2, <2>1, <2>2, <2>3
       DEF LoadStep
<1>3. CASE RestoreStep
  <2>1. CASE RestoreCheckFails
    BY <1>1, <2>1
       DEF LoadFailsOnlyWhenLost, RestoreCheckFails, Return, Control, NoRet,
          Fails, Restoring, RestorePC
  <2>2. CASE RestoreReadMd5Fails
    BY <1>1, <2>2, DigestFacts
       DEF LoadFailsOnlyWhenLost, RestoreReadMd5Fails, Return, Control,
          NoRet, Fails, Restoring, RestorePC, Intact, FullSize
  <2>3. CASE RestoreCheckOk \/ RestoreUnlink \/ RestoreWrite
             \/ RestoreWriteFails \/ RestoreReadMd5 \/ RestoreUnlinkMd5
             \/ RestoreWriteMd5 \/ RestoreWriteMd5Fails
    BY <1>1, <2>3
       DEF LoadFailsOnlyWhenLost, RestoreCheckOk, RestoreUnlink, Unlink,
          RestoreWrite, FileDataWrite, RestoreWriteFails, Return, Created,
          RestoreReadMd5, RestoreUnlinkMd5, RestoreWriteMd5,
          RestoreWriteMd5Fails, Control, NoRet, Fails
  <2> QED
    BY <1>3, <2>1, <2>2, <2>3
       DEF RestoreStep
<1>4. CASE BackupStep
  BY <1>1, <1>4
     DEF LoadFailsOnlyWhenLost, BackupStep, BackupRead, BackupReadFails,
        Return, BackupDone, BackupUnlink, Unlink, BackupWrite, FileDataWrite,
        BackupWriteFails, Created, BackupUnlinkMd5, BackupWriteMd5,
        BackupWriteMd5Fails, Control, NoRet, Fails
<1>5. CASE WriteStep
  BY <1>1, <1>5
     DEF LoadFailsOnlyWhenLost, WriteStep, WriteData, FileDataWrite,
        WriteDataFails, Return, Created, WriteMd5Calculate,
        WriteMd5CalculateFails, WriteUnlinkMd5, WriteUnlinkMd5Fails,
        WriteWriteMd5, WriteWriteMd5Fails, Control, NoRet, Fails
<1>6. CASE ClientCall
  BY <1>1, <1>6
     DEF LoadFailsOnlyWhenLost, ClientCall, CallLoad, Enter, CallRestore,
        CallBackup, CallRead, Return, CallReadFails, CallWriteRejected,
        CallWrite, Control, NoRet, Fails
<1>7. CASE Crash
  BY <1>1, <1>7
     DEF LoadFailsOnlyWhenLost, Crash, Return, Created, CutOff, Control,
        NoRet, Fails
<1>8. CASE UNCHANGED vars
  BY <1>1, <1>8
     DEF LoadFailsOnlyWhenLost, vars, Control, NoRet, Fails
<1> QED
  BY <1>2, <1>3, <1>4, <1>5, <1>6, <1>7, <1>8
     DEF Next, Step

-----------------------------------------------------------------------------
(***************************************************************************)
(* The theorems.                                                           *)
(***************************************************************************)
LEMMA InitIInv == Init => IInv
<1> SUFFICES ASSUME Init PROVE IInv
  OBVIOUS
<1> USE ConstantsAssumption, ImageFacts, EmptyFacts, DigestFacts DEF Init
<1>1. TypeOK
  <2>1. NoRet \in RetType
    BY DEF NoRet, RetType
  <2>2. nv \in File /\ bak \in File \cup {NoFile}
    OBVIOUS
  <2>3. md5 \in Digest /\ bakmd5 \in Digest \cup {NoFile}
    OBVIOUS
  <2>4. pos \in 1 .. N + 2 /\ last \in Block /\ pc \in PC
    BY DEF Block, PC
  <2>5. buf \in File /\ stable \in Image /\ whole \subseteq Image
    OBVIOUS
  <2> QED
    BY <2>1, <2>2, <2>3, <2>4, <2>5 DEF TypeOK, RetType
<1>2. Control /\ Writing /\ Restoring /\ Checked /\ Unstable
  BY DEF Control, Writing, Restoring, Checked, Unstable, LoadPC, RestorePC,
     BackupPC, WritePC
<1>3. BackingUp /\ BackupUndigested
  BY DEF BackingUp, BackupUndigested, BackupPC, FullSize
<1>4. nv \in whole /\ (bak \in Image => bak \in whole)
  OBVIOUS
<1>5. DigestsWhole
  BY <1>4 DEF DigestsWhole, WholeDigest, WritePC
<1>6. AckedDurable
  BY DEF AckedDurable, Intact, FullSize
<1>7. LoadedWhole /\ LoadedIsIntact /\ LoadFailsOnlyWhenLost
  BY DEF LoadedWhole, LoadedIsIntact, LoadFailsOnlyWhenLost, Loaded, NoRet
<1> QED
  BY <1>1, <1>2, <1>3, <1>5, <1>6, <1>7 DEF IInv

(* The strengthened invariant is inductive.  It says, for every point of   *)
(* every call, how far the files agree with the buffers being written.     *)
THEOREM Inductive == Spec => []IInv
<1>1. IInv /\ [Next]_vars => IInv'
  BY TypeStep, ControlStep, WritingStep, BackingUpStep, BackupUndigestedStep,
     RestoringStep, DigestsWholeStep, CheckedStep, UnstableStep,
     AckedDurableStep, LoadedWholeStep, LoadedIsIntactStep,
     LoadFailsOnlyWhenLostStep
     DEF IInv
<1> QED
  BY InitIInv, <1>1, PTL DEF Spec

(* Type correctness of the store. *)
THEOREM TypeCorrect == Spec => []TypeOK
<1>1. IInv => TypeOK
  BY DEF IInv
<1> QED
  BY Inductive, <1>1, PTL

(* ipc_nv_data_load never returns a torn image, with crashes between any   *)
(* two system calls and with any of them failing.                          *)
THEOREM LoadReturnsWholeImages == Spec => []LoadedWhole
<1>1. IInv => LoadedWhole
  BY DEF IInv
<1> QED
  BY Inductive, <1>1, PTL

(* The image ipc_nv_data_load returned is the one on disk, with its MD5.   *)
THEOREM LoadLeavesIntact == Spec => []LoadedIsIntact
<1>1. IInv => LoadedIsIntact
  BY DEF IInv
<1> QED
  BY Inductive, <1>1, PTL

(* Without I/O errors an acknowledged image survives every crash, load,    *)
(* read and backup.                                                        *)
THEOREM AcknowledgedIsDurable == Spec => []AckedDurable
<1>1. IInv => AckedDurable
  BY DEF IInv
<1> QED
  BY Inductive, <1>1, PTL

(* Without I/O errors ipc_nv_data_load succeeds if either pair of files is *)
(* intact.                                                                 *)
THEOREM LoadSucceedsUnlessLost == Spec => []LoadFailsOnlyWhenLost
<1>1. IInv => LoadFailsOnlyWhenLost
  BY DEF IInv
<1> QED
  BY Inductive, <1>1, PTL

(* Without I/O errors and direct backups, ipc_nv_data_load replaces a      *)
(* backup only while it has no digest, so no step of a load, a restore or  *)
(* a write destroys an intact one, wherever crashes interrupt them.  (With *)
(* I/O errors a stat that fails makes ipc_nv_data_load destroy it.)        *)
THEOREM IntactBackupIsKept == Spec => BackupKept
<1>1. ASSUME IInv, [Next]_vars, ~IoFaults, ~DirectBackup,
             Intact(bak, bakmd5)
      PROVE  Intact(bak, bakmd5)'
  <2>1. pc \notin BackupPC
    BY <1>1, DigestFacts DEF IInv, BackupUndigested, Intact, FullSize
  <2>2. UNCHANGED <<bak, bakmd5>>
    BY <1>1, <2>1 DEF Next, Step, LoadStep, RestoreStep, BackupStep, WriteStep,
       ClientCall, Crash, vars, files, LoadCheckOk, LoadCheckFails,
       LoadRecheckFails, LoadBackupPathCheck, LoadRead, LoadReadFails,
       RestoreCheckOk, RestoreCheckFails, RestoreUnlink, RestoreWrite,
       RestoreWriteFails, RestoreReadMd5, RestoreReadMd5Fails,
       RestoreUnlinkMd5, RestoreWriteMd5, RestoreWriteMd5Fails, BackupRead,
       BackupReadFails, BackupUnlink, BackupWrite, BackupWriteFails,
       BackupUnlinkMd5, BackupWriteMd5, BackupWriteMd5Fails, FileDataWrite,
       WriteData, WriteDataFails, WriteMd5Calculate, WriteMd5CalculateFails,
       WriteUnlinkMd5, WriteUnlinkMd5Fails, WriteWriteMd5,
       WriteWriteMd5Fails, CallLoad, CallRestore, CallBackup, CallRead,
       CallReadFails, CallWrite, CallWriteRejected, BackupPC, CutOff
  <2> QED
    BY <1>1, <2>2 DEF Intact, FullSize
<1>2. IInv /\ [Next]_vars =>
         (~IoFaults /\ ~DirectBackup /\ Intact(bak, bakmd5) =>
             Intact(bak, bakmd5)')
  BY <1>1
<1> QED
  BY Inductive, <1>2, PTL DEF Spec, BackupKept

-----------------------------------------------------------------------------
(***************************************************************************)
(* Reading back, and the store that the client sees.                       *)
(***************************************************************************)

(* What was acknowledged is on disk while the modem may read it. *)
Acknowledged ==
    /\ pc = "idle" <=> op = "none"
    /\ op = "load" => ~booted
    /\ op \in {"restore", "write"} => stable = NoData
    /\ booted /\ stable # NoData => nv = stable

(* Without I/O errors and backups on request. *)
Quiet == ~IoFaults /\ ~DirectBackup

(* A load restores only what it found damaged. *)
Damaged ==
    op = "load" /\ pc \in {"restore_check", "restore_unlink"} => ~Intact(nv, md5)

(* The file being restored has its end where the next chunk goes. *)
Growing ==
    pc = "restore_write" =>
        nv = NoFile \/ (nv \in File /\ \A b \in pos .. N : nv[b] = Hole)

(* A load backs up the image it will return. *)
Copying == op = "load" /\ pc \in BackupPC \ {"backup_read"} => buf = nv

(* A modem that was booted finds its nv_data with the right digest, or of  *)
(* the wrong size.                                                         *)
Serving ==
    booted /\ FullSize(nv) /\ (pc = "idle" \/ (op = "restore" /\ pc = "restore_check"))
        => Intact(nv, md5)

(* The digest on disk is that of the image before the write. *)
Overwriting ==
    /\ pc = "write_data" =>
          \E img \in Image : /\ md5 = Md5(img)
                             /\ \A b \in pos .. last : nv[b] = img[b]
    /\ pc \in {"write_md5_calculate", "write_unlink_md5"} => md5 \in Digest

RInv ==
    /\ Acknowledged /\ ReadsBack
    /\ Quiet => Damaged /\ Growing /\ Copying /\ Serving /\ Overwriting

(* One write() of file_data_write copies one chunk of its buffer. *)
LEMMA PutChunk ==
    ASSUME NEW f \in File \cup {NoFile}, NEW g \in File, NEW b \in Block
    PROVE  /\ Put(f, b, g[b]) \in File
           /\ Put(f, b, g[b])[b] = g[b]
           /\ \A c \in Block \ {b} :
                 Put(f, b, g[b])[c] = IF f = NoFile THEN Hole ELSE f[c]
<1>1. g[b] \in Val \cup {Hole}
  BY ChunkFacts
<1> QED
  BY <1>1, PutFacts

(* What was acknowledged is in nv_data. *)
LEMMA AcknowledgedStep == IInv /\ RInv /\ [Next]_vars => Acknowledged'
<1> SUFFICES ASSUME IInv, RInv, [Next]_vars PROVE Acknowledged'
  OBVIOUS
<1> USE ConstantsAssumption
<1> USE DEF files, job, hist
<1>1. TypeOK /\ Control /\ Writing /\ Acknowledged
  BY DEF IInv, RInv
<1>2. CASE LoadStep
  <2>1. CASE LoadRead
    BY <1>1, <2>1
       DEF LoadRead, Return, Acknowledged, Control, TypeOK, LoadPC, RestorePC,
          BackupPC, WritePC
  <2>2. CASE LoadCheckOk \/ LoadCheckFails \/ LoadRecheckFails
             \/ LoadBackupPathCheck \/ LoadReadFails
    BY <1>1, <2>2
       DEF LoadCheckOk, LoadCheckFails, Fails, LoadRecheckFails, Return,
          LoadBackupPathCheck, LoadReadFails, Acknowledged, Control, TypeOK,
          LoadPC, RestorePC, BackupPC, WritePC
  <2> QED
    BY <1>2, <2>1, <2>2 DEF LoadStep
<1>3. CASE RestoreStep
  <2>1. CASE RestoreWriteMd5
    BY <1>1, <2>1
       DEF RestoreWriteMd5, Return, Acknowledged, Control, TypeOK, LoadPC,
          RestorePC, BackupPC, WritePC
  <2>2. CASE RestoreCheckOk \/ RestoreCheckFails \/ RestoreUnlink
             \/ RestoreWrite \/ RestoreWriteFails \/ RestoreReadMd5
             \/ RestoreReadMd5Fails \/ RestoreUnlinkMd5
             \/ RestoreWriteMd5Fails
    BY <1>1, <2>2
       DEF RestoreCheckOk, RestoreCheckFails, Fails, Return, RestoreUnlink,
          Unlink, RestoreWrite, FileDataWrite, RestoreWriteFails, Created,
          RestoreReadMd5, RestoreReadMd5Fails, RestoreUnlinkMd5,
          RestoreWriteMd5Fails, Acknowledged, Control, TypeOK, LoadPC,
          RestorePC, BackupPC, WritePC
  <2> QED
    BY <1>3, <2>1, <2>2 DEF RestoreStep
<1>4. CASE BackupStep
  BY <1>1, <1>4
     DEF BackupStep, BackupRead, BackupReadFails, Fails, BackupDone, Return,
        BackupUnlink, Unlink, BackupWrite, FileDataWrite, BackupWriteFails,
        Created, BackupUnlinkMd5, BackupWriteMd5, BackupWriteMd5Fails,
        Acknowledged, Control, TypeOK, LoadPC, RestorePC, BackupPC, WritePC
<1>5. CASE WriteStep
  <2>1. CASE WriteWriteMd5
    BY <1>1, <2>1
       DEF WriteWriteMd5, Return, Acknowledged, Control, TypeOK, LoadPC,
          RestorePC, BackupPC, WritePC, Writing
  <2>2. CASE WriteData \/ WriteDataFails \/ WriteMd5Calculate
             \/ WriteMd5CalculateFails \/ WriteUnlinkMd5
             \/ WriteUnlinkMd5Fails \/ WriteWriteMd5Fails
    BY <1>1, <2>2
       DEF WriteData, FileDataWrite, WriteDataFails, Return, Created,
          WriteMd5Calculate, WriteMd5CalculateFails, Fails, WriteUnlinkMd5,
          WriteUnlinkMd5Fails, WriteWriteMd5Fails, Acknowledged, Control,
          TypeOK, LoadPC, RestorePC, BackupPC, WritePC
  <2> QED
    BY <1>5, <2>1, <2>2 DEF WriteStep
<1>6. CASE ClientCall
  BY <1>1, <1>6
     DEF ClientCall, CallLoad, Enter, CallRestore, CallBackup, CallRead,
        Return, ReadFits, CallReadFails, Fails, CallWriteRejected, CallWrite,
        Acknowledged, Control, TypeOK, LoadPC, RestorePC, BackupPC, WritePC
<1>7. CASE Crash
  BY <1>1, <1>7
     DEF Crash, Return, CutOff, Created, Acknowledged, Control, TypeOK,
        LoadPC, RestorePC, BackupPC, WritePC
<1>8. CASE UNCHANGED vars
  BY <1>1, <1>8
     DEF vars, Acknowledged, Control, TypeOK, LoadPC, RestorePC, BackupPC,
        WritePC
<1> QED
  BY <1>2, <1>3, <1>4, <1>5, <1>6, <1>7, <1>8 DEF Next, Step

(* What was read is what was acknowledged. *)
LEMMA ReadsBackStep == IInv /\ RInv /\ [Next]_vars => ReadsBack'
<1> SUFFICES ASSUME IInv, RInv, [Next]_vars PROVE ReadsBack'
  OBVIOUS
<1> USE ConstantsAssumption
<1> USE DEF files, job, hist
<1>1. TypeOK /\ Control /\ Acknowledged /\ ReadsBack
  BY DEF IInv, RInv
<1>2. CASE LoadStep
  BY <1>1, <1>2
     DEF LoadStep, LoadCheckOk, LoadCheckFails, Fails, LoadRecheckFails,
        Return, LoadBackupPathCheck, LoadRead, LoadReadFails, ReadsBack,
        Control, NoRet, TypeOK, LoadPC, RestorePC, BackupPC, WritePC
<1>3. CASE RestoreStep
  BY <1>1, <1>3
     DEF RestoreStep, RestoreCheckOk, RestoreCheckFails, Fails, Return,
        RestoreUnlink, Unlink, RestoreWrite, FileDataWrite, RestoreWriteFails,
        Created, RestoreReadMd5, RestoreReadMd5Fails, RestoreUnlinkMd5,
        RestoreWriteMd5, RestoreWriteMd5Fails, ReadsBack, Control, NoRet,
        TypeOK, LoadPC, RestorePC, BackupPC, WritePC
<1>4. CASE BackupStep
  BY <1>1, <1>4
     DEF BackupStep, BackupRead, BackupReadFails, Fails, BackupDone, Return,
        BackupUnlink, Unlink, BackupWrite, FileDataWrite, BackupWriteFails,
        Created, BackupUnlinkMd5, BackupWriteMd5, BackupWriteMd5Fails,
        ReadsBack, Control, NoRet, TypeOK, LoadPC, RestorePC, BackupPC,
        WritePC
<1>5. CASE WriteStep
  BY <1>1, <1>5
     DEF WriteStep, WriteData, FileDataWrite, WriteDataFails, Return, Created,
        WriteMd5Calculate, WriteMd5CalculateFails, Fails, WriteUnlinkMd5,
        WriteUnlinkMd5Fails, WriteWriteMd5, WriteWriteMd5Fails, ReadsBack,
        Control, NoRet, TypeOK, LoadPC, RestorePC, BackupPC, WritePC
<1>6. CASE ClientCall
  <2>1. CASE CallLoad
    BY <1>1, <2>1
       DEF CallLoad, Enter, ReadsBack, Control, NoRet, TypeOK, LoadPC,
          RestorePC, BackupPC, WritePC
  <2>2. CASE CallRestore
    BY <1>1, <2>2
       DEF CallRestore, Enter, ReadsBack, Control, NoRet, TypeOK, LoadPC,
          RestorePC, BackupPC, WritePC
  <2>3. CASE CallBackup
    BY <1>1, <2>3
       DEF CallBackup, Enter, ReadsBack, Control, NoRet, TypeOK, LoadPC,
          RestorePC, BackupPC, WritePC
  <2>4. ASSUME NEW off \in 1 .. N, NEW size \in 0 .. N + 1,
               off + size - 1 \in 0 .. N + 1,
               CallRead(off, size)
        PROVE  ReadsBack'
    BY <1>1, <2>4
       DEF CallRead, Return, ReadFits, ReadsBack, Control, NoRet, TypeOK,
          LoadPC, RestorePC, BackupPC, WritePC, Acknowledged
  <2>5. ASSUME NEW off \in 1 .. N, NEW size \in 0 .. N + 1,
               off + size - 1 \in 0 .. N + 1,
               CallReadFails(off, size)
        PROVE  ReadsBack'
    BY <1>1, <2>5
       DEF CallReadFails, Fails, Return, ReadsBack, Control, NoRet, TypeOK,
          LoadPC, RestorePC, BackupPC, WritePC
  <2>6. ASSUME NEW size \in 0 .. N + 1,
               CallWriteRejected(size)
        PROVE  ReadsBack'
    BY <1>1, <2>6
       DEF CallWriteRejected, Fails, Return, ReadsBack, Control, NoRet,
          TypeOK, LoadPC, RestorePC, BackupPC, WritePC
  <2>7. ASSUME NEW off \in 1 .. N, NEW size \in 0 .. N + 1,
               off + size - 1 \in 0 .. N + 1,
               NEW v \in Val, CallWrite(off, size, v)
        PROVE  ReadsBack'
    BY <1>1, <2>7
       DEF CallWrite, Enter, ReadsBack, Control, NoRet, TypeOK, LoadPC,
          RestorePC, BackupPC, WritePC
  <2> QED
    BY <1>6, <2>1, <2>2, <2>3, <2>4, <2>5, <2>6, <2>7 DEF ClientCall
<1>7. CASE Crash
  BY <1>1, <1>7
     DEF Crash, Return, CutOff, Created, ReadsBack, Control, NoRet, TypeOK,
        LoadPC, RestorePC, BackupPC, WritePC
<1>8. CASE UNCHANGED vars
  BY <1>1, <1>8
     DEF vars, ReadsBack, Control, NoRet, TypeOK, LoadPC, RestorePC, BackupPC,
        WritePC
<1> QED
  BY <1>2, <1>3, <1>4, <1>5, <1>6, <1>7, <1>8 DEF Next, Step

(* A load restores only what it found damaged. *)
LEMMA DamagedStep == IInv /\ RInv /\ Quiet /\ [Next]_vars => Damaged'
<1> SUFFICES ASSUME IInv, RInv, Quiet, [Next]_vars PROVE Damaged'
  OBVIOUS
<1> USE ConstantsAssumption
<1> USE DEF files, job, hist
<1>1. TypeOK /\ Control /\ Damaged /\ ~IoFaults
  BY DEF IInv, RInv, Quiet
<1>2. CASE LoadStep
  BY <1>1, <1>2
     DEF LoadStep, LoadCheckOk, LoadCheckFails, Fails, LoadRecheckFails,
        Return, LoadBackupPathCheck, LoadRead, LoadReadFails, Damaged,
        Control, Intact, FullSize, LoadPC, RestorePC, BackupPC, WritePC
<1>3. CASE RestoreStep
  BY <1>1, <1>3
     DEF RestoreStep, RestoreCheckOk, RestoreCheckFails, Fails, Return,
        RestoreUnlink, Unlink, RestoreWrite, FileDataWrite, RestoreWriteFails,
        Created, RestoreReadMd5, RestoreReadMd5Fails, RestoreUnlinkMd5,
        RestoreWriteMd5, RestoreWriteMd5Fails, Damaged, Control, Intact,
        FullSize, LoadPC, RestorePC, BackupPC, WritePC
<1>4. CASE BackupStep
  BY <1>1, <1>4
     DEF BackupStep, BackupRead, BackupReadFails, Fails, BackupDone, Return,
        BackupUnlink, Unlink, BackupWrite, FileDataWrite, BackupWriteFails,
        Created, BackupUnlinkMd5, BackupWriteMd5, BackupWriteMd5Fails,
        Damaged, Control, Intact, FullSize, LoadPC, RestorePC, BackupPC,
        WritePC
<1>5. CASE WriteStep
  BY <1>1, <1>5
     DEF WriteStep, WriteData, FileDataWrite, WriteDataFails, Return, Created,
        WriteMd5Calculate, WriteMd5CalculateFails, Fails, WriteUnlinkMd5,
        WriteUnlinkMd5Fails, WriteWriteMd5, WriteWriteMd5Fails, Damaged,
        Control, Intact, FullSize, LoadPC, RestorePC, BackupPC, WritePC
<1>6. CASE ClientCall
  BY <1>1, <1>6
     DEF ClientCall, CallLoad, Enter, CallRestore, CallBackup, CallRead,
        Return, ReadFits, CallReadFails, Fails, CallWriteRejected, CallWrite,
        Damaged, Control, Intact, FullSize, LoadPC, RestorePC, BackupPC,
        WritePC
<1>7. CASE Crash
  BY <1>1, <1>7
     DEF Crash, Return, CutOff, Created, Damaged, Control, Intact, FullSize,
        LoadPC, RestorePC, BackupPC, WritePC
<1>8. CASE UNCHANGED vars
  BY <1>1, <1>8
     DEF vars, Damaged, Control, Intact, FullSize, LoadPC, RestorePC,
        BackupPC, WritePC
<1> QED
  BY <1>2, <1>3, <1>4, <1>5, <1>6, <1>7, <1>8 DEF Next, Step

(* The next chunk goes to the end of the file being restored. *)
LEMMA GrowingStep == IInv /\ RInv /\ Quiet /\ [Next]_vars => Growing'
<1> SUFFICES ASSUME IInv, RInv, Quiet, [Next]_vars PROVE Growing'
  OBVIOUS
<1> USE ConstantsAssumption
<1> USE DEF files, job, hist
<1>1. TypeOK /\ Control /\ Restoring /\ Growing /\ ~IoFaults
  BY DEF IInv, RInv, Quiet
<1>2. CASE LoadStep
  BY <1>1, <1>2
     DEF LoadStep, LoadCheckOk, LoadCheckFails, Fails, LoadRecheckFails,
        Return, LoadBackupPathCheck, LoadRead, LoadReadFails, Growing,
        Control, LoadPC, RestorePC, BackupPC, WritePC
<1>3. CASE RestoreStep
  <2>1. CASE RestoreWrite
    <3>1. pos \in 1 .. N /\ pos \in Block /\ buf \in File
      BY <1>1, <2>1
         DEF RestoreWrite, FileDataWrite, Restoring, TypeOK, Block
    <3>2. nv \in File \cup {NoFile} /\ nv' = Put(nv, pos, buf[pos])
      BY <1>1, <2>1 DEF RestoreWrite, FileDataWrite, TypeOK
    <3> DEFINE new == Put(nv, pos, buf[pos])
    <3>0. /\ new \in File
          /\ \A c \in Block \ {pos} :
                new[c] = IF nv = NoFile THEN Hole ELSE nv[c]
      BY <3>1, <3>2, PutChunk
    <3>3. /\ nv' \in File
          /\ \A c \in Block \ {pos} :
                nv'[c] = IF nv = NoFile THEN Hole ELSE nv[c]
      BY <3>2, <3>0
    <3>4. \A b \in pos + 1 .. N :
             b \in Block \ {pos} /\ b \in pos .. N
      BY <3>1 DEF Block
    <3>5. \A b \in pos + 1 .. N : nv'[b] = Hole
      BY <1>1, <2>1, <3>3, <3>4
         DEF Growing, RestoreWrite, FileDataWrite
    <3> QED
      BY <3>3, <3>5, <2>1 DEF Growing, RestoreWrite, FileDataWrite
  <2>2. CASE RestoreCheckOk \/ RestoreCheckFails \/ RestoreUnlink
             \/ RestoreWriteFails \/ RestoreReadMd5 \/ RestoreReadMd5Fails
             \/ RestoreUnlinkMd5 \/ RestoreWriteMd5 \/ RestoreWriteMd5Fails
    BY <1>1, <2>2
       DEF RestoreCheckOk, RestoreCheckFails, Fails, Return, RestoreUnlink,
          Unlink, RestoreWriteFails, Created, RestoreReadMd5,
          RestoreReadMd5Fails, RestoreUnlinkMd5, RestoreWriteMd5,
          RestoreWriteMd5Fails, Growing, Control, LoadPC, RestorePC, BackupPC,
          WritePC
  <2> QED
    BY <1>3, <2>1, <2>2 DEF RestoreStep
<1>4. CASE BackupStep
  BY <1>1, <1>4
     DEF BackupStep, BackupRead, BackupReadFails, Fails, BackupDone, Return,
        BackupUnlink, Unlink, BackupWrite, FileDataWrite, BackupWriteFails,
        Created, BackupUnlinkMd5, BackupWriteMd5, BackupWriteMd5Fails,
        Growing, Control, LoadPC, RestorePC, BackupPC, WritePC
<1>5. CASE WriteStep
  BY <1>1, <1>5
     DEF WriteStep, WriteData, FileDataWrite, WriteDataFails, Return, Created,
        WriteMd5Calculate, WriteMd5CalculateFails, Fails, WriteUnlinkMd5,
        WriteUnlinkMd5Fails, WriteWriteMd5, WriteWriteMd5Fails, Growing,
        Control, LoadPC, RestorePC, BackupPC, WritePC
<1>6. CASE ClientCall
  BY <1>1, <1>6
     DEF ClientCall, CallLoad, Enter, CallRestore, CallBackup, CallRead,
        Return, ReadFits, CallReadFails, Fails, CallWriteRejected, CallWrite,
        Growing, Control, LoadPC, RestorePC, BackupPC, WritePC
<1>7. CASE Crash
  BY <1>1, <1>7
     DEF Crash, Return, CutOff, Created, Growing, Control, LoadPC, RestorePC,
        BackupPC, WritePC
<1>8. CASE UNCHANGED vars
  BY <1>1, <1>8
     DEF vars, Growing, Control, LoadPC, RestorePC, BackupPC, WritePC
<1> QED
  BY <1>2, <1>3, <1>4, <1>5, <1>6, <1>7, <1>8 DEF Next, Step

(* A load backs up the image it will return. *)
LEMMA CopyingStep == IInv /\ RInv /\ Quiet /\ [Next]_vars => Copying'
<1> SUFFICES ASSUME IInv, RInv, Quiet, [Next]_vars PROVE Copying'
  OBVIOUS
<1> USE ConstantsAssumption
<1> USE DEF files, job, hist
<1>1. TypeOK /\ Control /\ Copying /\ ~IoFaults
  BY DEF IInv, RInv, Quiet
<1>2. CASE LoadStep
  BY <1>1, <1>2
     DEF LoadStep, LoadCheckOk, LoadCheckFails, Fails, LoadRecheckFails,
        Return, LoadBackupPathCheck, LoadRead, LoadReadFails, Copying,
        Control, LoadPC, RestorePC, BackupPC, WritePC
<1>3. CASE RestoreStep
  BY <1>1, <1>3
     DEF RestoreStep, RestoreCheckOk, RestoreCheckFails, Fails, Return,
        RestoreUnlink, Unlink, RestoreWrite, FileDataWrite, RestoreWriteFails,
        Created, RestoreReadMd5, RestoreReadMd5Fails, RestoreUnlinkMd5,
        RestoreWriteMd5, RestoreWriteMd5Fails, Copying, Control, LoadPC,
        RestorePC, BackupPC, WritePC
<1>4. CASE BackupStep
  BY <1>1, <1>4
     DEF BackupStep, BackupRead, BackupReadFails, Fails, BackupDone, Return,
        BackupUnlink, Unlink, BackupWrite, FileDataWrite, BackupWriteFails,
        Created, BackupUnlinkMd5, BackupWriteMd5, BackupWriteMd5Fails,
        Copying, Control, LoadPC, RestorePC, BackupPC, WritePC
<1>5. CASE WriteStep
  BY <1>1, <1>5
     DEF WriteStep, WriteData, FileDataWrite, WriteDataFails, Return, Created,
        WriteMd5Calculate, WriteMd5CalculateFails, Fails, WriteUnlinkMd5,
        WriteUnlinkMd5Fails, WriteWriteMd5, WriteWriteMd5Fails, Copying,
        Control, LoadPC, RestorePC, BackupPC, WritePC
<1>6. CASE ClientCall
  BY <1>1, <1>6
     DEF ClientCall, CallLoad, Enter, CallRestore, CallBackup, CallRead,
        Return, ReadFits, CallReadFails, Fails, CallWriteRejected, CallWrite,
        Copying, Control, LoadPC, RestorePC, BackupPC, WritePC
<1>7. CASE Crash
  BY <1>1, <1>7
     DEF Crash, Return, CutOff, Created, Copying, Control, LoadPC, RestorePC,
        BackupPC, WritePC
<1>8. CASE UNCHANGED vars
  BY <1>1, <1>8
     DEF vars, Copying, Control, LoadPC, RestorePC, BackupPC, WritePC
<1> QED
  BY <1>2, <1>3, <1>4, <1>5, <1>6, <1>7, <1>8 DEF Next, Step

(* A booted modem finds its nv_data with the right digest. *)
LEMMA ServingStep == IInv /\ RInv /\ Quiet /\ [Next]_vars => Serving'
<1> SUFFICES ASSUME IInv, RInv, Quiet, [Next]_vars PROVE Serving'
  OBVIOUS
<1> USE ConstantsAssumption
<1> USE DEF files, job, hist
<1>1. /\ TypeOK /\ Control /\ Acknowledged /\ Writing /\ Restoring /\ Checked
      /\ Serving /\ Overwriting /\ ~IoFaults /\ ~DirectBackup
  BY DEF IInv, RInv, Quiet
<1>2. CASE LoadStep
  <2>1. CASE LoadRead
    BY <1>1, <2>1
       DEF LoadRead, Return, Serving, Control, Acknowledged, Intact, FullSize,
          LoadPC, RestorePC, BackupPC, WritePC, Checked
  <2>2. CASE LoadCheckOk \/ LoadCheckFails \/ LoadRecheckFails
             \/ LoadBackupPathCheck \/ LoadReadFails
    BY <1>1, <2>2
       DEF LoadCheckOk, LoadCheckFails, Fails, LoadRecheckFails, Return,
          LoadBackupPathCheck, LoadReadFails, Serving, Control, Acknowledged,
          Intact, FullSize, LoadPC, RestorePC, BackupPC, WritePC
  <2> QED
    BY <1>2, <2>1, <2>2 DEF LoadStep
<1>3. CASE RestoreStep
  <2>1. CASE RestoreReadMd5Fails
    BY <1>1, <2>1, DigestFacts
       DEF RestoreReadMd5Fails, Fails, Return, Serving, Control, Acknowledged,
          Intact, FullSize, LoadPC, RestorePC, BackupPC, WritePC, Restoring
  <2>2. CASE RestoreWriteMd5
    BY <1>1, <2>2
       DEF RestoreWriteMd5, Return, Serving, Control, Acknowledged, Intact,
          FullSize, LoadPC, RestorePC, BackupPC, WritePC, Restoring
  <2>3. CASE RestoreCheckOk \/ RestoreCheckFails \/ RestoreUnlink
             \/ RestoreWrite \/ RestoreWriteFails \/ RestoreReadMd5
             \/ RestoreUnlinkMd5 \/ RestoreWriteMd5Fails
    BY <1>1, <2>3
       DEF RestoreCheckOk, RestoreCheckFails, Fails, Return, RestoreUnlink,
          Unlink, RestoreWrite, FileDataWrite, RestoreWriteFails, Created,
          RestoreReadMd5, RestoreUnlinkMd5, RestoreWriteMd5Fails, Serving,
          Control, Acknowledged, Intact, FullSize, LoadPC, RestorePC,
          BackupPC, WritePC
  <2> QED
    BY <1>3, <2>1, <2>2, <2>3 DEF RestoreStep
<1>4. CASE BackupStep
  BY <1>1, <1>4
     DEF BackupStep, BackupRead, BackupReadFails, Fails, BackupDone, Return,
        BackupUnlink, Unlink, BackupWrite, FileDataWrite, BackupWriteFails,
        Created, BackupUnlinkMd5, BackupWriteMd5, BackupWriteMd5Fails,
        Serving, Control, Acknowledged, Intact, FullSize, LoadPC, RestorePC,
        BackupPC, WritePC
<1>5. CASE WriteStep
  <2>1. CASE WriteUnlinkMd5Fails
    BY <1>1, <2>1, DigestFacts
       DEF WriteUnlinkMd5Fails, Fails, Return, Serving, Control, Acknowledged,
          Intact, FullSize, LoadPC, RestorePC, BackupPC, WritePC, Overwriting
  <2>2. CASE WriteWriteMd5
    BY <1>1, <2>2
       DEF WriteWriteMd5, Return, Serving, Control, Acknowledged, Intact,
          FullSize, LoadPC, RestorePC, BackupPC, WritePC, Writing
  <2>3. CASE WriteData \/ WriteDataFails \/ WriteMd5Calculate
             \/ WriteMd5CalculateFails \/ WriteUnlinkMd5
             \/ WriteWriteMd5Fails
    BY <1>1, <2>3
       DEF WriteData, FileDataWrite, WriteDataFails, Return, Created,
          WriteMd5Calculate, WriteMd5CalculateFails, Fails, WriteUnlinkMd5,
          WriteWriteMd5Fails, Serving, Control, Acknowledged, Intact,
          FullSize, LoadPC, RestorePC, BackupPC, WritePC
  <2> QED
    BY <1>5, <2>1, <2>2, <2>3 DEF WriteStep
<1>6. CASE ClientCall
  BY <1>1, <1>6
     DEF ClientCall, CallLoad, Enter, CallRestore, CallBackup, CallRead,
        Return, ReadFits, CallReadFails, Fails, CallWriteRejected, CallWrite,
        Serving, Control, Acknowledged, Intact, FullSize, LoadPC, RestorePC,
        BackupPC, WritePC
<1>7. CASE Crash
  BY <1>1, <1>7
     DEF Crash, Return, CutOff, Created, Serving, Control, Acknowledged,
        Intact, FullSize, LoadPC, RestorePC, BackupPC, WritePC
<1>8. CASE UNCHANGED vars
  BY <1>1, <1>8
     DEF vars, Serving, Control, Acknowledged, Intact, FullSize, LoadPC,
        RestorePC, BackupPC, WritePC
<1> QED
  BY <1>2, <1>3, <1>4, <1>5, <1>6, <1>7, <1>8 DEF Next, Step

(* During a write the digest on disk stays that of the old image. *)
LEMMA OverwritingStep == IInv /\ RInv /\ Quiet /\ [Next]_vars => Overwriting'
<1> SUFFICES ASSUME IInv, RInv, Quiet, [Next]_vars PROVE Overwriting'
  OBVIOUS
<1> USE ConstantsAssumption
<1> USE DEF files, job, hist
<1>1. /\ TypeOK /\ Control /\ Writing /\ Serving /\ Overwriting
      /\ ~IoFaults
  BY DEF IInv, RInv, Quiet
<1>2. CASE LoadStep
  BY <1>1, <1>2
     DEF LoadStep, LoadCheckOk, LoadCheckFails, Fails, LoadRecheckFails,
        Return, LoadBackupPathCheck, LoadRead, LoadReadFails, Overwriting,
        Control, LoadPC, RestorePC, BackupPC, WritePC
<1>3. CASE RestoreStep
  BY <1>1, <1>3
     DEF RestoreStep, RestoreCheckOk, RestoreCheckFails, Fails, Return,
        RestoreUnlink, Unlink, RestoreWrite, FileDataWrite, RestoreWriteFails,
        Created, RestoreReadMd5, RestoreReadMd5Fails, RestoreUnlinkMd5,
        RestoreWriteMd5, RestoreWriteMd5Fails, Overwriting, Control, LoadPC,
        RestorePC, BackupPC, WritePC
<1>4. CASE BackupStep
  BY <1>1, <1>4
     DEF BackupStep, BackupRead, BackupReadFails, Fails, BackupDone, Return,
        BackupUnlink, Unlink, BackupWrite, FileDataWrite, BackupWriteFails,
        Created, BackupUnlinkMd5, BackupWriteMd5, BackupWriteMd5Fails,
        Overwriting, Control, LoadPC, RestorePC, BackupPC, WritePC
<1>5. CASE WriteStep
  <2>1. CASE WriteData
    <3>1. PICK img \in Image : md5 = Md5(img) /\ \A b \in pos .. last : nv[b] = img[b]
      BY <1>1, <2>1 DEF Overwriting, WriteData, FileDataWrite
    <3>2. pos \in Block /\ buf \in File /\ nv \in File
      BY <1>1, <2>1
         DEF WriteData, FileDataWrite, Writing, TypeOK, Block
    <3>3. nv' = Put(nv, pos, buf[pos]) /\ nv # NoFile
      BY <3>2, <2>1 DEF WriteData, FileDataWrite
    <3> DEFINE new == Put(nv, pos, buf[pos])
    <3>0. \A c \in Block \ {pos} :
             new[c] = IF nv = NoFile THEN Hole ELSE nv[c]
      BY <3>2, PutChunk
    <3>4. \A c \in Block \ {pos} : nv'[c] = nv[c]
      BY <3>3, <3>0
    <3>5. \A b \in pos + 1 .. last : b \in Block \ {pos} /\ b \in pos .. last
      BY <1>1, <3>2 DEF TypeOK, Block
    <3>6. \A b \in pos + 1 .. last : nv'[b] = img[b]
      BY <3>1, <3>4, <3>5
    <3>7. md5 \in Digest
      BY <3>1, DigestFacts
    <3> QED
      BY <3>1, <3>6, <3>7, <2>1 DEF Overwriting, WriteData, FileDataWrite
  <2>2. CASE WriteDataFails \/ WriteMd5Calculate \/ WriteMd5CalculateFails
             \/ WriteUnlinkMd5 \/ WriteUnlinkMd5Fails \/ WriteWriteMd5
             \/ WriteWriteMd5Fails
    BY <1>1, <2>2
       DEF WriteDataFails, Return, Created, WriteMd5Calculate,
          WriteMd5CalculateFails, Fails, WriteUnlinkMd5, WriteUnlinkMd5Fails,
          WriteWriteMd5, WriteWriteMd5Fails, Overwriting, Control, LoadPC,
          RestorePC, BackupPC, WritePC
  <2> QED
    BY <1>5, <2>1, <2>2 DEF WriteStep
<1>6. CASE ClientCall
  <2>1. CASE CallLoad
    BY <1>1, <2>1
       DEF CallLoad, Enter, Overwriting, Control, LoadPC, RestorePC, BackupPC,
          WritePC
  <2>2. CASE CallRestore
    BY <1>1, <2>2
       DEF CallRestore, Enter, Overwriting, Control, LoadPC, RestorePC,
          BackupPC, WritePC
  <2>3. CASE CallBackup
    BY <1>1, <2>3
       DEF CallBackup, Enter, Overwriting, Control, LoadPC, RestorePC,
          BackupPC, WritePC
  <2>4. ASSUME NEW off \in 1 .. N, NEW size \in 0 .. N + 1,
               off + size - 1 \in 0 .. N + 1,
               CallRead(off, size)
        PROVE  Overwriting'
    BY <1>1, <2>4
       DEF CallRead, Return, ReadFits, Overwriting, Control, LoadPC,
          RestorePC, BackupPC, WritePC
  <2>5. ASSUME NEW off \in 1 .. N, NEW size \in 0 .. N + 1,
               off + size - 1 \in 0 .. N + 1,
               CallReadFails(off, size)
        PROVE  Overwriting'
    BY <1>1, <2>5
       DEF CallReadFails, Fails, Return, Overwriting, Control, LoadPC,
          RestorePC, BackupPC, WritePC
  <2>6. ASSUME NEW size \in 0 .. N + 1,
               CallWriteRejected(size)
        PROVE  Overwriting'
    BY <1>1, <2>6
       DEF CallWriteRejected, Fails, Return, Overwriting, Control, LoadPC,
          RestorePC, BackupPC, WritePC
  <2>7. ASSUME NEW off \in 1 .. N, NEW size \in 0 .. N + 1,
               off + size - 1 \in 0 .. N + 1,
               NEW v \in Val, CallWrite(off, size, v)
        PROVE  Overwriting'
    <3>1. nv \in Image /\ md5 = Md5(nv)
      BY <1>1, <2>7 DEF CallWrite, Enter, Serving, FullSize, Intact
    <3> QED
      BY <3>1, <2>7 DEF Overwriting, CallWrite, Enter
  <2> QED
    BY <1>6, <2>1, <2>2, <2>3, <2>4, <2>5, <2>6, <2>7 DEF ClientCall
<1>7. CASE Crash
  BY <1>1, <1>7
     DEF Crash, Return, CutOff, Created, Overwriting, Control, LoadPC,
        RestorePC, BackupPC, WritePC
<1>8. CASE UNCHANGED vars
  BY <1>1, <1>8
     DEF vars, Overwriting, Control, LoadPC, RestorePC, BackupPC, WritePC
<1> QED
  BY <1>2, <1>3, <1>4, <1>5, <1>6, <1>7, <1>8 DEF Next, Step

(* The strengthened invariant of reading holds at the start. *)
LEMMA InitRInv == Init => RInv
<1> SUFFICES ASSUME Init PROVE RInv
  OBVIOUS
<1>1. Acknowledged /\ ReadsBack
  BY DEF Init, Acknowledged, ReadsBack, NoRet
<1>2. Damaged /\ Growing /\ Copying /\ Serving /\ Overwriting
  BY DEF Init, Damaged, Growing, Copying, Serving, Overwriting, BackupPC
<1> QED
  BY <1>1, <1>2 DEF RInv

(* Every step preserves it. *)
LEMMA RInvStep == IInv /\ RInv /\ [Next]_vars => RInv'
<1> SUFFICES ASSUME IInv, RInv, [Next]_vars PROVE RInv'
  OBVIOUS
<1>1. Acknowledged' /\ ReadsBack'
  BY AcknowledgedStep, ReadsBackStep
<1>2. Quiet' <=> Quiet
  BY DEF Quiet
<1>3. Quiet => (Damaged /\ Growing /\ Copying /\ Serving /\ Overwriting)'
  BY DamagedStep, GrowingStep, CopyingStep, ServingStep, OverwritingStep
<1> QED
  BY <1>1, <1>2, <1>3 DEF RInv

(* Both invariants together are inductive. *)
LEMMA BothHold == Spec => [](IInv /\ RInv)
<1>1. IInv /\ RInv /\ [Next]_vars => RInv'
  BY RInvStep
<1> QED
  BY Inductive, InitRInv, <1>1, PTL DEF Spec

(* ipc_nv_data_read answers from the image that the last load or write     *)
(* acknowledged, whatever system calls of other requests failed.           *)
THEOREM ReadsAreAcknowledged == Spec => []ReadsBack
<1>1. IInv /\ RInv => ReadsBack
  BY DEF RInv
<1> QED
  BY BothHold, <1>1, PTL

-----------------------------------------------------------------------------
(***************************************************************************)
(* The refinement.                                                         *)
(***************************************************************************)

(* While the files stay as they are, so do the images. *)
LEMMA SameFiles == UNCHANGED files => UNCHANGED <<Current, Saved>>
BY DEF files, Current, Saved, Intact, FullSize

(* A restore that has removed nv_data: the next load would give the backup *)
(* at each of its steps.                                                   *)
LEMMA RestoredView ==
    IInv /\ RInv /\ Quiet
    /\ pc \in RestorePC \ {"restore_check", "restore_unlink"} =>
        Current = bak /\ Saved = bak /\ bak \in Image
<1> SUFFICES ASSUME IInv, RInv, Quiet,
                    pc \in RestorePC \ {"restore_check", "restore_unlink"}
             PROVE  Current = bak /\ Saved = bak /\ bak \in Image
  OBVIOUS
<1>1. TypeOK /\ Restoring /\ Growing /\ ~IoFaults
  BY DEF IInv, RInv, Quiet
<1>2. Saved = bak /\ bak \in Image
  BY <1>1 DEF Restoring, RestorePC, Saved, Intact, FullSize
<1>3. CASE pc = "restore_write"
  <2>1. N \in pos .. N /\ N \in 1 .. N
    BY <1>1, <1>3, ConstantsAssumption DEF Restoring
  <2>2. nv \notin Image
    BY <1>1, <1>3, <2>1, ConstantsAssumption DEF Growing, Image
  <2> QED
    BY <1>2, <2>2 DEF Current, Intact, FullSize
<1>4. CASE pc # "restore_write"
  <2>1. nv = bak
    BY <1>1, <1>4 DEF Restoring, RestorePC
  <2> QED
    BY <1>2, <2>1 DEF Current
<1> QED
  BY <1>2, <1>3, <1>4

(* The same in the next state. *)
LEMMA RestoredViewNext ==
    (IInv /\ RInv /\ Quiet
     /\ pc \in RestorePC \ {"restore_check", "restore_unlink"})' =>
        (Current = bak /\ Saved = bak /\ bak \in Image)'
BY RestoredView, PTL

(* Steps that change no file and no request. *)
LEMMA ReadingSteps ==
    ASSUME Control,
           \/ LoadCheckOk \/ LoadCheckFails \/ LoadBackupPathCheck
           \/ RestoreCheckOk \/ RestoreReadMd5 \/ BackupRead
           \/ WriteMd5Calculate
    PROVE  UNCHANGED Store!vars
<1>1. UNCHANGED <<Current, Saved>> /\ UNCHANGED <<op, booted, ret>>
  BY SameFiles DEF LoadCheckOk, LoadCheckFails, LoadBackupPathCheck,
     RestoreCheckOk, RestoreReadMd5, BackupRead, WriteMd5Calculate
<1>2. UNCHANGED Goal
  <2>1. CASE op # "write"
    BY <1>1, <2>1 DEF Goal
  <2>2. CASE op = "write"
    BY <1>1, <2>2
       DEF Goal, LoadCheckOk, LoadCheckFails, LoadBackupPathCheck,
       RestoreCheckOk, RestoreReadMd5, BackupRead, WriteMd5Calculate, job,
       Control, LoadPC, RestorePC, BackupPC
  <2> QED
    BY <2>1, <2>2
<1> QED
  BY <1>1, <1>2 DEF Store!vars

(* A load. *)
LEMMA LoadRefines ==
    ASSUME IInv, RInv, Quiet, LoadStep
    PROVE  [Store!Next]_(Store!vars)
<1>1. TypeOK /\ Control /\ Restoring /\ Checked /\ Acknowledged
  BY DEF IInv, RInv
<1>2. ~IoFaults
  BY DEF Quiet
<1>3. CASE LoadRead
  <2>1. UNCHANGED <<Current, Saved>>
    BY <1>3, SameFiles DEF LoadRead
  <2>2. Current = nv /\ nv # NoData
    BY <1>1, <1>3, ImageFacts DEF LoadRead, Checked, Current, Intact, FullSize
  <2>3. op = "load" /\ op' = "none" /\ Goal' = NoData
    BY <1>1, <1>3 DEF LoadRead, Return, Control, LoadPC, Goal
  <2>4. /\ ret' = [call |-> "load", rc |-> "ok", data |-> nv]
        /\ booted' = TRUE
    BY <1>3 DEF LoadRead, Return
  <2>5. Store!LoadReturns
    BY <2>1, <2>2, <2>3, <2>4 DEF Store!LoadReturns, Store!End
  <2> QED
    BY <2>5 DEF Store!Next
<1>4. CASE LoadCheckOk \/ LoadCheckFails \/ LoadBackupPathCheck
  BY <1>1, <1>4, ReadingSteps
<1>5. CASE LoadRecheckFails \/ LoadReadFails
  BY <1>1, <1>2, <1>5
     DEF LoadRecheckFails, LoadReadFails, Fails, Restoring, Checked, Intact
<1> QED
  BY <1>3, <1>4, <1>5 DEF LoadStep

(* A restore, on request or inside a load. *)
LEMMA RestoreRefines ==
    ASSUME IInv, RInv, Quiet, RestoreStep, IInv', RInv'
    PROVE  [Store!Next]_(Store!vars)
<1>1. TypeOK /\ Control /\ Restoring /\ Acknowledged /\ Damaged
  BY DEF IInv, RInv
<1>2. ~IoFaults /\ Quiet'
  BY DEF Quiet
<1>3. CASE RestoreCheckFails
  <2>1. UNCHANGED <<Current, Saved>> /\ Saved = NoData
    BY <1>2, <1>3, SameFiles DEF RestoreCheckFails, Fails, Saved
  <2>2. op \in {"load", "restore"} /\ op' = "none" /\ Goal' = NoData
    BY <1>1, <1>3 DEF RestoreCheckFails, Return, Control, RestorePC, Goal
  <2>3. /\ ret' = [call |-> op, rc |-> "error", data |-> NoData]
        /\ booted' = booted
    BY <1>3 DEF RestoreCheckFails, Return
  <2>4. CASE op = "load"
    <3>1. Current = NoData /\ booted = FALSE
      BY <1>1, <1>3, <2>1, <2>4
         DEF RestoreCheckFails, Damaged, Acknowledged, Current, TypeOK
    <3>2. Store!LoadReturns
      BY <2>1, <2>2, <2>3, <2>4, <3>1 DEF Store!LoadReturns, Store!End
    <3> QED
      BY <3>2 DEF Store!Next
  <2>5. CASE op = "restore"
    <3>1. Store!RestoreReturns
      BY <2>1, <2>2, <2>3, <2>5 DEF Store!RestoreReturns, Store!End
    <3> QED
      BY <3>1 DEF Store!Next
  <2> QED
    BY <2>2, <2>4, <2>5
<1>4. CASE RestoreUnlink
  <2>1. Current' = bak' /\ Saved' = bak' /\ bak' = bak
    BY <1>2, <1>4, RestoredViewNext DEF RestoreUnlink, RestorePC
  <2>2. Saved = bak /\ bak # NoData
    BY <1>1, <1>4, ImageFacts
       DEF RestoreUnlink, Restoring, RestorePC, Saved, Intact, FullSize
  <2>3. op \in {"load", "restore"} /\ UNCHANGED <<op, booted, ret>>
    BY <1>1, <1>4 DEF RestoreUnlink, Control, RestorePC
  <2>4. Goal = NoData /\ Goal' = NoData
    BY <2>3 DEF Goal
  <2>5. CASE op = "load"
    <3>1. Current = Saved
      BY <1>1, <1>4, <2>5 DEF RestoreUnlink, Damaged, Current
    <3> QED
      BY <2>1, <2>2, <2>3, <2>4, <3>1 DEF Store!vars
  <2>6. CASE op = "restore"
    <3>1. Store!RollBack
      BY <2>1, <2>2, <2>3, <2>4, <2>6 DEF Store!RollBack
    <3> QED
      BY <3>1 DEF Store!Next
  <2> QED
    BY <2>3, <2>5, <2>6
<1>5. CASE RestoreWrite \/ RestoreUnlinkMd5
  <2>1. Current = bak /\ Saved = bak
    BY <1>5, RestoredView
       DEF RestoreWrite, FileDataWrite, RestoreUnlinkMd5, RestorePC
  <2>2. Current' = bak' /\ Saved' = bak' /\ bak' = bak
    BY <1>2, <1>5, RestoredViewNext
       DEF RestoreWrite, FileDataWrite, RestoreUnlinkMd5, RestorePC
  <2>3. UNCHANGED <<op, booted, ret, buf>>
    BY <1>5 DEF RestoreWrite, RestoreUnlinkMd5, job
  <2> QED
    BY <2>1, <2>2, <2>3 DEF Store!vars, Goal
<1>6. CASE RestoreWriteMd5
  <2>1. Current = bak /\ Saved = bak /\ bak \in Image
    BY <1>6, RestoredView DEF RestoreWriteMd5, RestorePC
  <2>2. /\ nv = bak /\ UNCHANGED <<nv, bak, bakmd5, booted>>
        /\ Intact(bak, bakmd5) /\ md5' = bakmd5
    BY <1>1, <1>2, <1>6 DEF RestoreWriteMd5, Restoring, RestorePC
  <2>3. Current' = bak /\ Saved' = bak
    BY <2>2 DEF Current, Saved, Intact, FullSize
  <2>4. CASE op = "load" /\ UNCHANGED <<op, job, ret>>
    BY <2>1, <2>2, <2>3, <2>4 DEF Store!vars, Goal
  <2>5. CASE op = "restore" /\ Return("restore", "ok", NoData)
    <3>1. op' = "none" /\ Goal' = NoData
      BY <2>5 DEF Return, Goal
    <3>2. Store!RestoreReturns
      BY <2>1, <2>2, <2>3, <2>5, <3>1, ImageFacts
         DEF Store!RestoreReturns, Store!End, Return
    <3> QED
      BY <3>2 DEF Store!Next
  <2> QED
    BY <1>6, <2>4, <2>5 DEF RestoreWriteMd5
<1>7. CASE RestoreCheckOk \/ RestoreReadMd5
  BY <1>1, <1>7, ReadingSteps
<1>8. CASE RestoreReadMd5Fails
  BY <1>1, <1>2, <1>8, DigestFacts
     DEF RestoreReadMd5Fails, Fails, Restoring, RestorePC, Intact, FullSize
<1>9. CASE RestoreWriteFails \/ RestoreWriteMd5Fails
  BY <1>2, <1>9 DEF RestoreWriteFails, RestoreWriteMd5Fails
<1> QED
  BY <1>3, <1>4, <1>5, <1>6, <1>7, <1>8, <1>9 DEF RestoreStep

(* A backup inside a load. *)
LEMMA BackupRefines ==
    ASSUME IInv, RInv, Quiet, BackupStep
    PROVE  [Store!Next]_(Store!vars)
<1>1. /\ TypeOK /\ Control /\ BackingUp /\ BackupUndigested /\ Checked
      /\ Copying /\ ~IoFaults /\ ~DirectBackup
  BY DEF IInv, RInv, Quiet
<1>2. pc \in BackupPC
  BY DEF BackupStep, BackupRead, BackupReadFails, BackupUnlink, BackupWrite,
     FileDataWrite, BackupWriteFails, BackupUnlinkMd5, BackupWriteMd5,
     BackupWriteMd5Fails, BackupPC
<1>3. op = "load" /\ Intact(nv, md5) /\ bakmd5 \notin Digest
  BY <1>1, <1>2 DEF Control, Checked, BackupUndigested
<1>4. Current = nv /\ nv \in Image /\ Saved = NoData
  BY <1>3, DigestFacts DEF Current, Saved, Intact, FullSize
<1>5. CASE BackupUnlink \/ BackupWrite \/ BackupUnlinkMd5
  <2>1. UNCHANGED <<nv, md5, op, booted, ret, buf>> /\ bakmd5' \notin Digest
    BY <1>1, <1>3, <1>5, DigestFacts
       DEF BackupUnlink, BackupWrite, BackupUnlinkMd5, Unlink, job
  <2>2. UNCHANGED Current /\ Saved' = NoData
    BY <1>3, <2>1, DigestFacts DEF Current, Saved, Intact, FullSize
  <2> QED
    BY <1>4, <2>1, <2>2 DEF Store!vars, Goal
<1>6. CASE BackupWriteMd5
  <2>1. bak = nv /\ bakmd5' = Md5(nv) /\ UNCHANGED <<nv, md5, bak, booted>>
    BY <1>1, <1>3, <1>6
       DEF BackupWriteMd5, BackingUp, Copying, BackupPC
  <2>2. UNCHANGED <<op, ret>> /\ Goal = NoData /\ Goal' = NoData
    BY <1>3, <1>6 DEF BackupWriteMd5, BackupDone, Goal
  <2>3. Current' = nv /\ Saved' = nv
    BY <1>3, <1>4, <2>1 DEF Current, Saved, Intact, FullSize
  <2>4. Store!Save
    BY <1>3, <1>4, <2>1, <2>2, <2>3, ImageFacts DEF Store!Save
  <2> QED
    BY <2>4 DEF Store!Next
<1>7. CASE BackupRead
  BY <1>1, <1>7, ReadingSteps
<1>8. CASE BackupReadFails \/ BackupWriteFails \/ BackupWriteMd5Fails
  BY <1>1, <1>3, <1>8
     DEF BackupReadFails, BackupWriteFails, BackupWriteMd5Fails, Fails, Intact
<1> QED
  BY <1>5, <1>6, <1>7, <1>8 DEF BackupStep

(* A write: the old image, then the backup, then the new image. *)
LEMMA WriteRefines ==
    ASSUME IInv, RInv, Quiet, WriteStep
    PROVE  [Store!Next]_(Store!vars)
<1>1. TypeOK /\ Control /\ Writing /\ Overwriting /\ ~IoFaults
  BY DEF IInv, RInv, Quiet
<1>2. op = "write"
  BY <1>1 DEF Control, WriteStep, WriteData, FileDataWrite, WriteDataFails,
     WriteMd5Calculate, WriteMd5CalculateFails, WriteUnlinkMd5,
     WriteUnlinkMd5Fails, WriteWriteMd5, WriteWriteMd5Fails, WritePC
<1>3. CASE WriteData
  <2>1. /\ UNCHANGED <<md5, bak, bakmd5, op, booted, ret, buf>>
        /\ nv' = Put(nv, pos, buf[pos])
    BY <1>3 DEF WriteData, FileDataWrite
  <2>2. UNCHANGED Saved /\ UNCHANGED Goal
    BY <2>1 DEF Saved, Goal, Intact, FullSize
  <2>3. CASE Intact(nv', md5')
    <3>1. PICK img \in Image : /\ md5 = Md5(img)
                               /\ \A b \in pos .. last : nv[b] = img[b]
      BY <1>1, <1>3 DEF WriteData, FileDataWrite, Overwriting
    <3>2. nv' = img
      BY <2>1, <2>3, <3>1, DigestFacts DEF Intact
    <3>3. /\ pos \in Block /\ buf \in File /\ nv \in File /\ nv # NoFile
          /\ pos \in pos .. last
      BY <1>1, <1>3, ConstantsAssumption
         DEF WriteData, FileDataWrite, Writing, TypeOK, Block
    <3> DEFINE new == Put(nv, pos, buf[pos])
    <3>4. \A c \in Block \ {pos} :
             new[c] = IF nv = NoFile THEN Hole ELSE nv[c]
      BY <3>3, PutChunk
    <3>5. \A c \in Block : nv[c] = img[c]
      BY <2>1, <3>1, <3>2, <3>3, <3>4
    <3>6. nv = img
      BY <3>3, <3>5, FileEqual, ImageFacts
    <3>7. UNCHANGED Current
      BY <2>1, <3>1, <3>2, <3>6 DEF Current, Intact, FullSize
    <3> QED
      BY <2>1, <2>2, <3>7 DEF Store!vars
  <2>4. CASE ~Intact(nv', md5')
    <3>1. Current' = Saved
      BY <2>2, <2>4 DEF Current
    <3>2. Store!FallBack
      BY <1>2, <2>1, <2>2, <3>1 DEF Store!FallBack
    <3> QED
      BY <3>2 DEF Store!Next
  <2> QED
    BY <2>3, <2>4
<1>4. CASE WriteMd5CalculateFails
  <2>1. UNCHANGED <<Current, Saved>> /\ UNCHANGED booted
    BY <1>4, SameFiles DEF WriteMd5CalculateFails
  <2>2. Goal = NoData
    BY <1>1, <1>4 DEF WriteMd5CalculateFails, Fails, FullSize, Writing, Goal
  <2>3. op' = "none" /\ Goal' = NoData
    BY <1>4 DEF WriteMd5CalculateFails, Return, Goal
  <2>4. Store!WriteReturns
    BY <1>2, <1>4, <2>1, <2>2, <2>3
       DEF Store!WriteReturns, Store!End, WriteMd5CalculateFails, Return
  <2> QED
    BY <2>4 DEF Store!Next
<1>5. CASE WriteUnlinkMd5
  <2>1. UNCHANGED <<bak, bakmd5, op, booted, ret, buf>> /\ md5' = NoFile
    BY <1>5 DEF WriteUnlinkMd5, job
  <2>2. UNCHANGED Saved /\ UNCHANGED Goal
    BY <2>1 DEF Saved, Goal, Intact, FullSize
  <2>3. Current' = Saved
    BY <2>1, <2>2, DigestFacts DEF Current, Intact, FullSize
  <2>4. Store!FallBack
    BY <1>2, <2>1, <2>2, <2>3 DEF Store!FallBack
  <2> QED
    BY <2>4 DEF Store!Next
<1>6. CASE WriteWriteMd5
  <2>1. nv = buf /\ buf \in Image /\ md5' = Md5(buf)
    BY <1>1, <1>6 DEF WriteWriteMd5, Writing
  <2>2. UNCHANGED <<nv, bak, bakmd5, booted>> /\ op' = "none"
    BY <1>6 DEF WriteWriteMd5, Return
  <2>3. UNCHANGED Saved /\ Goal = buf /\ Goal' = NoData /\ Current' = buf
    BY <1>2, <2>1, <2>2 DEF Saved, Goal, Current, Intact, FullSize
  <2>4. Store!WriteReturns
    BY <1>2, <1>6, <2>1, <2>2, <2>3, ImageFacts
       DEF Store!WriteReturns, Store!End, WriteWriteMd5, Return
  <2> QED
    BY <2>4 DEF Store!Next
<1>7. CASE WriteMd5Calculate
  BY <1>1, <1>7, ReadingSteps
<1>8. CASE WriteUnlinkMd5Fails
  BY <1>1, <1>8, DigestFacts DEF WriteUnlinkMd5Fails, Fails, Overwriting
<1>9. CASE WriteDataFails \/ WriteWriteMd5Fails
  BY <1>1, <1>9 DEF WriteDataFails, WriteWriteMd5Fails
<1> QED
  BY <1>3, <1>4, <1>5, <1>6, <1>7, <1>8, <1>9 DEF WriteStep

(* The client's calls. *)
LEMMA CallRefines ==
    ASSUME IInv, RInv, Quiet, ClientCall
    PROVE  [Store!Next]_(Store!vars)
<1>1. TypeOK /\ Control /\ Acknowledged /\ Serving /\ ~IoFaults /\ ~DirectBackup
  BY DEF IInv, RInv, Quiet
<1>2. NoRet = Store!NoRet
  BY DEF NoRet, Store!NoRet
<1>3. CASE CallLoad
  <2>1. UNCHANGED <<Current, Saved>>
    BY <1>3, SameFiles DEF CallLoad
  <2>2. op = "none" /\ op' = "load" /\ Goal' = NoData
    BY <1>1, <1>3 DEF CallLoad, Enter, Acknowledged, Goal
  <2>3. ret' = Store!NoRet /\ booted' = FALSE
    BY <1>2, <1>3 DEF CallLoad, Enter
  <2>4. Store!Load
    BY <2>1, <2>2, <2>3 DEF Store!Load, Store!Begin
  <2> QED
    BY <2>4 DEF Store!Next
<1>4. CASE CallRestore
  <2>1. UNCHANGED <<Current, Saved>>
    BY <1>4, SameFiles DEF CallRestore
  <2>2. op = "none" /\ op' = "restore" /\ Goal' = NoData
    BY <1>1, <1>4 DEF CallRestore, Enter, Acknowledged, Goal
  <2>3. ret' = Store!NoRet /\ booted' = booted /\ booted \in BOOLEAN
    BY <1>1, <1>2, <1>4 DEF CallRestore, Enter, TypeOK
  <2>4. Store!Restore
    BY <2>1, <2>2, <2>3 DEF Store!Restore, Store!Begin
  <2> QED
    BY <2>4 DEF Store!Next
<1>5. ASSUME NEW off \in 1 .. N, NEW size \in 0 .. N + 1,
             off + size - 1 \in 0 .. N + 1, CallRead(off, size)
      PROVE  [Store!Next]_(Store!vars)
  <2>1. UNCHANGED <<Current, Saved>> /\ UNCHANGED booted /\ booted
    BY <1>5, SameFiles DEF CallRead
  <2>2. op = "none" /\ op' = op /\ Goal = NoData /\ Goal' = NoData
    BY <1>1, <1>5 DEF CallRead, Return, Acknowledged, Goal
  <2>3. Current = nv /\ nv \in Image
    BY <1>1, <1>5 DEF CallRead, Serving, Current, Intact, FullSize
  <2>4. nv # NoData /\ DOMAIN nv = Block
    BY <2>3, ImageFacts DEF File
  <2>5. off \in Block /\ off + size - 1 \in Block
    BY <1>5, ConstantsAssumption DEF CallRead, ReadFits, Block
  <2>6. ret' = [call |-> "read", rc |-> "ok",
                data |-> [b \in off .. off + size - 1 |-> nv[b]]]
    BY <1>5 DEF CallRead, Return
  <2>7. \E from, to \in DOMAIN Current :
           ret' = [call |-> "read", rc |-> "ok",
                   data |-> [b \in from .. to |-> Current[b]]]
    BY <2>3, <2>4, <2>5, <2>6
  <2>8. Store!Read
    BY <2>1, <2>2, <2>3, <2>4, <2>7 DEF Store!Read
  <2> QED
    BY <2>8 DEF Store!Next
<1>6. ASSUME NEW off \in 1 .. N, NEW size \in 0 .. N + 1,
             CallReadFails(off, size)
      PROVE  [Store!Next]_(Store!vars)
  <2>1. UNCHANGED <<Current, Saved>> /\ UNCHANGED booted /\ booted
    BY <1>6, SameFiles DEF CallReadFails
  <2>2. op = "none" /\ op' = op /\ Goal = NoData /\ Goal' = NoData
    BY <1>1, <1>6 DEF CallReadFails, Return, Acknowledged, Goal
  <2>3. Store!Refuse("read")
    BY <1>6, <2>1, <2>2 DEF Store!Refuse, CallReadFails, Return
  <2> QED
    BY <2>3 DEF Store!Next
<1>7. ASSUME NEW size \in 0 .. N + 1, CallWriteRejected(size)
      PROVE  [Store!Next]_(Store!vars)
  <2>1. UNCHANGED <<Current, Saved>> /\ UNCHANGED booted /\ booted
    BY <1>7, SameFiles DEF CallWriteRejected
  <2>2. op = "none" /\ op' = op /\ Goal = NoData /\ Goal' = NoData
    BY <1>1, <1>7 DEF CallWriteRejected, Return, Acknowledged, Goal
  <2>3. Store!Refuse("write")
    BY <1>7, <2>1, <2>2 DEF Store!Refuse, CallWriteRejected, Return
  <2> QED
    BY <2>3 DEF Store!Next
<1>8. ASSUME NEW off \in 1 .. N, NEW size \in 0 .. N + 1, NEW v \in Val,
             CallWrite(off, size, v)
      PROVE  [Store!Next]_(Store!vars)
  <2>1. UNCHANGED <<Current, Saved>> /\ booted /\ UNCHANGED booted
    BY <1>8, SameFiles DEF CallWrite
  <2>2. op = "none" /\ op' = "write"
    BY <1>1, <1>8 DEF CallWrite, Enter, Acknowledged
  <2>3. Goal' \in Image \cup {NoData}
    BY DEF Goal
  <2>4. ret' = Store!NoRet /\ booted' = booted /\ booted \in BOOLEAN
    BY <1>1, <1>2, <1>8 DEF CallWrite, Enter, TypeOK
  <2>5. Store!Begin("write", Goal')
    BY <2>1, <2>2, <2>4 DEF Store!Begin
  <2>6. Store!Write
    BY <2>1, <2>3, <2>5 DEF Store!Write
  <2> QED
    BY <2>6 DEF Store!Next
<1>9. CASE CallBackup
  BY <1>1, <1>9 DEF CallBackup
<1> QED
  BY <1>3, <1>4, <1>5, <1>6, <1>7, <1>8, <1>9 DEF ClientCall

(* A crash between any two system calls. *)
LEMMA CrashRefines ==
    ASSUME Crash
    PROVE  [Store!Next]_(Store!vars)
<1>1. /\ nv' = nv \/ (nv = NoFile /\ nv' = Empty)
      /\ bak' = bak \/ (bak = NoFile /\ bak' = Empty)
      /\ md5' = md5 \/ (md5 = NoFile /\ md5' = ShortFile)
      /\ bakmd5' = bakmd5 \/ (bakmd5 = NoFile /\ bakmd5' = ShortFile)
  BY DEF Crash, CutOff, Created
<1>2. NoFile \notin Image
  BY ImageFacts
<1>3. Intact(nv', md5') <=> Intact(nv, md5)
  BY <1>1, <1>2, DigestFacts, EmptyFacts DEF Intact, FullSize
<1>4. Intact(bak', bakmd5') <=> Intact(bak, bakmd5)
  BY <1>1, <1>2, DigestFacts, EmptyFacts DEF Intact, FullSize
<1>5. Intact(nv, md5) => nv' = nv
  BY <1>1, <1>2 DEF Intact, FullSize
<1>6. Intact(bak, bakmd5) => bak' = bak
  BY <1>1, <1>2 DEF Intact, FullSize
<1>7. UNCHANGED Saved
  BY <1>4, <1>6 DEF Saved
<1>8. UNCHANGED Current
  BY <1>3, <1>5, <1>7 DEF Current
<1>9. /\ op' = "none" /\ Goal' = NoData /\ booted' = FALSE
      /\ ret' = Store!NoRet
  BY DEF Crash, Return, Goal, Store!NoRet
<1> QED
  BY <1>7, <1>8, <1>9 DEF Store!Crash, Store!Next

(* The initial files are an initial store. *)
LEMMA InitRefines == Init => Store!Init
<1> SUFFICES ASSUME Init PROVE Store!Init
  OBVIOUS
<1>1. Current \in Image /\ Saved \in Image \cup {NoData}
  BY DEF Init, Current, Saved, Intact, FullSize
<1>2. op = "none" /\ Goal = NoData /\ booted = FALSE
  BY DEF Init, Goal
<1>3. ret = Store!NoRet
  BY DEF Init, NoRet, Store!NoRet
<1> QED
  BY <1>1, <1>2, <1>3 DEF Store!Init

(* Every step of the files is a step of the store, or invisible. *)
LEMMA StepRefines ==
    IInv /\ RInv /\ IInv' /\ RInv' /\ Quiet /\ [Next]_vars =>
        [Store!Next]_(Store!vars)
<1> SUFFICES ASSUME IInv, RInv, IInv', RInv', Quiet, [Next]_vars
             PROVE  [Store!Next]_(Store!vars)
  OBVIOUS
<1>1. CASE LoadStep
  BY <1>1, LoadRefines
<1>2. CASE RestoreStep
  BY <1>2, RestoreRefines
<1>3. CASE BackupStep
  BY <1>3, BackupRefines
<1>4. CASE WriteStep
  BY <1>4, WriteRefines
<1>5. CASE ClientCall
  BY <1>5, CallRefines
<1>6. CASE Crash
  BY <1>6, CrashRefines
<1>7. CASE UNCHANGED vars
  <2>1. UNCHANGED <<Current, Saved>>
    BY <1>7, SameFiles DEF vars, files
  <2>2. UNCHANGED <<op, booted, ret, buf>>
    BY <1>7 DEF vars
  <2> QED
    BY <2>1, <2>2 DEF Store!vars, Goal
<1> QED
  BY <1>1, <1>2, <1>3, <1>4, <1>5, <1>6, <1>7 DEF Next, Step

(* Four files, written one system call at a time with crashes in between,  *)
(* implement the one-image store: for every size of nv_data and every      *)
(* contents, as long as no system call fails and the client leaves backups *)
(* to ipc_nv_data_load.                                                    *)
THEOREM StoreImplemented == ASSUME Quiet PROVE Spec => ImplementsStore
<1>1. Init => Store!Init
  BY InitRefines
<1>2. IInv /\ RInv /\ IInv' /\ RInv' /\ [Next]_vars => [Store!Next]_(Store!vars)
  BY StepRefines
<1> QED
  BY <1>1, <1>2, BothHold, PTL DEF Spec, ImplementsStore, Store!Spec
=============================================================================
