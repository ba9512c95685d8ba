---------------------------- MODULE HerolteBoot -----------------------------
(***************************************************************************)
(* herolte_boot with upload_chunk and select_secure_mode                   *)
(* (devices/herolte/herolte.c), the table of contents (partitions/toc),    *)
(* the search for the image partition (partitions/android) and the         *)
(* data_read of utils.c under them.                                        *)
(*                                                                         *)
(* Files, blobs and the modem's memory are counted in units; a unit of a   *)
(* file is told from every other one by its position.  The result of a     *)
(* call is "ok" (0), "minus" (below 0) or "errno" (above 0).               *)
(***************************************************************************)
EXTENDS Integers, Sequences, FiniteSets

CONSTANTS
    Tocs,        \* tables of contents: sequences of entries
    MaxChunk,    \* MAX_CHUNK_LEN
    Word,        \* 2^32: addresses are taken modulo Word
    ImageLen,    \* units in the image partition, the table in the first
    NvLens,      \* lengths of the nv_data file
    IoFaults,    \* may system calls fail?
    ShortReads,  \* may read() return less than it was asked for?
    Nothing      \* what memory holds before the upload

Parts == <<"BOOT", "MAIN", "NV">>
Source(i) == IF Parts[i] = "NV" THEN "nv" ELSE "image"
Unit == [src : {"image", "nv"}, at : Nat]

TocsAssumption ==
    \A toc \in Tocs : \A i \in DOMAIN toc :
        /\ toc[i].name \in STRING
        /\ toc[i].offset \in Nat /\ toc[i].load \in Nat /\ toc[i].size \in Nat
BoundsAssumption ==
    /\ MaxChunk \in Nat \ {0} /\ Word \in Nat \ {0} /\ ImageLen \in Nat \ {0}
    /\ NvLens \subseteq Nat /\ NvLens # {} /\ Nothing \notin Unit
    /\ IoFaults \in BOOLEAN /\ ShortReads \in BOOLEAN

VARIABLES
    pc, rc,
    part,       \* the upload in progress: an index of Parts
    toc, nvlen, \* what the partition and the file system hold
    answers,    \* the modem takes part in the handshake
    handles,    \* open descriptors
    remaining, m_offset, len,   \* of upload_chunk
    want, fpos, buf,            \* of data_read
    mem,        \* the modem's memory, by offset to the BOOT blob
    mode,       \* the modem: "unset", "insecure", "secure", "running"
    failed,     \* uploads that failed
    short       \* read() returned less than it was asked for

upload == <<remaining, m_offset, len, want, fpos, buf, mem, failed, short>>
world  == <<toc, nvlen, answers>>
vars   == <<pc, rc, part, toc, nvlen, answers, handles, remaining, m_offset,
            len, want, fpos, buf, mem, mode, failed, short>>

(***************************************************************************)
(* find_toc_entry: the first entry of the name, before any empty name.     *)
(***************************************************************************)

FindTocEntry(name, t) ==
    {i \in DOMAIN t : /\ t[i].name = name
                      /\ \A j \in 1 .. i - 1 : t[j].name \notin {name, ""}}

Found(name)  == FindTocEntry(name, toc) # {}
Entry(name)  == toc[CHOOSE i \in FindTocEntry(name, toc) : TRUE]
Length(src)  == IF src = "nv" THEN nvlen ELSE ImageLen
FirstAddr(i) == (Entry(Parts[i]).load - Entry("BOOT").load) % Word

Init ==
    /\ pc = "open_image" /\ rc = "minus" /\ part = 1
    /\ toc \in Tocs /\ nvlen \in NvLens /\ answers \in BOOLEAN
    /\ handles = {}
    /\ remaining = 0 /\ m_offset = 0 /\ len = 0 /\ want = 0
    /\ fpos = [src \in {"image", "nv"} |-> 0]
    /\ buf = [i \in 1 .. MaxChunk |-> Nothing]
    /\ mem = [a \in 0 .. Word - 1 |-> Nothing]
    /\ mode = "unset" /\ failed = {} /\ short = FALSE

(* The exit label closes what was opened. *)
Return(result) == pc' = "returned" /\ rc' = result /\ handles' = {}

(***************************************************************************)
(* Up to the uploads.                                                      *)
(***************************************************************************)

(* open_android_modem_partition tries each path until one opens; herolte   *)
(* reports whatever errno that leaves.                                     *)
OpenImage ==
    /\ pc = "open_image" /\ pc' = "read_toc" /\ handles' = {"image"}
    /\ UNCHANGED <<rc, part, world, mode, upload>>

ReadToc ==
    /\ pc = "read_toc" /\ pc' = "open_nv"
    /\ UNCHANGED <<rc, part, world, handles, mode, upload>>

OpenNv ==
    /\ pc = "open_nv" /\ pc' = "open_boot0" /\ handles' = handles \cup {"nv"}
    /\ UNCHANGED <<rc, part, world, mode, upload>>

OpenBoot0 ==
    /\ pc = "open_boot0" /\ pc' = "reset" /\ handles' = handles \cup {"boot0"}
    /\ UNCHANGED <<rc, part, world, mode, upload>>

ResetModem ==
    /\ pc = "reset" /\ pc' = "insecure"
    /\ UNCHANGED <<rc, part, world, handles, mode, upload>>

(* select_secure_mode *)
SelectSecureMode ==
    /\ \/ pc = "insecure" /\ pc' = "upload" /\ mode' = "insecure"
       \/ pc = "secure" /\ pc' = "power_on" /\ mode' = "secure"
    /\ UNCHANGED <<rc, part, world, handles, upload>>

(* Steps whose failure ends the boot, by the result it is given. *)
ErrnoSteps == {"open_image", "read_toc", "open_nv", "open_boot0", "reset",
               "dl_start", "hs1_write", "hs1_read", "hs2_write", "hs2_read"}
MinusSteps == {"insecure", "secure", "power_on", "boot_on", "boot_off"}

StepFails ==
    /\ IoFaults /\ pc \in ErrnoSteps \cup MinusSteps
    /\ Return(IF pc \in ErrnoSteps THEN "errno" ELSE "minus")
    /\ UNCHANGED <<part, world, mode, upload>>

(***************************************************************************)
(* upload_chunk.  It returns errno, a value above 0, when reading or       *)
(* sending fails; herolte_boot tests for values below 0 and goes on.       *)
(***************************************************************************)
Proceed ==
    /\ part' = IF part = Len(Parts) THEN part ELSE part + 1
    /\ pc' = IF part = Len(Parts) THEN "secure" ELSE "upload"

UploadBegin ==
    /\ pc = "upload" /\ Found("BOOT") /\ Found(Parts[part])
    /\ remaining' = Entry(Parts[part]).size
    /\ m_offset' = FirstAddr(part)
    /\ fpos' = [fpos EXCEPT ![Source(part)] = Entry(Parts[part]).offset]
    /\ buf' = [i \in 1 .. MaxChunk |-> Nothing]
    /\ pc' = "chunk"
    /\ UNCHANGED <<rc, part, world, handles, len, want, mem, mode, failed,
                   short>>

(* A missing entry, or calloc or lseek failing. *)
UploadRefused ==
    /\ pc = "upload"
    /\ IoFaults \/ ~Found("BOOT") \/ ~Found(Parts[part])
    /\ Return("minus")
    /\ UNCHANGED <<part, world, mode, upload>>

NextChunk ==
    /\ pc = "chunk" /\ remaining > 0
    /\ len' = IF remaining < MaxChunk THEN remaining ELSE MaxChunk
    /\ want' = len' /\ pc' = "read"
    /\ UNCHANGED <<rc, part, world, handles, remaining, m_offset, fpos, buf,
                   mem, mode, failed, short>>

UploadDone ==
    /\ pc = "chunk" /\ remaining <= 0
    /\ Proceed
    /\ UNCHANGED <<rc, world, handles, mode, upload>>

(* One read() of data_read: it asks for the whole count again after a      *)
(* short one and puts what it gets at the same address.                    *)
DataRead ==
    /\ pc = "read"
    /\ \E k \in 1 .. len :
        LET src == Source(part)
            avail == Length(src) - fpos[src]
        IN  /\ k <= avail
            /\ k = len \/ k = avail \/ ShortReads
            /\ buf' = [i \in 1 .. MaxChunk |->
                         IF i <= k THEN [src |-> src, at |-> fpos[src] + i - 1]
                                   ELSE buf[i]]
            /\ fpos' = [fpos EXCEPT ![src] = @ + k]
            /\ want' = want - k
            /\ short' = (short \/ k < len)
    /\ pc' = IF want' > 0 THEN "read" ELSE "send"
    /\ UNCHANGED <<rc, part, world, handles, remaining, m_offset, len, mem,
                   mode, failed>>

(* At the end of the file read() gives 0, and data_read asks again. *)
DataReadAtEnd ==
    /\ pc = "read" /\ fpos[Source(part)] >= Length(Source(part))
    /\ UNCHANGED vars

(* Slip: the address is not advanced. *)
SendBootSameAddress ==
    /\ pc = "send" /\ pc' = "chunk"
    /\ mem' = [a \in 0 .. Word - 1 |->
                 LET i == ((a - m_offset) % Word) + 1
                 IN  IF i <= len THEN buf[i] ELSE mem[a]]
    /\ remaining' = remaining - len
    /\ UNCHANGED <<rc, part, world, handles, m_offset, len, want, fpos, buf,
                   mode, failed, short>>

(* Slip: what is left is not counted down. *)
SendBootNoCount ==
    /\ pc = "send" /\ pc' = "chunk"
    /\ mem' = [a \in 0 .. Word - 1 |->
                 LET i == ((a - m_offset) % Word) + 1
                 IN  IF i <= len THEN buf[i] ELSE mem[a]]
    /\ m_offset' = (m_offset + len) % Word
    /\ UNCHANGED <<rc, part, world, handles, remaining, len, want, fpos, buf,
                   mode, failed, short>>

SendBoot ==
    /\ pc = "send" /\ pc' = "chunk"
    /\ mem' = [a \in 0 .. Word - 1 |->
                 LET i == ((a - m_offset) % Word) + 1
                 IN  IF i <= len THEN buf[i] ELSE mem[a]]
    /\ m_offset' = (m_offset + len) % Word
    /\ remaining' = remaining - len
    /\ UNCHANGED <<rc, part, world, handles, len, want, fpos, buf, mode,
                   failed, short>>

UploadFails ==
    /\ IoFaults /\ pc \in {"read", "send"}
    /\ failed' = failed \cup {part}
    /\ Proceed
    /\ UNCHANGED <<rc, world, handles, remaining, m_offset, len, want, fpos,
                   buf, mem, mode, short>>

(***************************************************************************)
(* From the uploads on: power, download, handshake.                        *)
(***************************************************************************)
Following == [power_on |-> "boot_on", boot_on |-> "dl_start",
              dl_start |-> "hs1_write", hs1_write |-> "hs1_read",
              hs1_read |-> "hs2_write", hs2_write |-> "hs2_read",
              hs2_read |-> "boot_off"]

Continue ==
    /\ pc \in DOMAIN Following
    /\ pc \in {"hs1_read", "hs2_read"} => answers
    /\ pc' = Following[pc]
    /\ mode' = IF pc = "dl_start" THEN "running" ELSE mode
    /\ UNCHANGED <<rc, part, world, handles, upload>>

(* A wrong answer. *)
HandshakeFails ==
    /\ pc \in {"hs1_read", "hs2_read"} /\ answers
    /\ Return("minus")
    /\ UNCHANGED <<part, world, mode, upload>>

(* The read of a silent modem's answer blocks. *)
HandshakeBlocks ==
    /\ pc \in {"hs1_read", "hs2_read"} /\ ~answers
    /\ UNCHANGED vars

BootOff ==
    /\ pc = "boot_off" /\ Return("ok")
    /\ UNCHANGED <<part, world, mode, upload>>

Boot ==
    \/ OpenImage \/ ReadToc \/ OpenNv \/ OpenBoot0 \/ ResetModem
    \/ SelectSecureMode
    \/ UploadBegin \/ UploadRefused \/ NextChunk \/ UploadDone
    \/ DataRead \/ DataReadAtEnd \/ SendBoot
    \/ Continue \/ HandshakeFails \/ HandshakeBlocks \/ BootOff

Fault == StepFails \/ UploadFails

Returned == pc = "returned" /\ UNCHANGED vars

Next == Boot \/ Fault \/ Returned

(* One thread runs the function; what blocks it is a step that repeats,    *)
(* and no system call has to fail to get it out of there.                  *)
Spec == Init /\ [][Next]_vars /\ WF_vars(Boot)

-----------------------------------------------------------------------------
Cell(i, k) == (FirstAddr(i) + k) % Word
Wanted(i, k) == [src |-> Source(i), at |-> Entry(Parts[i]).offset + k]

(* No two units of the blobs are loaded to the same place. *)
Apart ==
    \A i, j \in 1 .. Len(Parts) : Found(Parts[i]) /\ Found(Parts[j]) =>
        \A k \in 0 .. Entry(Parts[i]).size - 1 :
            \A l \in 0 .. Entry(Parts[j]).size - 1 :
                Cell(i, k) = Cell(j, l) => i = j /\ k = l

(* As long as no read is short, every unit lies where the table of         *)
(* contents wants it, after failures too; and a boot that returns 0 with   *)
(* no upload failed has put every unit of all three blobs there, if they   *)
(* do not overlap: chunks tile the blob, whatever its size and wherever it *)
(* is loaded.  (The code returns 0 after a failed upload too.)             *)
UploadedExactly ==
    ~short /\ Found("BOOT") =>
        /\ \A a \in 0 .. Word - 1 : mem[a] # Nothing =>
              \E i \in 1 .. Len(Parts) : Found(Parts[i]) /\
                 \E k \in 0 .. Entry(Parts[i]).size - 1 :
                    a = Cell(i, k) /\ mem[a] = Wanted(i, k)
        /\ rc = "ok" /\ failed = {} /\ Apart =>
              \A i \in 1 .. Len(Parts) :
                 \A k \in 0 .. Entry(Parts[i]).size - 1 :
                    mem[Cell(i, k)] = Wanted(i, k)

SourcesSuffice ==
    \A i \in 1 .. Len(Parts) : Found(Parts[i]) =>
        Entry(Parts[i]).offset + Entry(Parts[i]).size <= Length(Source(i))

Ends == answers /\ SourcesSuffice => pc = "returned" \/ short

(* The boot returns, given files as long as the table of contents says and *)
(* a modem that answers: data_read repeats a read() that gives 0 for ever, *)
(* and after a short read it may run into the end of a complete file.      *)
BootReturns == <>Ends
=============================================================================
