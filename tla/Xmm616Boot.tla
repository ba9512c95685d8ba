----------------------------- MODULE Xmm616Boot -----------------------------
(***************************************************************************)
(* The XMM616 boot protocol, modems/xmm616/xmm616.c, as crespo_boot and    *)
(* aries_boot use it: the PSI goes to the boot ROM over the serial line,   *)
(* firmware and nv_data are put into memory the modem shares.  crespo      *)
(* writes them through its control device, aries maps the onedram and      *)
(* exchanges mails with the PSI around that.  What else the two functions  *)
(* open, map and release is the subject of DeviceBoot.                     *)
(*                                                                         *)
(* The descriptors do not block.  A reply that is late is not there.       *)
(***************************************************************************)
EXTENDS Integers, Sequences

CONSTANTS
    Devices,    \* of "crespo" and "aries"
    AtCount,    \* XMM616_AT_COUNT
    AckLimit,   \* 50: bytes or mails passed over in a wait
    PsiSize, FirmwareSize, NvSize,  \* in bytes, or in what one write takes
    NvOffset,   \* place of nv_data in the shared memory
    InfoSize,   \* bytes that follow the info size the boot ROM sends
    MaxQueue    \* bytes or mails the kernel holds before noise is dropped

DevicesAssumption == Devices \subseteq {"crespo", "aries"}
SizesAssumption ==
    /\ {AtCount, AckLimit, PsiSize, FirmwareSize, NvSize, MaxQueue} \subseteq Nat \ {0}
    /\ InfoSize \in Nat /\ NvOffset \in Nat /\ NvOffset >= FirmwareSize

VARIABLES
    device, pc, rc,
    i,          \* loop counter of the wait or of the bytes sent
    wc, p, pos, \* bytes written, place in the source, place in the device
    memory,     \* the shared memory
    noisy,      \* a byte of the PSI was corrupted on the line
    tx, rx,     \* the serial line, to the modem and back
    mail,       \* onedram mails to the host
    rom, got, bad   \* the modem: its stage, bytes of the PSI, one was bad

host  == <<device, pc, rc, i, wc, p, pos, memory, noisy>>
modem == <<rom, got, bad>>
vars  == <<device, pc, rc, i, wc, p, pos, memory, noisy, tx, rx, mail, rom, got, bad>>

MemorySize == NvOffset + NvSize

Init ==
    /\ device \in Devices /\ pc = "at" /\ rc = "running"
    /\ i = 0 /\ wc = 0 /\ p = 0 /\ pos = 0 /\ noisy = FALSE
    /\ memory = [b \in 0..(MemorySize - 1) |-> <<"old", b>>]
    /\ tx = <<>> /\ rx = <<>> /\ mail = <<>>
    /\ rom = "off" /\ got = 0 /\ bad = FALSE

Return(result) == rc' = result /\ pc' = "returned"
Goto(label)    == pc' = label /\ i' = 0 /\ UNCHANGED rc
Idle(label)    == pc = label /\ UNCHANGED <<device, wc, p, pos, memory, mail, modem>>

(***************************************************************************)
(* xmm616_psi_send.                                                        *)
(***************************************************************************)
AtWrite ==
    /\ Idle("at") /\ UNCHANGED <<rx, noisy>>
    /\ IF i < AtCount
       THEN tx' = Append(tx, "at") /\ i' = i + 1 /\ UNCHANGED <<pc, rc>>
       ELSE Goto("version") /\ UNCHANGED tx

(* A wrong version is an error, and so is one that is not there yet. *)
VersionRead ==
    /\ Idle("version") /\ UNCHANGED <<tx, noisy>>
    /\ rx # <<>> /\ rx' = Tail(rx)
    /\ IF Head(rx) = "version" THEN Goto("info") ELSE Return("-1") /\ UNCHANGED i

(* The size of the info is read, the info itself is not. *)
InfoRead ==
    /\ Idle("info") /\ UNCHANGED <<tx, noisy>>
    /\ rx # <<>> /\ rx' = Tail(rx) /\ Goto("magic")

HeaderWrite ==
    /\ Idle("magic") /\ UNCHANGED <<rx, noisy>>
    /\ tx' = tx \o <<"magic", "size">> /\ Goto("psi")

(* One byte at a time, which may be corrupted on its way; once at most. *)
PsiWrite ==
    /\ Idle("psi") /\ UNCHANGED rx
    /\ IF i < PsiSize
       THEN /\ \/ tx' = Append(tx, "byte") /\ UNCHANGED noisy
               \/ ~noisy /\ noisy' = TRUE /\ tx' = Append(tx, "bad")
            /\ i' = i + 1 /\ UNCHANGED <<pc, rc>>
       ELSE tx' = Append(tx, "crc") /\ Goto("ack") /\ UNCHANGED noisy

(* Slip: the acknowledgement is waited for without a limit. *)
AckReadUnlimited ==
    /\ Idle("ack") /\ UNCHANGED <<tx, noisy>>
    /\ rx # <<>> /\ rx' = Tail(rx)
    /\ IF Head(rx) = "ack" THEN Goto("loaded_psi") ELSE UNCHANGED <<pc, rc, i>>

AckRead ==
    /\ Idle("ack") /\ UNCHANGED <<tx, noisy>>
    /\ rx # <<>> /\ rx' = Tail(rx)
    /\ IF i > AckLimit THEN Return("-1") /\ UNCHANGED i
       ELSE IF Head(rx) = "ack" THEN Goto("loaded_psi")
       ELSE i' = i + 1 /\ UNCHANGED <<pc, rc>>

(* A read that finds nothing, a select that times out, a write that fails. *)
SerialFails ==
    /\ \/ pc \in {"version", "info", "ack"} /\ rx = <<>>
       \/ pc \in {"at", "magic", "psi"}
    /\ Return("-1")
    /\ UNCHANGED <<device, i, wc, p, pos, memory, noisy, tx, rx, mail, modem>>

(***************************************************************************)
(* crespo: lseek, xmm616_firmware_send, lseek, xmm616_nv_data_send.  A     *)
(* write takes any number of bytes.                                        *)
(***************************************************************************)
CrespoSeek ==
    /\ pc = "loaded_psi" /\ device = "crespo"
    /\ wc' = 0 /\ p' = 0 /\ pos' = 0 /\ Goto("firmware")
    /\ UNCHANGED <<device, memory, noisy, tx, rx, mail, modem>>

(* k bytes from place s of a source, written at place d. *)
Stored(what, s, d, k) ==
    [b \in DOMAIN memory |->
        IF b >= d /\ b < d + k THEN <<what, s + b - d>> ELSE memory[b]]

(* Slip: after a short write the same bytes are sent again. *)
WriteSomeFromStart(what, length) ==
    \E k \in 1..(length - wc) :
        /\ memory' = Stored(what, p, pos, k)
        /\ wc' = wc + k /\ pos' = pos + k /\ UNCHANGED p

WriteSome(what, length) ==
    \E k \in 1..(length - wc) :
        /\ memory' = Stored(what, p, pos, k)
        /\ wc' = wc + k /\ p' = p + k /\ pos' = pos + k

FirmwareWrite ==
    /\ pc = "firmware"
    /\ IF wc < FirmwareSize THEN WriteSome("firmware", FirmwareSize) /\ UNCHANGED pc
       ELSE /\ pc' = "nv_load" /\ wc' = 0 /\ p' = 0 /\ pos' = NvOffset
            /\ UNCHANGED memory
    /\ UNCHANGED <<device, rc, i, noisy, tx, rx, mail, modem>>

(* ipc_nv_data_load is the subject of NvData. *)
NvLoad ==
    /\ pc = "nv_load"
    /\ pc' = IF device = "crespo" THEN "nv_data" ELSE "nv_copy"
    /\ UNCHANGED <<device, rc, i, wc, p, pos, memory, noisy, tx, rx, mail, modem>>

NvWrite ==
    /\ pc = "nv_data"
    /\ IF wc < NvSize
       THEN WriteSome("nv_data", NvSize) /\ UNCHANGED <<pc, rc>>
       ELSE Return("0") /\ UNCHANGED <<wc, p, pos, memory>>
    /\ UNCHANGED <<device, i, noisy, tx, rx, mail, modem>>

(***************************************************************************)
(* aries: the mail INIT, the copies, the semaphore and the mail MAGIC, the *)
(* mail DEINIT.                                                            *)
(***************************************************************************)
AriesWait ==
    /\ pc = "loaded_psi" /\ device = "aries" /\ Goto("init")
    /\ UNCHANGED <<device, wc, p, pos, memory, noisy, tx, rx, mail, modem>>

MailRead ==
    /\ pc \in {"init", "deinit"} /\ mail # <<>> /\ mail' = Tail(mail)
    /\ IF i > AckLimit THEN Return("-1") /\ UNCHANGED i
       ELSE IF Head(mail) # pc THEN i' = i + 1 /\ UNCHANGED <<pc, rc>>
       ELSE IF pc = "init" THEN Goto("copy") ELSE Return("0") /\ UNCHANGED i
    /\ UNCHANGED <<device, wc, p, pos, memory, noisy, tx, rx, modem>>

FirmwareCopy ==
    /\ pc = "copy" /\ Goto("nv_load")
    /\ memory' = Stored("firmware", 0, 0, FirmwareSize)
    /\ UNCHANGED <<device, wc, p, pos, noisy, tx, rx, mail, modem>>

NvCopy ==
    /\ pc = "nv_copy" /\ Goto("magic_mail")
    /\ memory' = Stored("nv_data", 0, NvOffset, NvSize)
    /\ UNCHANGED <<device, wc, p, pos, noisy, tx, rx, mail, modem>>

(* The PSI then finds what it needs in the memory, or stops. *)
MagicMail ==
    /\ pc = "magic_mail" /\ Goto("deinit")
    /\ rom' = IF rom = "run" THEN "told" ELSE rom
    /\ UNCHANGED <<device, wc, p, pos, memory, noisy, tx, rx, mail, got, bad>>

(* A mail that does not come, and any other step that fails. *)
DeviceFails ==
    /\ \/ pc \in {"init", "deinit"} /\ mail = <<>>
       \/ pc \in {"firmware", "nv_load", "nv_data", "copy", "magic_mail"}
    /\ Return("-1")
    /\ UNCHANGED <<device, i, wc, p, pos, memory, noisy, tx, rx, mail, modem>>

Boot ==
    \/ AtWrite \/ VersionRead \/ InfoRead \/ HeaderWrite \/ PsiWrite \/ AckRead
    \/ SerialFails \/ CrespoSeek \/ FirmwareWrite \/ NvLoad \/ NvWrite
    \/ AriesWait \/ MailRead \/ FirmwareCopy \/ NvCopy \/ MagicMail \/ DeviceFails

(***************************************************************************)
(* The modem.  It wakes up late, answers one AT or several, and sends a    *)
(* byte that is not the acknowledgement when the PSI is not right.         *)
(***************************************************************************)
Answer == <<"version", "info">> \o [b \in 1..InfoSize |-> "other"]

RomWakes ==
    /\ rom = "off" /\ rom' = "awake"
    /\ UNCHANGED <<host, tx, rx, mail, got, bad>>

RomTakes ==
    /\ tx # <<>> /\ tx' = Tail(tx)
    /\ LET byte == Head(tx)
       IN  \/ /\ rom \in {"awake", "greeted"} /\ byte = "at"
              /\ rx' = rx \o Answer /\ rom' = "greeted" /\ UNCHANGED <<got, bad>>
           \/ /\ \/ rom \in {"off", "stopped"}
                 \/ rom = "greeted" /\ byte = "at"
                 \/ byte = "size"
              /\ UNCHANGED <<rx, modem>>
           \/ /\ rom = "greeted" /\ byte = "magic" /\ rom' = "psi"
              /\ UNCHANGED <<rx, got, bad>>
           \/ /\ rom = "psi" /\ byte \in {"byte", "bad"}
              /\ got' = got + 1 /\ bad' = (bad \/ byte = "bad") /\ UNCHANGED <<rx, rom>>
           \/ /\ rom = "psi" /\ byte = "crc"
              /\ IF got = PsiSize /\ ~bad
                 THEN rom' = "run" /\ rx' = Append(rx, "ack")
                 ELSE rom' = "stopped" /\ rx' = Append(rx, "other")
              /\ UNCHANGED <<got, bad>>
    /\ UNCHANGED <<host, mail>>

Loaded ==
    /\ \A b \in 0..(FirmwareSize - 1) : memory[b] = <<"firmware", b>>
    /\ \A b \in 0..(NvSize - 1) : memory[NvOffset + b] = <<"nv_data", b>>

PsiMails ==
    /\ Len(mail) < MaxQueue
    /\ \/ rom = "run" /\ device = "aries" /\ pc \in {"loaded_psi", "init"}
          /\ mail' = Append(mail, "init") /\ UNCHANGED rom
       \/ rom = "told" /\ Loaded /\ mail' = Append(mail, "deinit") /\ rom' = "started"
    /\ UNCHANGED <<host, tx, rx, got, bad>>

Noise ==
    /\ rc = "running"
    /\ \/ Len(rx) < MaxQueue /\ rx' = Append(rx, "other") /\ UNCHANGED mail
       \/ device = "aries" /\ Len(mail) < MaxQueue
          /\ mail' = Append(mail, "other") /\ UNCHANGED rx
    /\ UNCHANGED <<host, tx, modem>>

Returned == rc # "running" /\ UNCHANGED vars

Next == Boot \/ RomWakes \/ RomTakes \/ PsiMails \/ Noise \/ Returned

(* The boot function runs; nothing is promised of the modem. *)
Spec == Init /\ [][Next]_vars /\ WF_vars(Boot)

-----------------------------------------------------------------------------
(* xmm616.c, crespo_boot, aries_boot: 0 is returned only when the boot ROM *)
(* has taken the PSI unharmed and every byte of firmware and nv_data is at *)
(* its place, whatever noise, surplus answers and short writes there were; *)
(* on aries the modem has found it there.                                  *)
ReturnMeansLoaded ==
    rc = "0" => Loaded /\ rom = IF device = "aries" THEN "started" ELSE "run"

(* xmm616.c, aries_boot: the boot functions return, though a line that     *)
(* goes on sending anything but the byte or mail expected never times out. *)
BootReturns == <>(rc # "running")
=============================================================================
