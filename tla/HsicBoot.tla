------------------------------ MODULE HsicBoot ------------------------------
(***************************************************************************)
(* Booting an XMM626 modem over HSIC: the host side of                     *)
(* modems/xmm626/xmm626_hsic.c in the order the i9300, n7100, n5100 and    *)
(* galaxys2 boot functions call it, against a modem modelled from what the *)
(* host sends and waits for.                                               *)
(*                                                                         *)
(* The two directions of the boot device are byte queues.  The host may    *)
(* see a reply late: a select() whose queue is empty may time out at any   *)
(* moment, and the ATAT probe is repeated while earlier probes are still   *)
(* unanswered.                                                             *)
(***************************************************************************)
EXTENDS Integers, Sequences

CONSTANTS
    AtMax,      \* 50: the ATAT probe is given up after AtMax + 1 timeouts
    AckMax,     \* 50: values ack_read looks at
    Unknown,    \* XMM626_HSIC_PSI_UNKNOWN_COUNT
    CrcAcks,    \* XMM626_HSIC_PSI_CRC_ACK_COUNT
    PsiParts, EblParts,      \* write() calls the images take
    FirmwareBlocks, NvBlocks, \* FLASH_WRITE_BLOCK commands
    Faults      \* may writes fail, nv_data be lost, the modem hang?

ConstantsAssumption ==
    /\ AtMax \in Nat /\ AckMax \in Nat \ {0}
    /\ Unknown \in Nat \ {0} /\ CrcAcks \in Nat \ {0}
    /\ (Unknown + CrcAcks) % 2 = 0      \* 22 + 2 bytes
    /\ PsiParts \in Nat \ {0} /\ EblParts \in Nat \ {0}
    /\ FirmwareBlocks \in Nat \ {0} /\ NvBlocks \in Nat \ {0}
    /\ Faults \in BOOLEAN

VARIABLES
    pc,       \* where the boot function is
    n,        \* the loop counter of the running function
    todo,     \* commands still to send
    tx,       \* host to modem
    rx,       \* modem to host
    stage,    \* what runs on the modem: rom, psi, ebl or the firmware
    got,      \* parts of the image now being received
    address,  \* region selected by FLASH_SET_ADDRESS
    flash,    \* blocks written, by region
    sec,      \* the secure session: none, started, ended
    alive,    \* the modem executes
    stale,    \* probes the ROM answered after the first one
    faulted   \* a write failed, nv_data was lost or a wait timed out

host  == <<pc, n, todo>>
modem == <<stage, got, address, flash, sec, alive, stale>>
vars  == <<pc, n, todo, tx, rx, stage, got, address, flash, sec, alive,
           stale, faulted>>

(***************************************************************************)
(* The commands of a boot.  An ack of TRUE makes command_send wait for a   *)
(* reply header and reply data.                                            *)
(***************************************************************************)
Command(code, arg, ack) == [code |-> code, arg |-> arg, ack |-> ack]

(* Slip: the last, partial block is not sent. *)
ModemDataSendShort(region, blocks) ==
    <<Command("set_address", region, TRUE)>>
        \o [b \in 1 .. blocks - 1 |-> Command("write_block", b, FALSE)]

ModemDataSend(region, blocks) ==
    <<Command("set_address", region, TRUE)>>
        \o [b \in 1 .. blocks |-> Command("write_block", b, FALSE)]

PortConfigSend == <<Command("set_port_config", "config", TRUE)>>
SecStartSend   == <<Command("sec_start", "image", TRUE)>>
FirmwareSend   == ModemDataSend("firmware", FirmwareBlocks)
NvDataSend     == ModemDataSend("nv_data", NvBlocks)
(* Slip: the end of the secure session is not waited for. *)
SecEndSendNoAck == <<Command("sec_end", "magic", FALSE)>>
SecEndSend     == <<Command("sec_end", "magic", TRUE)>>
HwResetSend    == <<Command("hw_reset", "magic", FALSE)>>
Commands == PortConfigSend \o SecStartSend \o FirmwareSend \o NvDataSend
                \o SecEndSend \o HwResetSend

(* What the modem sends: bytes of a kind; acknowledgements and replies     *)
(* come in two parts.                                                      *)
Bytes(kind, count) == [i \in 1 .. count |-> <<kind, "byte">>]
Ack(a)   == <<<<a, "low">>, <<a, "high">>>>
Reply(c) == <<<<c, "header">>, <<c, "data">>>>

Init ==
    /\ pc = "at_write" /\ n = 0 /\ todo = Commands
    /\ tx = <<>> /\ rx = <<>>
    /\ stage = "rom" /\ got = 0 /\ address = "none"
    /\ flash = [r \in {"firmware", "nv_data"} |-> 0]
    /\ sec = "none" /\ alive = TRUE /\ stale = 0 /\ faulted = FALSE

(***************************************************************************)
(* Host steps: write, select that times out, read.                         *)
(***************************************************************************)
Goto(at) == pc' = at /\ n' = 0

Write(here, item) ==
    /\ pc = here
    /\ tx' = Append(tx, item)
    /\ UNCHANGED <<rx, modem, faulted>>

Readable == rx # <<>>

ReadByte(here) ==
    /\ pc = here /\ Readable
    /\ rx' = Tail(rx)
    /\ UNCHANGED <<tx, modem, faulted>>

Fail ==
    /\ Goto("error")
    /\ faulted' = TRUE
    /\ UNCHANGED <<todo, tx, rx, modem>>

(* xmm626_hsic_psi_send: probe, boot ACK and chip id, header, PSI, CRC.    *)
AtWrite == Write("at_write", "at") /\ pc' = "at_select" /\ UNCHANGED <<n, todo>>

(* The attempt count is tested even when the modem has answered. *)
AtSelect ==
    /\ pc = "at_select" /\ n <= AtMax
    /\ IF Readable THEN Goto("boot_ack") ELSE pc' = "at_write" /\ n' = n + 1
    /\ UNCHANGED <<todo, tx, rx, modem, faulted>>

AtGivenUp == pc = "at_select" /\ n > AtMax /\ Fail

BootAck == ReadByte("boot_ack") /\ Goto("chip_id") /\ UNCHANGED todo
ChipId  == ReadByte("chip_id") /\ Goto("psi_header") /\ UNCHANGED todo

PsiHeader == Write("psi_header", "psi_header") /\ Goto("psi") /\ UNCHANGED todo

Loop(here, next, count) ==
    IF n + 1 < count THEN pc' = here /\ n' = n + 1 ELSE Goto(next)

PsiData ==
    /\ Write("psi", "psi") /\ Loop("psi", "psi_crc", PsiParts)
    /\ UNCHANGED todo

PsiCrc ==
    /\ Write("psi_crc", "psi_crc") /\ Goto("psi_unknown")
    /\ UNCHANGED todo

PsiUnknown ==
    /\ ReadByte("psi_unknown") /\ Loop("psi_unknown", "psi_crc_ack", Unknown)
    /\ UNCHANGED todo

PsiCrcAck ==
    /\ ReadByte("psi_crc_ack") /\ Loop("psi_crc_ack", "psi_ack", CrcAcks)
    /\ UNCHANGED todo

(* xmm626_hsic_ack_read: pairs of bytes are read until the one wanted      *)
(* comes; a short read or another value counts as one of the AckMax tries. *)
TwoBytes == SubSeq(rx, 1, IF Len(rx) < 2 THEN 1 ELSE 2)

(* Slip: a value other than the one wanted is an error. *)
AckReadStrict(here, ack, next) ==
    /\ pc = here /\ Readable
    /\ rx' = SubSeq(rx, Len(TwoBytes) + 1, Len(rx))
    /\ IF TwoBytes = Ack(ack) THEN Goto(next) ELSE Goto("error")
    /\ UNCHANGED <<todo, tx, modem, faulted>>

AckRead(here, ack, next) ==
    /\ pc = here /\ Readable
    /\ rx' = SubSeq(rx, Len(TwoBytes) + 1, Len(rx))
    /\ IF TwoBytes = Ack(ack) THEN Goto(next) ELSE Loop(here, "error", AckMax)
    /\ UNCHANGED <<todo, tx, modem, faulted>>

PsiAck == AckRead("psi_ack", "psi", "ebl_size")

(* xmm626_hsic_ebl_send *)
EblSize ==
    /\ Write("ebl_size", "ebl_size") /\ Goto("ebl_size_ack")
    /\ UNCHANGED todo

EblSizeAck == AckRead("ebl_size_ack", "ebl_size", "ebl")

EblData ==
    /\ Write("ebl", "ebl") /\ Loop("ebl", "ebl_crc", EblParts)
    /\ UNCHANGED todo

EblCrc == Write("ebl_crc", "ebl_crc") /\ Goto("ebl_ack") /\ UNCHANGED todo

EblAck == AckRead("ebl_ack", "ebl", "port_config")

(* xmm626_hsic_port_config_send reads the configuration it sends back. *)
PortConfigRead ==
    /\ pc = "port_config" /\ Readable
    /\ Goto(IF rx[1] = <<"port_config", "byte">> THEN "command" ELSE "error")
    /\ rx' = Tail(rx)
    /\ UNCHANGED <<todo, tx, modem, faulted>>

(* xmm626_hsic_command_send *)
CommandWrite ==
    /\ todo # <<>>
    /\ Write("command", Head(todo))
    /\ IF Head(todo).ack THEN Goto("reply_header") /\ UNCHANGED todo
       ELSE /\ todo' = Tail(todo)
            /\ Goto(IF Tail(todo) = <<>> THEN "done" ELSE "command")

ReplyHeader ==
    /\ pc = "reply_header" /\ Readable
    /\ Goto(IF Head(rx) = Reply(Head(todo).code)[1]
            THEN "reply_data" ELSE "error")
    /\ rx' = Tail(rx)
    /\ UNCHANGED <<todo, tx, modem, faulted>>

ReplyData ==
    /\ pc = "reply_data" /\ Readable
    /\ Goto("command")
    /\ rx' = Tail(rx) /\ todo' = Tail(todo)
    /\ UNCHANGED <<tx, modem, faulted>>

Waits  == {"boot_ack", "chip_id", "psi_unknown", "psi_crc_ack", "psi_ack",
           "ebl_size_ack", "ebl_ack", "port_config", "reply_header",
           "reply_data"}
Writes == {"at_write", "psi_header", "psi", "psi_crc", "ebl_size", "ebl",
           "ebl_crc", "command"}

(* Slip: select is called again after a timeout. *)
SelectTimeoutRetries == pc \in Waits /\ ~Readable /\ UNCHANGED vars

SelectTimeout == pc \in Waits /\ ~Readable /\ Fail

(* A write() that does not take everything, or ipc_nv_data_load giving     *)
(* nothing in xmm626_hsic_nv_data_send.                                    *)
WriteFails == Faults /\ pc \in Writes /\ Fail

Host ==
    \/ AtWrite \/ AtSelect \/ AtGivenUp \/ BootAck \/ ChipId
    \/ PsiHeader \/ PsiData \/ PsiCrc \/ PsiUnknown \/ PsiCrcAck \/ PsiAck
    \/ EblSize \/ EblSizeAck \/ EblData \/ EblCrc \/ EblAck
    \/ PortConfigRead \/ CommandWrite \/ ReplyHeader \/ ReplyData
    \/ SelectTimeout \/ WriteFails

(***************************************************************************)
(* The modem, modelled from the host's expectations.                       *)
(***************************************************************************)
Receive(where, item) ==
    /\ alive /\ tx # <<>>
    /\ stage = where /\ Head(tx) = item
    /\ tx' = Tail(tx)
    /\ UNCHANGED <<host, alive, faulted>>

(* A probe is answered, or, if one was answered before, ignored.  The      *)
(* probes of a late host are all answered.                                 *)
RomProbe ==
    /\ Receive("rom", "at")
    /\ \/ rx' = rx \o Bytes("boot_ack", 1) \o Bytes("chip_id", 1)
          /\ got' = 1 /\ stale' = stale + got
       \/ got > 0 /\ UNCHANGED <<rx, got, stale>>
    /\ UNCHANGED <<stage, address, flash, sec>>

RomPsiHeader ==
    /\ Receive("rom", "psi_header") /\ stage' = "rom_psi" /\ got' = 0
    /\ UNCHANGED <<rx, address, flash, sec, stale>>

RomPsi ==
    /\ Receive("rom_psi", "psi") /\ got' = got + 1
    /\ UNCHANGED <<rx, stage, address, flash, sec, stale>>

RomPsiCrc ==
    /\ Receive("rom_psi", "psi_crc") /\ got = PsiParts
    /\ stage' = "psi" /\ got' = 0
    /\ rx' = rx \o Bytes("unknown", Unknown) \o Bytes("crc_ack", CrcAcks)
                \o Ack("psi")
    /\ UNCHANGED <<address, flash, sec, stale>>

PsiEblSize ==
    /\ Receive("psi", "ebl_size") /\ stage' = "psi_ebl"
    /\ rx' = rx \o Ack("ebl_size")
    /\ UNCHANGED <<got, address, flash, sec, stale>>

PsiEbl ==
    /\ Receive("psi_ebl", "ebl") /\ got' = got + 1
    /\ UNCHANGED <<rx, stage, address, flash, sec, stale>>

PsiEblCrc ==
    /\ Receive("psi_ebl", "ebl_crc") /\ got = EblParts
    /\ stage' = "ebl" /\ got' = 0
    /\ rx' = rx \o Ack("ebl") \o Bytes("port_config", 1)
    /\ UNCHANGED <<address, flash, sec, stale>>

Replies == {"set_port_config", "sec_start", "set_address", "sec_end"}

EblCommand ==
    /\ alive /\ tx # <<>> /\ stage = "ebl"
    /\ LET c == Head(tx) IN
       /\ rx' = IF c.code \in Replies
                THEN rx \o Reply(c.code) ELSE rx
       /\ address' = IF c.code = "set_address" THEN c.arg ELSE address
       /\ flash' = IF c.code = "write_block" /\ sec = "started"
                   THEN [flash EXCEPT ![address] = @ + 1] ELSE flash
       /\ sec' = CASE c.code = "sec_start" -> "started"
                   [] c.code = "sec_end"   -> "ended"
                   [] OTHER                -> sec
       /\ stage' = IF c.code = "hw_reset" THEN "firmware" ELSE "ebl"
    /\ tx' = Tail(tx)
    /\ UNCHANGED <<host, got, alive, stale, faulted>>

ModemHangs ==
    /\ Faults /\ alive
    /\ alive' = FALSE /\ faulted' = TRUE
    /\ UNCHANGED <<host, tx, rx, stage, got, address, flash, sec, stale>>

Modem ==
    \/ RomProbe \/ RomPsiHeader \/ RomPsi \/ RomPsiCrc
    \/ PsiEblSize \/ PsiEbl \/ PsiEblCrc \/ EblCommand

(* The boot function has returned. *)
Returned == pc \in {"done", "error"} /\ UNCHANGED vars

Next == Host \/ Modem \/ ModemHangs \/ Returned

(* The host runs, its selects time out; the modem runs while it is alive.  *)
Spec == Init /\ [][Next]_vars /\ WF_vars(Host) /\ WF_vars(Modem)

-----------------------------------------------------------------------------
Flashed ==
    /\ flash = [r \in {"firmware", "nv_data"} |->
                   IF r = "firmware" THEN FirmwareBlocks ELSE NvBlocks]
    /\ sec = "ended"

(* When the boot function returns 0 the modem has taken every block of the *)
(* firmware and of nv_data inside the secure session, though no            *)
(* FLASH_WRITE_BLOCK is acknowledged: the acknowledgement of SEC_END       *)
(* covers them, and no reply left over from the probes can stand for it.   *)
(* The modem is never reset into a firmware that is incomplete.            *)
DoneMeansFlashed == pc = "done" \/ stage = "firmware" => Flashed

(* Probes that were answered late do no harm: their replies are swallowed  *)
(* by ack_read's tolerance, and the boot fails only after a fault or a     *)
(* timeout, or when more replies are left over than ack_read looks at.     *)
LateRepliesHarmless == pc = "error" => faulted \/ stale >= AckMax

(* No reply is left in the device when the boot function returns 0: what   *)
(* the transport reads next is the modem's own traffic.                    *)
DoneMeansDrained == pc = "done" => rx = <<>>

(* The boot function returns, whatever the modem does. *)
BootReturns == <>(pc \in {"done", "error"})
=============================================================================
