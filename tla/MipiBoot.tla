------------------------------ MODULE MipiBoot ------------------------------
(***************************************************************************)
(* Booting an XMM626 modem over MIPI: modems/xmm626/xmm626_mipi.c in the   *)
(* order the maguro and piranha boot functions call it.  Unlike over HSIC, *)
(* every block is acknowledged, and a reply is read in words of four bytes *)
(* whose number comes from a length the modem sends.                       *)
(*                                                                         *)
(* tx and rx are the two directions of the boot device, rx in words that   *)
(* arrive whole.  A select whose queue is empty may time out at any        *)
(* moment.                                                                 *)
(***************************************************************************)
EXTENDS Integers, Sequences

CONSTANTS
    AtMax, AckMax,       \* 50 and 50: tries of the probe and of ack_read
    PsiParts, EblParts,  \* write() calls the images take
    Mps,                 \* is mps_data sent, as on maguro?
    Blocks,              \* FLASH_WRITE_BLOCK commands of each region
    PortWords,           \* words of the port configuration
    ReplyLengths         \* lengths the modem's replies may have

ConstantsAssumption ==
    /\ AtMax \in Nat /\ AckMax \in Nat \ {0}
    /\ PsiParts \in Nat \ {0} /\ EblParts \in Nat \ {0}
    /\ Mps \in BOOLEAN /\ Blocks \in Nat \ {0} /\ PortWords \in Nat \ {0}
    /\ ReplyLengths \subseteq Nat \ (0 .. 5)   \* the reply's header

VARIABLES
    pc, n,       \* where the boot function is, its loop counter
    todo,        \* commands still to send
    len, count,  \* command_send: the length read, the bytes stored so far
    head,        \* ... and the code found in the reply
    tx, rx,
    stage, got,  \* the modem: what it runs, parts of the image received
    address, flash, sec

host  == <<pc, n, todo, len, count, head>>
reply == <<len, count, head>>
modem == <<stage, got, address, flash, sec>>
vars  == <<host, tx, rx, modem>>

Regions == {"firmware", "nv_data"} \cup (IF Mps THEN {"mps_data"} ELSE {})
NoCode == <<>>

(***************************************************************************)
(* The commands; all but HW_RESET wait for a reply.                        *)
(***************************************************************************)
Command(code, arg, ack) == [code |-> code, arg |-> arg, ack |-> ack]

(* Slip: the rest of a region that does not fill a block is not sent. *)
ModemDataSendShort(region) ==
    <<Command("set_address", region, TRUE)>>
        \o [b \in 1 .. Blocks - 1 |-> Command("write_block", b, TRUE)]

ModemDataSend(region) ==
    <<Command("set_address", region, TRUE)>>
        \o [b \in 1 .. Blocks |-> Command("write_block", b, TRUE)]

PortConfigSend == <<Command("set_port_config", "config", TRUE)>>
SecStartSend   == <<Command("sec_start", "image", TRUE)>>
SecEndSend     == <<Command("sec_end", "magic", TRUE)>>
HwResetSend    == <<Command("hw_reset", "magic", FALSE)>>

FirmwareSend   == ModemDataSend("firmware")
NvDataSend     == ModemDataSend("nv_data")
MpsDataSend    == ModemDataSend("mps_data")

Commands == PortConfigSend \o SecStartSend \o FirmwareSend \o NvDataSend
                \o (IF Mps THEN MpsDataSend ELSE <<>>)
                \o SecEndSend \o HwResetSend

Init ==
    /\ pc = "at_write" /\ n = 0 /\ todo = Commands
    /\ len = 0 /\ count = 0 /\ head = NoCode
    /\ tx = <<>> /\ rx = <<>>
    /\ stage = "rom" /\ got = 0 /\ address = "none"
    /\ flash = [r \in Regions |-> 0]
    /\ sec = "none"

(***************************************************************************)
(* The host.                                                               *)
(***************************************************************************)
Goto(at) == pc' = at /\ n' = 0

Loop(here, next, times) ==
    IF n + 1 < times THEN pc' = here /\ n' = n + 1 ELSE Goto(next)

Write(here, item) ==
    /\ pc = here
    /\ tx' = Append(tx, item)
    /\ UNCHANGED <<reply, rx, modem>>

Readable == rx # <<>>

Fail ==
    /\ Goto("error")
    /\ UNCHANGED <<todo, reply, tx, rx, modem>>

(* xmm626_mipi_psi_send *)
AtWrite == Write("at_write", "at") /\ pc' = "at_select" /\ UNCHANGED <<n, todo>>

(* The attempts are counted even when the modem has answered. *)
AtSelect ==
    /\ pc = "at_select" /\ n <= AtMax
    /\ IF Readable THEN Goto("boot0_ack") ELSE pc' = "at_write" /\ n' = n + 1
    /\ UNCHANGED <<todo, reply, tx, rx, modem>>

AtGivenUp == pc = "at_select" /\ n > AtMax /\ Fail

(* xmm626_mipi_ack_read: other values are skipped, AckMax values at most. *)
AckRead(here, ack, next) ==
    /\ pc = here /\ Readable
    /\ rx' = Tail(rx)
    /\ IF Head(rx) = <<"ack", ack>> THEN Goto(next)
       ELSE Loop(here, "error", AckMax)
    /\ UNCHANGED <<todo, reply, tx, modem>>

Boot0Ack  == AckRead("boot0_ack", "boot0", "psi_header")
PsiHeader == Write("psi_header", "psi_header") /\ Goto("psi") /\ UNCHANGED todo
PsiData   == /\ Write("psi", "psi") /\ Loop("psi", "psi_crc", PsiParts)
             /\ UNCHANGED todo
PsiCrc    == Write("psi_crc", "psi_crc") /\ Goto("psi_ack") /\ UNCHANGED todo
PsiAck    == AckRead("psi_ack", "psi", "reopen")

(* The boot functions close the BOOT0 device and open BOOT1, on which      *)
(* nothing of the old queue is seen.                                       *)
Reopen ==
    /\ pc = "reopen" /\ Goto("magic_length")
    /\ rx' = <<>>
    /\ UNCHANGED <<todo, reply, tx, modem>>

(* xmm626_mipi_ebl_send: what is written, in order, and awaited after it. *)
EblWrite(item, next) == Write(item, item) /\ Goto(next) /\ UNCHANGED todo

EblBoot ==
    \/ EblWrite("magic_length", "magic") \/ EblWrite("magic", "boot1_ack")
    \/ AckRead("boot1_ack", "boot1", "size_length")

(* The size is written again, one larger, after its acknowledgement. *)
EblSize ==
    \/ EblWrite("size_length", "size") \/ EblWrite("size", "size_ack")
    \/ AckRead("size_ack", "ebl_size", "size_plus_one")
    \/ EblWrite("size_plus_one", "ebl")

EblData ==
    /\ Write("ebl", "ebl") /\ Loop("ebl", "ebl_crc", EblParts)
    /\ UNCHANGED todo

EblCrc == EblWrite("ebl_crc", "ebl_ack")
EblAck == AckRead("ebl_ack", "ebl", "port_length")

(* xmm626_mipi_port_config_send reads what it sends back. *)
PortConfigRead ==
    /\ pc \in {"port_length", "port_config"} /\ Readable
    /\ rx' = Tail(rx)
    /\ IF Head(rx)[1] # pc THEN Goto("error")
       ELSE IF pc = "port_length" THEN Goto("port_config")
       ELSE Loop("port_config", "command", PortWords)
    /\ UNCHANGED <<todo, reply, tx, modem>>

(***************************************************************************)
(* xmm626_mipi_command_send.                                               *)
(***************************************************************************)
CommandWrite ==
    /\ todo # <<>>
    /\ Write("command", Head(todo))
    /\ IF Head(todo).ack THEN Goto("reply_length") /\ UNCHANGED todo
       ELSE /\ todo' = Tail(todo)
            /\ Goto(IF Tail(todo) = <<>> THEN "done" ELSE "command")

(* Slip: the length is rounded by one byte only. *)
RoundedByOne(l) == IF l % 4 # 0 THEN l + 1 ELSE l

(* length % 4 is added, which makes a multiple of four of even lengths     *)
(* only.                                                                   *)
Rounded(l) == IF l % 4 # 0 THEN l + (l % 4) ELSE l

(* Slip: the length word is not counted. *)
BufferSizeNoLength == Rounded(len)

(* The size of the reply's buffer, which begins with the length. *)
BufferSize == Rounded(len + 4)

(* The length is stored at the beginning of the buffer. *)
ReplyLength ==
    /\ pc = "reply_length" /\ Readable
    /\ rx' = Tail(rx)
    /\ IF Head(rx)[1] = "length"
       THEN /\ Goto("reply_data") /\ head' = NoCode
            /\ len' = Head(rx)[2] /\ count' = 4
       ELSE Goto("error") /\ UNCHANGED reply
    /\ UNCHANGED <<todo, tx, modem>>

(* Words are stored until the buffer is full; a word that does not fit is  *)
(* stored beyond its end.                                                  *)
ReplyData ==
    /\ pc = "reply_data" /\ count < BufferSize /\ Readable
    /\ rx' = Tail(rx)
    /\ count' = count + 4
    /\ head' = IF head = NoCode THEN Head(rx) ELSE head
    /\ IF count + 4 > BufferSize THEN Goto("undefined") ELSE UNCHANGED <<pc, n>>
    /\ UNCHANGED <<todo, len, tx, modem>>

ReplyCode ==
    /\ pc = "reply_data" /\ count >= BufferSize
    /\ IF head = <<"word", Head(todo).code>> THEN Goto("command") /\ todo' = Tail(todo)
       ELSE Goto("error") /\ UNCHANGED todo
    /\ UNCHANGED <<reply, tx, rx, modem>>

Waits  == {"boot0_ack", "psi_ack", "boot1_ack", "size_ack", "ebl_ack",
           "port_length", "port_config", "reply_length", "reply_data"}
Writes == {"at_write", "psi_header", "psi", "psi_crc", "magic_length",
           "magic", "size_length", "size", "size_plus_one", "ebl", "ebl_crc",
           "command"}

SelectTimeout ==
    /\ pc \in Waits /\ ~Readable /\ ~(pc = "reply_data" /\ count >= BufferSize)
    /\ Fail

(* A short write, the second device that cannot be opened, or nv_data that *)
(* cannot be loaded.                                                       *)
WriteFails == pc \in Writes \cup {"reopen"} /\ Fail

Host ==
    \/ AtWrite \/ AtSelect \/ AtGivenUp \/ Boot0Ack
    \/ PsiHeader \/ PsiData \/ PsiCrc \/ PsiAck \/ Reopen
    \/ EblBoot \/ EblSize \/ EblData \/ EblCrc \/ EblAck
    \/ PortConfigRead \/ CommandWrite \/ ReplyLength \/ ReplyData \/ ReplyCode
    \/ SelectTimeout \/ WriteFails

(***************************************************************************)
(* The modem, modelled from what the host sends and waits for.             *)
(***************************************************************************)
Receive(where, item, next, answer) ==
    /\ tx # <<>> /\ stage = where /\ Head(tx) = item
    /\ tx' = Tail(tx) /\ rx' = rx \o answer
    /\ stage' = next
    /\ UNCHANGED <<host, address, flash, sec>>

AckWord(a) == <<<<"ack", a>>>>

(* A probe is answered, or ignored if one was answered before. *)
RomProbe ==
    \/ /\ Receive("rom", "at", "rom", AckWord("boot0"))
       /\ got' = 1
    \/ got > 0 /\ Receive("rom", "at", "rom", <<>>) /\ UNCHANGED got

Image(loader, part, crc, parts, next, answer) ==
    \/ /\ Receive(loader, part, loader, <<>>)
       /\ got' = got + 1
    \/ /\ got = parts /\ Receive(loader, crc, next, answer)
       /\ got' = 0

PortConfig ==
    <<<<"port_length", PortWords>>>>
        \o [i \in 1 .. PortWords |-> <<"port_config", i>>]

Loader ==
    \/ /\ Receive("rom", "psi_header", "rom_psi", <<>>)
       /\ got' = 0
    \/ Image("rom_psi", "psi", "psi_crc", PsiParts, "psi", AckWord("psi"))
    \/ /\ \/ Receive("psi", "magic_length", "psi", <<>>)
          \/ Receive("psi", "magic", "psi", AckWord("boot1"))
          \/ Receive("psi", "size_length", "psi", <<>>)
          \/ Receive("psi", "size", "psi", AckWord("ebl_size"))
          \/ Receive("psi", "size_plus_one", "psi_ebl", <<>>)
       /\ UNCHANGED got
    \/ Image("psi_ebl", "ebl", "ebl_crc", EblParts, "ebl",
             AckWord("ebl") \o PortConfig)

(* A reply has its length, then its words; the code is in the first. *)
Reply(c, l) ==
    <<<<"length", l>>>> \o [i \in 1 .. (l + 3) \div 4 |-> <<"word", c>>]

EblCommand ==
    /\ tx # <<>> /\ stage = "ebl"
    /\ LET c == Head(tx) IN
       /\ IF c.code = "hw_reset" THEN UNCHANGED rx
          ELSE \E l \in ReplyLengths : rx' = rx \o Reply(c.code, l)
       /\ address' = IF c.code = "set_address" THEN c.arg ELSE address
       /\ flash' = IF c.code = "write_block" /\ sec = "started"
                   THEN [flash EXCEPT ![address] = @ + 1] ELSE flash
       /\ sec' = CASE c.code = "sec_start" -> "started"
                   [] c.code = "sec_end"   -> "ended"
                   [] OTHER                -> sec
       /\ stage' = IF c.code = "hw_reset" THEN "firmware" ELSE "ebl"
    /\ tx' = Tail(tx)
    /\ UNCHANGED <<host, got>>

Modem == RomProbe \/ Loader \/ EblCommand

Hangs ==
    /\ stage \notin {"hung", "firmware"}
    /\ stage' = "hung"
    /\ UNCHANGED <<host, tx, rx, got, address, flash, sec>>

Returned == pc \in {"done", "error", "undefined"} /\ UNCHANGED vars

Next == Host \/ Modem \/ Hangs \/ Returned

Spec == Init /\ [][Next]_vars

-----------------------------------------------------------------------------
Flashed == flash = [r \in Regions |-> Blocks] /\ sec = "ended"

(* A boot that returns 0 has flashed every region inside the secure        *)
(* session, and the modem is never reset before that.                      *)
ResetOnlyFlashed == pc = "done" \/ stage = "firmware" => Flashed

(* Every reply is read to its last word before the next command goes out,  *)
(* whatever lengths the replies have and however often the probe was       *)
(* answered: a command is never acknowledged by a word of an earlier       *)
(* answer.                                                                 *)
CommandsInStep == pc = "command" => rx = <<>>

(* Only replies of odd length are stored beyond the end of their buffer.   *)
ReplyInBounds == pc = "undefined" => len % 2 = 1
=============================================================================
