--------------------------- MODULE BootProtocols ----------------------------
(***************************************************************************)
(* The ways a boot function brings its modem up.  The device decides which *)
(* one runs: xmm626_hsic.c (i9300 and its kin), xmm626_mipi.c (maguro and  *)
(* piranha), xmm616.c (crespo and aries), or herolte's own.  They share    *)
(* the names of their variables; those of the other protocols are Unused.  *)
(***************************************************************************)
EXTENDS Integers, Sequences

CONSTANTS
    AtMax, AckMax, PsiParts, EblParts,              \* HsicBoot and MipiBoot
    Unknown, CrcAcks, FirmwareBlocks, NvBlocks, Faults,     \* HsicBoot
    Mps, Blocks, PortWords, ReplyLengths,                   \* MipiBoot
    AtCount, AckLimit, PsiSize, FirmwareSize, NvSize, NvOffset, InfoSize,
    MaxQueue,                                               \* Xmm616Boot
    Tocs, MaxChunk, Word, ImageLen, NvLens, IoFaults, ShortReads,
    Nothing                                                 \* HerolteBoot

VARIABLES
    device, pc,
    tx, rx, got,                             \* all but HerolteBoot
    n, todo, stage, address, flash, sec,     \* HsicBoot and MipiBoot
    alive, stale, faulted,                   \* HsicBoot
    count, head,                             \* MipiBoot
    len,                                     \* MipiBoot and HerolteBoot
    rc,                                      \* Xmm616Boot and HerolteBoot
    i, wc, p, pos, memory, noisy, mail, rom, bad,           \* Xmm616Boot
    part, toc, nvlen, answers, handles, remaining, m_offset, want, fpos,
    buf, mem, mode, failed, short                           \* HerolteBoot

line    == <<tx, rx, got>>
xmm626  == <<n, todo, stage, address, flash, sec>>
hsic    == <<alive, stale, faulted>>
mipi    == <<count, head>>
xmm616  == <<i, wc, p, pos, memory, noisy, mail, rom, bad>>
herolte == <<part, toc, nvlen, answers, handles, remaining, m_offset, want,
             fpos, buf, mem, mode, failed, short>>
vars    == <<device, pc, line, xmm626, hsic, mipi, len, rc, xmm616, herolte>>

Hsic    == INSTANCE HsicBoot
Mipi    == INSTANCE MipiBoot
Xmm616  == INSTANCE Xmm616Boot WITH Devices <- {"crespo", "aries"}
Herolte == INSTANCE HerolteBoot

ASSUME HsicAssumption    == Hsic!ConstantsAssumption
ASSUME MipiAssumption    == Mipi!ConstantsAssumption
ASSUME Xmm616Assumption  == Xmm616!SizesAssumption
ASSUME HerolteAssumption == Herolte!TocsAssumption /\ Herolte!BoundsAssumption

Unused == "unused"

NoLine == tx = Unused /\ rx = Unused /\ got = Unused
NoXmm626 ==
    /\ n = Unused /\ todo = Unused /\ stage = Unused
    /\ address = Unused /\ flash = Unused /\ sec = Unused
NoHsic == alive = Unused /\ stale = Unused /\ faulted = Unused
NoMipi == count = Unused /\ head = Unused
NoXmm616 ==
    /\ i = Unused /\ wc = Unused /\ p = Unused /\ pos = Unused
    /\ memory = Unused /\ noisy = Unused /\ mail = Unused
    /\ rom = Unused /\ bad = Unused
NoHerolte ==
    /\ part = Unused /\ toc = Unused /\ nvlen = Unused /\ answers = Unused
    /\ handles = Unused /\ remaining = Unused /\ m_offset = Unused
    /\ want = Unused /\ fpos = Unused /\ buf = Unused /\ mem = Unused
    /\ mode = Unused /\ failed = Unused /\ short = Unused

OnHsic    == device = "i9300"
OnMipi    == device = "maguro"
OnXmm616  == device \in {"crespo", "aries"}
OnHerolte == device = "herolte"

Init ==
    \/ /\ OnHsic /\ Hsic!Init
       /\ NoMipi /\ len = Unused /\ rc = Unused /\ NoXmm616 /\ NoHerolte
    \/ /\ OnMipi /\ Mipi!Init
       /\ NoHsic /\ rc = Unused /\ NoXmm616 /\ NoHerolte
    \/ /\ Xmm616!Init
       /\ NoXmm626 /\ NoHsic /\ NoMipi /\ len = Unused /\ NoHerolte
    \/ /\ OnHerolte /\ Herolte!Init
       /\ NoLine /\ NoXmm626 /\ NoHsic /\ NoMipi /\ NoXmm616

(* A step of a protocol leaves the variables of the others alone. *)
AsHsic    == OnHsic /\ UNCHANGED <<device, mipi, len, rc, xmm616, herolte>>
AsMipi    == OnMipi /\ UNCHANGED <<device, hsic, rc, xmm616, herolte>>
AsXmm616  == OnXmm616 /\ UNCHANGED <<xmm626, hsic, mipi, len, herolte>>
AsHerolte == OnHerolte /\ UNCHANGED <<device, line, xmm626, hsic, mipi, xmm616>>

Next ==
    \/ AsHsic /\ Hsic!Next
    \/ AsMipi /\ Mipi!Next
    \/ AsXmm616 /\ Xmm616!Next
    \/ AsHerolte /\ Herolte!Next

(* The boot function runs, whatever the device, and its selects time out;  *)
(* an HSIC modem runs until it hangs.                                      *)
Spec ==
    /\ Init /\ [][Next]_vars
    /\ WF_vars(AsHsic /\ Hsic!Host) /\ WF_vars(AsHsic /\ Hsic!Modem)
    /\ WF_vars(AsXmm616 /\ Xmm616!Boot)
    /\ WF_vars(AsHerolte /\ Herolte!Boot)

-----------------------------------------------------------------------------
(* xmm626_hsic.c: the host returns 0, and the modem is reset, only after   *)
(* every block of firmware and nv_data was taken in the secure session.    *)
DoneMeansFlashed == OnHsic => Hsic!DoneMeansFlashed

(* xmm626_hsic.c: late answers to repeated probes fail the boot only when  *)
(* there are more than ack_read looks at.                                  *)
LateRepliesHarmless == OnHsic => Hsic!LateRepliesHarmless

(* xmm626_hsic.c: a boot that returns 0 leaves no reply unread.            *)
DoneMeansDrained == OnHsic => Hsic!DoneMeansDrained

(* xmm626_mipi.c: the host returns 0, and the modem is reset, only after   *)
(* every region was flashed in the secure session.                         *)
ResetOnlyFlashed == OnMipi => Mipi!ResetOnlyFlashed

(* xmm626_mipi.c: every reply is read to its last word before the next     *)
(* command goes out.                                                       *)
CommandsInStep == OnMipi => Mipi!CommandsInStep

(* xmm626_mipi.c: only replies of odd length overrun their buffer.         *)
ReplyInBounds == OnMipi => Mipi!ReplyInBounds

(* xmm616.c: 0 is returned only when the PSI runs and every byte of        *)
(* firmware and nv_data is in its place, whatever noise, surplus answers   *)
(* and short writes there were.                                            *)
ReturnMeansLoaded == OnXmm616 => Xmm616!ReturnMeansLoaded

(* herolte.c: as long as no read is short, every unit lies where the table *)
(* of contents wants it, and all of them do when 0 is returned and no      *)
(* upload failed.                                                          *)
UploadedExactly == OnHerolte => Herolte!UploadedExactly

(* xmm626_hsic.c: the boot returns, whatever the modem does.               *)
HsicReturns == OnHsic => Hsic!BootReturns

(* xmm616.c: the boot returns, though a line that goes on sending other    *)
(* bytes than the one waited for never times out.                          *)
Xmm616Returns == OnXmm616 => Xmm616!BootReturns

(* herolte.c, data_read: given complete files, no short read and a modem   *)
(* that answers, the boot returns without a system call having to fail.    *)
HerolteReturns == <>(OnHerolte => Herolte!Ends)
=============================================================================
