----------------------------- MODULE DeviceBoot -----------------------------
(***************************************************************************)
(* The boot functions of the devices: <device>_boot of i9300, n7100,       *)
(* n5100, galaxys2, maguro, piranha, crespo, aries and generic.  Each is a *)
(* sequence of steps; a step that fails goes to the error label, and both  *)
(* ends run the release block of the function.  The step functions are     *)
(* those of modems/xmm626/xmm626_kernel_smdk4412.c, for generic those of   *)
(* its own file; what a "send" step exchanges with the modem is the        *)
(* subject of HsicBoot, MipiBoot and Xmm616Boot.                           *)
(*                                                                         *)
(* The hardware starts in whatever state an earlier boot left it in.       *)
(***************************************************************************)
EXTENDS Naturals, Sequences

CONSTANTS
    Devices,         \* the devices to look at
    ConnectedTries,  \* 100: status queries of link_connected_wait
    HostwakeTries,   \* 10: of link_get_hostwake_wait
    OnlineTries,     \* 100: of status_online_wait
    DeviceTries      \* 10000: attempts of generic_boot to open the boot device

Hsic  == {"i9300", "n7100", "n5100", "galaxys2"}
Mipi  == {"maguro", "piranha"}
Known == Hsic \cup Mipi \cup {"crespo", "aries", "generic"}

ASSUME DevicesAssumption == Devices \subseteq Known
ASSUME TriesAssumption ==
    /\ ConnectedTries \in Nat \ {0} /\ HostwakeTries \in Nat \ {0}
    /\ OnlineTries \in Nat \ {0} /\ DeviceTries \in Nat \ {0}

VARIABLES
    device, todo, n, rc,
    handles,    \* descriptor variables: "unset", "open" or "closed"
    memory,     \* pointers: "null", "held" or "failed" (MAP_FAILED)
    twice,      \* a descriptor was closed a second time
    power,      \* the modem is on
    bus,        \* controllers switched on, of ehci and ohci
    enabled, active,       \* the two controls of the link
    connected,  \* the link is up
    fresh,      \* it came up after this boot switched the bus off
    awake,      \* the host wake line is raised
    online,     \* the modem's status is STATE_ONLINE
    blind,      \* a status query failed and was taken for a yes
    half        \* only one of the two controllers could be switched

call     == <<device, rc>>
owned    == <<handles, memory, twice>>
link     == <<bus, enabled, active, connected, fresh>>
modem    == <<power, awake, online>>
doubts   == <<blind, half>>
vars == <<device, todo, n, rc, handles, memory, twice, power, bus, enabled,
          active, connected, fresh, awake, online, blind, half>>

(***************************************************************************)
(* The boot functions as sequences of steps.                               *)
(***************************************************************************)
Step(op, arg)     == [op |-> op, arg |-> arg, fatal |-> TRUE]
Optional(op, arg) == [op |-> op, arg |-> arg, fatal |-> FALSE]
Send(what)        == Step("send", what)

OpenImage == <<Step("open", "image"), Step("map", "image")>>

(* Slip: the bus is not switched off first. *)
I9300PowerOnBusKept ==
    <<Step("power", "on"), Step("hci", "on"), Step("wait", "connected")>>

I9300PowerOn ==
    <<Step("hci", "off"), Step("power", "on"), Step("hci", "on"),
      Step("wait", "connected")>>

Galaxys2PowerOn ==
    <<Step("power", "off"), Step("enable", "off"), Step("hci", "off"),
      Step("active", "off"), Step("power", "on"), Step("enable", "on"),
      Step("hci", "on"), Step("active", "on"), Step("wait", "connected")>>

Flash == <<Send("ebl"), Send("port_config"), Send("sec_start"),
           Send("firmware"), Send("nv_data")>>
Reset == <<Send("sec_end"), Send("hw_reset")>>

(* Slip: the link is not waited for again. *)
LinkRestartNoWait ==
    <<Optional("wait", "hostwake"),
      Step("enable", "off"), Step("hci", "off"), Step("active", "off"),
      Step("wait", "hostwake"),
      Step("enable", "on"), Step("hci", "on"), Step("active", "on")>>

(* Only the first wait for host wake may fail. *)
LinkRestart ==
    <<Optional("wait", "hostwake"),
      Step("enable", "off"), Step("hci", "off"), Step("active", "off"),
      Step("wait", "hostwake"),
      Step("enable", "on"), Step("hci", "on"), Step("active", "on"),
      Step("wait", "connected")>>

I9300Boot ==
    OpenImage \o <<Step("open", "boot"), Step("open", "link")>>
        \o I9300PowerOn \o <<Send("psi")>> \o Flash \o Reset \o LinkRestart
N7100Boot == I9300Boot
N5100Boot == I9300Boot

Galaxys2Boot ==
    OpenImage \o <<Step("open", "boot"), Step("open", "link")>>
        \o Galaxys2PowerOn \o <<Send("psi")>> \o Flash \o Reset \o LinkRestart

(* The PSI goes to boot0, what follows to boot1: the same variable holds   *)
(* both descriptors.                                                       *)
MipiStart ==
    OpenImage \o <<Step("open", "boot"), Step("power", "off"),
        Step("power", "on"), Send("psi"), Step("close", "boot"),
        Step("open", "boot")>> \o Flash

MaguroBoot ==
    MipiStart \o <<Step("read", "mps"), Send("mps_data")>> \o Reset
        \o <<Step("wait", "online"), Step("ioctl", "boot_off")>>
PiranhaBoot == MipiStart \o Reset

(* IOCTL_MODEM_RESET leaves the modem on. *)
CrespoBoot ==
    <<Step("read", "image"), Step("open", "ctl"), Step("power", "on"),
      Step("open", "serial"), Send("psi"), Send("firmware"), Send("nv_data")>>

(* The power_on handler is called first, the power_off handler second. *)
AriesBoot ==
    <<Step("read", "image"), Step("open", "onedram"),
      Step("ioctl", "iface_down"), Step("power", "on"), Step("power", "off"),
      Step("open", "serial"), Send("psi"), Step("ioctl", "onedram_init"),
      Step("map", "onedram"), Send("firmware"), Send("nv_data"),
      Step("unmap", "onedram"), Step("ioctl", "rel_sem"),
      Step("ioctl", "onedram_magic"), Step("ioctl", "onedram_deinit")>>

(* A modem that could not be switched on is only logged.  The waits for    *)
(* host wake are mere delays here, and the link is not waited for.         *)
GenericBoot ==
    <<Step("open_by_name", "image"), Step("map", "image")>>
        \o <<Step("power", "off"), Step("linux_hci", "off"),
              Optional("power", "on"), Step("linux_hci", "on"),
              Step("wait", "device"), Send("psi")>> \o Flash \o Reset
        \o <<Step("linux_hci", "off"), Step("linux_hci", "on")>>

Script(d) ==
    CASE d = "i9300"    -> I9300Boot
      [] d = "n7100"    -> N7100Boot
      [] d = "n5100"    -> N5100Boot
      [] d = "galaxys2" -> Galaxys2Boot
      [] d = "maguro"   -> MaguroBoot
      [] d = "piranha"  -> PiranhaBoot
      [] d = "crespo"   -> CrespoBoot
      [] d = "aries"    -> AriesBoot
      [] d = "generic"  -> GenericBoot

Handles == {"image", "boot", "link", "ctl", "serial", "onedram"}
Buffers == {"image", "mps", "onedram", "path"}

(* What the release blocks look at.  The path of generic is in none. *)
Closes(d) ==
    CASE d \in Hsic \cup {"generic"} -> {"image", "boot", "link"}
      [] d \in Mipi   -> {"image", "boot"}
      [] d = "crespo" -> {"serial", "ctl"}
      [] d = "aries"  -> {"serial", "onedram"}
Frees(d) ==
    CASE d = "maguro" -> {"image", "mps"}
      [] d = "aries"  -> {"image", "onedram"}
      [] OTHER        -> {"image"}

Controllers(d) == IF d = "generic" THEN {"ehci"} ELSE {"ehci", "ohci"}

Init ==
    /\ device \in Devices
    /\ todo = Script(device) /\ n = 0 /\ rc = "running"
    /\ handles = [h \in Handles |-> "unset"]
    /\ memory = [b \in Buffers |-> "null"]
    /\ twice = FALSE
    /\ power \in BOOLEAN /\ bus \in SUBSET Controllers(device)
    /\ enabled \in BOOLEAN /\ active \in BOOLEAN
    /\ connected \in IF power /\ bus # {} THEN BOOLEAN ELSE {FALSE}
    /\ fresh = FALSE /\ awake = FALSE /\ online = FALSE
    /\ blind = FALSE /\ half = FALSE

(***************************************************************************)
(* The steps.                                                              *)
(***************************************************************************)
At(op) == rc = "running" /\ todo # <<>> /\ Head(todo).op = op
Arg == Head(todo).arg
Advance == todo' = Tail(todo) /\ n' = 0

Open ==
    /\ At("open") /\ Advance
    /\ handles' = [handles EXCEPT ![Arg] = "open"]
    /\ UNCHANGED <<call, memory, twice, modem, link, doubts>>

(* open_android_modem_partition_by_name, whose out parameter gets a path   *)
(* from the heap for every directory tried.  When there is no memory for   *)
(* one the negated error number is returned, which generic_boot, looking   *)
(* for -1, takes for a descriptor.                                         *)
OpenByName ==
    /\ At("open_by_name") /\ Advance
    /\ \/ /\ handles' = [handles EXCEPT ![Arg] = "open"]
          /\ memory' = [memory EXCEPT !["path"] = "held"]
       \/ /\ handles' = handles
          /\ memory' \in {memory, [memory EXCEPT !["path"] = "held"]}
    /\ UNCHANGED <<call, twice, modem, link, doubts>>

Close ==
    /\ At("close") /\ Advance
    /\ handles' = [handles EXCEPT ![Arg] = "closed"]
    /\ UNCHANGED <<call, memory, twice, modem, link, doubts>>

(* There is no mapping without a descriptor. *)
Map ==
    /\ (At("map") \/ At("read")) /\ Advance
    /\ At("map") => handles[Arg] = "open"
    /\ memory' = [memory EXCEPT ![Arg] = "held"]
    /\ UNCHANGED <<call, handles, twice, modem, link, doubts>>

Unmap ==
    /\ At("unmap") /\ Advance
    /\ memory' = [memory EXCEPT ![Arg] = "null"]
    /\ UNCHANGED <<call, handles, twice, modem, link, doubts>>

(* The link goes down and is not fresh any more. *)
LinkDrops == connected' = FALSE /\ fresh' = FALSE

Power ==
    /\ At("power") /\ Advance
    /\ power' = (Arg = "on")
    /\ IF Arg = "on" THEN UNCHANGED <<awake, online, connected, fresh>>
       ELSE awake' = FALSE /\ online' = FALSE /\ LinkDrops
    /\ UNCHANGED <<call, owned, bus, enabled, active, doubts>>

(* xmm626_kernel_smdk4412_hci_power: one controller is enough. *)
HciPower ==
    /\ At("hci") /\ Advance
    /\ \E switched \in (SUBSET {"ehci", "ohci"}) \ {{}} :
        /\ bus' = IF Arg = "on" THEN bus \cup switched ELSE bus \ switched
        /\ half' = (half \/ switched # {"ehci", "ohci"})
    /\ IF bus' = {} THEN LinkDrops ELSE UNCHANGED <<connected, fresh>>
    /\ UNCHANGED <<call, owned, modem, enabled, active, blind>>

(* xmm626_kernel_linux_modem_hci_power: the controller or all of the other *)
(* controls must have been written; of several others some may have been.  *)
LinuxHciPower ==
    /\ At("linux_hci") /\ Advance
    /\ \E ehci, others \in BOOLEAN :
        /\ ehci \/ others
        /\ bus' = IF ~ehci THEN bus ELSE IF Arg = "on" THEN {"ehci"} ELSE {}
        /\ active' \in IF others THEN {Arg = "on"}
                      ELSE IF Arg = "on" THEN {active, TRUE} ELSE {active}
        /\ half' = (half \/ ~ehci \/ ~others)
    /\ IF bus' = {} THEN LinkDrops ELSE UNCHANGED <<connected, fresh>>
    /\ UNCHANGED <<call, owned, modem, enabled, blind>>

LinkControlEnable ==
    /\ At("enable") /\ Advance
    /\ enabled' = (Arg = "on")
    /\ UNCHANGED <<call, owned, modem, bus, active, connected, fresh, doubts>>

LinkControlActive ==
    /\ At("active") /\ Advance
    /\ active' = (Arg = "on")
    /\ UNCHANGED <<call, owned, modem, bus, enabled, connected, fresh, doubts>>

(* The waits.  Two of them take any status but 0 for a yes, the -1 of a    *)
(* failed query too; the third compares with STATE_ONLINE.  The fourth     *)
(* opens the boot device of generic, which is there once the link is up.   *)
Raised == CASE Arg \in {"connected", "device"} -> connected
            [] Arg = "hostwake"  -> awake
            [] Arg = "online"    -> online
Tries  == CASE Arg = "connected" -> ConnectedTries
            [] Arg = "hostwake"  -> HostwakeTries
            [] Arg = "online"    -> OnlineTries
            [] Arg = "device"    -> DeviceTries

WaitSeen ==
    /\ At("wait") /\ Advance
    /\ Raised \/ Arg \in {"connected", "hostwake"}
    /\ blind' = (blind \/ ~Raised)
    /\ handles' = IF Arg = "device" THEN [handles EXCEPT !["boot"] = "open"]
                  ELSE handles
    /\ UNCHANGED <<call, memory, twice, modem, link, half>>

WaitAgain ==
    /\ At("wait") /\ ~Raised /\ n + 1 < Tries
    /\ n' = n + 1
    /\ UNCHANGED <<todo, call, owned, modem, link, doubts>>

(* A wait fails after its last query only; any other step may fail. *)
MayFail == At("wait") => ~Raised /\ n + 1 >= Tries

Tolerated ==
    /\ rc = "running" /\ todo # <<>>
    /\ ~Head(todo).fatal /\ MayFail /\ Advance
    /\ UNCHANGED <<call, owned, modem, link, doubts>>

(* The hardware reset restarts the modem, whose link goes down. *)
SendImage ==
    /\ At("send") /\ Advance
    /\ IF Arg = "hw_reset" THEN LinkDrops ELSE UNCHANGED <<connected, fresh>>
    /\ UNCHANGED <<call, owned, modem, bus, enabled, active, doubts>>

Ioctl ==
    /\ At("ioctl") /\ Advance
    /\ UNCHANGED <<call, owned, modem, link, doubts>>

(* Slip: a failed open leaves the old descriptor in the variable. *)
HandlesAfterFailureKept == handles

(* A failed open leaves -1 in the variable. *)
HandlesAfterFailure ==
    IF At("open") THEN [handles EXCEPT ![Arg] = "unset"] ELSE handles

(* A failed mapping leaves MAP_FAILED in the pointer; a partition that     *)
(* cannot be opened has a path all the same.                               *)
MemoryAfterFailure ==
    CASE At("map")          -> [memory EXCEPT ![Arg] = "failed"]
      [] At("open_by_name") -> [memory EXCEPT !["path"] = "held"]
      [] OTHER              -> memory

(* goto error *)
Fails ==
    /\ rc = "running" /\ todo # <<>>
    /\ Head(todo).fatal /\ ~At("close") /\ ~At("unmap")
    /\ MayFail
    /\ handles' = HandlesAfterFailure
    /\ memory' = MemoryAfterFailure
    /\ todo' = <<>> /\ n' = 0 /\ rc' = "error"
    /\ UNCHANGED <<device, twice, modem, link, doubts>>

(* The release block, at the end of both paths. *)
Complete ==
    /\ rc \in {"running", "error"} /\ todo = <<>>
    /\ rc' = IF rc = "error" THEN "-1" ELSE "0"
    /\ twice' = (twice \/ \E h \in Closes(device) : handles[h] = "closed")
    /\ handles' = [h \in Handles |->
           IF h \in Closes(device) /\ handles[h] = "open" THEN "closed"
           ELSE handles[h]]
    /\ memory' = [b \in Buffers |->
           IF b \in Frees(device) /\ memory[b] = "held" THEN "null"
           ELSE memory[b]]
    /\ UNCHANGED <<device, todo, n, modem, link, doubts>>

Boot ==
    \/ Open \/ OpenByName \/ Close \/ Map \/ Unmap \/ Power \/ HciPower
    \/ LinuxHciPower \/ LinkControlEnable \/ LinkControlActive
    \/ WaitSeen \/ WaitAgain \/ Tolerated
    \/ SendImage \/ Ioctl \/ Fails \/ Complete

(***************************************************************************)
(* Hardware: the link comes up on a bus that is on, the modem raises host  *)
(* wake and goes online.                                                   *)
(***************************************************************************)
Returned == rc \in {"0", "-1"}

LinkComesUp ==
    /\ ~Returned /\ power /\ bus # {} /\ ~connected
    /\ connected' = TRUE /\ fresh' = TRUE
    /\ UNCHANGED <<todo, n, call, owned, modem, bus, enabled, active, doubts>>

ModemRaises ==
    /\ ~Returned /\ power
    /\ \/ ~awake /\ awake' = TRUE /\ UNCHANGED online
       \/ ~online /\ online' = TRUE /\ UNCHANGED awake
    /\ UNCHANGED <<todo, n, call, owned, power, link, doubts>>

Stays == Returned /\ UNCHANGED vars

Next == Boot \/ LinkComesUp \/ ModemRaises \/ Stays

Spec == Init /\ [][Next]_vars

-----------------------------------------------------------------------------
(* Whatever step fails, every descriptor opened and every buffer obtained  *)
(* by a boot function is released when it returns, and no descriptor was   *)
(* closed twice: maguro and piranha close the boot descriptor and open     *)
(* another one into the same variable on the way.  The one thing that is   *)
(* lost is the path of the RADIO partition, which generic_boot gets at     *)
(* generic.c:373 and never frees.                                          *)
Released ==
    Returned => /\ \A h \in Handles : handles[h] # "open"
                /\ \A b \in Buffers :
                      memory[b] = "held" => device = "generic" /\ b = "path"
                /\ ~twice

AtPsi == At("send") /\ Arg = "psi"

(* Except on aries the PSI goes to a modem that is on, and on the HSIC     *)
(* devices over a link that came up after this call switched the bus off:  *)
(* a link left over from an earlier boot is not mistaken for the new one,  *)
(* unless only one controller could be switched or a failed query was      *)
(* taken for a yes.  generic has no such exception, and its modem is on    *)
(* although a failure to switch it on is ignored.                          *)
PsiOverFreshLink ==
    AtPsi /\ device # "aries" =>
        /\ power
        /\ device \in Hsic => (connected /\ fresh) \/ blind \/ half
        /\ device = "generic" => connected /\ fresh

(* A boot of an HSIC device that returns 0 leaves the link enabled, active *)
(* and up again after the modem's reset, under the same reservation.       *)
LinkUpAtReturn ==
    rc = "0" /\ device \in Hsic =>
        /\ power /\ enabled /\ active /\ bus # {}
        /\ (connected /\ fresh) \/ blind \/ half

(* aries.c:104: "Powered the modem on", said before the PSI is sent. *)
AriesPoweredOn == AtPsi /\ device = "aries" => power
=============================================================================
