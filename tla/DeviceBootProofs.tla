--------------------------- MODULE DeviceBootProofs ---------------------------
(***************************************************************************)
(* Proofs about the boot functions of the devices, for every subset of the *)
(* devices, any counts of tries and whatever state the hardware is left    *)
(* in.                                                                     *)
(*                                                                         *)
(* A boot function is a sequence of steps, of which `todo` is the rest.    *)
(* What the proofs need to know of a device's steps is in Scripted and     *)
(* holds of every rest of a sequence it holds of; so the invariants speak  *)
(* of `todo` alone, never of a position.  A fact that must hold at a later *)
(* place (power at the PSI, the link's controls at the end) holds now and  *)
(* is not undone before that place, or is made to hold before it and not   *)
(* undone after that (Will).                                               *)
(***************************************************************************)
EXTENDS DeviceBoot, SequenceTheorems, TLAPS

Names == {"image", "boot", "link", "ctl", "serial", "onedram", "mps",
          "path", "connected", "hostwake", "online", "device", "psi", "ebl",
          "port_config", "sec_start", "firmware", "nv_data", "mps_data",
          "sec_end", "hw_reset", "boot_off", "iface_down", "onedram_init",
          "rel_sem", "onedram_magic", "onedram_deinit", "on", "off"}
Ops == {"open", "open_by_name", "close", "map", "read", "unmap", "power",
        "hci", "linux_hci", "enable", "active", "wait", "send", "ioctl"}
Steps == [op : Ops, arg : Names, fatal : BOOLEAN]

On(op)  == Step(op, "on")
Off(op) == Step(op, "off")
Psi     == Send("psi")
Await   == Step("wait", "connected")
Appear  == Step("wait", "device")

(* What a step of device d may be. *)
Allowed(d, x) ==
    /\ x.op \in {"open", "open_by_name", "close"} =>
          x.arg \in Closes(d) \cap Handles
    /\ x.op = "open_by_name" => d = "generic"
    /\ x.op \in {"map", "read", "unmap"} => x.arg \in Frees(d) \cap Buffers
    /\ x.op \in {"power", "hci", "linux_hci", "enable", "active"} =>
          x.arg \in {"on", "off"}
    /\ x.op = "wait" =>
          x.arg \in {"connected", "hostwake", "online", "device"}
    /\ x.op = "wait" /\ x.arg = "device" => d = "generic"
    /\ x.op = "linux_hci" => d = "generic"
    /\ x.op = "close" => d \in Mipi
    /\ ~x.fatal => x.op = "wait" \/ (x.op = "power" /\ x.arg = "on")

(* What holds of the steps of d, and of every rest of them. *)
Scripted(d, s) ==
    /\ s \in Seq(Steps)
    /\ \A k \in 1 .. Len(s) : Allowed(d, s[k])
    /\ \A k \in 1 .. Len(s) : s[k].op = "close" =>
          k < Len(s) /\ s[k + 1] = Step("open", s[k].arg)
    /\ \A k \in 2 .. Len(s) : s[k] = Psi =>
          /\ d \in Hsic => s[k - 1] = Await
          /\ d = "generic" => s[k - 1] = Appear
    /\ d \in Hsic /\ Len(s) > 0 => s[Len(s)] = Await

(* The steps of s before the k-th leave the thing on: it is on now and     *)
(* stays so, or it is switched on and then stays so.                       *)
Will(s, op, k, now) ==
    \/ now /\ \A i \in 1 .. k - 1 : s[i] # Off(op)
    \/ \E j \in 1 .. k - 1 :
          s[j] = On(op) /\ \A i \in j + 1 .. k - 1 : s[i] # Off(op)

(* Step x comes before any PSI. *)
Before(s, x) ==
    \E j \in 1 .. Len(s) : s[j] = x /\ \A i \in 1 .. j : s[i] # Psi

TypeOK ==
    /\ device \in Known
    /\ rc \in {"running", "error", "0", "-1"}
    /\ n \in Nat
    /\ handles \in [Handles -> {"unset", "open", "closed"}]
    /\ memory \in [Buffers -> {"null", "held", "failed"}]
    /\ twice \in BOOLEAN /\ power \in BOOLEAN
    /\ bus \in SUBSET {"ehci", "ohci"}
    /\ enabled \in BOOLEAN /\ active \in BOOLEAN /\ connected \in BOOLEAN
    /\ fresh \in BOOLEAN /\ awake \in BOOLEAN /\ online \in BOOLEAN
    /\ blind \in BOOLEAN /\ half \in BOOLEAN

Plan ==
    /\ Scripted(device, todo)
    /\ rc # "running" => todo = <<>>

(* There is no link without a modem and a bus. *)
Wired == connected => power /\ bus # {}

(* What is held is looked at by the release block, save the path of        *)
(* generic; a descriptor that was closed on the way is replaced by the     *)
(* next step.                                                              *)
Holding ==
    ~Returned =>
        /\ \A h \in Handles : handles[h] = "open" => h \in Closes(device)
        /\ \A b \in Buffers : memory[b] = "held" =>
              b \in Frees(device) \/ (device = "generic" /\ b = "path")
        /\ \A h \in Handles : handles[h] = "closed" =>
              rc = "running" /\ todo # <<>> /\ todo[1] = Step("open", h)
        /\ ~twice

(* A link that is up is a new one, or the bus (on generic the modem) will  *)
(* be switched off before the PSI.                                         *)
Renewed ==
    rc = "running" =>
        /\ device \in Hsic =>
              half \/ (connected => fresh) \/ Before(todo, Off("hci"))
        /\ device = "generic" =>
              (connected => fresh) \/ Before(todo, Off("power"))

(* The modem is on at the PSI. *)
Powered ==
    rc = "running" /\ device \notin {"aries", "generic"} =>
        \A k \in 1 .. Len(todo) :
            todo[k] = Psi => Will(todo, "power", k, power)

(* The controls are on at the end. *)
Ending ==
    rc = "running" /\ device \in Hsic =>
        /\ Will(todo, "power", Len(todo) + 1, power)
        /\ Will(todo, "enable", Len(todo) + 1, enabled)
        /\ Will(todo, "active", Len(todo) + 1, active)
        /\ Will(todo, "hci", Len(todo) + 1, bus # {})

(* What the wait before the PSI, and the wait at the end, have seen. *)
Awaited ==
    rc = "running" =>
        /\ device \in Hsic /\ (todo = <<>> \/ todo[1] = Psi) =>
              connected \/ blind
        /\ device = "generic" /\ todo # <<>> /\ todo[1] = Psi => connected

DInv ==
    /\ TypeOK /\ Plan /\ Wired /\ Holding /\ Renewed /\ Powered /\ Ending
    /\ Awaited /\ Released /\ LinkUpAtReturn

(* What holds of all steps of d, before the first of them. *)
Begun(d, s) ==
    /\ Len(s) > 0 /\ s[1] # Psi
    /\ d \in Hsic => Before(s, Off("hci"))
    /\ d = "generic" => Before(s, Off("power"))
    /\ d \notin {"aries", "generic"} =>
          \A k \in 1 .. Len(s) : s[k] = Psi => Will(s, "power", k, FALSE)
    /\ d \in Hsic =>
          /\ Will(s, "power", Len(s) + 1, FALSE)
          /\ Will(s, "enable", Len(s) + 1, FALSE)
          /\ Will(s, "active", Len(s) + 1, FALSE)
          /\ Will(s, "hci", Len(s) + 1, FALSE)

-----------------------------------------------------------------------------
(* Steps as records, and as members of Steps. *)
LEMMA StepFields ==
    ASSUME NEW op, NEW arg
    PROVE  /\ Step(op, arg).op = op /\ Step(op, arg).arg = arg
           /\ Step(op, arg).fatal
           /\ Optional(op, arg).op = op /\ Optional(op, arg).arg = arg
           /\ ~Optional(op, arg).fatal
           /\ Send(arg) = Step("send", arg) /\ Send(arg).op = "send"
           /\ op \in Ops /\ arg \in Names =>
                Step(op, arg) \in Steps /\ Optional(op, arg) \in Steps
  BY DEF Step, Optional, Send, Steps

(* Two steps are the same when their operations and arguments are. *)
LEMMA StepEq ==
    ASSUME NEW op, NEW arg, NEW op2, NEW arg2
    PROVE  /\ Step(op, arg) = Step(op2, arg2) <=> op = op2 /\ arg = arg2
           /\ Step(op, arg) # Optional(op2, arg2)
           /\ Send(arg) = Step("send", arg)
  BY StepFields

(* The longest boot function has 30 steps. *)
LEMMA Places ==
    \A k \in 1 .. 30 :
        \/ k = 1 \/ k = 2 \/ k = 3 \/ k = 4 \/ k = 5 \/ k = 6
        \/ k = 7 \/ k = 8 \/ k = 9 \/ k = 10 \/ k = 11 \/ k = 12
        \/ k = 13 \/ k = 14 \/ k = 15 \/ k = 16 \/ k = 17 \/ k = 18
        \/ k = 19 \/ k = 20 \/ k = 21 \/ k = 22 \/ k = 23 \/ k = 24
        \/ k = 25 \/ k = 26 \/ k = 27 \/ k = 28 \/ k = 29 \/ k = 30
  OBVIOUS

(* The steps of I9300Boot, one by one. *)
LEMMA I9300Steps ==
    LET s == I9300Boot IN
    /\ Len(s) = 25
    /\ s[1] = Step("open", "image") /\ s[2] = Step("map", "image")
    /\ s[3] = Step("open", "boot") /\ s[4] = Step("open", "link")
    /\ s[5] = Step("hci", "off") /\ s[6] = Step("power", "on")
    /\ s[7] = Step("hci", "on") /\ s[8] = Step("wait", "connected")
    /\ s[9] = Send("psi") /\ s[10] = Send("ebl") /\ s[11] = Send("port_config")
    /\ s[12] = Send("sec_start") /\ s[13] = Send("firmware")
    /\ s[14] = Send("nv_data") /\ s[15] = Send("sec_end")
    /\ s[16] = Send("hw_reset") /\ s[17] = Optional("wait", "hostwake")
    /\ s[18] = Step("enable", "off") /\ s[19] = Step("hci", "off")
    /\ s[20] = Step("active", "off") /\ s[21] = Step("wait", "hostwake")
    /\ s[22] = Step("enable", "on") /\ s[23] = Step("hci", "on")
    /\ s[24] = Step("active", "on") /\ s[25] = Step("wait", "connected")
  BY DEF I9300Boot, OpenImage, I9300PowerOn, Flash, Reset, LinkRestart

(* The steps of Galaxys2Boot, one by one. *)
LEMMA Galaxys2Steps ==
    LET s == Galaxys2Boot IN
    /\ Len(s) = 30
    /\ s[1] = Step("open", "image") /\ s[2] = Step("map", "image")
    /\ s[3] = Step("open", "boot") /\ s[4] = Step("open", "link")
    /\ s[5] = Step("power", "off") /\ s[6] = Step("enable", "off")
    /\ s[7] = Step("hci", "off") /\ s[8] = Step("active", "off")
    /\ s[9] = Step("power", "on") /\ s[10] = Step("enable", "on")
    /\ s[11] = Step("hci", "on") /\ s[12] = Step("active", "on")
    /\ s[13] = Step("wait", "connected") /\ s[14] = Send("psi")
    /\ s[15] = Send("ebl") /\ s[16] = Send("port_config")
    /\ s[17] = Send("sec_start") /\ s[18] = Send("firmware")
    /\ s[19] = Send("nv_data") /\ s[20] = Send("sec_end")
    /\ s[21] = Send("hw_reset") /\ s[22] = Optional("wait", "hostwake")
    /\ s[23] = Step("enable", "off") /\ s[24] = Step("hci", "off")
    /\ s[25] = Step("active", "off") /\ s[26] = Step("wait", "hostwake")
    /\ s[27] = Step("enable", "on") /\ s[28] = Step("hci", "on")
    /\ s[29] = Step("active", "on") /\ s[30] = Step("wait", "connected")
  BY DEF Galaxys2Boot, OpenImage, Galaxys2PowerOn, Flash, Reset, LinkRestart

(* The steps of MaguroBoot, one by one. *)
LEMMA MaguroSteps ==
    LET s == MaguroBoot IN
    /\ Len(s) = 19
    /\ s[1] = Step("open", "image") /\ s[2] = Step("map", "image")
    /\ s[3] = Step("open", "boot") /\ s[4] = Step("power", "off")
    /\ s[5] = Step("power", "on") /\ s[6] = Send("psi")
    /\ s[7] = Step("close", "boot") /\ s[8] = Step("open", "boot")
    /\ s[9] = Send("ebl") /\ s[10] = Send("port_config")
    /\ s[11] = Send("sec_start") /\ s[12] = Send("firmware")
    /\ s[13] = Send("nv_data") /\ s[14] = Step("read", "mps")
    /\ s[15] = Send("mps_data") /\ s[16] = Send("sec_end")
    /\ s[17] = Send("hw_reset") /\ s[18] = Step("wait", "online")
    /\ s[19] = Step("ioctl", "boot_off")
  BY DEF MaguroBoot, MipiStart, OpenImage, Flash, Reset

(* The steps of PiranhaBoot, one by one. *)
LEMMA PiranhaSteps ==
    LET s == PiranhaBoot IN
    /\ Len(s) = 15
    /\ s[1] = Step("open", "image") /\ s[2] = Step("map", "image")
    /\ s[3] = Step("open", "boot") /\ s[4] = Step("power", "off")
    /\ s[5] = Step("power", "on") /\ s[6] = Send("psi")
    /\ s[7] = Step("close", "boot") /\ s[8] = Step("open", "boot")
    /\ s[9] = Send("ebl") /\ s[10] = Send("port_config")
    /\ s[11] = Send("sec_start") /\ s[12] = Send("firmware")
    /\ s[13] = Send("nv_data") /\ s[14] = Send("sec_end")
    /\ s[15] = Send("hw_reset")
  BY DEF PiranhaBoot, MipiStart, OpenImage, Flash, Reset

(* The steps of CrespoBoot, one by one. *)
LEMMA CrespoSteps ==
    LET s == CrespoBoot IN
    /\ Len(s) = 7
    /\ s[1] = Step("read", "image") /\ s[2] = Step("open", "ctl")
    /\ s[3] = Step("power", "on") /\ s[4] = Step("open", "serial")
    /\ s[5] = Send("psi") /\ s[6] = Send("firmware") /\ s[7] = Send("nv_data")
  BY DEF CrespoBoot

(* The steps of AriesBoot, one by one. *)
LEMMA AriesSteps ==
    LET s == AriesBoot IN
    /\ Len(s) = 15
    /\ s[1] = Step("read", "image") /\ s[2] = Step("open", "onedram")
    /\ s[3] = Step("ioctl", "iface_down") /\ s[4] = Step("power", "on")
    /\ s[5] = Step("power", "off") /\ s[6] = Step("open", "serial")
    /\ s[7] = Send("psi") /\ s[8] = Step("ioctl", "onedram_init")
    /\ s[9] = Step("map", "onedram") /\ s[10] = Send("firmware")
    /\ s[11] = Send("nv_data") /\ s[12] = Step("unmap", "onedram")
    /\ s[13] = Step("ioctl", "rel_sem")
    /\ s[14] = Step("ioctl", "onedram_magic")
    /\ s[15] = Step("ioctl", "onedram_deinit")
  BY DEF AriesBoot

(* The steps of GenericBoot, one by one. *)
LEMMA GenericSteps ==
    LET s == GenericBoot IN
    /\ Len(s) = 17
    /\ s[1] = Step("open_by_name", "image") /\ s[2] = Step("map", "image")
    /\ s[3] = Step("power", "off") /\ s[4] = Step("linux_hci", "off")
    /\ s[5] = Optional("power", "on") /\ s[6] = Step("linux_hci", "on")
    /\ s[7] = Step("wait", "device") /\ s[8] = Send("psi")
    /\ s[9] = Send("ebl") /\ s[10] = Send("port_config")
    /\ s[11] = Send("sec_start") /\ s[12] = Send("firmware")
    /\ s[13] = Send("nv_data") /\ s[14] = Send("sec_end")
    /\ s[15] = Send("hw_reset") /\ s[16] = Step("linux_hci", "off")
    /\ s[17] = Step("linux_hci", "on")
  BY DEF GenericBoot, Flash, Reset

(* A step of d. *)
Fine(d, x) == x \in Steps /\ Allowed(d, x)

(* Steps that every device may have. *)
LEMMA SharedSteps ==
    ASSUME NEW d
    PROVE  /\ \A a \in Names : Fine(d, Send(a)) /\ Fine(d, Step("ioctl", a))
           /\ \A op \in {"power", "hci", "enable", "active"},
                 a \in {"on", "off"} : Fine(d, Step(op, a))
           /\ \A a \in {"connected", "hostwake", "online"} :
                 Fine(d, Step("wait", a)) /\ Fine(d, Optional("wait", a))
  <1> USE StepFields DEF Fine, Allowed
  <1>1. \A a \in Names : Fine(d, Send(a)) /\ Fine(d, Step("ioctl", a))
    BY DEF Ops
  <1>2. \A op \in {"power", "hci", "enable", "active"}, a \in {"on", "off"} :
           Fine(d, Step(op, a))
    BY DEF Ops, Names
  <1>3. \A a \in {"connected", "hostwake", "online"} :
           Fine(d, Step("wait", a)) /\ Fine(d, Optional("wait", a))
    BY DEF Ops, Names
  <1> QED
    BY <1>1, <1>2, <1>3

(* Steps with descriptors and buffers, and those of generic. *)
LEMMA OwnSteps ==
    ASSUME NEW d
    PROVE  /\ \A a \in Closes(d) \cap Handles : Fine(d, Step("open", a))
           /\ d \in Mipi /\ "boot" \in Closes(d) =>
                 Fine(d, Step("close", "boot"))
           /\ \A a \in Frees(d) \cap Buffers, op \in {"map", "read", "unmap"} :
                 Fine(d, Step(op, a))
           /\ d = "generic" =>
                 /\ "image" \in Closes(d) =>
                       Fine(d, Step("open_by_name", "image"))
                 /\ Fine(d, Step("wait", "device"))
                 /\ Fine(d, Optional("power", "on"))
                 /\ \A a \in {"on", "off"} : Fine(d, Step("linux_hci", a))
  <1> USE StepFields DEF Fine, Allowed
  <1>1. \A a \in Closes(d) \cap Handles : Fine(d, Step("open", a))
    BY DEF Handles, Ops, Names
  <1>2. d \in Mipi /\ "boot" \in Closes(d) => Fine(d, Step("close", "boot"))
    BY DEF Handles, Ops, Names
  <1>3. \A a \in Frees(d) \cap Buffers, op \in {"map", "read", "unmap"} :
           Fine(d, Step(op, a))
    BY DEF Buffers, Ops, Names
  <1>4. d = "generic" => /\ Fine(d, Step("wait", "device"))
                         /\ Fine(d, Optional("power", "on"))
    BY DEF Ops, Names
  <1>5. d = "generic" =>
           \A a \in {"on", "off"} : Fine(d, Step("linux_hci", a))
    BY DEF Ops, Names
  <1>6. d = "generic" /\ "image" \in Closes(d) =>
           Fine(d, Step("open_by_name", "image"))
    BY DEF Handles, Ops, Names
  <1> QED
    BY <1>1, <1>2, <1>3, <1>4, <1>5, <1>6

(* What the release blocks look at, device by device. *)
LEMMA Looked ==
    /\ \A d \in Hsic \cup {"generic"} :
          Closes(d) = {"image", "boot", "link"} /\ Frees(d) = {"image"}
    /\ Closes("maguro") = {"image", "boot"}
    /\ Frees("maguro") = {"image", "mps"}
    /\ Closes("piranha") = {"image", "boot"} /\ Frees("piranha") = {"image"}
    /\ Closes("crespo") = {"serial", "ctl"} /\ Frees("crespo") = {"image"}
    /\ Closes("aries") = {"serial", "onedram"}
    /\ Frees("aries") = {"image", "onedram"}
  BY DEF Closes, Frees, Hsic, Mipi

(* The steps of I9300Boot are as Scripted and Begun say. *)
LEMMA I9300Scripted ==
    ASSUME NEW d \in Hsic
    PROVE  Scripted(d, I9300Boot) /\ Begun(d, I9300Boot)
  <1> DEFINE s == I9300Boot
  <1>1. /\ Fine(d, Send("psi")) /\ Fine(d, Send("ebl"))
        /\ Fine(d, Send("port_config")) /\ Fine(d, Send("sec_start"))
        /\ Fine(d, Send("firmware")) /\ Fine(d, Send("nv_data"))
        /\ Fine(d, Send("sec_end")) /\ Fine(d, Send("hw_reset"))
    BY SharedSteps DEF Names
  <1>2. /\ Fine(d, Step("open", "image")) /\ Fine(d, Step("map", "image"))
        /\ Fine(d, Step("open", "boot")) /\ Fine(d, Step("open", "link"))
    BY OwnSteps, Looked DEF Handles, Buffers, Mipi
  <1>3. /\ Fine(d, Step("hci", "off")) /\ Fine(d, Step("power", "on"))
        /\ Fine(d, Step("hci", "on")) /\ Fine(d, Step("wait", "connected"))
        /\ Fine(d, Optional("wait", "hostwake"))
        /\ Fine(d, Step("enable", "off")) /\ Fine(d, Step("active", "off"))
        /\ Fine(d, Step("wait", "hostwake")) /\ Fine(d, Step("enable", "on"))
        /\ Fine(d, Step("active", "on"))
    BY SharedSteps
  <1>4. s \in Seq(Steps)
    BY <1>1, <1>2, <1>3
    DEF Fine, I9300Boot, OpenImage, I9300PowerOn, Flash, Reset, LinkRestart
  <1>5. \A k \in 1 .. 25 : Allowed(d, s[k])
    BY <1>1, <1>2, <1>3, I9300Steps, Places DEF Fine
  <1>6. \A k \in 1 .. 25 : s[k].op # "close"
    BY <1>5 DEF Allowed, Hsic, Mipi
  <1>7. \A k \in 1 .. 25 : s[k] = Psi <=> k = 9
    BY I9300Steps, StepEq, Places DEF Psi
  <1>8. /\ Step("hci", "on") # Off("power")
        /\ Step("wait", "connected") # Off("power")
        /\ Send("psi") # Off("power") /\ Send("ebl") # Off("power")
        /\ Send("port_config") # Off("power")
        /\ Send("sec_start") # Off("power") /\ Send("firmware") # Off("power")
        /\ Send("nv_data") # Off("power") /\ Send("sec_end") # Off("power")
        /\ Send("hw_reset") # Off("power")
        /\ Optional("wait", "hostwake") # Off("power")
        /\ Step("enable", "off") # Off("power")
        /\ Step("hci", "off") # Off("power")
        /\ Step("active", "off") # Off("power")
        /\ Step("wait", "hostwake") # Off("power")
        /\ Step("enable", "on") # Off("power")
        /\ Step("active", "on") # Off("power")
    BY StepEq DEF Off
  <1>9. \A k \in 7 .. 25 : s[k] # Off("power")
    BY <1>8, I9300Steps, Places
  <1>10. /\ Step("hci", "on") # Off("enable")
         /\ Step("active", "on") # Off("enable")
         /\ Step("wait", "connected") # Off("enable")
    BY StepEq DEF Off
  <1>11. \A k \in 23 .. 25 : s[k] # Off("enable")
    BY <1>10, I9300Steps, Places
  <1>12. /\ Step("wait", "connected") # Off("active")
    BY StepEq DEF Off
  <1>13. \A k \in 25 .. 25 : s[k] # Off("active")
    BY <1>12, I9300Steps, Places
  <1>14. /\ Step("active", "on") # Off("hci")
         /\ Step("wait", "connected") # Off("hci")
    BY StepEq DEF Off
  <1>15. \A k \in 24 .. 25 : s[k] # Off("hci")
    BY <1>14, I9300Steps, Places
  <1>16. /\ Len(s) = 25 /\ s[8] = Await /\ s[25] = Await /\ s[5] = Off("hci")
         /\ s[6] = On("power") /\ s[22] = On("enable") /\ s[24] = On("active")
         /\ s[23] = On("hci")
    BY I9300Steps DEF Await, On, Off
  <1> HIDE DEF s
  <1>17. \A k \in 2 .. 25 : s[k] = Psi => s[k - 1] = Await
    BY <1>7, <1>16
  <1>18. d # "generic"
    BY d \in Hsic DEF Hsic
  <1>19. Scripted(d, s)
    BY <1>4, <1>5, <1>6, <1>16, <1>17, <1>18 DEF Scripted
  <1>20. Len(s) > 0
    BY <1>16
  <1>21. s[1] # Psi
    BY <1>7
  <1>22. Len(s) + 1 = 26
    BY <1>16
  <1>23. Before(s, Off("hci"))
    BY <1>7, <1>16 DEF Before
  <1>24. \A k \in 1 .. Len(s) : s[k] = Psi => Will(s, "power", k, FALSE)
    BY <1>7, <1>9, <1>16 DEF Will
  <1>25. Will(s, "power", Len(s) + 1, FALSE)
    BY <1>9, <1>16 DEF Will
  <1>26. Will(s, "enable", Len(s) + 1, FALSE)
    BY <1>11, <1>16 DEF Will
  <1>27. Will(s, "active", Len(s) + 1, FALSE)
    BY <1>13, <1>16 DEF Will
  <1>28. Will(s, "hci", Len(s) + 1, FALSE)
    BY <1>15, <1>16 DEF Will
  <1>29. Begun(d, s)
    BY <1>20, <1>21, <1>22, <1>18, <1>23, <1>24, <1>25, <1>26, <1>27, <1>28
    DEF Begun
  <1> QED
    BY <1>19, <1>29 DEF s

(* The steps of Galaxys2Boot are as Scripted and Begun say. *)
LEMMA Galaxys2Scripted ==
    ASSUME NEW d \in Hsic
    PROVE  Scripted(d, Galaxys2Boot) /\ Begun(d, Galaxys2Boot)
  <1> DEFINE s == Galaxys2Boot
  <1>1. /\ Fine(d, Send("psi")) /\ Fine(d, Send("ebl"))
        /\ Fine(d, Send("port_config")) /\ Fine(d, Send("sec_start"))
        /\ Fine(d, Send("firmware")) /\ Fine(d, Send("nv_data"))
        /\ Fine(d, Send("sec_end")) /\ Fine(d, Send("hw_reset"))
    BY SharedSteps DEF Names
  <1>2. /\ Fine(d, Step("open", "image")) /\ Fine(d, Step("map", "image"))
        /\ Fine(d, Step("open", "boot")) /\ Fine(d, Step("open", "link"))
    BY OwnSteps, Looked DEF Handles, Buffers, Mipi
  <1>3. /\ Fine(d, Step("power", "off")) /\ Fine(d, Step("enable", "off"))
        /\ Fine(d, Step("hci", "off")) /\ Fine(d, Step("active", "off"))
        /\ Fine(d, Step("power", "on")) /\ Fine(d, Step("enable", "on"))
        /\ Fine(d, Step("hci", "on")) /\ Fine(d, Step("active", "on"))
        /\ Fine(d, Step("wait", "connected"))
        /\ Fine(d, Optional("wait", "hostwake"))
        /\ Fine(d, Step("wait", "hostwake"))
    BY SharedSteps
  <1>4. s \in Seq(Steps)
    BY <1>1, <1>2, <1>3
    DEF Fine, Galaxys2Boot, OpenImage, Galaxys2PowerOn, Flash, Reset,
        LinkRestart
  <1>5. \A k \in 1 .. 30 : Allowed(d, s[k])
    BY <1>1, <1>2, <1>3, Galaxys2Steps, Places DEF Fine
  <1>6. \A k \in 1 .. 30 : s[k].op # "close"
    BY <1>5 DEF Allowed, Hsic, Mipi
  <1>7. \A k \in 1 .. 30 : s[k] = Psi <=> k = 14
    BY Galaxys2Steps, StepEq, Places DEF Psi
  <1>8. /\ Step("enable", "on") # Off("power")
        /\ Step("hci", "on") # Off("power")
        /\ Step("active", "on") # Off("power")
        /\ Step("wait", "connected") # Off("power")
        /\ Send("psi") # Off("power") /\ Send("ebl") # Off("power")
        /\ Send("port_config") # Off("power")
        /\ Send("sec_start") # Off("power") /\ Send("firmware") # Off("power")
        /\ Send("nv_data") # Off("power") /\ Send("sec_end") # Off("power")
        /\ Send("hw_reset") # Off("power")
        /\ Optional("wait", "hostwake") # Off("power")
        /\ Step("enable", "off") # Off("power")
        /\ Step("hci", "off") # Off("power")
        /\ Step("active", "off") # Off("power")
        /\ Step("wait", "hostwake") # Off("power")
    BY StepEq DEF Off
  <1>9. \A k \in 10 .. 30 : s[k] # Off("power")
    BY <1>8, Galaxys2Steps, Places
  <1>10. /\ Step("hci", "on") # Off("enable")
         /\ Step("active", "on") # Off("enable")
         /\ Step("wait", "connected") # Off("enable")
    BY StepEq DEF Off
  <1>11. \A k \in 28 .. 30 : s[k] # Off("enable")
    BY <1>10, Galaxys2Steps, Places
  <1>12. /\ Step("wait", "connected") # Off("active")
    BY StepEq DEF Off
  <1>13. \A k \in 30 .. 30 : s[k] # Off("active")
    BY <1>12, Galaxys2Steps, Places
  <1>14. /\ Step("active", "on") # Off("hci")
         /\ Step("wait", "connected") # Off("hci")
    BY StepEq DEF Off
  <1>15. \A k \in 29 .. 30 : s[k] # Off("hci")
    BY <1>14, Galaxys2Steps, Places
  <1>16. /\ Len(s) = 30 /\ s[13] = Await /\ s[30] = Await /\ s[7] = Off("hci")
         /\ s[9] = On("power") /\ s[27] = On("enable") /\ s[29] = On("active")
         /\ s[28] = On("hci")
    BY Galaxys2Steps DEF Await, On, Off
  <1> HIDE DEF s
  <1>17. \A k \in 2 .. 30 : s[k] = Psi => s[k - 1] = Await
    BY <1>7, <1>16
  <1>18. d # "generic"
    BY d \in Hsic DEF Hsic
  <1>19. Scripted(d, s)
    BY <1>4, <1>5, <1>6, <1>16, <1>17, <1>18 DEF Scripted
  <1>20. Len(s) > 0
    BY <1>16
  <1>21. s[1] # Psi
    BY <1>7
  <1>22. Len(s) + 1 = 31
    BY <1>16
  <1>23. Before(s, Off("hci"))
    BY <1>7, <1>16 DEF Before
  <1>24. \A k \in 1 .. Len(s) : s[k] = Psi => Will(s, "power", k, FALSE)
    BY <1>7, <1>9, <1>16 DEF Will
  <1>25. Will(s, "power", Len(s) + 1, FALSE)
    BY <1>9, <1>16 DEF Will
  <1>26. Will(s, "enable", Len(s) + 1, FALSE)
    BY <1>11, <1>16 DEF Will
  <1>27. Will(s, "active", Len(s) + 1, FALSE)
    BY <1>13, <1>16 DEF Will
  <1>28. Will(s, "hci", Len(s) + 1, FALSE)
    BY <1>15, <1>16 DEF Will
  <1>29. Begun(d, s)
    BY <1>20, <1>21, <1>22, <1>18, <1>23, <1>24, <1>25, <1>26, <1>27, <1>28
    DEF Begun
  <1> QED
    BY <1>19, <1>29 DEF s

(* The steps of MaguroBoot are as Scripted and Begun say. *)
LEMMA MaguroScripted ==
    Scripted("maguro", MaguroBoot) /\ Begun("maguro", MaguroBoot)
  <1> DEFINE s == MaguroBoot
  <1>1. /\ Fine("maguro", Send("psi")) /\ Fine("maguro", Send("ebl"))
        /\ Fine("maguro", Send("port_config"))
        /\ Fine("maguro", Send("sec_start"))
        /\ Fine("maguro", Send("firmware")) /\ Fine("maguro", Send("nv_data"))
        /\ Fine("maguro", Send("mps_data")) /\ Fine("maguro", Send("sec_end"))
        /\ Fine("maguro", Send("hw_reset"))
        /\ Fine("maguro", Step("ioctl", "boot_off"))
    BY SharedSteps DEF Names
  <1>2. /\ Fine("maguro", Step("open", "image"))
        /\ Fine("maguro", Step("map", "image"))
        /\ Fine("maguro", Step("open", "boot"))
        /\ Fine("maguro", Step("close", "boot"))
        /\ Fine("maguro", Step("read", "mps"))
    BY OwnSteps, Looked DEF Handles, Buffers, Mipi
  <1>3. /\ Fine("maguro", Step("power", "off"))
        /\ Fine("maguro", Step("power", "on"))
        /\ Fine("maguro", Step("wait", "online"))
    BY SharedSteps
  <1>4. s \in Seq(Steps)
    BY <1>1, <1>2, <1>3
    DEF Fine, MaguroBoot, MipiStart, OpenImage, Flash, Reset
  <1>5. \A k \in 1 .. 19 : Allowed("maguro", s[k])
    BY <1>1, <1>2, <1>3, MaguroSteps, Places DEF Fine
  <1>6. \A a : Send(a).op = "send"
    BY StepFields
  <1>7. /\ Step("open", "image").op # "close"
        /\ Step("map", "image").op # "close"
        /\ Step("open", "boot").op # "close"
        /\ Step("power", "off").op # "close"
        /\ Step("power", "on").op # "close"
    BY StepFields
  <1>8. /\ Step("read", "mps").op # "close"
        /\ Step("wait", "online").op # "close"
        /\ Step("ioctl", "boot_off").op # "close"
    BY StepFields
  <1>9. \A k \in 1 .. 19 : k # 7 => s[k].op # "close"
    BY <1>6, <1>7, <1>8, MaguroSteps, Places
  <1>10. s[7].arg = "boot" /\ s[8] = Step("open", "boot")
    BY MaguroSteps, StepFields
  <1>11. \A k \in 1 .. 19 : s[k].op = "close" =>
            k < 19 /\ s[k + 1] = Step("open", s[k].arg)
    BY <1>9, <1>10
  <1>12. \A k \in 1 .. 19 : s[k] = Psi <=> k = 6
    BY MaguroSteps, StepEq, Places DEF Psi
  <1>13. /\ Send("psi") # Off("power") /\ Step("close", "boot") # Off("power")
         /\ Step("open", "boot") # Off("power") /\ Send("ebl") # Off("power")
         /\ Send("port_config") # Off("power")
         /\ Send("sec_start") # Off("power") /\ Send("firmware") # Off("power")
         /\ Send("nv_data") # Off("power")
         /\ Step("read", "mps") # Off("power")
         /\ Send("mps_data") # Off("power") /\ Send("sec_end") # Off("power")
         /\ Send("hw_reset") # Off("power")
         /\ Step("wait", "online") # Off("power")
         /\ Step("ioctl", "boot_off") # Off("power")
    BY StepEq DEF Off
  <1>14. \A k \in 6 .. 19 : s[k] # Off("power")
    BY <1>13, MaguroSteps, Places
  <1>15. /\ Len(s) = 19 /\ s[5] = On("power")
    BY MaguroSteps DEF On
  <1> HIDE DEF s
  <1>16. Scripted("maguro", s)
    BY <1>4, <1>5, <1>11, <1>15 DEF Scripted, Hsic
  <1>17. Len(s) > 0
    BY <1>15
  <1>18. s[1] # Psi
    BY <1>12
  <1>19. Len(s) + 1 = 20
    BY <1>15
  <1>20. \A k \in 1 .. Len(s) : s[k] = Psi => Will(s, "power", k, FALSE)
    BY <1>12, <1>14, <1>15 DEF Will
  <1>21. Begun("maguro", s)
    BY <1>17, <1>18, <1>19, <1>20 DEF Begun, Hsic
  <1> QED
    BY <1>16, <1>21 DEF s

(* The steps of PiranhaBoot are as Scripted and Begun say. *)
LEMMA PiranhaScripted ==
    Scripted("piranha", PiranhaBoot) /\ Begun("piranha", PiranhaBoot)
  <1> DEFINE s == PiranhaBoot
  <1>1. /\ Fine("piranha", Send("psi")) /\ Fine("piranha", Send("ebl"))
        /\ Fine("piranha", Send("port_config"))
        /\ Fine("piranha", Send("sec_start"))
        /\ Fine("piranha", Send("firmware"))
        /\ Fine("piranha", Send("nv_data"))
        /\ Fine("piranha", Send("sec_end"))
        /\ Fine("piranha", Send("hw_reset"))
    BY SharedSteps DEF Names
  <1>2. /\ Fine("piranha", Step("open", "image"))
        /\ Fine("piranha", Step("map", "image"))
        /\ Fine("piranha", Step("open", "boot"))
        /\ Fine("piranha", Step("close", "boot"))
    BY OwnSteps, Looked DEF Handles, Buffers, Mipi
  <1>3. /\ Fine("piranha", Step("power", "off"))
        /\ Fine("piranha", Step("power", "on"))
    BY SharedSteps
  <1>4. s \in Seq(Steps)
    BY <1>1, <1>2, <1>3
    DEF Fine, PiranhaBoot, MipiStart, OpenImage, Flash, Reset
  <1>5. \A k \in 1 .. 15 : Allowed("piranha", s[k])
    BY <1>1, <1>2, <1>3, PiranhaSteps, Places DEF Fine
  <1>6. \A a : Send(a).op = "send"
    BY StepFields
  <1>7. /\ Step("open", "image").op # "close"
        /\ Step("map", "image").op # "close"
        /\ Step("open", "boot").op # "close"
        /\ Step("power", "off").op # "close"
        /\ Step("power", "on").op # "close"
    BY StepFields
  <1>8. \A k \in 1 .. 15 : k # 7 => s[k].op # "close"
    BY <1>6, <1>7, PiranhaSteps, Places
  <1>9. s[7].arg = "boot" /\ s[8] = Step("open", "boot")
    BY PiranhaSteps, StepFields
  <1>10. \A k \in 1 .. 15 : s[k].op = "close" =>
            k < 15 /\ s[k + 1] = Step("open", s[k].arg)
    BY <1>8, <1>9
  <1>11. \A k \in 1 .. 15 : s[k] = Psi <=> k = 6
    BY PiranhaSteps, StepEq, Places DEF Psi
  <1>12. /\ Send("psi") # Off("power") /\ Step("close", "boot") # Off("power")
         /\ Step("open", "boot") # Off("power") /\ Send("ebl") # Off("power")
         /\ Send("port_config") # Off("power")
         /\ Send("sec_start") # Off("power") /\ Send("firmware") # Off("power")
         /\ Send("nv_data") # Off("power") /\ Send("sec_end") # Off("power")
         /\ Send("hw_reset") # Off("power")
    BY StepEq DEF Off
  <1>13. \A k \in 6 .. 15 : s[k] # Off("power")
    BY <1>12, PiranhaSteps, Places
  <1>14. /\ Len(s) = 15 /\ s[5] = On("power")
    BY PiranhaSteps DEF On
  <1> HIDE DEF s
  <1>15. Scripted("piranha", s)
    BY <1>4, <1>5, <1>10, <1>14 DEF Scripted, Hsic
  <1>16. Len(s) > 0
    BY <1>14
  <1>17. s[1] # Psi
    BY <1>11
  <1>18. Len(s) + 1 = 16
    BY <1>14
  <1>19. \A k \in 1 .. Len(s) : s[k] = Psi => Will(s, "power", k, FALSE)
    BY <1>11, <1>13, <1>14 DEF Will
  <1>20. Begun("piranha", s)
    BY <1>16, <1>17, <1>18, <1>19 DEF Begun, Hsic
  <1> QED
    BY <1>15, <1>20 DEF s

(* The steps of CrespoBoot are as Scripted and Begun say. *)
LEMMA CrespoScripted ==
    Scripted("crespo", CrespoBoot) /\ Begun("crespo", CrespoBoot)
  <1> DEFINE s == CrespoBoot
  <1>1. /\ Fine("crespo", Send("psi")) /\ Fine("crespo", Send("firmware"))
        /\ Fine("crespo", Send("nv_data"))
    BY SharedSteps DEF Names
  <1>2. /\ Fine("crespo", Step("read", "image"))
        /\ Fine("crespo", Step("open", "ctl"))
        /\ Fine("crespo", Step("open", "serial"))
    BY OwnSteps, Looked DEF Handles, Buffers, Mipi
  <1>3. /\ Fine("crespo", Step("power", "on"))
    BY SharedSteps
  <1>4. s \in Seq(Steps)
    BY <1>1, <1>2, <1>3 DEF Fine, CrespoBoot
  <1>5. \A k \in 1 .. 7 : Allowed("crespo", s[k])
    BY <1>1, <1>2, <1>3, CrespoSteps, Places DEF Fine
  <1>6. \A k \in 1 .. 7 : s[k].op # "close"
    BY <1>5 DEF Allowed, Hsic, Mipi
  <1>7. \A k \in 1 .. 7 : s[k] = Psi <=> k = 5
    BY CrespoSteps, StepEq, Places DEF Psi
  <1>8. /\ Step("open", "serial") # Off("power") /\ Send("psi") # Off("power")
        /\ Send("firmware") # Off("power") /\ Send("nv_data") # Off("power")
    BY StepEq DEF Off
  <1>9. \A k \in 4 .. 7 : s[k] # Off("power")
    BY <1>8, CrespoSteps, Places
  <1>10. /\ Len(s) = 7 /\ s[3] = On("power")
    BY CrespoSteps DEF On
  <1> HIDE DEF s
  <1>11. Scripted("crespo", s)
    BY <1>4, <1>5, <1>6, <1>10 DEF Scripted, Hsic
  <1>12. Len(s) > 0
    BY <1>10
  <1>13. s[1] # Psi
    BY <1>7
  <1>14. Len(s) + 1 = 8
    BY <1>10
  <1>15. \A k \in 1 .. Len(s) : s[k] = Psi => Will(s, "power", k, FALSE)
    BY <1>7, <1>9, <1>10 DEF Will
  <1>16. Begun("crespo", s)
    BY <1>12, <1>13, <1>14, <1>15 DEF Begun, Hsic
  <1> QED
    BY <1>11, <1>16 DEF s

(* The steps of AriesBoot are as Scripted and Begun say. *)
LEMMA AriesScripted ==
    Scripted("aries", AriesBoot) /\ Begun("aries", AriesBoot)
  <1> DEFINE s == AriesBoot
  <1>1. /\ Fine("aries", Step("ioctl", "iface_down"))
        /\ Fine("aries", Send("psi"))
        /\ Fine("aries", Step("ioctl", "onedram_init"))
        /\ Fine("aries", Send("firmware")) /\ Fine("aries", Send("nv_data"))
        /\ Fine("aries", Step("ioctl", "rel_sem"))
        /\ Fine("aries", Step("ioctl", "onedram_magic"))
        /\ Fine("aries", Step("ioctl", "onedram_deinit"))
    BY SharedSteps DEF Names
  <1>2. /\ Fine("aries", Step("read", "image"))
        /\ Fine("aries", Step("open", "onedram"))
        /\ Fine("aries", Step("open", "serial"))
        /\ Fine("aries", Step("map", "onedram"))
        /\ Fine("aries", Step("unmap", "onedram"))
    BY OwnSteps, Looked DEF Handles, Buffers, Mipi
  <1>3. /\ Fine("aries", Step("power", "on"))
        /\ Fine("aries", Step("power", "off"))
    BY SharedSteps
  <1>4. s \in Seq(Steps)
    BY <1>1, <1>2, <1>3 DEF Fine, AriesBoot
  <1>5. \A k \in 1 .. 15 : Allowed("aries", s[k])
    BY <1>1, <1>2, <1>3, AriesSteps, Places DEF Fine
  <1>6. \A k \in 1 .. 15 : s[k].op # "close"
    BY <1>5 DEF Allowed, Hsic, Mipi
  <1>7. \A k \in 1 .. 15 : s[k] = Psi <=> k = 7
    BY AriesSteps, StepEq, Places DEF Psi
  <1>8. /\ Len(s) = 15
    BY AriesSteps
  <1> HIDE DEF s
  <1>9. Scripted("aries", s)
    BY <1>4, <1>5, <1>6, <1>8 DEF Scripted, Hsic
  <1>10. Len(s) > 0
    BY <1>8
  <1>11. s[1] # Psi
    BY <1>7
  <1>12. Len(s) + 1 = 16
    BY <1>8
  <1>13. Begun("aries", s)
    BY <1>10, <1>11, <1>12 DEF Begun, Hsic
  <1> QED
    BY <1>9, <1>13 DEF s

(* The steps of GenericBoot are as Scripted and Begun say. *)
LEMMA GenericScripted ==
    Scripted("generic", GenericBoot) /\ Begun("generic", GenericBoot)
  <1> DEFINE s == GenericBoot
  <1>1. /\ Fine("generic", Send("psi")) /\ Fine("generic", Send("ebl"))
        /\ Fine("generic", Send("port_config"))
        /\ Fine("generic", Send("sec_start"))
        /\ Fine("generic", Send("firmware"))
        /\ Fine("generic", Send("nv_data"))
        /\ Fine("generic", Send("sec_end"))
        /\ Fine("generic", Send("hw_reset"))
    BY SharedSteps DEF Names
  <1>2. /\ Fine("generic", Step("open_by_name", "image"))
        /\ Fine("generic", Step("map", "image"))
        /\ Fine("generic", Step("linux_hci", "off"))
        /\ Fine("generic", Optional("power", "on"))
        /\ Fine("generic", Step("linux_hci", "on"))
        /\ Fine("generic", Step("wait", "device"))
    BY OwnSteps, Looked DEF Handles, Buffers, Mipi
  <1>3. /\ Fine("generic", Step("power", "off"))
    BY SharedSteps
  <1>4. s \in Seq(Steps)
    BY <1>1, <1>2, <1>3 DEF Fine, GenericBoot, Flash, Reset
  <1>5. \A k \in 1 .. 17 : Allowed("generic", s[k])
    BY <1>1, <1>2, <1>3, GenericSteps, Places DEF Fine
  <1>6. \A k \in 1 .. 17 : s[k].op # "close"
    BY <1>5 DEF Allowed, Hsic, Mipi
  <1>7. \A k \in 1 .. 17 : s[k] = Psi <=> k = 8
    BY GenericSteps, StepEq, Places DEF Psi
  <1>8. /\ Len(s) = 17 /\ s[7] = Appear /\ s[3] = Off("power")
    BY GenericSteps DEF Appear, Off
  <1> HIDE DEF s
  <1>9. \A k \in 2 .. 17 : s[k] = Psi => s[k - 1] = Appear
    BY <1>7, <1>8
  <1>10. Scripted("generic", s)
    BY <1>4, <1>5, <1>6, <1>8, <1>9 DEF Scripted, Hsic
  <1>11. Len(s) > 0
    BY <1>8
  <1>12. s[1] # Psi
    BY <1>7
  <1>13. Len(s) + 1 = 18
    BY <1>8
  <1>14. Before(s, Off("power"))
    BY <1>7, <1>8 DEF Before
  <1>15. Begun("generic", s)
    BY <1>11, <1>12, <1>13, <1>14 DEF Begun, Hsic
  <1> QED
    BY <1>10, <1>15 DEF s

(* Every boot function is as Scripted and Begun say. *)
LEMMA Scripts ==
    ASSUME NEW d \in Known
    PROVE  Scripted(d, Script(d)) /\ Begun(d, Script(d))
  <1>1. CASE d \in Hsic
    <2>1. CASE d = "galaxys2"
      BY <1>1, <2>1, Galaxys2Scripted DEF Script
    <2>2. CASE d \in {"i9300", "n7100", "n5100"}
      BY <1>1, <2>2, I9300Scripted DEF Script, N7100Boot, N5100Boot
    <2> QED
      BY <1>1, <2>1, <2>2 DEF Hsic
  <1>2. CASE d = "maguro"
    BY <1>2, MaguroScripted DEF Script
  <1>3. CASE d = "piranha"
    BY <1>3, PiranhaScripted DEF Script
  <1>4. CASE d = "crespo"
    BY <1>4, CrespoScripted DEF Script
  <1>5. CASE d = "aries"
    BY <1>5, AriesScripted DEF Script
  <1>6. CASE d = "generic"
    BY <1>6, GenericScripted DEF Script
  <1> QED
    BY <1>1, <1>2, <1>3, <1>4, <1>5, <1>6 DEF Known, Mipi

-----------------------------------------------------------------------------
(* The rest after a first step. *)
LEMMA RestFacts ==
    ASSUME NEW s \in Seq(Steps), s # <<>>
    PROVE  /\ Tail(s) \in Seq(Steps) /\ Len(s) \in Nat /\ Len(s) > 0
           /\ Len(Tail(s)) = Len(s) - 1 /\ Head(s) = s[1]
           /\ \A k \in 1 .. Len(s) - 1 : Tail(s)[k] = s[k + 1]
           /\ s[1] \in Steps
  BY HeadTailProperties, ElementOfSeq

(* What Scripted says of all steps it says of the rest. *)
LEMMA ScriptedRest ==
    ASSUME NEW d, NEW s, Scripted(d, s), s # <<>>
    PROVE  Scripted(d, Tail(s)) /\ Allowed(d, Head(s))
  <1> DEFINE t == Tail(s)
  <1>1. /\ t \in Seq(Steps) /\ Len(s) \in Nat /\ Len(s) > 0
        /\ Len(t) = Len(s) - 1 /\ Head(s) = s[1]
        /\ \A k \in 1 .. Len(s) - 1 : t[k] = s[k + 1]
    BY RestFacts DEF Scripted
  <1> HIDE DEF t
  <1>2. \A k \in 1 .. Len(t) : Allowed(d, t[k])
    BY <1>1 DEF Scripted
  <1>3. \A k \in 1 .. Len(t) : t[k].op = "close" =>
           k < Len(t) /\ t[k + 1] = Step("open", t[k].arg)
    <2> SUFFICES ASSUME NEW k \in 1 .. Len(t), t[k].op = "close"
                 PROVE  k < Len(t) /\ t[k + 1] = Step("open", t[k].arg)
      OBVIOUS
    <2>1. k + 1 \in 1 .. Len(s) /\ t[k] = s[k + 1]
      BY <1>1
    <2>2. k + 1 < Len(s) /\ s[(k + 1) + 1] = Step("open", t[k].arg)
      BY <2>1 DEF Scripted
    <2>3. k + 1 \in 1 .. Len(s) - 1
      BY <1>1, <2>1, <2>2
    <2> QED
      BY <1>1, <2>2, <2>3
  <1>4. \A k \in 2 .. Len(t) : t[k] = Psi =>
           /\ d \in Hsic => t[k - 1] = Await
           /\ d = "generic" => t[k - 1] = Appear
    <2> SUFFICES ASSUME NEW k \in 2 .. Len(t), t[k] = Psi
                 PROVE  /\ d \in Hsic => t[k - 1] = Await
                        /\ d = "generic" => t[k - 1] = Appear
      OBVIOUS
    <2>1. /\ k + 1 \in 2 .. Len(s) /\ s[k + 1] = Psi /\ (k + 1) - 1 = k
          /\ k - 1 \in 1 .. Len(s) - 1 /\ (k - 1) + 1 = k
      BY <1>1
    <2>2. t[k - 1] = s[k]
      BY <1>1, <2>1
    <2> QED
      BY <2>1, <2>2 DEF Scripted
  <1>5. d \in Hsic /\ Len(t) > 0 => t[Len(t)] = Await
    <2>1. Len(t) > 0 => Len(t) \in 1 .. Len(s) - 1 /\ Len(t) + 1 = Len(s)
      BY <1>1
    <2> QED
      BY <1>1, <2>1 DEF Scripted
  <1>6. Allowed(d, Head(s))
    BY <1>1 DEF Scripted
  <1> QED
    BY <1>1, <1>2, <1>3, <1>4, <1>5, <1>6 DEF Scripted, t

(* A thing that will be on will still be when the first step is done,      *)
(* provided that this step switches it as it says.                         *)
LEMMA WillRest ==
    ASSUME NEW s \in Seq(Steps), s # <<>>, NEW op,
           NEW k \in 2 .. Len(s) + 1,
           NEW now \in BOOLEAN, NEW then \in BOOLEAN,
           Will(s, op, k, now),
           Head(s) = On(op) => then,
           Head(s) # Off(op) /\ now => then
    PROVE  Will(Tail(s), op, k - 1, then)
  <1> DEFINE t == Tail(s)
  <1>1. /\ Len(s) \in Nat /\ Head(s) = s[1]
        /\ \A i \in 1 .. Len(s) - 1 : t[i] = s[i + 1]
    BY RestFacts
  <1> HIDE DEF t
  <1>2. \A i \in 1 .. (k - 1) - 1 :
           i + 1 \in 1 .. k - 1 /\ t[i] = s[i + 1]
    BY <1>1
  <1>3. CASE now /\ \A i \in 1 .. k - 1 : s[i] # Off(op)
    <2>1. then
      BY <1>1, <1>3
    <2>2. \A i \in 1 .. (k - 1) - 1 : t[i] # Off(op)
      BY <1>2, <1>3
    <2> QED
      BY <2>1, <2>2 DEF Will, t
  <1>4. ASSUME NEW j \in 1 .. k - 1, s[j] = On(op),
               \A i \in j + 1 .. k - 1 : s[i] # Off(op)
        PROVE  Will(t, op, k - 1, then)
    <2>1. CASE j = 1
      <3>1. \A i \in 1 .. (k - 1) - 1 : t[i] # Off(op)
        BY <1>2, <1>4, <2>1
      <3> QED
        BY <1>1, <1>4, <2>1, <3>1 DEF Will
    <2>2. CASE j > 1
      <3>1. /\ j - 1 \in 1 .. (k - 1) - 1 /\ (j - 1) + 1 = j
            /\ \A i \in (j - 1) + 1 .. (k - 1) - 1 :
                  i \in 1 .. (k - 1) - 1 /\ i + 1 \in j + 1 .. k - 1
        BY <2>2
      <3>2. t[j - 1] = On(op)
        BY <1>2, <1>4, <3>1
      <3>3. \A i \in (j - 1) + 1 .. (k - 1) - 1 : t[i] # Off(op)
        BY <1>2, <1>4, <3>1
      <3> QED
        BY <3>1, <3>2, <3>3 DEF Will
    <2> QED
      BY <2>1, <2>2
  <1> QED
    BY <1>3, <1>4 DEF Will, t

(* A thing that will be on will be also when it comes on by itself. *)
LEMMA WillRises ==
    ASSUME NEW s, NEW op, NEW k, NEW now \in BOOLEAN, NEW then \in BOOLEAN,
           Will(s, op, k, now), now => then
    PROVE  Will(s, op, k, then)
  BY DEF Will

(* A step that comes before any PSI is the first one or comes later. *)
LEMMA BeforeRest ==
    ASSUME NEW s \in Seq(Steps), s # <<>>, NEW x, Before(s, x)
    PROVE  Head(s) # Psi /\ (Head(s) = x \/ Before(Tail(s), x))
  <1> DEFINE t == Tail(s)
  <1>1. /\ Len(s) \in Nat /\ Head(s) = s[1] /\ Len(t) = Len(s) - 1
        /\ \A i \in 1 .. Len(s) - 1 : t[i] = s[i + 1]
    BY RestFacts
  <1> HIDE DEF t
  <1>2. PICK j \in 1 .. Len(s) : s[j] = x /\ \A i \in 1 .. j : s[i] # Psi
    BY DEF Before
  <1>3. Head(s) # Psi
    BY <1>1, <1>2
  <1>4. CASE j = 1
    BY <1>1, <1>2, <1>3, <1>4
  <1>5. CASE j > 1
    <2>1. /\ j - 1 \in 1 .. Len(s) - 1 /\ (j - 1) + 1 = j
          /\ j - 1 \in 1 .. Len(t)
          /\ \A i \in 1 .. j - 1 : i \in 1 .. Len(s) - 1 /\ i + 1 \in 1 .. j
      BY <1>1, <1>5
    <2>2. t[j - 1] = x
      BY <1>1, <1>2, <2>1
    <2>3. \A i \in 1 .. j - 1 : t[i] # Psi
      BY <1>1, <1>2, <2>1
    <2> QED
      BY <1>3, <2>1, <2>2, <2>3 DEF Before, t
  <1> QED
    BY <1>4, <1>5

-----------------------------------------------------------------------------
(* The first of the remaining steps switches op as it says, or leaves it.  *)
Switched(op, now, then) ==
    /\ Head(todo) = On(op) => then
    /\ Head(todo) # Off(op) /\ now => then

(* What is known stays known. *)
Stable ==
    /\ half => half'
    /\ blind => blind'
    /\ (connected => fresh) => (connected' => fresh')

(* A step of the boot function that goes on to the next one. *)
Advances ==
    /\ rc = "running" /\ rc' = "running" /\ device' = device
    /\ todo # <<>> /\ todo' = Tail(todo)
    /\ TypeOK' /\ Wired' /\ Stable
    /\ Switched("power", power, power')
    /\ device \in Hsic => /\ Switched("enable", enabled, enabled')
                          /\ Switched("active", active, active')
                          /\ Switched("hci", bus # {}, bus' # {})
    /\ Head(todo) = Off("hci") => half' \/ ~connected'
    /\ Head(todo) = Off("power") => ~connected'
    /\ Head(todo) = Await => connected' \/ blind'
    /\ Head(todo) = Appear => connected'

(* Which operation the steps named here have. *)
LEMMA NamedSteps ==
    /\ \A op : /\ On(op).op = op /\ On(op).arg = "on" /\ On(op).fatal
               /\ Off(op).op = op /\ Off(op).arg = "off" /\ Off(op).fatal
    /\ Await.op = "wait" /\ Await.arg = "connected" /\ Await.fatal
    /\ Appear.op = "wait" /\ Appear.arg = "device" /\ Appear.fatal
    /\ Psi.op = "send" /\ Psi.arg = "psi" /\ Psi.fatal
  BY StepFields DEF On, Off, Await, Appear, Psi

(* Steps that leave the hardware alone. *)
LEMMA KeepingAdvances ==
    ASSUME TypeOK, Wired, rc = "running", todo # <<>>, Advance,
           Head(todo).op \notin {"power", "hci", "linux_hci", "enable",
                                 "active", "wait"}
             \/ ~Head(todo).fatal,
           UNCHANGED <<call, modem, link, doubts>>,
           handles' \in [Handles -> {"unset", "open", "closed"}],
           memory' \in [Buffers -> {"null", "held", "failed"}],
           twice' = twice
    PROVE  Advances
  <1>1. Head(todo) # Await /\ Head(todo) # Appear
    BY NamedSteps
  <1>2. \A op \in {"power", "hci", "enable", "active"} :
           Head(todo) # On(op) /\ Head(todo) # Off(op)
    BY NamedSteps
  <1>3. /\ rc' = "running" /\ device' = device /\ todo' = Tail(todo)
        /\ n' = 0 /\ UNCHANGED <<power, awake, online, bus, enabled, active,
                                 connected, fresh, blind, half>>
    BY DEF Advance, call, modem, link, doubts
  <1>4. TypeOK' /\ Wired'
    BY <1>3 DEF TypeOK, Wired
  <1>5. Stable
    BY <1>3 DEF Stable
  <1> QED
    BY <1>1, <1>2, <1>3, <1>4, <1>5 DEF Advances, Switched

LEMMA OpenAdvances ==
    ASSUME TypeOK, Wired,
           \/ Open \/ OpenByName \/ Close \/ Map \/ Unmap \/ Ioctl
           \/ Tolerated
    PROVE  Advances
  <1>1. CASE Open
    BY <1>1, KeepingAdvances DEF Open, At, TypeOK
  <1>2. CASE Close
    BY <1>2, KeepingAdvances DEF Close, At, TypeOK
  <1>3. CASE Map
    BY <1>3, KeepingAdvances DEF Map, At, TypeOK
  <1>4. CASE Unmap
    BY <1>4, KeepingAdvances DEF Unmap, At, TypeOK
  <1>5. CASE Ioctl
    BY <1>5, KeepingAdvances DEF Ioctl, At, TypeOK, owned
  <1>6. CASE Tolerated
    BY <1>6, KeepingAdvances DEF Tolerated, TypeOK, owned
  <1>7. CASE OpenByName
    <2>1. /\ rc = "running" /\ todo # <<>> /\ Advance /\ twice' = twice
          /\ Head(todo).op = "open_by_name"
          /\ UNCHANGED <<call, modem, link, doubts>>
      BY <1>7 DEF OpenByName, At
    <2>2. /\ handles' \in [Handles -> {"unset", "open", "closed"}]
          /\ memory' \in [Buffers -> {"null", "held", "failed"}]
      BY <1>7 DEF OpenByName, TypeOK
    <2> QED
      BY <2>1, <2>2, KeepingAdvances
  <1> QED
    BY <1>1, <1>2, <1>3, <1>4, <1>5, <1>6, <1>7

(* The next step, when it is one that switches something. *)
LEMMA Switching ==
    ASSUME Plan, todo # <<>>,
           NEW op \in {"power", "hci", "enable", "active"},
           Head(todo).op = op
    PROVE  /\ Head(todo).arg # "on" => Head(todo) = Off(op)
           /\ Head(todo) # Await /\ Head(todo) # Appear
           /\ Head(todo) = On(op) => Head(todo).arg = "on"
           /\ Head(todo) = Off(op) => Head(todo).arg = "off"
           /\ \A other : other # op =>
                Head(todo) # On(other) /\ Head(todo) # Off(other)
  <1>1. Head(todo) \in Steps /\ Allowed(device, Head(todo))
    BY RestFacts, ScriptedRest DEF Plan, Scripted
  <1>2. ASSUME Head(todo).arg # "on" PROVE Head(todo) = Off(op)
    <2>1. Head(todo).arg = "off" /\ Head(todo).fatal = TRUE
      BY <1>1, <1>2 DEF Allowed, Steps
    <2> QED
      BY <1>1, <2>1 DEF Steps, Off, Step
  <1> QED
    BY <1>2, NamedSteps

LEMMA PowerAdvances ==
    ASSUME TypeOK, Plan, Wired, Power
    PROVE  Advances
  <1>1. /\ rc = "running" /\ todo # <<>> /\ Head(todo).op = "power"
        /\ rc' = "running" /\ device' = device /\ todo' = Tail(todo)
        /\ n' = 0
        /\ UNCHANGED <<handles, memory, twice, bus, enabled, active, blind,
                       half>>
    BY DEF Power, At, Advance, call, owned, doubts
  <1>2. /\ Head(todo).arg = "on" => power' /\ UNCHANGED <<connected, fresh>>
        /\ Head(todo).arg # "on" => ~power' /\ ~connected' /\ ~fresh'
        /\ power' \in BOOLEAN /\ connected' \in BOOLEAN /\ fresh' \in BOOLEAN
        /\ awake' \in BOOLEAN /\ online' \in BOOLEAN
    BY DEF Power, Arg, LinkDrops, TypeOK
  <1>3. TypeOK'
    BY <1>1, <1>2 DEF TypeOK
  <1>4. Wired' /\ Stable
    BY <1>1, <1>2 DEF Wired, Stable
  <1> QED
    BY <1>1, <1>2, <1>3, <1>4, Switching DEF Advances, Switched

(* Both controllers switched off leave no bus and no link. *)
LEMMA HciAdvances ==
    ASSUME TypeOK, Plan, Wired, HciPower
    PROVE  Advances
  <1>1. /\ rc = "running" /\ todo # <<>> /\ Head(todo).op = "hci"
        /\ rc' = "running" /\ device' = device /\ todo' = Tail(todo)
        /\ n' = 0
        /\ UNCHANGED <<handles, memory, twice, power, awake, online, enabled,
                       active, blind>>
    BY DEF HciPower, At, Advance, call, owned, modem
  <1>2. PICK switched \in (SUBSET {"ehci", "ohci"}) \ {{}} :
           /\ bus' = IF Arg = "on" THEN bus \cup switched ELSE bus \ switched
           /\ half' = (half \/ switched # {"ehci", "ohci"})
    BY DEF HciPower
  <1>3. /\ bus' = {} => ~connected' /\ ~fresh'
        /\ bus' # {} => UNCHANGED <<connected, fresh>>
        /\ connected' \in BOOLEAN /\ fresh' \in BOOLEAN
    BY DEF HciPower, LinkDrops, TypeOK
  <1>4. half' \in BOOLEAN /\ (half => half')
    BY <1>2 DEF TypeOK
  <1>5. /\ bus' \in SUBSET {"ehci", "ohci"}
        /\ Arg = "on" => bus' # {}
        /\ Arg # "on" => half' \/ bus' = {}
    BY <1>2 DEF TypeOK
  <1>6. TypeOK'
    BY <1>1, <1>3, <1>4, <1>5 DEF TypeOK
  <1>7. Wired' /\ Stable
    BY <1>1, <1>3, <1>4 DEF Wired, Stable
  <1>8. Switched("hci", bus # {}, bus' # {})
    BY <1>1, <1>5, Switching DEF Switched, Arg
  <1>9. Head(todo) = Off("hci") => half' \/ ~connected'
    BY <1>1, <1>3, <1>5, NamedSteps DEF Arg
  <1> QED
    BY <1>1, <1>6, <1>7, <1>8, <1>9, Switching DEF Advances, Switched

(* generic *)
LEMMA LinuxHciAdvances ==
    ASSUME TypeOK, Plan, Wired, LinuxHciPower
    PROVE  Advances
  <1>1. /\ rc = "running" /\ todo # <<>> /\ Head(todo).op = "linux_hci"
        /\ rc' = "running" /\ device' = device /\ todo' = Tail(todo)
        /\ n' = 0
        /\ UNCHANGED <<handles, memory, twice, power, awake, online, enabled,
                       blind>>
    BY DEF LinuxHciPower, At, Advance, call, owned, modem
  <1>2. PICK ehci \in BOOLEAN, others \in BOOLEAN :
           /\ bus' = IF ~ehci THEN bus
                     ELSE IF Arg = "on" THEN {"ehci"} ELSE {}
           /\ active' \in IF others THEN {Arg = "on"}
                         ELSE IF Arg = "on" THEN {active, TRUE} ELSE {active}
           /\ half' = (half \/ ~ehci \/ ~others)
    BY DEF LinuxHciPower
  <1>3. /\ bus' = {} => ~connected' /\ ~fresh'
        /\ bus' # {} => UNCHANGED <<connected, fresh>>
        /\ connected' \in BOOLEAN /\ fresh' \in BOOLEAN
    BY DEF LinuxHciPower, LinkDrops, TypeOK
  <1>4. /\ half' \in BOOLEAN /\ (half => half') /\ active' \in BOOLEAN
        /\ bus' \in SUBSET {"ehci", "ohci"}
    BY <1>2 DEF TypeOK
  <1>5. TypeOK'
    BY <1>1, <1>3, <1>4 DEF TypeOK
  <1>6. Wired' /\ Stable
    BY <1>1, <1>3, <1>4 DEF Wired, Stable
  <1>7. device \notin Hsic
    BY <1>1, ScriptedRest DEF Plan, Allowed, Hsic
  <1>8. /\ Head(todo) # Await /\ Head(todo) # Appear
        /\ \A op : op # "linux_hci" =>
              Head(todo) # On(op) /\ Head(todo) # Off(op)
    BY <1>1, NamedSteps
  <1> QED
    BY <1>1, <1>5, <1>6, <1>7, <1>8 DEF Advances, Switched

LEMMA ControlAdvances ==
    ASSUME TypeOK, Plan, Wired, LinkControlEnable \/ LinkControlActive
    PROVE  Advances
  <1>1. /\ rc = "running" /\ todo # <<>>
        /\ rc' = "running" /\ device' = device /\ todo' = Tail(todo)
        /\ n' = 0
        /\ UNCHANGED <<handles, memory, twice, power, awake, online, bus,
                       connected, fresh, blind, half>>
    BY DEF LinkControlEnable, LinkControlActive, At, Advance, call, owned,
           modem, doubts
  <1>2. /\ Head(todo).op \in {"enable", "active"}
        /\ Head(todo).op = "enable" =>
              enabled' = (Head(todo).arg = "on") /\ active' = active
        /\ Head(todo).op = "active" =>
              active' = (Head(todo).arg = "on") /\ enabled' = enabled
    BY DEF LinkControlEnable, LinkControlActive, At, Arg
  <1>3. TypeOK'
    BY <1>1, <1>2 DEF TypeOK
  <1>4. Wired' /\ Stable
    BY <1>1 DEF Wired, Stable
  <1>5. CASE Head(todo).op = "enable"
    <2>1. (Head(todo).arg = "on" => enabled') /\ active' = active
      BY <1>2, <1>5
    <2>2. Switched("enable", enabled, enabled')
      BY <1>1, <1>5, <2>1, Switching DEF Switched
    <2>3. /\ Head(todo) # Await /\ Head(todo) # Appear
          /\ \A o \in {"power", "hci", "active"} :
                Head(todo) # On(o) /\ Head(todo) # Off(o)
      BY <1>1, <1>5, Switching
    <2> QED
      BY <1>1, <1>3, <1>4, <2>1, <2>2, <2>3 DEF Advances, Switched
  <1>6. CASE Head(todo).op = "active"
    <2>1. (Head(todo).arg = "on" => active') /\ enabled' = enabled
      BY <1>2, <1>6
    <2>2. Switched("active", active, active')
      BY <1>1, <1>6, <2>1, Switching DEF Switched
    <2>3. /\ Head(todo) # Await /\ Head(todo) # Appear
          /\ \A o \in {"power", "hci", "enable"} :
                Head(todo) # On(o) /\ Head(todo) # Off(o)
      BY <1>1, <1>6, Switching
    <2> QED
      BY <1>1, <1>3, <1>4, <2>1, <2>2, <2>3 DEF Advances, Switched
  <1> QED
    BY <1>2, <1>5, <1>6

(* A wait that ended has seen what it waited for, or a failed query. *)
LEMMA WaitAdvances ==
    ASSUME TypeOK, Plan, Wired, WaitSeen
    PROVE  Advances
  <1>1. /\ rc = "running" /\ todo # <<>> /\ Head(todo).op = "wait"
        /\ rc' = "running" /\ device' = device /\ todo' = Tail(todo)
        /\ n' = 0
        /\ UNCHANGED <<memory, twice, power, awake, online, bus, enabled,
                       active, connected, fresh, half>>
    BY DEF WaitSeen, At, Advance, call, modem, link
  <1>2. Head(todo).arg \in {"connected", "hostwake", "online", "device"}
    <2>1. Allowed(device, Head(todo))
      BY <1>1, ScriptedRest DEF Plan
    <2> QED
      BY <1>1, <2>1 DEF Allowed
  <1>3. /\ Head(todo).arg \in {"connected", "device"} => (Raised <=> connected)
        /\ Raised \in BOOLEAN
    BY <1>2 DEF Raised, Arg, TypeOK
  <1>4. /\ Raised \/ Head(todo).arg \in {"connected", "hostwake"}
        /\ blind' = (blind \/ ~Raised)
        /\ handles' \in [Handles -> {"unset", "open", "closed"}]
    BY DEF WaitSeen, Arg, TypeOK
  <1>5. TypeOK'
    BY <1>1, <1>3, <1>4 DEF TypeOK
  <1>6. Wired' /\ Stable
    BY <1>1, <1>4 DEF Wired, Stable
  <1>7. /\ Head(todo) = Await => connected' \/ blind'
        /\ Head(todo) = Appear => connected'
    BY <1>1, <1>3, <1>4, NamedSteps
  <1>8. \A op : op # "wait" => Head(todo) # On(op) /\ Head(todo) # Off(op)
    BY <1>1, NamedSteps
  <1> QED
    BY <1>1, <1>5, <1>6, <1>7, <1>8 DEF Advances, Switched

LEMMA SendAdvances ==
    ASSUME TypeOK, Plan, Wired, SendImage
    PROVE  Advances
  <1>1. /\ rc = "running" /\ todo # <<>> /\ Head(todo).op = "send"
        /\ rc' = "running" /\ device' = device /\ todo' = Tail(todo)
        /\ n' = 0
        /\ UNCHANGED <<handles, memory, twice, power, awake, online, bus,
                       enabled, active, blind, half>>
    BY DEF SendImage, At, Advance, call, owned, modem, doubts
  <1>2. (~connected' /\ ~fresh') \/ UNCHANGED <<connected, fresh>>
    BY DEF SendImage, LinkDrops
  <1>3. TypeOK'
    BY <1>1, <1>2 DEF TypeOK, SendImage, LinkDrops
  <1>4. Wired' /\ Stable
    BY <1>1, <1>2 DEF Wired, Stable
  <1>5. /\ Head(todo) # Await /\ Head(todo) # Appear
        /\ \A op : op # "send" => Head(todo) # On(op) /\ Head(todo) # Off(op)
    BY <1>1, NamedSteps
  <1> QED
    BY <1>1, <1>3, <1>4, <1>5 DEF Advances, Switched

LEMMA BootAdvances ==
    ASSUME TypeOK, Plan, Wired,
           \/ Open \/ OpenByName \/ Close \/ Map \/ Unmap \/ Power \/ HciPower
           \/ LinuxHciPower \/ LinkControlEnable \/ LinkControlActive
           \/ WaitSeen \/ Tolerated \/ SendImage \/ Ioctl
    PROVE  Advances
  BY OpenAdvances, PowerAdvances, HciAdvances, LinuxHciAdvances,
     ControlAdvances, WaitAdvances, SendAdvances

-----------------------------------------------------------------------------
(* What the boot function knows of the hardware, when it goes on. *)
LEMMA AdvancesKeep ==
    ASSUME DInv, Advances
    PROVE  /\ TypeOK' /\ Plan' /\ Wired' /\ Renewed' /\ Powered' /\ Ending'
           /\ Awaited' /\ LinkUpAtReturn'
  <1>1. /\ rc = "running" /\ rc' = "running" /\ device' = device
        /\ todo # <<>> /\ todo' = Tail(todo) /\ TypeOK' /\ Wired' /\ Stable
    BY DEF Advances
  <1>2. /\ Scripted(device, todo) /\ todo \in Seq(Steps)
        /\ Scripted(device, Tail(todo)) /\ Allowed(device, Head(todo))
    BY <1>1, ScriptedRest DEF DInv, Plan, Scripted
  <1>3. Plan'
    BY <1>1, <1>2 DEF Plan
  <1>4. /\ Len(todo) \in Nat /\ Len(todo) > 0 /\ Head(todo) = todo[1]
        /\ Len(Tail(todo)) = Len(todo) - 1
        /\ \A k \in 1 .. Len(todo) - 1 : Tail(todo)[k] = todo[k + 1]
    BY <1>1, <1>2, RestFacts
  <1>5. Renewed'
    <2>1. device \in Hsic => half' \/ (connected' => fresh')
                                   \/ Before(Tail(todo), Off("hci"))
      BY <1>1, <1>2, BeforeRest DEF DInv, Renewed, Stable, Advances
    <2>2. device = "generic" => (connected' => fresh')
                                   \/ Before(Tail(todo), Off("power"))
      BY <1>1, <1>2, BeforeRest DEF DInv, Renewed, Stable, Advances
    <2> QED
      BY <1>1, <2>1, <2>2 DEF Renewed
  <1>6. power \in BOOLEAN /\ power' \in BOOLEAN
    BY <1>1 DEF DInv, TypeOK
  <1>7. Powered'
    <2> SUFFICES ASSUME device \notin {"aries", "generic"},
                        NEW k \in 1 .. Len(Tail(todo)), Tail(todo)[k] = Psi
                 PROVE  Will(Tail(todo), "power", k, power')
      BY <1>1 DEF Powered
    <2>1. /\ k + 1 \in 1 .. Len(todo) /\ todo[k + 1] = Psi
          /\ k + 1 \in 2 .. Len(todo) + 1 /\ (k + 1) - 1 = k
      BY <1>4
    <2>2. Will(todo, "power", k + 1, power)
      BY <1>1, <2>1 DEF DInv, Powered
    <2>3. /\ Head(todo) = On("power") => power'
          /\ Head(todo) # Off("power") /\ power => power'
      BY DEF Advances, Switched
    <2>4. Will(Tail(todo), "power", (k + 1) - 1, power')
      BY <1>1, <1>2, <1>6, <2>1, <2>2, <2>3, WillRest
    <2> QED
      BY <2>1, <2>4
  <1>8. Ending'
    <2> SUFFICES ASSUME device \in Hsic
                 PROVE  LET k == Len(Tail(todo)) + 1 IN
                        /\ Will(Tail(todo), "power", k, power')
                        /\ Will(Tail(todo), "enable", k, enabled')
                        /\ Will(Tail(todo), "active", k, active')
                        /\ Will(Tail(todo), "hci", k, bus' # {})
      BY <1>1 DEF Ending
    <2> DEFINE k == Len(todo) + 1
    <2>1. k \in 2 .. Len(todo) + 1 /\ k - 1 = Len(Tail(todo)) + 1
      BY <1>4
    <2>2. /\ Will(todo, "power", k, power) /\ Will(todo, "enable", k, enabled)
          /\ Will(todo, "active", k, active)
          /\ Will(todo, "hci", k, bus # {})
      BY <1>1 DEF DInv, Ending
    <2> HIDE DEF k
    <2>3. /\ enabled \in BOOLEAN /\ enabled' \in BOOLEAN
          /\ active \in BOOLEAN /\ active' \in BOOLEAN
          /\ (bus # {}) \in BOOLEAN /\ (bus' # {}) \in BOOLEAN
      BY <1>1 DEF DInv, TypeOK
    <2>4. Will(Tail(todo), "power", k - 1, power')
      BY <1>1, <1>2, <1>6, <2>1, <2>2, WillRest DEF Advances, Switched
    <2>5. Will(Tail(todo), "enable", k - 1, enabled')
      BY <1>1, <1>2, <2>1, <2>2, <2>3, WillRest DEF Advances, Switched
    <2>6. Will(Tail(todo), "active", k - 1, active')
      BY <1>1, <1>2, <2>1, <2>2, <2>3, WillRest DEF Advances, Switched
    <2>7. Will(Tail(todo), "hci", k - 1, bus' # {})
      BY <1>1, <1>2, <2>1, <2>2, <2>3, WillRest DEF Advances, Switched
    <2> QED
      BY <2>1, <2>4, <2>5, <2>6, <2>7
  <1>9. Awaited'
    <2>1. device \in Hsic /\ Tail(todo) = <<>> => Head(todo) = Await
      <3> SUFFICES ASSUME device \in Hsic, Tail(todo) = <<>>
                   PROVE  Head(todo) = Await
        OBVIOUS
      <3>1. Len(Tail(todo)) = 0
        BY EmptySeq
      <3>2. Len(todo) = 1
        BY <1>4, <3>1
      <3> QED
        BY <1>2, <1>4, <3>2 DEF Scripted
    <2>2. Tail(todo) # <<>> /\ Tail(todo)[1] = Psi =>
             /\ device \in Hsic => Head(todo) = Await
             /\ device = "generic" => Head(todo) = Appear
      <3> SUFFICES ASSUME Tail(todo) # <<>>, Tail(todo)[1] = Psi
                   PROVE  /\ device \in Hsic => Head(todo) = Await
                          /\ device = "generic" => Head(todo) = Appear
        OBVIOUS
      <3>1. Tail(todo) \in Seq(Steps)
        BY <1>2 DEF Scripted
      <3>2. Len(Tail(todo)) \in Nat /\ Len(Tail(todo)) # 0
        BY <3>1, EmptySeq
      <3>3. 2 \in 2 .. Len(todo) /\ todo[2] = Psi /\ 2 - 1 = 1
        BY <1>4, <3>2
      <3> QED
        BY <1>2, <1>4, <3>3 DEF Scripted
    <2>3. device \in Hsic /\ (Tail(todo) = <<>> \/ Tail(todo)[1] = Psi) =>
             connected' \/ blind'
      BY <2>1, <2>2 DEF Advances
    <2>4. device = "generic" /\ Tail(todo) # <<>> /\ Tail(todo)[1] = Psi =>
             connected'
      BY <2>2 DEF Advances
    <2> QED
      BY <1>1, <2>3, <2>4 DEF Awaited
  <1>10. LinkUpAtReturn'
    BY <1>1 DEF LinkUpAtReturn
  <1> QED
    BY <1>1, <1>3, <1>5, <1>7, <1>8, <1>9, <1>10

-----------------------------------------------------------------------------
(* A closed descriptor is the one that the next step opens. *)
LEMMA ClosedIsNext ==
    ASSUME DInv, rc = "running", todo # <<>>, NEW h \in Handles,
           handles[h] = "closed"
    PROVE  Head(todo).op = "open" /\ Head(todo).arg = h /\ Head(todo).fatal
  <1>1. todo[1] = Step("open", h) /\ Head(todo) = todo[1]
    BY RestFacts DEF DInv, Holding, Returned, Plan, Scripted
  <1> QED
    BY <1>1, StepFields

(* Nothing but the steps below changes what is held. *)
LEMMA OwnedKept ==
    ASSUME DInv, rc = "running", todo # <<>>, device' = device,
           rc' = "running", ~Head(todo).fatal \/ Head(todo).op # "open",
           UNCHANGED owned
    PROVE  Holding' /\ Released'
  <1>1. \A h \in Handles : handles[h] # "closed"
    BY ClosedIsNext
  <1> QED
    BY <1>1 DEF DInv, Holding, Released, Returned, owned

LEMMA OpenHolds ==
    ASSUME DInv, Open
    PROVE  Holding' /\ Released'
  <1>1. /\ rc = "running" /\ todo # <<>> /\ Head(todo).op = "open"
        /\ rc' = "running" /\ device' = device
        /\ handles' = [handles EXCEPT ![Head(todo).arg] = "open"]
        /\ UNCHANGED <<memory, twice>>
    BY DEF Open, At, Arg, call
  <1>2. Head(todo).arg \in Closes(device) \cap Handles
    BY <1>1, ScriptedRest DEF DInv, Plan, Allowed
  <1>3. \A h \in Handles : handles'[h] # "closed"
    BY <1>1, <1>2, ClosedIsNext DEF DInv, TypeOK
  <1>4. \A h \in Handles : handles'[h] = "open" => h \in Closes(device)
    BY <1>1, <1>2 DEF DInv, TypeOK, Holding, Returned
  <1> QED
    BY <1>1, <1>3, <1>4 DEF DInv, Holding, Released, Returned

(* generic_boot gets its image descriptor, a path, both or none. *)
LEMMA OpenByNameHolds ==
    ASSUME DInv, OpenByName
    PROVE  Holding' /\ Released'
  <1>1. /\ rc = "running" /\ todo # <<>> /\ Head(todo).op = "open_by_name"
        /\ rc' = "running" /\ device' = device /\ twice' = twice
        /\ handles' \in {handles, [handles EXCEPT ![Head(todo).arg] = "open"]}
        /\ memory' \in {memory, [memory EXCEPT !["path"] = "held"]}
    BY DEF OpenByName, At, Arg, call
  <1>2. /\ Head(todo).arg \in Closes(device) \cap Handles
        /\ device = "generic"
    BY <1>1, ScriptedRest DEF DInv, Plan, Allowed
  <1>3. \A h \in Handles : handles[h] # "closed"
    BY <1>1, ClosedIsNext
  <1>4. \A h \in Handles : /\ handles'[h] # "closed"
                           /\ handles'[h] = "open" => h \in Closes(device)
    BY <1>1, <1>2, <1>3 DEF DInv, TypeOK, Holding, Returned
  <1>5. \A b \in Buffers : memory'[b] = "held" =>
           b \in Frees(device) \/ (device = "generic" /\ b = "path")
    BY <1>1, <1>2 DEF DInv, TypeOK, Holding, Returned
  <1> QED
    BY <1>1, <1>4, <1>5 DEF DInv, Holding, Released, Returned

LEMMA CloseHolds ==
    ASSUME DInv, Close
    PROVE  Holding' /\ Released'
  <1>1. /\ rc = "running" /\ todo # <<>> /\ Head(todo).op = "close"
        /\ rc' = "running" /\ device' = device /\ todo' = Tail(todo)
        /\ handles' = [handles EXCEPT ![Head(todo).arg] = "closed"]
        /\ UNCHANGED <<memory, twice>>
    BY DEF Close, At, Arg, call, Advance
  <1>2. Head(todo).arg \in Handles
    BY <1>1, ScriptedRest DEF DInv, Plan, Allowed
  <1>3. \A h \in Handles : handles[h] # "closed"
    BY <1>1, ClosedIsNext
  <1>4. todo' # <<>> /\ todo'[1] = Step("open", Head(todo).arg)
    <2>1. Scripted(device, todo) /\ todo \in Seq(Steps)
      BY DEF DInv, Plan, Scripted
    <2>2. /\ Len(todo) \in Nat /\ Len(todo) > 0 /\ Head(todo) = todo[1]
          /\ Len(Tail(todo)) = Len(todo) - 1
          /\ \A k \in 1 .. Len(todo) - 1 : Tail(todo)[k] = todo[k + 1]
      BY <1>1, <2>1, RestFacts
    <2>3. 1 < Len(todo) /\ todo[1 + 1] = Step("open", Head(todo).arg)
      BY <1>1, <2>1, <2>2 DEF Scripted
    <2>4. 1 \in 1 .. Len(todo) - 1
      BY <2>2, <2>3
    <2>5. Tail(todo)[1] = Step("open", Head(todo).arg)
      BY <2>2, <2>3, <2>4
    <2>6. Len(Tail(todo)) # 0
      BY <2>2, <2>3
    <2> QED
      BY <1>1, <2>5, <2>6, EmptySeq
  <1>5. \A h \in Handles : handles'[h] = "closed" => h = Head(todo).arg
    BY <1>1, <1>2, <1>3 DEF DInv, TypeOK
  <1>6. \A h \in Handles : handles'[h] = "open" => h \in Closes(device)
    BY <1>1, <1>2 DEF DInv, TypeOK, Holding, Returned
  <1> QED
    BY <1>1, <1>4, <1>5, <1>6 DEF DInv, Holding, Released, Returned

LEMMA MapHolds ==
    ASSUME DInv, Map \/ Unmap
    PROVE  Holding' /\ Released'
  <1>1. PICK v \in {"held", "null"} :
           /\ rc = "running" /\ todo # <<>>
           /\ Head(todo).op \in {"map", "read", "unmap"}
           /\ rc' = "running" /\ device' = device
           /\ memory' = [memory EXCEPT ![Head(todo).arg] = v]
           /\ UNCHANGED <<handles, twice>>
    BY DEF Map, Unmap, At, Arg, call
  <1>2. Head(todo).arg \in Frees(device) \cap Buffers
    BY <1>1, ScriptedRest DEF DInv, Plan, Allowed
  <1>3. \A h \in Handles : handles[h] # "closed"
    BY <1>1, ClosedIsNext
  <1>4. \A b \in Buffers : memory'[b] = "held" =>
           b \in Frees(device) \/ (device = "generic" /\ b = "path")
    BY <1>1, <1>2 DEF DInv, TypeOK, Holding, Returned
  <1> QED
    BY <1>1, <1>3, <1>4 DEF DInv, Holding, Released, Returned

(* generic_boot gets its boot descriptor from the wait for the device. *)
LEMMA WaitHolds ==
    ASSUME DInv, WaitSeen
    PROVE  Holding' /\ Released'
  <1>1. /\ rc = "running" /\ todo # <<>> /\ Head(todo).op = "wait"
        /\ rc' = "running" /\ device' = device
        /\ handles' = IF Head(todo).arg = "device"
                      THEN [handles EXCEPT !["boot"] = "open"] ELSE handles
        /\ UNCHANGED <<memory, twice>>
    BY DEF WaitSeen, At, Arg, call
  <1>2. Head(todo).arg = "device" => device = "generic"
    BY <1>1, ScriptedRest DEF DInv, Plan, Allowed
  <1>3. \A h \in Handles : handles[h] # "closed"
    BY <1>1, ClosedIsNext
  <1>4. Head(todo).arg = "device" => "boot" \in Closes(device)
    BY <1>2, Looked
  <1>5. \A h \in Handles : handles'[h] # "closed"
    BY <1>1, <1>3 DEF DInv, TypeOK, Handles
  <1>6. \A h \in Handles : handles'[h] = "open" => h \in Closes(device)
    BY <1>1, <1>4 DEF DInv, TypeOK, Holding, Returned
  <1> QED
    BY <1>1, <1>5, <1>6 DEF DInv, Holding, Released, Returned

LEMMA OtherHolds ==
    ASSUME DInv,
           \/ Power \/ HciPower \/ LinuxHciPower \/ LinkControlEnable
           \/ LinkControlActive \/ Tolerated \/ SendImage \/ Ioctl
    PROVE  Holding' /\ Released'
  <1>1. /\ rc = "running" /\ todo # <<>> /\ UNCHANGED <<device, rc>>
        /\ ~Head(todo).fatal \/ Head(todo).op # "open"
        /\ UNCHANGED owned
    BY DEF Power, HciPower, LinuxHciPower, LinkControlEnable,
           LinkControlActive, Tolerated, SendImage, Ioctl, At, call
  <1> QED
    BY <1>1, OwnedKept

-----------------------------------------------------------------------------
(* What will hold though it does not hold now, will hold. *)
LEMMA WillAnyway ==
    ASSUME NEW s, NEW op, NEW k, NEW then, Will(s, op, k, FALSE)
    PROVE  Will(s, op, k, then)
  BY DEF Will

(* What will hold before the first step holds now. *)
LEMMA WillNow ==
    ASSUME NEW s, NEW op, NEW now, Will(s, op, 1, now)
    PROVE  now
  BY DEF Will

(* The inductive invariant. *)
LEMMA DInvInit == Init => DInv
  <1> SUFFICES ASSUME Init PROVE DInv
    OBVIOUS
  <1>1. device \in Known /\ todo = Script(device) /\ rc = "running"
    BY DevicesAssumption DEF Init
  <1>2. Scripted(device, todo) /\ Begun(device, todo)
    BY <1>1, Scripts
  <1>3. TypeOK
    BY <1>1 DEF Init, TypeOK, Controllers
  <1>4. Plan /\ Wired
    BY <1>1, <1>2 DEF Init, Plan, Wired
  <1>5. Holding /\ Released /\ LinkUpAtReturn
    BY <1>1 DEF Init, Holding, Released, LinkUpAtReturn, Returned
  <1>6. todo # <<>>
    BY <1>2, EmptySeq DEF Begun
  <1>7. Renewed /\ Awaited
    BY <1>2, <1>6 DEF Begun, Renewed, Awaited
  <1>8. Powered
    <2> SUFFICES ASSUME device \notin {"aries", "generic"},
                        NEW k \in 1 .. Len(todo), todo[k] = Psi
                 PROVE  Will(todo, "power", k, power)
      BY DEF Powered
    <2>1. Will(todo, "power", k, FALSE)
      BY <1>2 DEF Begun
    <2> QED
      BY <2>1, WillAnyway
  <1>9. Ending
    <2> SUFFICES ASSUME device \in Hsic
                 PROVE  /\ Will(todo, "power", Len(todo) + 1, power)
                        /\ Will(todo, "enable", Len(todo) + 1, enabled)
                        /\ Will(todo, "active", Len(todo) + 1, active)
                        /\ Will(todo, "hci", Len(todo) + 1, bus # {})
      BY DEF Ending
    <2> DEFINE k == Len(todo) + 1
    <2>1. /\ Will(todo, "power", k, FALSE) /\ Will(todo, "enable", k, FALSE)
          /\ Will(todo, "active", k, FALSE) /\ Will(todo, "hci", k, FALSE)
      BY <1>2 DEF Begun
    <2> HIDE DEF k
    <2>2. Will(todo, "power", k, power)
      BY <2>1, WillAnyway
    <2>3. Will(todo, "enable", k, enabled)
      BY <2>1, WillAnyway
    <2>4. Will(todo, "active", k, active)
      BY <2>1, WillAnyway
    <2>5. Will(todo, "hci", k, bus # {})
      BY <2>1, WillAnyway
    <2> QED
      BY <2>2, <2>3, <2>4, <2>5 DEF k
  <1> QED
    BY <1>3, <1>4, <1>5, <1>7, <1>8, <1>9 DEF DInv

(* The hardware only raises. *)
LEMMA HardwareStep ==
    ASSUME DInv, LinkComesUp \/ ModemRaises
    PROVE  DInv'
  <1>1. /\ UNCHANGED <<todo, n, device, rc, handles, memory, twice, power, bus,
                       enabled, active, blind, half>>
        /\ ~Returned /\ power
        /\ connected => connected'
        /\ (connected => fresh) => (connected' => fresh')
        /\ connected' => bus # {}
    BY DEF LinkComesUp, ModemRaises, call, owned, modem, link, doubts, DInv,
           Wired
  <1>2. TypeOK'
    <2>1. CASE LinkComesUp
      <3>1. connected' \in BOOLEAN /\ fresh' \in BOOLEAN
            /\ UNCHANGED <<awake, online>>
        BY <2>1 DEF LinkComesUp, modem
      <3> QED
        BY <1>1, <3>1 DEF DInv, TypeOK
    <2>2. CASE ModemRaises
      <3>1. /\ UNCHANGED <<connected, fresh>>
            /\ awake' \in BOOLEAN /\ online' \in BOOLEAN
        BY <2>2 DEF ModemRaises, link, DInv, TypeOK
      <3> QED
        BY <1>1, <3>1 DEF DInv, TypeOK
    <2> QED
      BY <2>1, <2>2
  <1>3. Plan' /\ Wired' /\ Holding'
    BY <1>1 DEF DInv, Plan, Wired, Holding, Returned
  <1>4. Renewed' /\ Awaited'
    BY <1>1 DEF DInv, Renewed, Awaited
  <1>5. Powered' /\ Ending'
    BY <1>1 DEF DInv, Powered, Ending
  <1>6. Released' /\ LinkUpAtReturn'
    BY <1>1 DEF DInv, Released, LinkUpAtReturn, Returned
  <1> QED
    BY <1>2, <1>3, <1>4, <1>5, <1>6 DEF DInv

LEMMA WaitAgainStep ==
    ASSUME DInv, WaitAgain
    PROVE  DInv'
  <1>1. /\ UNCHANGED <<todo, device, rc, handles, memory, twice, power, bus,
                       enabled, active, connected, fresh, awake, online,
                       blind, half>>
        /\ n' = n + 1
    BY DEF WaitAgain, call, owned, modem, link, doubts
  <1> QED
    BY <1>1 DEF DInv, TypeOK, Plan, Wired, Holding, Renewed, Powered, Ending,
                Awaited, Released, LinkUpAtReturn, Returned

(* goto error: what a failed open may have closed is no longer in the      *)
(* variable.                                                               *)
LEMMA FailsStep ==
    ASSUME DInv, Fails
    PROVE  DInv'
  <1>1. /\ rc = "running" /\ todo # <<>> /\ rc' = "error" /\ todo' = <<>>
        /\ n' = 0
        /\ UNCHANGED <<device, twice, power, bus, enabled, active, connected,
                       fresh, awake, online, blind, half>>
        /\ handles' = IF Head(todo).op = "open"
                      THEN [handles EXCEPT ![Head(todo).arg] = "unset"]
                      ELSE handles
        /\ memory' = MemoryAfterFailure
    BY DEF Fails, At, Arg, HandlesAfterFailure, modem, link, doubts
  <1>2. TypeOK'
    BY <1>1 DEF DInv, TypeOK, MemoryAfterFailure
  <1>3. Plan'
    BY <1>1, EmptySeq DEF Plan, Scripted
  <1>4. \A h \in Handles : handles'[h] # "closed"
    BY <1>1, ClosedIsNext DEF DInv, TypeOK
  <1>5. /\ \A h \in Handles : handles'[h] = "open" => handles[h] = "open"
        /\ \A b \in Buffers : memory'[b] = "held" =>
              memory[b] = "held" \/ (device = "generic" /\ b = "path")
    <2>1. At("open_by_name") => device = "generic"
      BY <1>1, ScriptedRest DEF DInv, Plan, Allowed, At
    <2> QED
      BY <1>1, <2>1 DEF DInv, TypeOK, MemoryAfterFailure
  <1>6. Holding' /\ Released'
    BY <1>1, <1>4, <1>5 DEF DInv, Holding, Released, Returned
  <1>7. Wired' /\ Renewed' /\ Powered' /\ Ending' /\ Awaited'
    BY <1>1 DEF DInv, Wired, Renewed, Powered, Ending, Awaited
  <1>8. LinkUpAtReturn'
    BY <1>1 DEF LinkUpAtReturn
  <1> QED
    BY <1>2, <1>3, <1>6, <1>7, <1>8 DEF DInv

(* The release block finds everything that is held, and nothing closed. *)
LEMMA CompleteStep ==
    ASSUME DInv, Complete
    PROVE  DInv'
  <1>1. /\ rc \in {"running", "error"} /\ todo = <<>>
        /\ rc' = IF rc = "error" THEN "-1" ELSE "0"
        /\ twice' = (twice \/ \E h \in Closes(device) : handles[h] = "closed")
        /\ handles' = [h \in Handles |->
               IF h \in Closes(device) /\ handles[h] = "open" THEN "closed"
               ELSE handles[h]]
        /\ memory' = [b \in Buffers |->
               IF b \in Frees(device) /\ memory[b] = "held" THEN "null"
               ELSE memory[b]]
        /\ UNCHANGED <<device, todo, n, power, bus, enabled, active, connected,
                       fresh, awake, online, blind, half>>
    BY DEF Complete, modem, link, doubts
  <1>2. TypeOK'
    BY <1>1 DEF DInv, TypeOK
  <1>3. Plan' /\ Wired'
    BY <1>1 DEF DInv, Plan, Wired
  <1>4. \A h \in Handles : handles[h] # "closed"
    BY <1>1 DEF DInv, Holding, Returned
  <1>5. Closes(device) \subseteq Handles
    BY Looked DEF DInv, TypeOK, Known, Mipi, Handles
  <1>6. Released' /\ Holding'
    BY <1>1, <1>4, <1>5 DEF DInv, TypeOK, Holding, Released, Returned
  <1>7. Renewed' /\ Powered' /\ Ending' /\ Awaited'
    BY <1>1 DEF Renewed, Powered, Ending, Awaited
  <1>8. LinkUpAtReturn'
    <2> SUFFICES ASSUME rc = "running", device \in Hsic
                 PROVE  /\ power /\ enabled /\ active /\ bus # {}
                        /\ (connected /\ fresh) \/ blind \/ half
      BY <1>1 DEF LinkUpAtReturn
    <2>1. Len(todo) = 0 /\ Len(todo) + 1 = 1
      BY <1>1, EmptySeq
    <2>2. /\ Will(todo, "power", 1, power) /\ Will(todo, "enable", 1, enabled)
          /\ Will(todo, "active", 1, active) /\ Will(todo, "hci", 1, bus # {})
      BY <2>1 DEF DInv, Ending
    <2>3. power /\ enabled /\ active /\ bus # {}
      <3>1. power
        BY <2>2, WillNow
      <3>2. enabled
        BY <2>2, WillNow
      <3>3. active
        BY <2>2, WillNow
      <3>4. bus # {}
        BY <2>2, WillNow
      <3> QED
        BY <3>1, <3>2, <3>3, <3>4
    <2>4. ~Before(todo, Off("hci"))
      BY <2>1 DEF Before
    <2> QED
      BY <1>1, <2>3, <2>4 DEF DInv, Renewed, Awaited
  <1> QED
    BY <1>2, <1>3, <1>6, <1>7, <1>8 DEF DInv

LEMMA DInvStep == DInv /\ [Next]_vars => DInv'
  <1> SUFFICES ASSUME DInv, [Next]_vars PROVE DInv'
    OBVIOUS
  <1>1. CASE UNCHANGED vars
    BY <1>1 DEF vars, DInv, TypeOK, Plan, Wired, Holding, Renewed, Powered,
                Ending, Awaited, Released, LinkUpAtReturn, Returned
  <1>2. CASE \/ Open \/ OpenByName \/ Close \/ Map \/ Unmap \/ Power \/ HciPower
             \/ LinuxHciPower \/ LinkControlEnable \/ LinkControlActive
             \/ WaitSeen \/ Tolerated \/ SendImage \/ Ioctl
    <2>1. Advances
      BY <1>2, BootAdvances DEF DInv
    <2>2. Holding' /\ Released'
      BY <1>2, OpenHolds, OpenByNameHolds, CloseHolds, MapHolds, WaitHolds,
         OtherHolds
    <2> QED
      BY <2>1, <2>2, AdvancesKeep DEF DInv
  <1>3. CASE WaitAgain
    BY <1>3, WaitAgainStep
  <1>4. CASE Fails
    BY <1>4, FailsStep
  <1>5. CASE Complete
    BY <1>5, CompleteStep
  <1>6. CASE LinkComesUp \/ ModemRaises
    BY <1>6, HardwareStep
  <1> QED
    BY <1>1, <1>2, <1>3, <1>4, <1>5, <1>6 DEF Next, Boot, Stays

LEMMA DInvAlways == Spec => []DInv
  BY DInvInit, DInvStep, PTL DEF Spec

-----------------------------------------------------------------------------
(* Whichever step of whichever boot function fails, descriptors and        *)
(* buffers are released when it returns, and none is closed twice; only    *)
(* the path that generic_boot gets with its image descriptor is not.       *)
THEOREM EverythingReleased == Spec => []Released
  BY DInvAlways, PTL DEF DInv

(* Before the PSI is sent the modem is on, and on the HSIC devices and     *)
(* generic the link is one that came up during this call; on the former    *)
(* unless a query failed or one controller could not be switched.          *)
THEOREM PsiFindsNewLink == Spec => []PsiOverFreshLink
  <1>1. DInv => PsiOverFreshLink
    <2> SUFFICES ASSUME DInv, AtPsi, device # "aries"
                 PROVE  /\ power
                        /\ device \in Hsic =>
                              (connected /\ fresh) \/ blind \/ half
                        /\ device = "generic" => connected /\ fresh
      BY DEF PsiOverFreshLink
    <2>1. /\ rc = "running" /\ todo # <<>>
          /\ Head(todo).op = "send" /\ Head(todo).arg = "psi"
      BY DEF AtPsi, At, Arg
    <2>2. /\ todo \in Seq(Steps) /\ Head(todo) \in Steps
          /\ Head(todo) = todo[1] /\ Len(todo) \in Nat /\ Len(todo) > 0
          /\ Allowed(device, Head(todo))
      BY <2>1, RestFacts, ScriptedRest DEF DInv, Plan, Scripted
    <2>3. Head(todo).fatal = TRUE
      BY <2>1, <2>2 DEF Allowed, Steps
    <2>4. todo[1] = Psi
      BY <2>1, <2>2, <2>3 DEF Steps, Psi, Send, Step
    <2>5. \A x : ~Before(todo, x)
      BY <2>2, <2>4 DEF Before
    <2>6. device \in Hsic => (connected /\ fresh) \/ blind \/ half
      BY <2>1, <2>4, <2>5 DEF DInv, Renewed, Awaited
    <2>7. device = "generic" => connected /\ fresh
      BY <2>1, <2>4, <2>5 DEF DInv, Renewed, Awaited
    <2>8. CASE device = "generic"
      BY <2>6, <2>7, <2>8 DEF DInv, Wired
    <2>9. CASE device # "generic"
      <3>1. Will(todo, "power", 1, power)
        BY <2>1, <2>2, <2>4, <2>9 DEF DInv, Powered
      <3>2. power
        BY <3>1 DEF Will
      <3> QED
        BY <2>6, <2>9, <3>2
    <2> QED
      BY <2>8, <2>9
  <1> QED
    BY <1>1, DInvAlways, PTL

(* A boot of an HSIC device that returns 0 leaves the modem on and its     *)
(* link enabled, active and up.                                            *)
THEOREM LinkIsUpAtReturn == Spec => []LinkUpAtReturn
  BY DInvAlways, PTL DEF DInv
=============================================================================
