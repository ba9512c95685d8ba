------------------------------- MODULE Client -------------------------------
(***************************************************************************)
(* The life of ipc_client structures in one process: ipc.c and the         *)
(* transport handlers of the devices.                                      *)
(*                                                                         *)
(* The clients (one for FMT and one for RFS, say) and the application      *)
(* share one table of descriptors, in which open() takes the lowest free   *)
(* one.  A client remembers its descriptor in transport data that the      *)
(* application creates and destroys by calls of their own, in any order.   *)
(* Calls that fail and change nothing are stuttering steps.  Power and     *)
(* GPRS handlers open and close what they need within one call, and are    *)
(* left out; what goes over the descriptor is in Framing.                  *)
(***************************************************************************)
EXTENDS Integers

CONSTANTS
    Clients,   \* the application's pointers to clients
    MaxFd      \* bound on descriptors

ASSUME ConstantsAssumption ==
    /\ MaxFd \in Nat
    /\ "app" \notin Clients /\ "free" \notin Clients

Fds == 0 .. MaxFd

(* All devices with handlers; ipc_devices names five of them, and          *)
(* ipc_device_detect always answers with the first, i9300.                 *)
Devices == {"i9300", "n7100", "n5100", "galaxys2", "maguro", "piranha",
            "herolte", "generic", "crespo", "aries"}

Types == {"fmt", "rfs", "dummy"}

VARIABLES
    device,    \* the device whose handlers the clients have
    client,    \* type of each client; "none" is the null pointer
    mem,       \* its transport_data: null, live or freed
    fd,        \* transport_data->fd, -1 when there is no transport_data
    table,     \* whose each descriptor is
    opened,    \* clients whose open returned 0, not closed or dropped since
    careless,  \* history: clients opened again or dropped while opened
    stray,     \* history: descriptors of others used or closed by a handler
    fault      \* "none", or what made the program's behaviour undefined

vars == <<device, client, mem, fd, table, opened, careless, stray, fault>>

(* Standard input is usually open; a daemon may have closed it. *)
Init ==
    /\ device \in Devices
    /\ client = [c \in Clients |-> "none"]
    /\ mem = [c \in Clients |-> "null"] /\ fd = [c \in Clients |-> -1]
    /\ \E stdin \in {"app", "free"} :
          table = [d \in Fds |-> IF d = 0 THEN stdin ELSE "free"]
    /\ opened = {}
    /\ careless = {} /\ stray = {} /\ fault = "none"

(***************************************************************************)
(* ipc.c.                                                                  *)
(***************************************************************************)
(* Handlers are copied for FMT and RFS clients; a dummy has none. *)
HasHandlers(c) == client[c] \in {"fmt", "rfs"}

IpcClientCreate(c) ==
    /\ client[c] = "none"
    /\ \E t \in Types : client' = [client EXCEPT ![c] = t]
    /\ UNCHANGED <<device, mem, fd, table, opened, careless, stray, fault>>

(* The application gives up what transport_data holds, or asks for another *)
(* descriptor: whatever was open is lost.                                  *)
Dropped(c) ==
    /\ careless' = IF c \in opened THEN careless \cup {c} ELSE careless
    /\ opened' = opened \ {c}

(* The pointer to transport_data goes with the handlers. *)
IpcClientDestroy(c) ==
    /\ client[c] # "none"
    /\ client' = [client EXCEPT ![c] = "none"]
    /\ mem' = [mem EXCEPT ![c] = "null"] /\ fd' = [fd EXCEPT ![c] = -1]
    /\ Dropped(c)
    /\ UNCHANGED <<device, table, stray, fault>>

(* calloc: the descriptor of new transport_data is 0. *)
IpcClientDataCreate(c) ==
    /\ HasHandlers(c)
    /\ mem' = [mem EXCEPT ![c] = "live"] /\ fd' = [fd EXCEPT ![c] = 0]
    /\ Dropped(c)
    /\ UNCHANGED <<device, client, table, stray, fault>>

(* transport_data is freed, and the pointer to it kept. *)
IpcClientDataDestroy(c) ==
    /\ HasHandlers(c) /\ mem[c] = "live"
    /\ mem' = [mem EXCEPT ![c] = "freed"] /\ fd' = [fd EXCEPT ![c] = -1]
    /\ Dropped(c)
    /\ UNCHANGED <<device, client, table, stray, fault>>

(* The log messages look at client and client->handlers although one of    *)
(* them is NULL.                                                           *)
IpcClientOpenUnchecked(c) ==
    /\ ~HasHandlers(c)
    /\ fault' = "handlers"
    /\ UNCHANGED <<device, client, mem, fd, table, opened, careless, stray>>

(* Any handler, and data_destroy, after data_destroy. *)
UseAfterFree(c) ==
    /\ HasHandlers(c) /\ mem[c] = "freed"
    /\ fault' = "data"
    /\ UNCHANGED <<device, client, mem, fd, table, opened, careless, stray>>

(***************************************************************************)
(* The transport handlers; without transport_data they return -1.          *)
(***************************************************************************)
LowestFree(d) ==
    /\ table[d] = "free"
    /\ \A e \in Fds : table[e] = "free" => d <= e

Opens(c) ==
    /\ HasHandlers(c) /\ mem[c] = "live"
    /\ careless' = IF c \in opened THEN careless \cup {c} ELSE careless
    /\ UNCHANGED <<client, mem, stray, fault>>

(* A descriptor is obtained and stored; open returns 0. *)
OpenSucceeds(c) ==
    /\ \E d \in Fds :
          /\ LowestFree(d)
          /\ table' = [table EXCEPT ![d] = c] /\ fd' = [fd EXCEPT ![c] = d]
    /\ opened' = opened \cup {c}

OpenFails(c, value) ==
    /\ fd' = [fd EXCEPT ![c] = value]
    /\ opened' = opened \ {c}
    /\ UNCHANGED table

(* What open() returns is stored, -1 too. *)
Smdk4412Open(c) ==
    /\ Opens(c)
    /\ OpenSucceeds(c) \/ OpenFails(c, -1)

(* A failed open leaves transport_data alone. *)
CrespoOpen(c) == Opens(c) /\ OpenSucceeds(c)

(* transport_data is cleared first.  When a later step fails the socket    *)
(* stays open: it is stored once it is bound, and lost before.             *)
AriesOpen(c) ==
    /\ Opens(c)
    /\ \/ OpenSucceeds(c)
       \/ OpenFails(c, 0)
       \/ /\ \E d \in Fds, stored \in BOOLEAN :
                /\ LowestFree(d)
                /\ table' = [table EXCEPT ![d] = c]
                /\ fd' = [fd EXCEPT ![c] = IF stored THEN d ELSE 0]
          /\ opened' = opened \ {c}

Touch(c) ==
    stray' = IF table[fd[c]] \in {c, "free"} THEN stray
             ELSE stray \cup {fd[c]}

Held(c) == HasHandlers(c) /\ mem[c] = "live" /\ fd[c] >= 0

(* Slip: the stored descriptor is not reset. *)
CloseKeeps(c) ==
    /\ Held(c) /\ Touch(c)
    /\ table' = [table EXCEPT ![fd[c]] = "free"]
    /\ opened' = opened \ {c}
    /\ UNCHANGED <<client, mem, fd, careless, fault>>

(* Slip: the stored descriptor is reset before close() is given it. *)
CloseForgets(c) ==
    /\ Held(c) /\ Touch(c)
    /\ fd' = [fd EXCEPT ![c] = -1]
    /\ opened' = opened \ {c}
    /\ UNCHANGED <<client, mem, table, careless, fault>>

(* The descriptor stored in transport_data is closed, whosever it is. *)
Close(c) ==
    /\ Held(c) /\ Touch(c)
    /\ table' = [table EXCEPT ![fd[c]] = "free"]
    /\ fd' = [fd EXCEPT ![c] = -1]
    /\ opened' = opened \ {c}
    /\ UNCHANGED <<client, mem, careless, fault>>

(* read, write and poll use the stored descriptor. *)
Transfer(c) ==
    /\ Held(c) /\ Touch(c)
    /\ UNCHANGED <<client, mem, fd, table, opened, careless, fault>>

Smdk4412Handlers(c) == Smdk4412Open(c) \/ Close(c) \/ Transfer(c)

I9300Handlers(c)    == device = "i9300" /\ Smdk4412Handlers(c)
N7100Handlers(c)    == device = "n7100" /\ Smdk4412Handlers(c)
N5100Handlers(c)    == device = "n5100" /\ Smdk4412Handlers(c)
GalaxyS2Handlers(c) == device = "galaxys2" /\ Smdk4412Handlers(c)
MaguroHandlers(c)   == device = "maguro" /\ Smdk4412Handlers(c)
PiranhaHandlers(c)  == device = "piranha" /\ Smdk4412Handlers(c)
HerolteHandlers(c)  == device = "herolte" /\ Smdk4412Handlers(c)

(* open() is tried until it succeeds, thirty times at most. *)
GenericOpen(c) == Smdk4412Open(c)

GenericHandlers(c) ==
    device = "generic" /\ (GenericOpen(c) \/ Close(c) \/ Transfer(c))

CrespoHandlers(c) ==
    device = "crespo" /\ (CrespoOpen(c) \/ Close(c) \/ Transfer(c))

AriesHandlers(c) ==
    device = "aries" /\ (AriesOpen(c) \/ Close(c) \/ Transfer(c))

Handlers(c) ==
    /\ \/ I9300Handlers(c) \/ N7100Handlers(c) \/ N5100Handlers(c)
       \/ GalaxyS2Handlers(c) \/ MaguroHandlers(c) \/ PiranhaHandlers(c)
       \/ HerolteHandlers(c) \/ GenericHandlers(c)
       \/ CrespoHandlers(c) \/ AriesHandlers(c)
    /\ UNCHANGED device

(***************************************************************************)
(* The application's own descriptors.                                      *)
(***************************************************************************)
AppOpen ==
    /\ \E d \in Fds : LowestFree(d) /\ table' = [table EXCEPT ![d] = "app"]
    /\ UNCHANGED <<device, client, mem, fd, opened, careless, stray, fault>>

AppClose ==
    /\ \E d \in Fds :
          table[d] = "app" /\ table' = [table EXCEPT ![d] = "free"]
    /\ UNCHANGED <<device, client, mem, fd, opened, careless, stray, fault>>

ClientStep(c) ==
    \/ IpcClientCreate(c) \/ IpcClientDestroy(c)
    \/ IpcClientDataCreate(c) \/ IpcClientDataDestroy(c)
    \/ IpcClientOpenUnchecked(c) \/ UseAfterFree(c)
    \/ Handlers(c)

Next ==
    \/ fault = "none" /\ \E c \in Clients : ClientStep(c)
    \/ fault = "none" /\ (AppOpen \/ AppClose)
    \/ fault # "none" /\ UNCHANGED vars

Spec == Init /\ [][Next]_vars

-----------------------------------------------------------------------------
(* Type invariant. *)
TypeOK ==
    /\ device \in Devices
    /\ client \in [Clients -> Types \cup {"none"}]
    /\ mem \in [Clients -> {"null", "live", "freed"}]
    /\ fd \in [Clients -> Fds \cup {-1}]
    /\ table \in [Fds -> Clients \cup {"app", "free"}]
    /\ opened \in SUBSET Clients /\ careless \in SUBSET Clients
    /\ stray \in SUBSET Fds
    /\ fault \in {"none", "data", "handlers"}

(* A handler never uses or closes a descriptor of the application or of    *)
(* another client, whatever the order of calls, except descriptor 0, which *)
(* calloc and aries_open put into transport_data.                          *)
StrayOnlyZero == stray \subseteq {0}

(* A channel that was opened keeps its descriptor until it is closed,      *)
(* whatever the other clients and the application do; only a channel on    *)
(* descriptor 0 can lose it, and only to a stray close of another client.  *)
ChannelKept ==
    \A c \in opened :
        /\ mem[c] = "live" /\ fd[c] \in Fds
        /\ table[fd[c]] = c \/ (fd[c] = 0 /\ 0 \in stray)

(* Every descriptor a client obtained belongs to an opened channel, unless *)
(* the application opened that client again, or dropped it, without a      *)
(* close; a failed aries_open leaves its socket open.                      *)
LeakOnlyByCaller ==
    \A d \in Fds, c \in Clients : table[d] = c =>
        (c \in opened /\ fd[c] = d) \/ c \in careless \/ device = "aries"

(* ipc_client_open tests its client and the handlers, and reports what is  *)
(* missing.                                                                *)
OpenReports == fault # "handlers"
=============================================================================
