---------------------------- MODULE ClientProofs ----------------------------
(***************************************************************************)
(* Proofs about Client, for any number of clients and descriptors.         *)
(*                                                                         *)
(* StrayOnlyZero is not inductive: that a handler uses no foreign          *)
(* descriptor above 0 follows from HeldIsOwn, which in turn rests on close *)
(* resetting the stored descriptor and on open taking a free one.          *)
(***************************************************************************)
EXTENDS Client, TLAPS

(* The descriptor stored in transport data is the client's own, unless it  *)
(* is the 0 of calloc or of aries_open.                                    *)
HeldIsOwn ==
    \A c \in Clients : mem[c] = "live" /\ fd[c] > 0 => table[fd[c]] = c

IInv == TypeOK /\ HeldIsOwn /\ StrayOnlyZero /\ ChannelKept /\ LeakOnlyByCaller

-----------------------------------------------------------------------------
(* All ten devices have one of three open handlers, and share the rest. *)
LEMMA HandlersSplit ==
    ASSUME NEW c \in Clients, Handlers(c)
    PROVE  /\ UNCHANGED device
           /\ \/ Smdk4412Open(c)
              \/ CrespoOpen(c)
              \/ device = "aries" /\ AriesOpen(c)
              \/ Close(c)
              \/ Transfer(c)
  BY DEF Handlers, I9300Handlers, N7100Handlers, N5100Handlers,
         GalaxyS2Handlers, MaguroHandlers, PiranhaHandlers, HerolteHandlers,
         GenericHandlers, GenericOpen, CrespoHandlers, AriesHandlers,
         Smdk4412Handlers

LEMMA InitHolds == Init => IInv
  BY ConstantsAssumption
  DEF Init, IInv, TypeOK, HeldIsOwn, StrayOnlyZero, ChannelKept,
      LeakOnlyByCaller, Types, Fds

(* The calls that give up transport data change no descriptor. *)
LEMMA DropStep ==
    ASSUME IInv, NEW c \in Clients,
           IpcClientDestroy(c) \/ IpcClientDataCreate(c)
               \/ IpcClientDataDestroy(c)
    PROVE  IInv'
  <1>1. /\ \/ mem' = [mem EXCEPT ![c] = "null"] /\ fd' = [fd EXCEPT ![c] = -1]
           \/ mem' = [mem EXCEPT ![c] = "live"] /\ fd' = [fd EXCEPT ![c] = 0]
           \/ mem' = [mem EXCEPT ![c] = "freed"] /\ fd' = [fd EXCEPT ![c] = -1]
        /\ client' = client \/ client' = [client EXCEPT ![c] = "none"]
        /\ Dropped(c)
        /\ UNCHANGED <<device, table, stray, fault>>
    BY DEF IpcClientDestroy, IpcClientDataCreate, IpcClientDataDestroy
  <1>2. TypeOK'
    BY <1>1, ConstantsAssumption DEF IInv, TypeOK, Dropped, Types, Fds
  <1>3. HeldIsOwn'
    BY <1>1 DEF IInv, TypeOK, HeldIsOwn, Fds
  <1>4. StrayOnlyZero' /\ ChannelKept'
    BY <1>1 DEF IInv, TypeOK, StrayOnlyZero, ChannelKept, Dropped, Fds
  <1>5. LeakOnlyByCaller'
    BY <1>1 DEF IInv, TypeOK, LeakOnlyByCaller, Dropped, Fds
  <1>6. QED
    BY <1>2, <1>3, <1>4, <1>5 DEF IInv

(* A free descriptor d becomes c's and is stored, as open returns 0. *)
LEMMA OpenSucceedsStep ==
    ASSUME IInv, NEW c \in Clients, Opens(c), OpenSucceeds(c),
           UNCHANGED device
    PROVE  IInv'
  <1>1. PICK d \in Fds : /\ table[d] = "free"
                         /\ table' = [table EXCEPT ![d] = c]
                         /\ fd' = [fd EXCEPT ![c] = d]
    BY DEF OpenSucceeds, LowestFree
  <1>2. /\ opened' = opened \cup {c}
        /\ careless' = IF c \in opened THEN careless \cup {c} ELSE careless
        /\ mem[c] = "live"
        /\ UNCHANGED <<device, client, mem, stray, fault>>
    BY DEF Opens, OpenSucceeds
  <1>3. TypeOK'
    BY <1>1, <1>2 DEF IInv, TypeOK, Fds
  <1>4. HeldIsOwn'
    BY <1>1, <1>2, ConstantsAssumption DEF IInv, TypeOK, HeldIsOwn, Fds
  <1>5. StrayOnlyZero' /\ ChannelKept'
    BY <1>1, <1>2, ConstantsAssumption
    DEF IInv, TypeOK, StrayOnlyZero, ChannelKept, Fds
  <1>6. LeakOnlyByCaller'
    BY <1>1, <1>2, ConstantsAssumption
    DEF IInv, TypeOK, LeakOnlyByCaller, Fds
  <1>7. QED
    BY <1>3, <1>4, <1>5, <1>6 DEF IInv

(* Nothing is obtained; transport data holds -1 or 0. *)
LEMMA OpenFailsStep ==
    ASSUME IInv, NEW c \in Clients, NEW value \in {-1, 0}, Opens(c),
           OpenFails(c, value), UNCHANGED device
    PROVE  IInv'
  <1>1. /\ fd' = [fd EXCEPT ![c] = value] /\ opened' = opened \ {c}
        /\ careless' = IF c \in opened THEN careless \cup {c} ELSE careless
        /\ UNCHANGED <<device, client, mem, table, stray, fault>>
    BY DEF Opens, OpenFails
  <1>2. TypeOK'
    BY <1>1, ConstantsAssumption DEF IInv, TypeOK, Fds
  <1>3. HeldIsOwn'
    BY <1>1 DEF IInv, TypeOK, HeldIsOwn, Fds
  <1>4. StrayOnlyZero' /\ ChannelKept'
    BY <1>1 DEF IInv, TypeOK, StrayOnlyZero, ChannelKept, Fds
  <1>5. LeakOnlyByCaller'
    BY <1>1 DEF IInv, TypeOK, LeakOnlyByCaller, Fds
  <1>6. QED
    BY <1>2, <1>3, <1>4, <1>5 DEF IInv

(* On aries a socket may also be left open by an open that returns -1. *)
LEMMA AriesOpenStep ==
    ASSUME IInv, NEW c \in Clients, device = "aries", AriesOpen(c),
           UNCHANGED device
    PROVE  IInv'
  <1>1. CASE OpenSucceeds(c)
    BY <1>1, OpenSucceedsStep DEF AriesOpen
  <1>2. CASE OpenFails(c, 0)
    BY <1>2, OpenFailsStep DEF AriesOpen
  <1>3. CASE /\ \E d \in Fds, stored \in BOOLEAN :
                  /\ LowestFree(d)
                  /\ table' = [table EXCEPT ![d] = c]
                  /\ fd' = [fd EXCEPT ![c] = IF stored THEN d ELSE 0]
             /\ opened' = opened \ {c}
    <2>1. PICK d \in Fds : /\ table[d] = "free"
                           /\ table' = [table EXCEPT ![d] = c]
                           /\ \/ fd' = [fd EXCEPT ![c] = d]
                              \/ fd' = [fd EXCEPT ![c] = 0]
      BY <1>3, Zenon DEF LowestFree
    <2>2. /\ opened' = opened \ {c}
          /\ careless' = IF c \in opened THEN careless \cup {c} ELSE careless
          /\ UNCHANGED <<device, client, mem, stray, fault>>
      BY <1>3 DEF AriesOpen, Opens
    <2>3. TypeOK'
      BY <2>1, <2>2, ConstantsAssumption DEF IInv, TypeOK, Fds
    <2>4. HeldIsOwn'
      BY <2>1, <2>2, ConstantsAssumption DEF IInv, TypeOK, HeldIsOwn, Fds
    <2>5. StrayOnlyZero' /\ ChannelKept'
      BY <2>1, <2>2, ConstantsAssumption
      DEF IInv, TypeOK, StrayOnlyZero, ChannelKept, Fds
    <2>6. LeakOnlyByCaller'
      BY <2>2 DEF LeakOnlyByCaller
    <2>7. QED
      BY <2>3, <2>4, <2>5, <2>6 DEF IInv
  <1>4. QED
    BY <1>1, <1>2, <1>3 DEF AriesOpen

(* What a handler uses is the client's own, nobody's, or descriptor 0. *)
LEMMA TouchStep ==
    ASSUME IInv, NEW c \in Clients, Held(c), Touch(c)
    PROVE  /\ fd[c] \in Fds
           /\ stray' \in SUBSET Fds /\ StrayOnlyZero' /\ stray \subseteq stray'
           /\ table[fd[c]] \in {c, "free"} \/ (fd[c] = 0 /\ 0 \in stray')
  <1>1. fd[c] \in Fds
    BY DEF IInv, TypeOK, Held, Fds
  <1>2. table[fd[c]] = c \/ fd[c] = 0
    BY <1>1 DEF IInv, HeldIsOwn, Held, Fds
  <1>3. QED
    BY <1>1, <1>2 DEF IInv, TypeOK, StrayOnlyZero, Touch

LEMMA CloseStep ==
    ASSUME IInv, NEW c \in Clients, Close(c), UNCHANGED device
    PROVE  IInv'
  <1>1. /\ Held(c) /\ Touch(c)
        /\ table' = [table EXCEPT ![fd[c]] = "free"]
        /\ fd' = [fd EXCEPT ![c] = -1] /\ opened' = opened \ {c}
        /\ UNCHANGED <<device, client, mem, careless, fault>>
    BY DEF Close
  <1>2. /\ fd[c] \in Fds
        /\ stray' \in SUBSET Fds /\ StrayOnlyZero' /\ stray \subseteq stray'
        /\ table[fd[c]] \in {c, "free"} \/ (fd[c] = 0 /\ 0 \in stray')
    BY <1>1, TouchStep
  <1>3. TypeOK'
    BY <1>1, <1>2 DEF IInv, TypeOK, Fds
  <1>4. HeldIsOwn'
    BY <1>1, <1>2, ConstantsAssumption DEF IInv, TypeOK, HeldIsOwn, Fds
  <1>5. ChannelKept'
    BY <1>1, <1>2, ConstantsAssumption DEF IInv, TypeOK, ChannelKept, Fds
  <1>6. LeakOnlyByCaller'
    BY <1>1, <1>2, ConstantsAssumption DEF IInv, TypeOK, LeakOnlyByCaller, Fds
  <1>7. QED
    BY <1>2, <1>3, <1>4, <1>5, <1>6 DEF IInv

LEMMA TransferStep ==
    ASSUME IInv, NEW c \in Clients, Transfer(c), UNCHANGED device
    PROVE  IInv'
  <1>1. /\ stray' \in SUBSET Fds /\ StrayOnlyZero' /\ stray \subseteq stray'
        /\ UNCHANGED <<device, client, mem, fd, table, opened, careless, fault>>
    BY TouchStep DEF Transfer
  <1>2. QED
    BY <1>1 DEF IInv, TypeOK, HeldIsOwn, ChannelKept, LeakOnlyByCaller

LEMMA HandlersStep ==
    ASSUME IInv, NEW c \in Clients, Handlers(c)
    PROVE  IInv'
  <1>1. UNCHANGED device
    BY HandlersSplit
  <1>2. CASE Smdk4412Open(c)
    BY <1>1, <1>2, OpenSucceedsStep, OpenFailsStep DEF Smdk4412Open
  <1>3. CASE CrespoOpen(c)
    BY <1>1, <1>3, OpenSucceedsStep DEF CrespoOpen
  <1>4. CASE device = "aries" /\ AriesOpen(c)
    BY <1>1, <1>4, AriesOpenStep
  <1>5. CASE Close(c)
    BY <1>1, <1>5, CloseStep
  <1>6. CASE Transfer(c)
    BY <1>1, <1>6, TransferStep
  <1>7. QED
    BY <1>2, <1>3, <1>4, <1>5, <1>6, HandlersSplit

(* The application opens and closes its own descriptors. *)
LEMMA AppStep ==
    ASSUME IInv, AppOpen \/ AppClose
    PROVE  IInv'
  <1>1. PICK d \in Fds, owner \in {"app", "free"} :
           table[d] \in {"app", "free"} /\ table' = [table EXCEPT ![d] = owner]
    BY DEF AppOpen, AppClose, LowestFree
  <1>2. UNCHANGED <<device, client, mem, fd, opened, careless, stray, fault>>
    BY DEF AppOpen, AppClose
  <1>3. TypeOK'
    BY <1>1, <1>2 DEF IInv, TypeOK
  <1>4. HeldIsOwn'
    BY <1>1, <1>2, ConstantsAssumption DEF IInv, TypeOK, HeldIsOwn, Fds
  <1>5. StrayOnlyZero' /\ ChannelKept'
    BY <1>1, <1>2, ConstantsAssumption
    DEF IInv, TypeOK, StrayOnlyZero, ChannelKept, Fds
  <1>6. LeakOnlyByCaller'
    BY <1>1, <1>2, ConstantsAssumption DEF IInv, TypeOK, LeakOnlyByCaller
  <1>7. QED
    BY <1>3, <1>4, <1>5, <1>6 DEF IInv

LEMMA NextStep == IInv /\ [Next]_vars => IInv'
  <1> SUFFICES ASSUME IInv, [Next]_vars PROVE IInv'
    OBVIOUS
  <1>1. CASE UNCHANGED vars
    BY <1>1 DEF vars, IInv, TypeOK, HeldIsOwn, StrayOnlyZero, ChannelKept,
                LeakOnlyByCaller
  <1>2. ASSUME NEW c \in Clients, IpcClientCreate(c) PROVE IInv'
    BY <1>2 DEF IpcClientCreate, IInv, TypeOK, HeldIsOwn, StrayOnlyZero,
                ChannelKept, LeakOnlyByCaller
  <1>3. ASSUME NEW c \in Clients,
               IpcClientOpenUnchecked(c) \/ UseAfterFree(c)
        PROVE  IInv'
    BY <1>3 DEF IpcClientOpenUnchecked, UseAfterFree, IInv, TypeOK, HeldIsOwn,
                StrayOnlyZero, ChannelKept, LeakOnlyByCaller
  <1>4. ASSUME NEW c \in Clients, ClientStep(c) PROVE IInv'
    BY <1>2, <1>3, <1>4, DropStep, HandlersStep DEF ClientStep
  <1>5. QED
    BY <1>1, <1>4, AppStep DEF Next

LEMMA Invariance == Spec => []IInv
  BY InitHolds, NextStep, PTL DEF Spec

-----------------------------------------------------------------------------
(* Every variable keeps its type. *)
THEOREM TypeCorrect == Spec => []TypeOK
  BY Invariance, PTL DEF IInv

(* For any number of clients and descriptors, and any order of calls, the  *)
(* transport handlers touch no foreign descriptor but 0.                   *)
THEOREM HandlersKeepToTheirOwn == Spec => []StrayOnlyZero
  BY Invariance, PTL DEF IInv

(* An opened channel keeps its descriptor until its own client closes or   *)
(* drops it, unless the descriptor is 0 and a stray close took it.         *)
THEOREM OpenedChannelsAreKept == Spec => []ChannelKept
  BY Invariance, PTL DEF IInv

(* Only the caller, or a failed aries_open, leaks a descriptor. *)
THEOREM LeaksAreTheCallers == Spec => []LeakOnlyByCaller
  BY Invariance, PTL DEF IInv
=============================================================================
