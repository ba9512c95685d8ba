------------------------------ MODULE Framing -------------------------------
(***************************************************************************)
(* Messages on an FMT or RFS channel: the send and receive functions of    *)
(* the smdk4412, aries and crespo transports, from ipc_client_send to what *)
(* ipc_client_recv returns.                                                *)
(*                                                                         *)
(* Both ends of a channel speak one format, so the sender here runs the    *)
(* send function and the receiver the receive function of the same         *)
(* transport; in each direction one of them is the modem.  A driver keeps  *)
(* what one write gave it as a packet.  The smdk4412 driver takes part of  *)
(* a write, and leaves in its queue what a read did not fetch; the phonet  *)
(* sockets of aries carry datagrams, whose unread rest is dropped; crespo  *)
(* passes whole messages with one ioctl.                                   *)
(***************************************************************************)
EXTENDS Integers, Sequences

CONSTANTS
    Header,    \* sizeof the FMT or RFS header
    Buffer,    \* XMM626_DATA_SIZE, ARIES_ and CRESPO_BUFFER_LENGTH
    Limit,     \* XMM626_ and ARIES_DATA_SIZE_LIMIT
    Width,     \* 2^16, the range of the length in an FMT header
    Sizes,     \* sizes of the data sent
    MaxSends   \* bound on calls of ipc_client_send

ASSUME ConstantsAssumption ==
    /\ Header \in Nat \ {0} /\ Buffer \in Nat /\ Header <= Buffer
    /\ Limit \in Nat /\ Width \in Nat \ {0} /\ MaxSends \in Nat
    /\ Sizes \subseteq Nat

VARIABLES
    transport,  \* which device family
    channel,    \* the type of the client: FMT or RFS
    sent,       \* messages given to the send function so far
    spc,        \* the send function: idle, writing, undefined
    out,        \* bytes of the frame it has still to write
    wire,       \* packets in the driver
    rpc,        \* the receive function: idle, reading, undefined
    msg, data,  \* the message being received, its data so far
    received,   \* messages the receive function returned 0 for
    failed,     \* a call returned -1
    torn        \* ... with part of a frame transferred, part not

kind == <<transport, channel>>
vars == <<transport, channel, sent, spc, out, wire, rpc, msg, data, received,
          failed, torn>>
sender   == <<sent, spc, out>>
receiver == <<rpc, msg, data, received>>

Smaller(a, b) == IF a < b THEN a ELSE b

(***************************************************************************)
(* Headers.  A command is a group and an index within it.                  *)
(***************************************************************************)
IpcFmtHeaderSetup(m) ==
    [length |-> (m.size + Header) % Width, mseq |-> m.mseq, aseq |-> m.aseq,
     group |-> m.command[1], index |-> m.command[2], type |-> m.type]

(* Slip: the answering number is taken for the message's own. *)
IpcFmtMessageSetupSwapped(h) ==
    [mseq |-> h.aseq, aseq |-> h.mseq, command |-> <<h.group, h.index>>,
     type |-> h.type, size |-> 0]

IpcFmtMessageSetup(h) ==
    [mseq |-> h.mseq, aseq |-> h.aseq, command |-> <<h.group, h.index>>,
     type |-> h.type, size |-> 0]

IpcRfsHeaderSetup(m) ==
    [length |-> m.size + Header, id |-> m.mseq, index |-> m.command[2]]

IpcRfsMessageSetup(h) ==
    [mseq |-> 0, aseq |-> h.id, command |-> <<"rfs", h.index>>,
     type |-> "none", size |-> 0]

HeaderSetup(m) ==
    IF channel = "fmt" THEN IpcFmtHeaderSetup(m) ELSE IpcRfsHeaderSetup(m)

MessageSetup(h) ==
    IF channel = "fmt" THEN IpcFmtMessageSetup(h) ELSE IpcRfsMessageSetup(h)

(* Byte i of the frame of the m-th message; the first Header bytes are the *)
(* header.                                                                 *)
Frame(m, size) == [i \in 1 .. Header + size |-> <<m, i>>]

NoMessage == [mseq |-> 0, aseq |-> 0, command |-> <<"none", 0>>,
              type |-> "none", size |-> 0]

(* message.aseq = 0xff *)
IpcClientSend(mseq, command, size) ==
    [mseq |-> mseq, aseq |-> 255, command |-> command, type |-> "get",
     size |-> size]

ClientCommands ==
    IF channel = "rfs" THEN {<<"rfs", 1>>} ELSE {<<"sec", 2>>}

Init ==
    /\ transport \in {"smdk4412", "aries", "crespo"}
    /\ channel \in {"fmt", "rfs"}
    /\ sent = <<>> /\ spc = "idle" /\ out = <<>> /\ wire = <<>>
    /\ rpc = "idle" /\ msg = NoMessage /\ data = <<>> /\ received = <<>>
    /\ failed = FALSE /\ torn = FALSE

(***************************************************************************)
(* Sending.                                                                *)
(***************************************************************************)
(* Slip: a message without data is not written. *)
BeginSendDataOnly(t, c, m) ==
    /\ transport = t /\ channel = c
    /\ sent' = Append(sent, m)
    /\ IF m.size = 0 THEN UNCHANGED <<spc, out>>
       ELSE IF HeaderSetup(m).length < Header + m.size
       THEN spc' = "undefined" /\ UNCHANGED out
       ELSE spc' = "writing" /\ out' = Frame(Len(sent'), m.size)
    /\ UNCHANGED <<wire, receiver, failed, torn>>

(* The buffer has the length of the header's length field.  When that has  *)
(* wrapped, header and data are copied beyond its end.                     *)
BeginSend(t, c, m) ==
    /\ transport = t /\ channel = c
    /\ sent' = Append(sent, m)
    /\ IF HeaderSetup(m).length < Header + m.size
       THEN spc' = "undefined" /\ UNCHANGED out
       ELSE spc' = "writing" /\ out' = Frame(Len(sent'), m.size)
    /\ UNCHANGED <<wire, receiver, failed, torn>>

Smdk4412FmtSend(m) == BeginSend("smdk4412", "fmt", m)
Smdk4412RfsSend(m) == BeginSend("smdk4412", "rfs", m)
AriesFmtSend(m)    == BeginSend("aries", "fmt", m)
AriesRfsSend(m)    == BeginSend("aries", "rfs", m)

Put(bytes) == wire' = Append(wire, bytes)

(* One ioctl; mio.size is not limited to the width of the header's field.  *)
CrespoFmtSend(m) ==
    /\ transport = "crespo" /\ channel = "fmt"
    /\ sent' = Append(sent, m)
    /\ \/ Put(Frame(Len(sent'), m.size)) /\ UNCHANGED failed
       \/ failed' = TRUE /\ UNCHANGED wire
    /\ UNCHANGED <<spc, out, receiver, torn>>

(* The fields of modem_io stand for a header. *)
CrespoRfsSend(m) ==
    /\ transport = "crespo" /\ channel = "rfs"
    /\ sent' = Append(sent, m)
    /\ \/ Put(Frame(Len(sent'), m.size)) /\ UNCHANGED failed
       \/ failed' = TRUE /\ UNCHANGED wire
    /\ UNCHANGED <<spc, out, receiver, torn>>

Send ==
    /\ spc = "idle" /\ Len(sent) < MaxSends
    /\ \E size \in Sizes, command \in ClientCommands :
          LET m == IpcClientSend(Len(sent) + 1, command, size) IN
          \/ Smdk4412FmtSend(m) \/ Smdk4412RfsSend(m)
          \/ AriesFmtSend(m) \/ AriesRfsSend(m)
          \/ CrespoFmtSend(m) \/ CrespoRfsSend(m)
    /\ UNCHANGED kind

Written(k) ==
    /\ Put(SubSeq(out, 1, k))
    /\ out' = SubSeq(out, k + 1, Len(out))
    /\ spc' = IF k = Len(out) THEN "idle" ELSE "writing"
    /\ UNCHANGED <<kind, sent, receiver, failed, torn>>

(* Slip: what a write did not take is not written. *)
Smdk4412WriteOnce ==
    /\ transport = "smdk4412" /\ spc = "writing"
    /\ \E k \in 1 .. Len(out) : Put(SubSeq(out, 1, k))
    /\ out' = <<>> /\ spc' = "idle"
    /\ UNCHANGED <<kind, sent, receiver, failed, torn>>

(* The driver takes some of the rest. *)
Smdk4412Write ==
    /\ transport = "smdk4412" /\ spc = "writing"
    /\ \E k \in 1 .. Len(out) : Written(k)

(* Slip: datagrams may be longer than the receiver's buffer. *)
AriesWriteWhole ==
    /\ transport = "aries" /\ spc = "writing"
    /\ Written(Len(out))

(* A datagram of at most ARIES_BUFFER_LENGTH, taken whole. *)
AriesWrite ==
    /\ transport = "aries" /\ spc = "writing"
    /\ Written(Smaller(Len(out), Buffer))

(* The write handler returns -1, as it does when the modem is not online.  *)
WriteFails ==
    /\ spc = "writing"
    /\ spc' = "idle" /\ out' = <<>>
    /\ failed' = TRUE
    /\ torn' = (torn \/ Len(out) < Header + sent[Len(sent)].size)
    /\ UNCHANGED <<kind, sent, wire, receiver>>

(***************************************************************************)
(* Receiving.                                                              *)
(***************************************************************************)
(* What one read of at most max bytes leaves of the packets.               *)
Smdk4412Read(max) ==
    IF Len(wire[1]) <= max THEN Tail(wire)
    ELSE <<SubSeq(wire[1], max + 1, Len(wire[1]))>> \o Tail(wire)

AriesRead(max) == Tail(wire)

Fetched(max) == SubSeq(wire[1], 1, Smaller(max, Len(wire[1])))

Read(max) ==
    IF transport = "aries" THEN AriesRead(max) ELSE Smdk4412Read(max)

Deliver(m, bytes) ==
    /\ received' = Append(received, [message |-> [m EXCEPT !.size = Len(bytes)],
                                     data |-> bytes])
    /\ rpc' = "idle" /\ msg' = NoMessage /\ data' = <<>>

(* The receive function returns -1.  A frame is lost in the middle when    *)
(* some of it was read and some of it is still to come.                    *)
RecvError(m, count) ==
    /\ failed' = TRUE
    /\ torn' = (torn \/ count < Header + sent[m].size)
    /\ rpc' = "idle" /\ msg' = NoMessage /\ data' = <<>>
    /\ UNCHANGED received

Undefined ==
    /\ rpc' = "undefined"
    /\ UNCHANGED <<msg, data, received, failed, torn>>

(* Invalid RFS header length. *)
TooLong(h) == channel = "rfs" /\ h.length > Limit

(* The first read asks for a whole buffer.  A read that does not start at  *)
(* a header takes data for one: the length found there can be anything.    *)
(* Data beyond the header are copied to the new message unchecked.         *)
BeginRecv(t, c) ==
    /\ rpc = "idle" /\ wire # <<>>
    /\ transport = t /\ channel = c
    /\ wire' = Read(Buffer)
    /\ LET got  == Fetched(Buffer)
           m    == got[1][1]
           h    == HeaderSetup(sent[m])
           rest == SubSeq(got, Header + 1, Len(got))
           size == h.length - Header
       IN \/ Len(got) < Header /\ RecvError(m, Len(got))
          \/ Len(got) >= Header /\ got[1][2] # 1 /\ Undefined
          \/ /\ Len(got) >= Header /\ got[1][2] = 1 /\ TooLong(h)
             /\ RecvError(m, Len(got))
          \/ /\ Len(got) >= Header /\ got[1][2] = 1 /\ ~TooLong(h)
             /\ IF size = 0 THEN Deliver(MessageSetup(h), <<>>)
                                 /\ UNCHANGED <<failed, torn>>
                ELSE IF Len(rest) > size THEN Undefined
                ELSE IF Len(rest) = size THEN Deliver(MessageSetup(h), rest)
                                              /\ UNCHANGED <<failed, torn>>
                ELSE /\ rpc' = "reading" /\ data' = rest
                     /\ msg' = [MessageSetup(h) EXCEPT !.size = size]
                     /\ UNCHANGED <<received, failed, torn>>
    /\ UNCHANGED <<kind, sender>>

Smdk4412FmtRecv == BeginRecv("smdk4412", "fmt")
Smdk4412RfsRecv == BeginRecv("smdk4412", "rfs")
AriesFmtRecv    == BeginRecv("aries", "fmt")
AriesRfsRecv    == BeginRecv("aries", "rfs")

(* mio.size tells how much there is; the header's length is not looked at. *)
CrespoRecv(c, m, got, rejected) ==
    /\ rpc = "idle" /\ wire # <<>>
    /\ transport = "crespo" /\ channel = c
    /\ wire' = Tail(wire)
    /\ IF rejected THEN RecvError(m, Len(got))
       ELSE /\ Deliver(MessageSetup(HeaderSetup(sent[m])),
                       SubSeq(got, Header + 1, Len(got)))
            /\ UNCHANGED <<failed, torn>>
    /\ UNCHANGED <<kind, sender>>

CrespoFmtRecv ==
    LET got == wire[1] IN
    CrespoRecv("fmt", got[1][1], got, Len(got) < Header \/ Len(got) > Buffer)

(* Without data, mio.size is 0 and the message is refused. *)
CrespoRfsRecv ==
    LET size == Len(wire[1]) - Header IN
    CrespoRecv("rfs", wire[1][1][1], wire[1], size <= 0 \/ size > Buffer)

(* The loop that reads the rest. *)
RecvMore(t, max) ==
    /\ transport = t /\ rpc = "reading" /\ wire # <<>>
    /\ LET bytes == data \o Fetched(max) IN
       /\ wire' = Read(max)
       /\ IF Len(bytes) = msg.size THEN Deliver(msg, bytes)
          ELSE data' = bytes /\ UNCHANGED <<rpc, msg, received>>
    /\ UNCHANGED <<kind, sender, failed, torn>>

Smdk4412RecvMore == RecvMore("smdk4412", msg.size - Len(data))
AriesRecvMore    == RecvMore("aries", Smaller(msg.size - Len(data), Buffer))

(* A read handler returns -1: at the first read nothing is lost; later the *)
(* frame is torn.  The smdk4412 device is opened with O_NONBLOCK, so this  *)
(* is also what happens when the rest has not arrived yet.                 *)
ReadFails ==
    /\ \/ rpc = "idle" /\ wire # <<>>
       \/ rpc = "reading"
    /\ failed' = TRUE
    /\ torn' = (torn \/ rpc = "reading")
    /\ rpc' = "idle" /\ msg' = NoMessage /\ data' = <<>>
    /\ UNCHANGED <<kind, sender, wire, received>>

Recv ==
    \/ Smdk4412FmtRecv \/ Smdk4412RfsRecv \/ AriesFmtRecv \/ AriesRfsRecv
    \/ CrespoFmtRecv \/ CrespoRfsRecv
    \/ Smdk4412RecvMore \/ AriesRecvMore

WouldBlock ==
    transport = "smdk4412" /\ rpc = "reading" /\ wire = <<>> /\ ReadFails

Write == Smdk4412Write \/ AriesWrite

(* Nothing more is sent, or memory is corrupted. *)
Quiet ==
    /\ \/ rpc = "undefined" \/ spc = "undefined"
       \/ Len(sent) = MaxSends /\ spc = "idle" /\ wire = <<>>
    /\ UNCHANGED vars

Next ==
    \/ /\ spc # "undefined" /\ rpc # "undefined"
       /\ Send \/ Write \/ WriteFails \/ Recv \/ ReadFails
    \/ Quiet

(* A call that has begun goes on; a read of the non-blocking smdk4412      *)
(* device returns even when there is nothing to read.                      *)
Spec ==
    /\ Init /\ [][Next]_vars
    /\ WF_vars(spc # "undefined" /\ rpc # "undefined" /\ Write)
    /\ WF_vars(spc # "undefined" /\ rpc # "undefined" /\ (Recv \/ WouldBlock))

-----------------------------------------------------------------------------
Messages ==
    [mseq : 0 .. MaxSends, aseq : 0 .. 255,
     command : {<<"rfs", 1>>, <<"sec", 2>>, <<"none", 0>>},
     type : {"get", "none"}, size : Nat]

(* What the receiver must see of the m-th message: on an FMT channel its   *)
(* own numbers, on an RFS channel its number as the one being answered.    *)
SameMessage(r, m) ==
    /\ r.data = SubSeq(Frame(m, sent[m].size), Header + 1,
                       Header + sent[m].size)
    /\ r.message.size = sent[m].size /\ r.message.command = sent[m].command
    /\ IF channel = "fmt"
       THEN /\ r.message.mseq = sent[m].mseq /\ r.message.aseq = sent[m].aseq
            /\ r.message.type = sent[m].type
       ELSE r.message.aseq = sent[m].mseq

(* However the driver splits frames, and whichever calls fail before a     *)
(* frame is begun, the messages received are messages sent, unchanged, in  *)
(* order and at most once, until a call fails in the middle of a frame.    *)
ReceivedInOrder ==
    ~torn =>
       \E f \in [DOMAIN received -> DOMAIN sent] :
          /\ \A i, j \in DOMAIN received : i < j => f[i] < f[j]
          /\ \A i \in DOMAIN received : SameMessage(received[i], f[i])

(* The unchecked copy of what came with the header stays within the        *)
(* message, and no data are taken for a header, as long as no call has     *)
(* failed in the middle of a frame.                                        *)
ReceiverInBounds == rpc = "undefined" => torn

(* When no call has failed and nothing is under way, everything sent has   *)
(* been received.                                                          *)
NothingLost ==
    ~failed /\ spc = "idle" /\ rpc = "idle" /\ wire = <<>> =>
       Len(received) = Len(sent)

(* A receive that has begun ends.  On aries, whose socket blocks, it needs *)
(* the rest of the frame, and waits for ever for one the sender gave up.   *)
RecvReturns ==
    rpc = "reading" ~>
       \/ rpc # "reading" \/ spc = "undefined"
       \/ transport = "aries" /\ torn
=============================================================================
