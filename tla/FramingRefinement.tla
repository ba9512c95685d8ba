------------------------- MODULE FramingRefinement --------------------------
(***************************************************************************)
(* The bytes of Framing as the messages of Channel.  A message is on its   *)
(* way while a byte of its frame is with the driver or still to be         *)
(* written.                                                                *)
(***************************************************************************)
EXTENDS Framing

(* A byte is its message and its place in that message's frame. *)
Number(p) == p[1][1]

(* Everything the receiver has still to read of what was sent. *)
Packets == IF spc = "writing" THEN Append(wire, out) ELSE wire

(* The number of the message the receiver gets m for. *)
NumberOf(m) == IF channel = "fmt" THEN m.mseq ELSE m.aseq

(* What a frame carries of a message: an RFS header has no room for the    *)
(* number that is answered and for the type.                               *)
Carried(number, m, bytes) ==
    [head |-> [number |-> number, command |-> m.command, size |-> m.size,
               answers |-> IF channel = "fmt" THEN m.aseq ELSE 0,
               type |-> IF channel = "fmt" THEN m.type ELSE "none"],
     data |-> bytes]

Body(m, size) == SubSeq(Frame(m, size), Header + 1, Header + size)

Heads ==
    [number : 1 .. MaxSends, command : {<<"rfs", 1>>, <<"sec", 2>>},
     size : Sizes, answers : {0, 255}, type : {"get", "none"}]

Carriable == {[head |-> h, data |-> Body(h.number, h.size)] : h \in Heads}

Given ==
    [m \in 1 .. Len(sent) |->
        Carried(sent[m].mseq, sent[m], Body(m, sent[m].size))]

Taken ==
    [i \in 1 .. Len(received) |->
        Carried(NumberOf(received[i].message), received[i].message,
                received[i].data)]

Numbers(ps) == {Number(ps[k]) : k \in 1 .. Len(ps)}

OnTheirWay == Numbers(Packets)

(* A frame lost in the middle, or the sender's buffer overrun. *)
Broken == torn \/ spc = "undefined"

Link == INSTANCE Channel WITH
    Messages <- Carriable, sent <- Given, inflight <- OnTheirWay,
    received <- Taken, failed <- failed, broken <- Broken

(* The send and receive functions of all three transports, whose reads and *)
(* writes cut frames anywhere, are such a channel: each receive that       *)
(* returns 0 returns the oldest message on its way, and every message that *)
(* does not arrive was lost by a call that returned -1, one by each, until *)
(* a frame is lost in the middle.                                          *)
ImplementsChannel == Link!Spec
=============================================================================
