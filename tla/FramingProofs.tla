--------------------------- MODULE FramingProofs ----------------------------
(***************************************************************************)
(* Proofs about the send and receive functions of the FMT and RFS          *)
(* channels, for every size of the header, of the buffer and of the data,  *)
(* any width of the length field and any number of messages.               *)
(*                                                                         *)
(* The argument follows the bytes between write() and read().  What the    *)
(* driver holds, with what the sender has still to write, is a chain of    *)
(* pieces of frames: each continues the one before it or begins the next   *)
(* frame after a whole one, and the last one ends a frame.  Only a call    *)
(* that failed may leave out whole frames.  The receiver stands at the     *)
(* start of the chain: between two calls at a header, during a call behind *)
(* the data it has so far.  Every write cuts the end of the chain, every   *)
(* read its start, and neither breaks it; so data are never taken for a    *)
(* header, and a frame is complete exactly when the count says so.         *)
(***************************************************************************)
EXTENDS FramingRefinement, SequenceTheorems, WellFoundedInduction, TLAPS

(* A packet starts at one byte of a frame and ends at another. *)
Byte == Nat \X Nat
First(p)  == p[1][2]
Final(p)  == (First(p) + Len(p)) - 1
FrameLen(s, m) == Header + s[m].size

(* A packet is a piece of one frame: consecutive bytes, and not none. *)
Piece(p, s) ==
    /\ p \in Seq(Byte) /\ Len(p) > 0
    /\ Number(p) \in 1 .. Len(s) /\ First(p) >= 1
    /\ Final(p) <= FrameLen(s, Number(p))
    /\ \A i \in 1 .. Len(p) : p[i] = <<Number(p), (First(p) + i) - 1>>

(* Packet q continues p's frame, or begins a later one after p's end. *)
Follows(p, q, s, lossy) ==
    \/ Number(q) = Number(p) /\ First(q) = Final(p) + 1
    \/ /\ Final(p) = FrameLen(s, Number(p))
       /\ First(q) = 1 /\ Number(q) > Number(p)
       /\ lossy \/ Number(q) = Number(p) + 1

(* Packets that follow one another to the end of a frame, and, when no     *)
(* call has failed, to the last message sent.                              *)
Chain(ps, s, lossy) ==
    /\ ps \in Seq(Seq(Byte))
    /\ \A k \in 1 .. Len(ps) : Piece(ps[k], s)
    /\ \A k \in 1 .. Len(ps) - 1 : Follows(ps[k], ps[k + 1], s, lossy)
    /\ Len(ps) > 0 =>
          /\ Final(ps[Len(ps)]) = FrameLen(s, Number(ps[Len(ps)]))
          /\ lossy \/ Number(ps[Len(ps)]) = Len(s)

(* What is sent and what is received. *)
Command == {<<"rfs", 1>>, <<"sec", 2>>}
Message == [mseq : Nat, aseq : Nat, command : Command,
            type : {"get", "none"}, size : Nat]
Delivery == [message : Message, data : Seq(Byte)]

(* The states of the two functions; messages are numbered as they are sent. *)
Control ==
    /\ transport \in {"smdk4412", "aries", "crespo"}
    /\ channel \in {"fmt", "rfs"}
    /\ spc \in {"idle", "writing", "undefined"}
    /\ rpc \in {"idle", "reading", "undefined"}
    /\ failed \in BOOLEAN /\ torn \in BOOLEAN /\ (torn => failed)
    /\ sent \in Seq(Message)
    /\ \A m \in 1 .. Len(sent) :
          /\ sent[m].mseq = m /\ sent[m].aseq = 255 /\ sent[m].type = "get"
          /\ sent[m].command \in ClientCommands

(* During a call the receiver has the header and less than all of the data *)
(* of a message, and the next packet goes on where its data end.           *)
Reading ==
    LET m == NumberOf(msg) IN
    /\ m \in 1 .. Len(sent)
    /\ msg = [MessageSetup(HeaderSetup(sent[m])) EXCEPT !.size = sent[m].size]
    /\ data \in Seq(Byte) /\ Len(data) < sent[m].size
    /\ \A i \in 1 .. Len(data) : data[i] = <<m, Header + i>>
    /\ Packets # <<>> /\ Number(Packets[1]) = m
    /\ First(Packets[1]) = Header + Len(data) + 1

(* The chain, with what each transport adds: a length that has not wrapped, *)
(* datagrams that fit the buffer, whole frames on crespo.                   *)
Stream ==
    /\ Chain(Packets, sent, failed)
    /\ transport # "crespo" =>
          \A m \in 1 .. Len(sent) :
             HeaderSetup(sent[m]).length = FrameLen(sent, m)
    /\ transport = "aries" => \A k \in 1 .. Len(wire) : Len(wire[k]) <= Buffer
    /\ transport = "crespo" =>
          /\ spc = "idle" /\ rpc = "idle"
          /\ \A k \in 1 .. Len(wire) :
                /\ First(wire[k]) = 1
                /\ Final(wire[k]) = FrameLen(sent, Number(wire[k]))
    /\ spc = "writing" => Number(out) = Len(sent)
    /\ wire \in Seq(Seq(Byte)) /\ (spc = "writing" => out \in Seq(Byte))
    /\ rpc = "idle" /\ Packets # <<>> => First(Packets[1]) = 1
    /\ rpc = "reading" => Reading

(* The number of the message that comes next. *)
Coming ==
    IF rpc = "reading" THEN NumberOf(msg)
    ELSE IF Packets # <<>> THEN Number(Packets[1]) ELSE Len(sent) + 1

(* The number of the i-th message received. *)
Got(i) == NumberOf(received[i].message)

(* Messages received are messages sent, unchanged and in order. *)
Ordered ==
    /\ received \in Seq(Delivery)
    /\ \A i \in 1 .. Len(received) :
          Got(i) \in 1 .. Len(sent) /\ SameMessage(received[i], Got(i))
    /\ \A i, j \in 1 .. Len(received) :
          i < j => Got(i) < Got(j)

(* They come before the next one, and when no call failed they are all     *)
(* those before it.                                                        *)
Progress ==
    /\ \A i \in 1 .. Len(received) : Got(i) < Coming
    /\ failed \/ Coming = Len(received) + 1

(* The inductive invariant.  Once a frame is torn nothing is claimed of    *)
(* the stream; once the sender copied beyond its buffer nothing is claimed *)
(* of what comes, but what was received before stands.                     *)
FInv ==
    /\ Control
    /\ ~torn => Ordered /\ rpc # "undefined"
    /\ ~torn /\ spc # "undefined" => Stream /\ Progress

(***************************************************************************)
(* What a step does to the channel.  It keeps every message on its way; it *)
(* loses the oldest or the last one, with -1; or the receiver hands over   *)
(* the oldest one.                                                         *)
(***************************************************************************)
Oldest(m) == m \in OnTheirWay /\ \A k \in OnTheirWay : m <= k

Keeps ==
    /\ UNCHANGED <<channel, sent, received>>
    /\ OnTheirWay' = OnTheirWay
    /\ failed' = failed \/ failed' = TRUE

Loses ==
    /\ UNCHANGED <<channel, sent, received>> /\ failed' = TRUE
    /\ \E m \in OnTheirWay :
          /\ m = Len(sent) \/ Oldest(m)
          /\ OnTheirWay' = OnTheirWay \ {m}

Hands ==
    /\ UNCHANGED <<channel, sent, failed>>
    /\ \E m \in OnTheirWay, r \in Delivery :
          /\ Oldest(m) /\ OnTheirWay' = OnTheirWay \ {m}
          /\ received' = Append(received, r) /\ NumberOf(r.message) = m

Moves == Keeps \/ Loses \/ Hands

-----------------------------------------------------------------------------
(* A buffer holds a header, and a header is not empty. *)
LEMMA BufferHoldsHeader ==
    Buffer \in Nat /\ Buffer >= 1 /\ Header \in Nat /\ Header >= 1
BY ConstantsAssumption

-----------------------------------------------------------------------------
(* A new frame is one piece, from its first byte to its last. *)
LEMMA FrameFacts ==
    ASSUME NEW n \in Nat, NEW size \in Nat
    PROVE  /\ Frame(n, size) \in Seq(Byte)
           /\ Len(Frame(n, size)) = Header + size
           /\ \A i \in 1 .. Header + size : Frame(n, size)[i] = <<n, i>>
           /\ Number(Frame(n, size)) = n /\ First(Frame(n, size)) = 1
           /\ Final(Frame(n, size)) = Header + size
<1> DEFINE len == Header + size
<1>1. len \in Nat /\ len >= 1
  BY ConstantsAssumption
<1> HIDE DEF len
<1> DEFINE f == [i \in 1 .. len |-> <<n, i>>]
<1>2. \A i \in 1 .. len : <<n, i>> \in Byte
  BY <1>1 DEF Byte
<1>3. f \in Seq(Byte)
  BY <1>1, <1>2, IsASeq
<1>4. Len(f) = len /\ \A i \in 1 .. len : f[i] = <<n, i>>
  BY <1>1, <1>3
<1>5. Number(f) = n /\ First(f) = 1
  BY <1>1, <1>4 DEF Number, First
<1>6. Final(f) = len
  BY <1>1, <1>4, <1>5 DEF Final
<1> QED
  BY <1>3, <1>4, <1>5, <1>6 DEF Frame, len

(* The two parts of a packet that is cut. *)
LEMMA PieceCut ==
    ASSUME NEW s \in Seq(Message), NEW p, Piece(p, s), NEW k \in 1 .. Len(p) - 1
    PROVE  LET a == SubSeq(p, 1, k)  b == SubSeq(p, k + 1, Len(p)) IN
           /\ Piece(a, s) /\ Number(a) = Number(p) /\ First(a) = First(p)
           /\ Len(a) = k /\ Final(a) = (First(p) + k) - 1
           /\ Piece(b, s) /\ Number(b) = Number(p)
           /\ First(b) = First(p) + k /\ Final(b) = Final(p)
           /\ a \in Seq(Byte) /\ b \in Seq(Byte)
<1> DEFINE a == SubSeq(p, 1, k)
           b == SubSeq(p, k + 1, Len(p))
           n == Number(p)
           f == First(p)
           l == Len(p)
<1>1. /\ p \in Seq(Byte) /\ n \in 1 .. Len(s) /\ f >= 1
      /\ (f + l) - 1 <= FrameLen(s, n)
      /\ \A i \in 1 .. l : p[i] = <<n, (f + i) - 1>>
  BY DEF Piece, Final
<1>2. l \in Nat /\ k \in 1 .. l - 1 /\ k + 1 \in 1 .. l /\ 1 \in 1 .. l /\ k \in Nat /\ l > 0
  BY <1>1
<1>3. f \in Nat
  <2>1. p[1] \in Byte
    BY <1>1, <1>2, ElementOfSeq
  <2> QED
    BY <2>1 DEF First, Byte
<1>4. /\ a \in Seq(Byte) /\ Len(a) = k
      /\ \A i \in 1 .. k : a[i] = p[i]
  <2>1. \A i \in 1 .. k : i \in 1 .. l
    BY <1>2
  <2> QED
    BY <1>1, <1>2, <2>1, SubSeqProperties
<1>5. /\ b \in Seq(Byte) /\ Len(b) = l - k
      /\ \A i \in 1 .. l - k : b[i] = p[k + i]
  BY <1>1, <1>2, SubSeqProperties
<1> HIDE DEF a, b, n, f, l
<1>6. \A i \in 1 .. k : a[i] = <<n, (f + i) - 1>>
  <2>1. \A i \in 1 .. k : i \in 1 .. l
    BY <1>2
  <2> QED
    BY <1>1, <1>4, <2>1
<1>7. \A i \in 1 .. l - k : b[i] = <<n, (f + (k + i)) - 1>>
  <2>1. \A i \in 1 .. l - k : k + i \in 1 .. l
    BY <1>2
  <2> QED
    BY <1>1, <1>5, <2>1
<1>8. Number(a) = n /\ First(a) = f
  <2>1. 1 \in 1 .. k /\ (f + 1) - 1 = f
    BY <1>2, <1>3
  <2>2. a[1] = <<n, f>>
    BY <1>6, <2>1
  <2> QED
    BY <2>2 DEF Number, First
<1>9. Number(b) = n /\ First(b) = f + k
  <2>1. 1 \in 1 .. l - k /\ (f + (k + 1)) - 1 = f + k
    BY <1>2, <1>3
  <2>2. b[1] = <<n, f + k>>
    BY <1>7, <2>1
  <2> QED
    BY <2>2 DEF Number, First
<1>10. Final(a) = (f + k) - 1 /\ Final(b) = (f + l) - 1
  BY <1>2, <1>3, <1>4, <1>5, <1>8, <1>9 DEF Final
<1>11. FrameLen(s, n) \in Nat
  <2>1. s[n] \in Message
    BY <1>1, ElementOfSeq
  <2> QED
    BY <2>1, ConstantsAssumption DEF FrameLen, Message
<1>12. Piece(a, s)
  <2>1. Final(a) <= FrameLen(s, n)
    BY <1>1, <1>2, <1>3, <1>10, <1>11
  <2> QED
    BY <1>1, <1>2, <1>4, <1>6, <1>8, <2>1 DEF Piece
<1>13. Piece(b, s)
  <2>1. \A i \in 1 .. l - k : (f + (k + i)) - 1 = ((f + k) + i) - 1
    BY <1>2, <1>3
  <2>2. Final(b) <= FrameLen(s, n)
    BY <1>1, <1>10
  <2>3. l - k > 0 /\ f + k >= 1
    BY <1>2, <1>3
  <2> QED
    BY <1>1, <1>5, <1>7, <1>9, <2>1, <2>2, <2>3 DEF Piece
<1> QED
  BY <1>4, <1>5, <1>8, <1>9, <1>10, <1>12, <1>13 DEF a, b, n, f, l, Final

(* Numbers of a packet. *)
LEMMA PieceNumbers ==
    ASSUME NEW s \in Seq(Message), NEW p, Piece(p, s)
    PROVE  /\ p \in Seq(Byte) /\ Len(p) \in Nat /\ Len(p) >= 1
           /\ Number(p) \in Nat /\ First(p) \in Nat /\ First(p) >= 1
           /\ Final(p) \in Nat /\ Final(p) >= First(p)
           /\ FrameLen(s, Number(p)) \in Nat
           /\ s[Number(p)] \in Message
<1>1. p \in Seq(Byte) /\ Len(p) \in Nat /\ Len(p) >= 1
  BY DEF Piece
<1>2. p[1] \in Byte
  BY <1>1, ElementOfSeq
<1>3. Number(p) \in Nat /\ First(p) \in Nat /\ First(p) >= 1
  BY <1>2 DEF Number, First, Byte, Piece
<1>4. s[Number(p)] \in Message
  BY ElementOfSeq DEF Piece
<1>5. FrameLen(s, Number(p)) \in Nat
  BY <1>4, ConstantsAssumption DEF FrameLen, Message
<1>6. Final(p) \in Nat /\ Final(p) >= First(p)
  BY <1>1, <1>3 DEF Final
<1> QED
  BY <1>1, <1>3, <1>4, <1>5, <1>6

(* The packets after the first. *)
LEMMA ChainTail ==
    ASSUME NEW s \in Seq(Message), NEW lossy \in BOOLEAN, NEW ps,
           Chain(ps, s, lossy), ps # <<>>
    PROVE  /\ Chain(Tail(ps), s, lossy) /\ Piece(ps[1], s)
           /\ Tail(ps) # <<>> => Follows(ps[1], Tail(ps)[1], s, lossy)
           /\ Tail(ps) = <<>> =>
                 /\ Final(ps[1]) = FrameLen(s, Number(ps[1]))
                 /\ lossy \/ Number(ps[1]) = Len(s)
<1>1. ps \in Seq(Seq(Byte)) /\ Len(ps) \in Nat /\ Len(ps) >= 1
  BY EmptySeq DEF Chain
<1> DEFINE t == Tail(ps)
           l == Len(ps)
<1>2. /\ t \in Seq(Seq(Byte)) /\ Len(t) = l - 1
      /\ \A k \in 1 .. l - 1 : t[k] = ps[k + 1]
  BY <1>1
<1> HIDE DEF t
<1>3. \A k \in 1 .. l - 1 : Piece(t[k], s)
  <2>1. \A k \in 1 .. l - 1 : k + 1 \in 1 .. l
    BY <1>1
  <2> QED
    BY <1>2, <2>1 DEF Chain
<1>4. \A k \in 1 .. (l - 1) - 1 : Follows(t[k], t[k + 1], s, lossy)
  <2>1. \A k \in 1 .. (l - 1) - 1 :
           k \in 1 .. l - 1 /\ k + 1 \in 1 .. l - 1 /\ k + 1 \in Nat
    BY <1>1
  <2> QED
    BY <1>2, <2>1 DEF Chain
<1>5. l - 1 > 0 => t[l - 1] = ps[l]
  BY <1>1, <1>2
<1>6. Chain(t, s, lossy)
  BY <1>1, <1>2, <1>3, <1>4, <1>5 DEF Chain
<1>7. Piece(ps[1], s)
  BY <1>1 DEF Chain
<1>8. t # <<>> => Follows(ps[1], t[1], s, lossy)
  <2> SUFFICES ASSUME t # <<>> PROVE Follows(ps[1], t[1], s, lossy)
    OBVIOUS
  <2>1. Len(t) # 0
    BY <1>2, EmptySeq
  <2>2. 1 \in 1 .. l - 1 /\ 1 + 1 = 2
    BY <1>1, <1>2, <2>1
  <2> QED
    BY <1>2, <2>2 DEF Chain
<1>9. t = <<>> => l = 1
  BY <1>1, <1>2
<1> QED
  BY <1>1, <1>6, <1>7, <1>8, <1>9 DEF Chain, t

(* The first of some packets is replaced. *)
LEMMA FirstReplaced ==
    ASSUME NEW ps \in Seq(Seq(Byte)), Len(ps) >= 1, NEW r \in Seq(Byte)
    PROVE  LET qs == <<r>> \o Tail(ps)  l == Len(ps) IN
           /\ qs \in Seq(Seq(Byte)) /\ Len(qs) = l /\ qs[1] = r
           /\ \A i \in 2 .. l : qs[i] = ps[i]
<1> DEFINE qs == <<r>> \o Tail(ps)
           l  == Len(ps)
<1>0. l \in Nat /\ l >= 1
  OBVIOUS
<1>1. /\ Tail(ps) \in Seq(Seq(Byte)) /\ Len(Tail(ps)) = l - 1
      /\ \A i \in 1 .. l - 1 : Tail(ps)[i] = ps[i + 1]
  BY <1>0
<1>2. <<r>> \in Seq(Seq(Byte)) /\ Len(<<r>>) = 1 /\ <<r>>[1] = r
  OBVIOUS
<1>3. \A i \in 2 .. l : i - 1 \in 1 .. l - 1 /\ (i - 1) + 1 = i /\ i > 1
  BY <1>0
<1>4. qs \in Seq(Seq(Byte)) /\ Len(qs) = 1 + (l - 1)
  BY <1>1, <1>2, ConcatProperties
<1>5. \A i \in 1 .. 1 + (l - 1) : qs[i] = IF i <= 1 THEN <<r>>[i] ELSE Tail(ps)[i - 1]
  BY <1>1, <1>2, ConcatProperties
<1>6. \A i \in 2 .. l : i \in 1 .. 1 + (l - 1) /\ ~(i <= 1)
  BY <1>0
<1>7. 1 + (l - 1) = l /\ 1 \in 1 .. 1 + (l - 1)
  BY <1>0
<1> HIDE DEF qs, l
<1>8. \A i \in 2 .. l : qs[i] = ps[i]
  BY <1>1, <1>3, <1>5, <1>6
<1>9. qs[1] = <<r>>[1]
  BY <1>5, <1>7
<1> QED
  BY <1>2, <1>4, <1>7, <1>8, <1>9 DEF qs, l

(* The first packet loses its first k bytes. *)
LEMMA ChainCutFirst ==
    ASSUME NEW s \in Seq(Message), NEW lossy \in BOOLEAN, NEW ps,
           Chain(ps, s, lossy), ps # <<>>, NEW k \in 1 .. Len(ps[1]) - 1
    PROVE  LET r  == SubSeq(ps[1], k + 1, Len(ps[1]))
               qs == <<r>> \o Tail(ps)
           IN Chain(qs, s, lossy) /\ qs # <<>> /\ qs[1] = r
<1> DEFINE r  == SubSeq(ps[1], k + 1, Len(ps[1]))
           qs == <<r>> \o Tail(ps)
           l  == Len(ps)
<1>1. ps \in Seq(Seq(Byte)) /\ l \in Nat /\ l >= 1
  BY EmptySeq DEF Chain
<1>2. Piece(ps[1], s)
  BY <1>1 DEF Chain
<1>3. /\ Piece(r, s) /\ Number(r) = Number(ps[1])
      /\ Final(r) = Final(ps[1]) /\ r \in Seq(Byte)
  BY <1>2, PieceCut
<1> HIDE DEF r
<1>4. /\ qs \in Seq(Seq(Byte)) /\ Len(qs) = l /\ qs[1] = r
      /\ \A i \in 2 .. l : qs[i] = ps[i]
  BY <1>1, <1>3, FirstReplaced
<1> HIDE DEF qs, l
<1>5. \A i \in 1 .. l : Piece(qs[i], s)
  <2>1. \A i \in 1 .. l : i = 1 \/ i \in 2 .. l
    BY <1>1
  <2>2. \A i \in 1 .. l : Piece(ps[i], s)
    BY DEF Chain, l
  <2> QED
    BY <1>3, <1>4, <2>1, <2>2
<1>6. \A i \in 1 .. l - 1 : Follows(qs[i], qs[i + 1], s, lossy)
  <2>1. \A i \in 1 .. l - 1 : (i = 1 \/ i \in 2 .. l) /\ i + 1 \in 2 .. l
    BY <1>1
  <2>2. \A i \in 1 .. l - 1 : Follows(ps[i], ps[i + 1], s, lossy)
    BY DEF Chain, l
  <2> QED
    BY <1>3, <1>4, <2>1, <2>2 DEF Follows
<1>7. /\ Final(qs[l]) = FrameLen(s, Number(qs[l]))
      /\ lossy \/ Number(qs[l]) = Len(s)
  <2>1. l = 1 \/ l \in 2 .. l
    BY <1>1
  <2>2. /\ Final(ps[l]) = FrameLen(s, Number(ps[l]))
        /\ lossy \/ Number(ps[l]) = Len(s)
    BY <1>1 DEF Chain, l
  <2> QED
    BY <1>3, <1>4, <2>1, <2>2
<1>8. Chain(qs, s, lossy)
  BY <1>4, <1>5, <1>6, <1>7 DEF Chain
<1>9. qs # <<>>
  BY <1>1, <1>4
<1> QED
  BY <1>4, <1>8, <1>9 DEF qs, r

(* Positions in a sequence with one more element. *)
LEMMA AppendFacts ==
    ASSUME NEW w \in Seq(Seq(Byte)), NEW o \in Seq(Byte)
    PROVE  /\ Append(w, o) \in Seq(Seq(Byte)) /\ Append(w, o) # <<>>
           /\ Len(w) \in Nat /\ Len(Append(w, o)) = Len(w) + 1
           /\ Append(w, o)[Len(w) + 1] = o
           /\ \A i \in 1 .. Len(w) : Append(w, o)[i] = w[i]
           /\ w = <<>> => Append(w, o)[1] = o
           /\ w # <<>> => Append(w, o)[1] = w[1]
<1>1. /\ Append(w, o) \in Seq(Seq(Byte))
      /\ Len(w) \in Nat /\ Len(Append(w, o)) = Len(w) + 1
      /\ Append(w, o)[Len(w) + 1] = o
      /\ \A i \in 1 .. Len(w) : Append(w, o)[i] = w[i]
  BY AppendProperties
<1>2. w # <<>> => 1 \in 1 .. Len(w)
  BY <1>1, EmptySeq
<1>3. w = <<>> => Len(w) + 1 = 1
  OBVIOUS
<1>4. Append(w, o) # <<>>
  <2> DEFINE a == Append(w, o)
  <2>1. a \in Seq(Seq(Byte)) /\ Len(a) # 0
    BY <1>1
  <2> HIDE DEF a
  <2>2. a # <<>>
    BY <2>1, EmptySeq
  <2> QED
    BY <2>2 DEF a
<1> QED
  BY <1>1, <1>2, <1>3, <1>4

(* A chain with one more packet at its end, taken apart. *)
LEMMA ChainLast ==
    ASSUME NEW s \in Seq(Message), NEW lossy \in BOOLEAN,
           NEW w \in Seq(Seq(Byte)), NEW o \in Seq(Byte)
    PROVE  Chain(Append(w, o), s, lossy) <=>
              /\ \A k \in 1 .. Len(w) : Piece(w[k], s)
              /\ Piece(o, s)
              /\ \A k \in 1 .. Len(w) - 1 : Follows(w[k], w[k + 1], s, lossy)
              /\ w # <<>> => Follows(w[Len(w)], o, s, lossy)
              /\ Final(o) = FrameLen(s, Number(o))
              /\ lossy \/ Number(o) = Len(s)
<1> DEFINE a == Append(w, o)
           l == Len(w)
<1>1. /\ a \in Seq(Seq(Byte)) /\ l \in Nat /\ Len(a) = l + 1 /\ a[l + 1] = o
      /\ \A i \in 1 .. l : a[i] = w[i]
  BY AppendFacts
<1>2. w # <<>> <=> l > 0
  BY <1>1, EmptySeq
<1> HIDE DEF a, l
<1>3. (\A k \in 1 .. l + 1 : Piece(a[k], s)) <=>
         (\A k \in 1 .. l : Piece(w[k], s)) /\ Piece(o, s)
  <2>1. \A k \in 1 .. l + 1 : k \in 1 .. l \/ k = l + 1
    BY <1>1
  <2>2. (\A k \in 1 .. l : k \in 1 .. l + 1) /\ l + 1 \in 1 .. l + 1
    BY <1>1
  <2> QED
    BY <1>1, <2>1, <2>2
<1>4. (\A k \in 1 .. (l + 1) - 1 : Follows(a[k], a[k + 1], s, lossy)) <=>
         /\ \A k \in 1 .. l - 1 : Follows(w[k], w[k + 1], s, lossy)
         /\ l > 0 => Follows(w[l], o, s, lossy)
  <2>1. \A k \in 1 .. (l + 1) - 1 :
           k \in 1 .. l /\ ((k \in 1 .. l - 1 /\ k + 1 \in 1 .. l) \/ (k = l /\ l > 0))
    BY <1>1
  <2>2. /\ \A k \in 1 .. l - 1 : k \in 1 .. (l + 1) - 1 /\ k \in 1 .. l /\ k + 1 \in 1 .. l
        /\ l > 0 => l \in 1 .. (l + 1) - 1 /\ l \in 1 .. l
    BY <1>1
  <2> QED
    BY <1>1, <2>1, <2>2
<1>5. l + 1 > 0
  BY <1>1
<1>6. Chain(a, s, lossy) <=>
         /\ \A k \in 1 .. l + 1 : Piece(a[k], s)
         /\ \A k \in 1 .. (l + 1) - 1 : Follows(a[k], a[k + 1], s, lossy)
         /\ Final(o) = FrameLen(s, Number(o))
         /\ lossy \/ Number(o) = Len(s)
  BY <1>1, <1>5 DEF Chain
<1> QED
  BY <1>2, <1>3, <1>4, <1>6 DEF a, l

(* The last packet is given to the driver in two parts. *)
LEMMA ChainCutLast ==
    ASSUME NEW s \in Seq(Message), NEW lossy \in BOOLEAN,
           NEW w \in Seq(Seq(Byte)), NEW o \in Seq(Byte),
           Chain(Append(w, o), s, lossy), NEW k \in 1 .. Len(o) - 1
    PROVE  Chain(Append(Append(w, SubSeq(o, 1, k)), SubSeq(o, k + 1, Len(o))),
                 s, lossy)
<1> DEFINE a == SubSeq(o, 1, k)
           b == SubSeq(o, k + 1, Len(o))
           v == Append(w, a)
           l == Len(w)
<1>1. /\ \A i \in 1 .. l : Piece(w[i], s)
      /\ Piece(o, s)
      /\ \A i \in 1 .. l - 1 : Follows(w[i], w[i + 1], s, lossy)
      /\ w # <<>> => Follows(w[l], o, s, lossy)
      /\ Final(o) = FrameLen(s, Number(o))
      /\ lossy \/ Number(o) = Len(s)
  BY ChainLast
<1>2. /\ Piece(a, s) /\ Number(a) = Number(o) /\ First(a) = First(o)
      /\ Final(a) = (First(o) + k) - 1
      /\ Piece(b, s) /\ Number(b) = Number(o)
      /\ First(b) = First(o) + k /\ Final(b) = Final(o)
      /\ a \in Seq(Byte) /\ b \in Seq(Byte)
  BY <1>1, PieceCut
<1>3. First(b) = Final(a) + 1
  <2>1. First(o) \in Nat /\ k \in Nat
    BY <1>1, PieceNumbers
  <2> QED
    BY <1>2, <2>1
<1> HIDE DEF a, b
<1>4. /\ v \in Seq(Seq(Byte)) /\ v # <<>> /\ l \in Nat /\ Len(v) = l + 1
      /\ v[l + 1] = a /\ \A i \in 1 .. l : v[i] = w[i]
  BY <1>2, AppendFacts
<1>5. w # <<>> <=> l > 0
  BY <1>4, EmptySeq
<1> HIDE DEF v, l
<1>6. \A i \in 1 .. l + 1 : Piece(v[i], s)
  <2>1. \A i \in 1 .. l + 1 : i \in 1 .. l \/ i = l + 1
    BY <1>4
  <2> QED
    BY <1>1, <1>2, <1>4, <2>1
<1>7. \A i \in 1 .. (l + 1) - 1 : Follows(v[i], v[i + 1], s, lossy)
  <2>1. \A i \in 1 .. (l + 1) - 1 :
           i \in 1 .. l /\ ((i \in 1 .. l - 1 /\ i + 1 \in 1 .. l) \/ (i = l /\ l > 0))
    BY <1>4
  <2>2. l > 0 => Follows(w[l], a, s, lossy)
    BY <1>1, <1>2, <1>5 DEF Follows
  <2> QED
    BY <1>1, <1>4, <2>1, <2>2
<1>8. Follows(v[l + 1], b, s, lossy)
  BY <1>2, <1>3, <1>4 DEF Follows
<1> QED
  <2>1. Chain(Append(v, b), s, lossy)
    BY <1>1, <1>2, <1>4, <1>6, <1>7, <1>8, ChainLast
  <2> QED
    BY <2>1 DEF v, a, b

(* The last packet is given up before any of its frame was written. *)
LEMMA ChainDropLast ==
    ASSUME NEW s \in Seq(Message), NEW lossy \in BOOLEAN,
           NEW w \in Seq(Seq(Byte)), NEW o \in Seq(Byte),
           Chain(Append(w, o), s, lossy), First(o) = 1
    PROVE  Chain(w, s, TRUE)
<1> DEFINE l == Len(w)
<1>1. /\ \A i \in 1 .. l : Piece(w[i], s)
      /\ \A i \in 1 .. l - 1 : Follows(w[i], w[i + 1], s, lossy)
      /\ w # <<>> => Follows(w[l], o, s, lossy)
  BY ChainLast
<1>2. l \in Nat /\ (l > 0 => w # <<>> /\ l \in 1 .. l)
  BY EmptySeq
<1> HIDE DEF l
<1>3. l > 0 => Final(w[l]) = FrameLen(s, Number(w[l]))
  <2> SUFFICES ASSUME l > 0 PROVE Final(w[l]) = FrameLen(s, Number(w[l]))
    OBVIOUS
  <2>1. Piece(w[l], s) /\ Follows(w[l], o, s, lossy)
    BY <1>1, <1>2
  <2>2. Final(w[l]) \in Nat /\ Final(w[l]) >= 1
    BY <2>1, PieceNumbers
  <2> QED
    BY <2>1, <2>2 DEF Follows
<1>4. \A i \in 1 .. l - 1 : Follows(w[i], w[i + 1], s, TRUE)
  BY <1>1 DEF Follows
<1> QED
  BY <1>1, <1>3, <1>4 DEF Chain, l

(* A failed call leaves room for lost messages. *)
LEMMA ChainLossy ==
    ASSUME NEW s, NEW lossy \in BOOLEAN, NEW ps, Chain(ps, s, lossy)
    PROVE  Chain(ps, s, TRUE)
BY DEF Chain, Follows
-----------------------------------------------------------------------------
(* Which messages the packets of a chain belong to.  Some numbers have a   *)
(* least one.                                                              *)
LEMMA LeastOf ==
    ASSUME NEW S \in SUBSET Nat, S # {}
    PROVE  \E x \in S : \A y \in S : x <= y
<1> DEFINE R == {e \in Nat \X Nat : e[1] < e[2]}
<1>1. IsWellFoundedOn(R, Nat)
  BY NatLessThanWellFounded DEF OpToRel
<1>2. PICK x \in S : \A y \in S : <<y, x>> \notin R
  <2> HIDE DEF R
  <2> QED
    BY <1>1, WFMin
<1>3. \A y \in S : <<y, x>> \in Nat \X Nat /\ <<y, x>>[1] = y /\ <<y, x>>[2] = x
  OBVIOUS
<1>4. \A y \in S : ~(y < x)
  BY <1>2, <1>3
<1> QED
  BY <1>4

(* Along a chain the numbers rise. *)
LEMMA ChainRises ==
    ASSUME NEW s \in Seq(Message), NEW lossy \in BOOLEAN, NEW ps,
           Chain(ps, s, lossy), NEW i \in 1 .. Len(ps), NEW j \in i .. Len(ps)
    PROVE  Number(ps[i]) <= Number(ps[j])
<1>1. ps \in Seq(Seq(Byte)) /\ Len(ps) \in Nat
  BY DEF Chain
<1>2. \A k \in 1 .. Len(ps) : Number(ps[k]) \in Nat
  BY PieceNumbers DEF Chain
<1>3. \A k \in 1 .. Len(ps) - 1 : Number(ps[k]) <= Number(ps[k + 1])
  <2> SUFFICES ASSUME NEW k \in 1 .. Len(ps) - 1
               PROVE  Number(ps[k]) <= Number(ps[k + 1])
    OBVIOUS
  <2>1. Follows(ps[k], ps[k + 1], s, lossy)
    BY DEF Chain
  <2>2. k \in 1 .. Len(ps) /\ k + 1 \in 1 .. Len(ps)
    BY <1>1
  <2>3. Number(ps[k]) \in Nat /\ Number(ps[k + 1]) \in Nat
    BY <1>2, <2>2
  <2> QED
    BY <2>1, <2>3 DEF Follows
<1> DEFINE S == {k \in i .. Len(ps) : ~(Number(ps[i]) <= Number(ps[k]))}
<1>4. SUFFICES ASSUME S # {} PROVE FALSE
  BY DEF S
<1>5. S \in SUBSET Nat
  BY <1>1
<1>6. PICK x \in S : \A y \in S : x <= y
  BY <1>4, <1>5, LeastOf
<1>7. x \in i .. Len(ps) /\ ~(Number(ps[i]) <= Number(ps[x]))
  BY <1>6
<1>8. x # i
  BY <1>1, <1>2, <1>7
<1>9. /\ x - 1 \in i .. Len(ps) /\ x - 1 \in 1 .. Len(ps) - 1
      /\ (x - 1) + 1 = x /\ ~(x <= x - 1) /\ x \in 1 .. Len(ps)
      /\ x - 1 \in 1 .. Len(ps)
  BY <1>1, <1>7, <1>8
<1>10. x - 1 \notin S
  BY <1>6, <1>9
<1>11. Number(ps[i]) <= Number(ps[x - 1])
  BY <1>9, <1>10
<1>12. Number(ps[x - 1]) <= Number(ps[x])
  BY <1>3, <1>9
<1>13. /\ Number(ps[i]) \in Nat /\ Number(ps[x - 1]) \in Nat
       /\ Number(ps[x]) \in Nat
  BY <1>2, <1>9
<1> QED
  BY <1>7, <1>11, <1>12, <1>13

(* A frame that is followed by more of itself is not at its end. *)
LEMMA EndIsEnd ==
    ASSUME NEW s \in Seq(Message), NEW lossy \in BOOLEAN, NEW p, NEW q,
           Piece(p, s), Piece(q, s), Follows(p, q, s, lossy)
    PROVE  /\ Final(p) = FrameLen(s, Number(p)) => Number(q) > Number(p)
           /\ Final(p) # FrameLen(s, Number(p)) => Number(q) = Number(p)
           /\ First(q) = 1 => Number(q) > Number(p)
<1>1. /\ Number(p) \in Nat /\ Final(p) \in Nat /\ Number(q) \in Nat
      /\ First(p) \in Nat /\ First(p) >= 1 /\ Final(p) >= First(p)
      /\ First(q) \in Nat /\ Final(q) \in Nat /\ Final(q) >= First(q)
      /\ FrameLen(s, Number(p)) \in Nat /\ FrameLen(s, Number(q)) \in Nat
  BY PieceNumbers
<1>2. Final(q) <= FrameLen(s, Number(q))
  BY DEF Piece
<1>3. CASE Number(q) = Number(p) /\ First(q) = Final(p) + 1
  BY <1>1, <1>2, <1>3
<1>4. CASE Final(p) = FrameLen(s, Number(p)) /\ Number(q) > Number(p)
  BY <1>4
<1> QED
  BY <1>3, <1>4 DEF Follows

(* The first packet of a chain is of the oldest message.                   *)
LEMMA OldestFirst ==
    ASSUME NEW s \in Seq(Message), NEW lossy \in BOOLEAN, NEW ps,
           Chain(ps, s, lossy), ps # <<>>
    PROVE  /\ Number(ps[1]) \in Numbers(ps)
           /\ \A k \in Numbers(ps) : Number(ps[1]) <= k
<1>1. 1 \in 1 .. Len(ps) /\ Len(ps) \in Nat
  BY EmptySeq DEF Chain
<1>2. \A k \in 1 .. Len(ps) : Number(ps[1]) <= Number(ps[k])
  BY <1>1, ChainRises
<1> QED
  BY <1>1, <1>2 DEF Numbers

(* Without its first packet a chain has one message less, if that packet   *)
(* ends the frame, and as many if it does not.                             *)
LEMMA NumbersTail ==
    ASSUME NEW s \in Seq(Message), NEW lossy \in BOOLEAN, NEW ps,
           Chain(ps, s, lossy), ps # <<>>
    PROVE  /\ Final(ps[1]) = FrameLen(s, Number(ps[1])) =>
                 Numbers(Tail(ps)) = Numbers(ps) \ {Number(ps[1])}
           /\ Final(ps[1]) # FrameLen(s, Number(ps[1])) =>
                 Numbers(Tail(ps)) = Numbers(ps)
<1> DEFINE t == Tail(ps)
<1>1. /\ ps \in Seq(Seq(Byte)) /\ Len(ps) \in Nat /\ Len(ps) >= 1
      /\ t \in Seq(Seq(Byte)) /\ Len(t) = Len(ps) - 1
      /\ \A k \in 1 .. Len(ps) - 1 : t[k] = ps[k + 1]
  <2>1. ps \in Seq(Seq(Byte)) /\ Len(ps) \in Nat /\ Len(ps) >= 1
    BY EmptySeq DEF Chain
  <2> QED
    BY <2>1
<1>2. /\ Chain(t, s, lossy) /\ Piece(ps[1], s)
      /\ t # <<>> => Follows(ps[1], t[1], s, lossy)
      /\ t = <<>> => Final(ps[1]) = FrameLen(s, Number(ps[1]))
  BY ChainTail
<1> HIDE DEF t
<1>3. Numbers(ps) = Numbers(t) \cup {Number(ps[1])}
  <2>1. \A k \in 1 .. Len(ps) : k = 1 \/ (k - 1 \in 1 .. Len(t) /\ t[k - 1] = ps[k])
    <3>1. \A k \in 1 .. Len(ps) : k # 1 =>
             k - 1 \in 1 .. Len(ps) - 1 /\ (k - 1) + 1 = k
      BY <1>1
    <3> QED
      BY <1>1, <3>1
  <2>2. \A k \in 1 .. Len(t) : k + 1 \in 1 .. Len(ps) /\ t[k] = ps[k + 1]
    BY <1>1
  <2>3. 1 \in 1 .. Len(ps)
    BY <1>1
  <2>4. Numbers(t) \cup {Number(ps[1])} \subseteq Numbers(ps)
    BY <2>2, <2>3 DEF Numbers
  <2>5. ASSUME NEW x \in Numbers(ps) PROVE x \in Numbers(t) \cup {Number(ps[1])}
    <3>1. PICK k \in 1 .. Len(ps) : x = Number(ps[k])
      BY <2>5 DEF Numbers
    <3>2. CASE k = 1
      BY <3>1, <3>2
    <3>3. CASE k - 1 \in 1 .. Len(t) /\ t[k - 1] = ps[k]
      BY <3>1, <3>3 DEF Numbers
    <3> QED
      BY <2>1, <3>2, <3>3
  <2> QED
    BY <2>4, <2>5
<1>4. CASE t = <<>>
  <2>1. Len(t) = 0
    BY <1>4
  <2>2. Numbers(t) = {}
    BY <2>1 DEF Numbers
  <2> QED
    BY <1>2, <1>3, <1>4, <2>2 DEF t
<1>5. CASE t # <<>>
  <2>1. Piece(t[1], s)
    BY <1>2, <1>5, ChainTail
  <2>2. /\ Final(ps[1]) = FrameLen(s, Number(ps[1])) =>
              Number(t[1]) > Number(ps[1])
        /\ Final(ps[1]) # FrameLen(s, Number(ps[1])) =>
              Number(t[1]) = Number(ps[1])
    BY <1>2, <1>5, <2>1, EndIsEnd
  <2>3. Number(t[1]) \in Numbers(t) /\ \A k \in Numbers(t) : Number(t[1]) <= k
    BY <1>2, <1>5, OldestFirst
  <2>4. Number(t[1]) \in Nat /\ Number(ps[1]) \in Nat
    BY <1>2, <2>1, PieceNumbers
  <2>5. Final(ps[1]) = FrameLen(s, Number(ps[1])) => Number(ps[1]) \notin Numbers(t)
    BY <2>2, <2>3, <2>4
  <2> QED
    BY <1>3, <2>2, <2>3, <2>5 DEF t
<1> QED
  BY <1>4, <1>5

(* The first packet without its beginning. *)
LEMMA NumbersCut ==
    ASSUME NEW s \in Seq(Message), NEW lossy \in BOOLEAN, NEW ps,
           Chain(ps, s, lossy), ps # <<>>,
           NEW r \in Seq(Byte), Number(r) = Number(ps[1])
    PROVE  Numbers(<<r>> \o Tail(ps)) = Numbers(ps)
<1> DEFINE qs == <<r>> \o Tail(ps)
           l  == Len(ps)
<1>1. ps \in Seq(Seq(Byte)) /\ l \in Nat /\ l >= 1
  BY EmptySeq DEF Chain
<1>2. Len(qs) = l /\ qs[1] = r /\ \A i \in 2 .. l : qs[i] = ps[i]
  BY <1>1, FirstReplaced
<1> HIDE DEF qs
<1>3. \A i \in 1 .. l : Number(qs[i]) = Number(ps[i])
  <2>1. \A i \in 1 .. l : i = 1 \/ i \in 2 .. l
    BY <1>1
  <2> QED
    BY <1>2, <2>1
<1>4. Numbers(qs) = Numbers(ps)
  BY <1>2, <1>3 DEF Numbers
<1> QED
  BY <1>4 DEF qs

(* One more packet. *)
LEMMA NumbersAppend ==
    ASSUME NEW w \in Seq(Seq(Byte)), NEW o \in Seq(Byte)
    PROVE  Numbers(Append(w, o)) = Numbers(w) \cup {Number(o)}
<1> DEFINE a == Append(w, o)
<1>1. /\ Len(w) \in Nat /\ Len(a) = Len(w) + 1 /\ a[Len(w) + 1] = o
      /\ \A i \in 1 .. Len(w) : a[i] = w[i]
  BY AppendFacts
<1> HIDE DEF a
<1>2. /\ \A i \in 1 .. Len(a) : i \in 1 .. Len(w) \/ i = Len(w) + 1
      /\ \A i \in 1 .. Len(w) : i \in 1 .. Len(a)
      /\ Len(w) + 1 \in 1 .. Len(a)
  BY <1>1
<1>3. Numbers(a) = Numbers(w) \cup {Number(o)}
  BY <1>1, <1>2 DEF Numbers
<1> QED
  BY <1>3 DEF a

(* A packet that begins a frame is the only one of its message at the end. *)
LEMMA LastIsNew ==
    ASSUME NEW s \in Seq(Message), NEW lossy \in BOOLEAN,
           NEW w \in Seq(Seq(Byte)), NEW o \in Seq(Byte),
           Chain(Append(w, o), s, lossy), First(o) = 1
    PROVE  Number(o) \notin Numbers(w)
<1> DEFINE a == Append(w, o)
           l == Len(w)
<1>1. /\ l \in Nat /\ Len(a) = l + 1 /\ a[l + 1] = o
      /\ \A i \in 1 .. l : a[i] = w[i]
  BY AppendFacts
<1>2. /\ \A k \in 1 .. l : Piece(w[k], s)
      /\ Piece(o, s) /\ (w # <<>> => Follows(w[l], o, s, lossy))
  BY ChainLast
<1> HIDE DEF a
<1>3. ASSUME NEW k \in 1 .. l PROVE Number(w[k]) # Number(o)
  <2>1. l \in 1 .. l /\ w # <<>>
    BY <1>1, <1>3
  <2>2. Number(o) > Number(w[l])
    BY <1>2, <2>1, EndIsEnd
  <2>3. k \in 1 .. Len(a) /\ l \in k .. Len(a)
    BY <1>1, <1>3
  <2>4. Number(a[k]) <= Number(a[l])
    BY <2>3, ChainRises DEF a
  <2>5. Number(w[k]) <= Number(w[l])
    BY <1>1, <1>3, <2>1, <2>4
  <2>6. Number(o) \in Nat /\ Number(w[k]) \in Nat /\ Number(w[l]) \in Nat
    BY <1>2, <1>3, <2>1, PieceNumbers
  <2> QED
    BY <2>2, <2>5, <2>6
<1> QED
  BY <1>3 DEF Numbers

(* A new message. *)
LEMMA ChainAppend ==
    ASSUME NEW s \in Seq(Message), NEW lossy \in BOOLEAN, NEW m \in Message,
           NEW w \in Seq(Seq(Byte)), Chain(w, s, lossy)
    PROVE  /\ Chain(Append(w, Frame(Len(s) + 1, m.size)), Append(s, m), lossy)
           /\ Chain(w, Append(s, m), TRUE)
<1> DEFINE t == Append(s, m)
           o == Frame(Len(s) + 1, m.size)
           l == Len(w)
<1>1. /\ Len(s) \in Nat /\ t \in Seq(Message) /\ Len(t) = Len(s) + 1
      /\ t[Len(s) + 1] = m /\ \A i \in 1 .. Len(s) : t[i] = s[i]
  BY AppendProperties
<1>2. m.size \in Nat
  BY DEF Message
<1>3. /\ o \in Seq(Byte) /\ Len(o) = Header + m.size
      /\ \A i \in 1 .. Header + m.size : o[i] = <<Len(s) + 1, i>>
      /\ Number(o) = Len(s) + 1 /\ First(o) = 1 /\ Final(o) = Header + m.size
  <2>1. Len(s) + 1 \in Nat
    BY <1>1
  <2> QED
    BY <1>2, <2>1, FrameFacts
<1> HIDE DEF t, o
<1>4. \A p : Piece(p, s) => /\ Piece(p, t) /\ Number(p) <= Len(s)
                            /\ FrameLen(t, Number(p)) = FrameLen(s, Number(p))
  <2> SUFFICES ASSUME NEW p, Piece(p, s)
               PROVE  /\ Piece(p, t) /\ Number(p) <= Len(s)
                      /\ FrameLen(t, Number(p)) = FrameLen(s, Number(p))
    OBVIOUS
  <2>1. Number(p) \in 1 .. Len(s)
    BY DEF Piece
  <2>2. Number(p) \in 1 .. Len(t) /\ Number(p) <= Len(s)
    BY <1>1, <2>1
  <2>3. FrameLen(t, Number(p)) = FrameLen(s, Number(p))
    BY <1>1, <2>1 DEF FrameLen
  <2> QED
    BY <2>2, <2>3 DEF Piece
<1>5. Piece(o, t) /\ FrameLen(t, Number(o)) = Final(o)
  <2>1. FrameLen(t, Len(s) + 1) = Header + m.size
    BY <1>1 DEF FrameLen
  <2>2. Header + m.size \in Nat /\ Header + m.size > 0
    BY <1>2, ConstantsAssumption
  <2>3. \A i \in 1 .. Header + m.size : (1 + i) - 1 = i
    BY <2>2
  <2>4. Len(s) + 1 \in 1 .. Len(t)
    BY <1>1
  <2> QED
    BY <1>3, <2>1, <2>2, <2>3, <2>4 DEF Piece
<1>6. /\ \A k \in 1 .. l : Piece(w[k], s)
      /\ \A k \in 1 .. l - 1 : Follows(w[k], w[k + 1], s, lossy)
      /\ l > 0 => /\ Final(w[l]) = FrameLen(s, Number(w[l]))
                  /\ lossy \/ Number(w[l]) = Len(s)
  BY DEF Chain
<1>7. l \in Nat /\ (w # <<>> <=> l > 0) /\ (l > 0 => l \in 1 .. l)
  BY EmptySeq
<1> HIDE DEF l
<1>8. \A k \in 1 .. l : Piece(w[k], t)
  BY <1>4, <1>6
<1>9. \A k \in 1 .. l - 1 : Follows(w[k], w[k + 1], t, lossy)
  <2>1. \A k \in 1 .. l - 1 : k \in 1 .. l
    BY <1>7
  <2> QED
    BY <1>4, <1>6, <2>1 DEF Follows
<1>10. w # <<>> => Follows(w[l], o, t, lossy)
  <2> SUFFICES ASSUME w # <<>> PROVE Follows(w[l], o, t, lossy)
    OBVIOUS
  <2>1. Piece(w[l], s)
    BY <1>6, <1>7
  <2>2. /\ FrameLen(t, Number(w[l])) = FrameLen(s, Number(w[l]))
        /\ Number(w[l]) <= Len(s)
    BY <1>4, <2>1
  <2>3. Number(w[l]) \in Nat
    BY <2>1, PieceNumbers
  <2>4. Number(o) > Number(w[l])
    BY <1>1, <1>3, <2>2, <2>3
  <2> QED
    BY <1>3, <1>6, <1>7, <2>2, <2>4 DEF Follows
<1>11. Chain(Append(w, o), t, lossy)
  BY <1>1, <1>3, <1>5, <1>7, <1>8, <1>9, <1>10, ChainLast DEF l
<1>12. Chain(w, t, TRUE)
  <2>1. l > 0 => Final(w[l]) = FrameLen(t, Number(w[l]))
    BY <1>4, <1>6, <1>7
  <2>2. \A k \in 1 .. l - 1 : Follows(w[k], w[k + 1], t, TRUE)
    BY <1>9 DEF Follows
  <2> QED
    BY <1>8, <2>1, <2>2 DEF Chain, l
<1> QED
  BY <1>11, <1>12 DEF t, o
-----------------------------------------------------------------------------
(* A remainder is no larger than the number divided. *)
LEMMA ModSmaller ==
    ASSUME NEW x \in Nat, NEW w \in Nat \ {0}
    PROVE  x % w \in Nat /\ x % w <= x
<1>1. x % w \in 0 .. w - 1
  OBVIOUS
<1>2. x % w <= x
  OBVIOUS
<1> QED
  BY <1>1, <1>2

(* What the header of a message says, and what is read from it. *)
LEMMA Decoded ==
    ASSUME Control, NEW n \in 1 .. Len(sent), NEW size \in Nat
    PROVE  LET r == [MessageSetup(HeaderSetup(sent[n])) EXCEPT !.size = size] IN
           /\ r \in Message /\ r.size = size /\ NumberOf(r) = n
           /\ r.command = sent[n].command
           /\ channel = "fmt" => /\ r.mseq = sent[n].mseq
                                 /\ r.aseq = sent[n].aseq
                                 /\ r.type = sent[n].type
           /\ channel # "fmt" => r.aseq = sent[n].mseq
<1>1. /\ sent[n] \in Message /\ sent[n].mseq = n /\ n \in Nat
      /\ sent[n].command \in ClientCommands
      /\ channel \in {"fmt", "rfs"}
  <2>1. sent[n] \in Message
    BY ElementOfSeq DEF Control
  <2> QED
    BY <2>1 DEF Control
<1> DEFINE c == sent[n].command
<1>2. CASE channel = "fmt"
  <2>1. c = <<"sec", 2>>
    BY <1>1, <1>2 DEF ClientCommands
  <2>2. [MessageSetup(HeaderSetup(sent[n])) EXCEPT !.size = size] =
           [mseq |-> sent[n].mseq, aseq |-> sent[n].aseq,
            command |-> <<c[1], c[2]>>, type |-> sent[n].type, size |-> size]
    BY <1>2 DEF MessageSetup, HeaderSetup, IpcFmtMessageSetup,
       IpcFmtHeaderSetup
  <2>3. <<c[1], c[2]>> = c
    BY <2>1
  <2> QED
    BY <1>1, <1>2, <2>2, <2>3 DEF Message, NumberOf
<1>3. CASE channel = "rfs"
  <2>1. c = <<"rfs", 1>>
    BY <1>1, <1>3 DEF ClientCommands
  <2>2. [MessageSetup(HeaderSetup(sent[n])) EXCEPT !.size = size] =
           [mseq |-> 0, aseq |-> sent[n].mseq,
            command |-> <<"rfs", c[2]>>, type |-> "none", size |-> size]
    BY <1>3 DEF MessageSetup, HeaderSetup, IpcRfsMessageSetup,
       IpcRfsHeaderSetup
  <2>3. <<"rfs", c[2]>> = c
    BY <2>1
  <2> QED
    BY <1>1, <1>3, <2>2, <2>3 DEF Message, NumberOf
<1> QED
  BY <1>1, <1>2, <1>3

(* The data behind a header. *)
LEMMA RestFacts ==
    ASSUME NEW got \in Seq(Byte), Len(got) >= Header
    PROVE  LET rest == SubSeq(got, Header + 1, Len(got)) IN
           /\ rest \in Seq(Byte) /\ Len(rest) = Len(got) - Header
           /\ \A i \in 1 .. Len(got) - Header :
                 rest[i] = got[Header + i] /\ Header + i \in 1 .. Len(got)
<1> DEFINE rest == SubSeq(got, Header + 1, Len(got))
           l == Len(got)
<1>1. l \in Nat /\ Header \in Nat /\ l >= Header /\ Header >= 1
  BY ConstantsAssumption
<1>2. CASE l = Header
  <2>1. rest = <<>>
    <3>1. Header + 1 > l /\ Header + 1 \in Int /\ l \in Int
      BY <1>1, <1>2
    <3> QED
      BY <3>1, SubSeqEmpty
  <2> HIDE DEF rest
  <2>2. rest \in Seq(Byte) /\ Len(rest) = 0 /\ l - Header = 0
    BY <1>1, <1>2, <2>1
  <2>3. \A i \in 1 .. l - Header : FALSE
    BY <2>2
  <2> QED
    BY <2>2, <2>3 DEF rest
<1>3. CASE l > Header
  <2>1. Header + 1 \in 1 .. l /\ l \in 1 .. l
    BY <1>1, <1>3
  <2>2. /\ rest \in Seq(Byte) /\ Len(rest) = (l - (Header + 1)) + 1
        /\ \A i \in 1 .. (l - (Header + 1)) + 1 : rest[i] = got[((Header + 1) + i) - 1]
    BY <2>1, SubSeqProperties
  <2>3. (l - (Header + 1)) + 1 = l - Header
    BY <1>1
  <2>4. \A i \in 1 .. l - Header : /\ ((Header + 1) + i) - 1 = Header + i
                                   /\ Header + i \in 1 .. l
    BY <1>1
  <2> HIDE DEF rest
  <2> QED
    BY <2>2, <2>3, <2>4 DEF rest
<1> QED
  BY <1>1, <1>2, <1>3

(* Handing a message over. *)
LEMMA Delivering ==
    ASSUME Control, Ordered, UNCHANGED <<channel, sent>>,
           NEW n \in 1 .. Len(sent),
           \A i \in 1 .. Len(received) : Got(i) < n,
           NEW r, NEW bytes \in Seq(Byte), Len(bytes) = sent[n].size,
           \A i \in 1 .. Len(bytes) : bytes[i] = <<n, Header + i>>,
           [r EXCEPT !.size = Len(bytes)] =
              [MessageSetup(HeaderSetup(sent[n])) EXCEPT !.size = sent[n].size],
           Deliver(r, bytes)
    PROVE  /\ Ordered' /\ rpc' = "idle"
           /\ Len(received') = Len(received) + 1 /\ Len(received) \in Nat
           /\ \A i \in 1 .. Len(received') :
                 Got(i)' <= n
<1> DEFINE q == [MessageSetup(HeaderSetup(sent[n])) EXCEPT !.size = sent[n].size]
           d == [message |-> q, data |-> bytes]
<1>0. PICK l \in Nat : Len(received) = l
  <2>1. Len(received) \in Nat
    BY LenProperties DEF Ordered
  <2> QED
    BY <2>1
<1>1. sent[n] \in Message /\ sent[n].size \in Nat
  <2>1. sent[n] \in Message
    BY ElementOfSeq DEF Control
  <2> QED
    BY <2>1 DEF Message
<1>2. /\ q \in Message /\ q.size = sent[n].size /\ NumberOf(q) = n
      /\ q.command = sent[n].command
      /\ channel = "fmt" => /\ q.mseq = sent[n].mseq
                            /\ q.aseq = sent[n].aseq
                            /\ q.type = sent[n].type
      /\ channel # "fmt" => q.aseq = sent[n].mseq
  BY <1>1, Decoded
<1>3. received' = Append(received, d) /\ rpc' = "idle"
  BY DEF Deliver
<1> HIDE DEF q
<1>4. d \in Delivery /\ d.message = q /\ d.data = bytes
  BY <1>2 DEF Delivery
<1> HIDE DEF d
<1>5. /\ received' \in Seq(Delivery) /\ Len(received') = l + 1 /\ l \in Nat
      /\ received'[l + 1] = d /\ \A i \in 1 .. l : received'[i] = received[i]
  BY <1>0, <1>3, <1>4, AppendProperties DEF Ordered
<1>6. bytes = SubSeq(Frame(n, sent[n].size), Header + 1, Header + sent[n].size)
  <2> DEFINE size == sent[n].size
             f == Frame(n, size)
             b == SubSeq(f, Header + 1, Header + size)
  <2>1. n \in Nat /\ Len(sent) \in Nat /\ size \in Nat /\ Header \in Nat
    BY <1>1, ConstantsAssumption DEF Control
  <2>2. /\ f \in Seq(Byte) /\ Len(f) = Header + size
        /\ \A i \in 1 .. Header + size : f[i] = <<n, i>>
    BY <2>1, FrameFacts
  <2> HIDE DEF f, size
  <2>3. Len(f) >= Header /\ Len(f) - Header = size
    BY <2>1, <2>2
  <2>4. b = SubSeq(f, Header + 1, Len(f))
    BY <2>2
  <2>5. /\ b \in Seq(Byte) /\ Len(b) = size
        /\ \A i \in 1 .. size : b[i] = f[Header + i]
                               /\ Header + i \in 1 .. Len(f)
    BY <2>2, <2>3, <2>4, RestFacts
  <2> HIDE DEF b
  <2>6. \A i \in 1 .. size : b[i] = <<n, Header + i>>
    BY <2>2, <2>5
  <2>7. Len(bytes) = size
    BY DEF size
  <2>8. bytes = b
    BY <2>5, <2>6, <2>7, SeqEqual
  <2> QED
    BY <2>8 DEF b, f, size
<1>7. SameMessage(d, n)
  BY <1>2, <1>4, <1>6 DEF SameMessage
<1>8. NumberOf(d.message) = n
  BY <1>2, <1>4 DEF NumberOf
<1>9. \A i \in 1 .. l : /\ Got(i)' = Got(i) /\ Got(i) < n
                        /\ Got(i) \in 1 .. Len(sent)
                        /\ SameMessage(received[i], Got(i))'
  <2> SUFFICES ASSUME NEW i \in 1 .. l
               PROVE  /\ Got(i)' = Got(i) /\ Got(i) < n
                      /\ Got(i) \in 1 .. Len(sent)
                      /\ SameMessage(received[i], Got(i))'
    OBVIOUS
  <2>1. Got(i) < n /\ Got(i) \in 1 .. Len(sent)
    BY <1>0 DEF Ordered
  <2>2. SameMessage(received[i], Got(i))
    BY <1>0 DEF Ordered
  <2>3. Got(i)' = Got(i)
    BY <1>5 DEF Got, NumberOf
  <2>4. SameMessage(received[i], Got(i))'
    BY <1>5, <2>2, <2>3 DEF SameMessage
  <2> QED
    BY <2>1, <2>3, <2>4
<1>10. Got(l + 1)' = n /\ SameMessage(received[l + 1], n)'
  BY <1>5, <1>7, <1>8 DEF Got, NumberOf, SameMessage
<1>11. \A i \in 1 .. l + 1 : i \in 1 .. l \/ i = l + 1
  BY <1>5
<1>12. \A i \in 1 .. l + 1 : Got(i)' <= n
  <2>1. n \in Nat /\ n <= n /\ Len(sent) \in Nat
    BY DEF Control
  <2>2. \A i \in 1 .. l : Got(i)' <= n
    BY <1>9, <2>1
  <2> QED
    BY <1>10, <1>11, <2>1, <2>2
<1>13. \A i \in 1 .. l + 1 :
          Got(i)' \in 1 .. Len(sent') /\ SameMessage(received[i], Got(i))'
  BY <1>9, <1>10, <1>11
<1>14. \A i, j \in 1 .. l + 1 : i < j => Got(i)' < Got(j)'
  <2> SUFFICES ASSUME NEW i \in 1 .. l + 1, NEW j \in 1 .. l + 1, i < j
               PROVE  Got(i)' < Got(j)'
    OBVIOUS
  <2>1. i \in 1 .. l
    BY <1>5
  <2>2. CASE j = l + 1
    BY <1>9, <1>10, <2>1, <2>2
  <2>3. CASE j \in 1 .. l
    BY <1>0, <1>9, <2>1, <2>3 DEF Ordered
  <2> QED
    BY <1>11, <2>2, <2>3
<1>15. Ordered'
  BY <1>5, <1>13, <1>14 DEF Ordered
<1> QED
  BY <1>0, <1>3, <1>5, <1>12, <1>15
-----------------------------------------------------------------------------
(* The first packet. *)
LEMMA PacketFacts ==
    ASSUME Stream
    PROVE  /\ Packets \in Seq(Seq(Byte))
           /\ wire # <<>> => Packets # <<>> /\ Packets[1] = wire[1]
           /\ spc = "writing" => /\ Packets = Append(wire, out)
                                 /\ Packets # <<>>
                                 /\ wire = <<>> => Packets[1] = out
           /\ spc # "writing" => Packets = wire
<1>1. CASE spc = "writing"
  BY <1>1, AppendFacts DEF Stream, Packets
<1>2. CASE spc # "writing"
  BY <1>2 DEF Stream, Packets
<1> QED
  BY <1>1, <1>2

(* What the receiver depends on: only where the first packet begins. *)
LEMMA SameFront ==
    ASSUME Control, Stream, Progress, Ordered,
           UNCHANGED <<transport, channel, sent, rpc, msg, data, received>>,
           failed => failed',
           Packets' # <<>> <=> Packets # <<>>,
           Packets # <<>> => /\ Number(Packets'[1]) = Number(Packets[1])
                             /\ First(Packets'[1]) = First(Packets[1])
    PROVE  /\ rpc' = "idle" /\ Packets' # <<>> => First(Packets'[1]) = 1
           /\ rpc' = "reading" => Reading'
           /\ Progress' /\ Ordered'
<1>1. rpc' = "idle" /\ Packets' # <<>> => First(Packets'[1]) = 1
  BY DEF Stream
<1>2. rpc' = "reading" => Reading'
  BY DEF Stream, Reading, NumberOf, MessageSetup, HeaderSetup
<1>3. Coming' = Coming
  BY DEF Coming, NumberOf
<1>4. \A i : Got(i)' = Got(i)
  BY DEF Got, NumberOf
<1>5. Ordered'
  BY <1>4 DEF Ordered, SameMessage
<1>6. Progress'
  BY <1>3, <1>4 DEF Progress
<1> QED
  BY <1>1, <1>2, <1>5, <1>6

(* write() takes k bytes. *)
LEMMA WrittenStep ==
    ASSUME FInv, ~torn, rpc # "undefined", spc = "writing",
           transport # "crespo", NEW k \in 1 .. Len(out), Written(k),
           transport = "aries" => k <= Buffer
    PROVE  Ordered' /\ rpc' # "undefined" /\ Stream' /\ Progress' /\ Moves
<1>1. Control /\ Ordered /\ Stream /\ Progress
  BY DEF FInv
<1>2. /\ wire \in Seq(Seq(Byte)) /\ out \in Seq(Byte)
      /\ Chain(Append(wire, out), sent, failed) /\ Packets = Append(wire, out)
      /\ sent \in Seq(Message) /\ failed \in BOOLEAN /\ Number(out) = Len(sent)
  BY <1>1 DEF Stream, Control, Packets
<1> DEFINE a == SubSeq(out, 1, k)
           b == SubSeq(out, k + 1, Len(out))
<1>3. /\ UNCHANGED <<transport, channel, sent, rpc, msg, data, received, failed, torn>>
      /\ wire' = Append(wire, a)
      /\ out' = b
      /\ spc' = IF k = Len(out) THEN "idle" ELSE "writing"
  BY DEF Written, Put, kind, receiver
<1>4. Piece(out, sent)
  BY <1>2, ChainLast
<1>5. Len(out) \in Nat /\ k \in Nat
  BY <1>2
<1>6. a \in Seq(Byte) /\ Len(a) = k
  <2>1. 1 \in 1 .. Len(out)
    BY <1>5
  <2> QED
    BY <1>2, <1>5, <2>1, SubSeqProperties
<1>7. /\ Chain(Packets', sent', failed')
      /\ Packets' # <<>> /\ Number(Packets'[1]) = Number(Packets[1])
      /\ First(Packets'[1]) = First(Packets[1])
      /\ spc' = "writing" => Number(out') = Len(sent') /\ out' \in Seq(Byte)
      /\ Numbers(Packets') = Numbers(Packets)
  <2>1. CASE k = Len(out)
    <3>1. a = out
      BY <1>2, <2>1, SubSeqFull
    <3>2. Packets' = Packets /\ spc' = "idle"
      BY <1>2, <1>3, <2>1, <3>1 DEF Packets
    <3>3. Packets # <<>>
      BY <1>2, AppendFacts
    <3> QED
      BY <1>2, <1>3, <3>2, <3>3
  <2>2. CASE k # Len(out)
    <3>1. k \in 1 .. Len(out) - 1
      BY <1>5, <2>2
    <3>2. /\ Number(a) = Number(out) /\ First(a) = First(out)
          /\ Number(b) = Number(out) /\ b \in Seq(Byte)
      BY <1>2, <1>4, <3>1, PieceCut
    <3>3. Chain(Append(Append(wire, a), b), sent, failed)
      BY <1>2, <3>1, ChainCutLast
    <3> HIDE DEF a, b
    <3>4. Packets' = Append(Append(wire, a), b) /\ spc' = "writing"
      BY <1>3, <2>2 DEF Packets
    <3>5. /\ Append(wire, a) \in Seq(Seq(Byte)) /\ Append(wire, a) # <<>>
          /\ wire = <<>> => Append(wire, a)[1] = a
          /\ wire # <<>> => Append(wire, a)[1] = wire[1]
      BY <1>2, <1>6, AppendFacts
    <3>6. /\ Append(Append(wire, a), b) # <<>>
          /\ Append(Append(wire, a), b)[1] = Append(wire, a)[1]
      BY <3>2, <3>5, AppendFacts
    <3>7. /\ wire = <<>> => Append(wire, out)[1] = out
          /\ wire # <<>> => Append(wire, out)[1] = wire[1]
      BY <1>2, AppendFacts
    <3>8. /\ Number(Packets'[1]) = Number(Packets[1])
          /\ First(Packets'[1]) = First(Packets[1])
      BY <1>2, <3>2, <3>4, <3>5, <3>6, <3>7
    <3>9. Numbers(Packets') = Numbers(Packets)
      <4>1. Numbers(Append(Append(wire, a), b)) =
               Numbers(Append(wire, a)) \cup {Number(b)}
        BY <3>2, <3>5, NumbersAppend
      <4>2. Numbers(Append(wire, a)) = Numbers(wire) \cup {Number(a)}
        BY <1>2, <1>6, NumbersAppend
      <4>3. Numbers(Append(wire, out)) = Numbers(wire) \cup {Number(out)}
        BY <1>2, NumbersAppend
      <4> QED
        BY <1>2, <3>2, <3>4, <4>1, <4>2, <4>3
    <3> QED
      BY <1>2, <1>3, <3>2, <3>3, <3>4, <3>6, <3>8, <3>9
  <2> QED
    BY <2>1, <2>2
<1>8. /\ wire' \in Seq(Seq(Byte)) /\ Len(wire') = Len(wire) + 1
      /\ Len(wire) \in Nat
      /\ wire'[Len(wire) + 1] = a /\ \A i \in 1 .. Len(wire) : wire'[i] = wire[i]
  BY <1>2, <1>3, <1>6, AppendFacts
<1> HIDE DEF a, b
<1>9. transport' = "aries" => \A i \in 1 .. Len(wire') : Len(wire'[i]) <= Buffer
  <2> SUFFICES ASSUME transport' = "aries", NEW i \in 1 .. Len(wire')
               PROVE  Len(wire'[i]) <= Buffer
    OBVIOUS
  <2>1. i \in 1 .. Len(wire) \/ i = Len(wire) + 1
    BY <1>8
  <2>2. transport = "aries"
    BY <1>3
  <2>3. CASE i \in 1 .. Len(wire)
    BY <1>1, <1>8, <2>2, <2>3 DEF Stream
  <2>4. CASE i = Len(wire) + 1
    BY <1>6, <1>8, <2>2, <2>4
  <2> QED
    BY <2>1, <2>3, <2>4
<1>10. \A m \in 1 .. Len(sent') :
          HeaderSetup(sent[m])'.length = FrameLen(sent', m)
  BY <1>1, <1>3 DEF Stream, HeaderSetup
<1>11. Packets # <<>>
  BY <1>2, AppendFacts
<1>12. /\ rpc' = "idle" /\ Packets' # <<>> => First(Packets'[1]) = 1
       /\ rpc' = "reading" => Reading'
       /\ Progress' /\ Ordered'
  BY <1>1, <1>3, <1>7, <1>11, SameFront
<1>13. Stream'
  BY <1>3, <1>7, <1>8, <1>9, <1>10, <1>12 DEF Stream
<1>14. Moves
  <2>1. OnTheirWay' = Numbers(Packets')
    BY DEF OnTheirWay, Numbers, Number
  <2>2. OnTheirWay' = OnTheirWay
    BY <1>7, <2>1 DEF OnTheirWay
  <2> QED
    BY <1>3, <2>2 DEF Moves, Keeps
<1> QED
  BY <1>3, <1>12, <1>13, <1>14

(* write() fails. *)
LEMMA WriteFailsStep ==
    ASSUME FInv, ~torn', rpc # "undefined", WriteFails
    PROVE  Ordered' /\ rpc' # "undefined" /\ Stream' /\ Progress' /\ Moves
<1>0. /\ spc = "writing" /\ spc' = "idle" /\ failed' = TRUE
      /\ torn' = (torn \/ Len(out) < Header + sent[Len(sent)].size)
      /\ UNCHANGED <<transport, channel, sent, wire, rpc, msg, data, received>>
  BY DEF WriteFails, kind, receiver
<1>1. Control /\ ~torn /\ Ordered /\ Stream /\ Progress
  BY <1>0 DEF FInv
<1>2. /\ wire \in Seq(Seq(Byte)) /\ out \in Seq(Byte)
      /\ Chain(Append(wire, out), sent, failed) /\ Packets = Append(wire, out)
      /\ sent \in Seq(Message) /\ failed \in BOOLEAN /\ Number(out) = Len(sent)
  BY <1>0, <1>1 DEF Stream, Control, Packets
<1>3. Piece(out, sent) /\ Final(out) = FrameLen(sent, Number(out))
  BY <1>2, ChainLast
<1>4. First(out) = 1
  <2>1. Final(out) = FrameLen(sent, Len(sent)) /\ ~(Len(out) < FrameLen(sent, Len(sent)))
    BY <1>0, <1>2, <1>3 DEF FrameLen
  <2>2. /\ First(out) \in Nat /\ First(out) >= 1 /\ Len(out) \in Nat
        /\ FrameLen(sent, Len(sent)) \in Nat
    BY <1>2, <1>3, PieceNumbers
  <2> QED
    BY <2>1, <2>2 DEF Final
<1>5. Chain(wire, sent, TRUE)
  BY <1>2, <1>4, ChainDropLast
<1>6. Packets' = wire
  BY <1>0 DEF Packets
<1>7. /\ wire = <<>> => Packets[1] = out
      /\ wire # <<>> => Packets[1] = wire[1]
      /\ Packets # <<>>
  BY <1>2, AppendFacts
<1>8. wire = <<>> => rpc # "reading"
  <2> SUFFICES ASSUME wire = <<>>, rpc = "reading" PROVE FALSE
    OBVIOUS
  <2>1. First(out) = Header + Len(data) + 1 /\ Len(data) \in Nat
    BY <1>1, <1>7 DEF Stream, Reading
  <2> QED
    BY <1>4, <2>1, ConstantsAssumption
<1>9. \A m \in 1 .. Len(sent') : transport' # "crespo" =>
          HeaderSetup(sent[m])'.length = FrameLen(sent', m)
  BY <1>0, <1>1 DEF Stream, HeaderSetup
<1>10. /\ rpc' = "idle" /\ Packets' # <<>> => First(Packets'[1]) = 1
       /\ rpc' = "reading" => Reading'
  BY <1>0, <1>1, <1>6, <1>7, <1>8
     DEF Stream, Reading, NumberOf, MessageSetup, HeaderSetup
<1>11. Stream'
  BY <1>0, <1>1, <1>2, <1>5, <1>6, <1>9, <1>10 DEF Stream
<1>12. \A i : Got(i)' = Got(i)
  BY <1>0 DEF Got, NumberOf
<1>13. Ordered'
  BY <1>0, <1>1, <1>12 DEF Ordered, SameMessage
<1>14. Progress'
  <2>1. CASE wire # <<>>
    <3>1. Coming' = Coming
      BY <1>0, <1>6, <1>7, <2>1 DEF Coming, NumberOf
    <3> QED
      BY <1>0, <1>1, <1>12, <3>1 DEF Progress
  <2>2. CASE wire = <<>>
    <3>1. Coming' = Len(sent) + 1
      BY <1>0, <1>6, <1>8, <2>2 DEF Coming
    <3>2. Len(sent) \in Nat
      BY <1>2
    <3>3. \A i \in 1 .. Len(received) : Got(i) < Len(sent) + 1
      BY <1>1, <3>2 DEF Ordered
    <3> QED
      BY <1>0, <1>12, <3>1, <3>3 DEF Progress
  <2> QED
    BY <2>1, <2>2
<1>15. Moves
  <2>1. OnTheirWay = Numbers(wire) \cup {Len(sent)}
    BY <1>2, NumbersAppend DEF OnTheirWay
  <2>2. Len(sent) \notin Numbers(wire)
    BY <1>2, <1>4, LastIsNew
  <2>3. OnTheirWay' = Numbers(wire)
    BY <1>6 DEF OnTheirWay, Numbers, Number
  <2>4. Len(sent) \in OnTheirWay /\ OnTheirWay' = OnTheirWay \ {Len(sent)}
    BY <2>1, <2>2, <2>3
  <2> QED
    BY <1>0, <2>4 DEF Moves, Loses
<1> QED
  BY <1>0, <1>11, <1>13, <1>14, <1>15

(* read() fails. *)
LEMMA ReadFailsStep ==
    ASSUME FInv, ~torn', rpc # "undefined", spc # "undefined", ReadFails
    PROVE  Ordered' /\ rpc' # "undefined" /\ Stream' /\ Progress' /\ Moves
<1>1. /\ torn' = (torn \/ rpc = "reading") /\ failed' = TRUE /\ rpc' = "idle"
      /\ UNCHANGED <<transport, channel, sent, spc, out, wire, received>>
  BY DEF ReadFails, kind, sender
<1>2. ~torn /\ rpc = "idle" /\ Control /\ Ordered /\ Stream /\ Progress
  BY <1>1 DEF FInv, Control
<1>3. Packets' = Packets /\ Coming' = Coming
  BY <1>1, <1>2 DEF Packets, Coming
<1>4. Chain(Packets', sent', failed')
  <2>1. Chain(Packets, sent, failed) /\ failed \in BOOLEAN
    BY <1>2 DEF Stream, Control
  <2>2. Chain(Packets, sent, TRUE)
    BY <2>1, ChainLossy
  <2> QED
    BY <1>1, <1>3, <2>2
<1>5. \A m \in 1 .. Len(sent') : transport' # "crespo" =>
          HeaderSetup(sent[m])'.length = FrameLen(sent', m)
  BY <1>1, <1>2 DEF Stream, HeaderSetup
<1>6. Stream'
  BY <1>1, <1>2, <1>3, <1>4, <1>5 DEF Stream
<1>7. \A i : Got(i)' = Got(i)
  BY <1>1 DEF Got, NumberOf
<1>8. Ordered'
  BY <1>1, <1>2, <1>7 DEF Ordered, SameMessage
<1>9. Progress'
  BY <1>1, <1>2, <1>3, <1>7 DEF Progress
<1>10. OnTheirWay' = OnTheirWay
  BY <1>3 DEF OnTheirWay, Numbers, Number
<1>11. Moves
  BY <1>1, <1>10 DEF Moves, Keeps
<1> QED
  BY <1>1, <1>6, <1>8, <1>9, <1>11
-----------------------------------------------------------------------------
(* Another message on its way, or given up before it was written. *)
LEMMA Queued ==
    ASSUME FInv, ~torn, spc = "idle", rpc # "undefined",
           NEW size \in Nat, NEW command \in ClientCommands,
           sent' = Append(sent, IpcClientSend(Len(sent) + 1, command, size)),
           UNCHANGED <<transport, channel, rpc, msg, data, received>>,
           \/ /\ Packets' = Append(Packets, Frame(Len(sent) + 1, size))
              /\ failed' = failed
           \/ Packets' = Packets /\ failed' = TRUE
    PROVE  /\ Chain(Packets', sent', failed') /\ Ordered' /\ Progress'
           /\ rpc' = "idle" /\ Packets' # <<>> => First(Packets'[1]) = 1
           /\ rpc' = "reading" => Reading'
           /\ \A m \in 1 .. Len(sent) : sent'[m] = sent[m]
           /\ Len(sent') = Len(sent) + 1 /\ Len(sent) \in Nat
           /\ sent'[Len(sent) + 1] =
                 IpcClientSend(Len(sent) + 1, command, size)
<1> DEFINE m == IpcClientSend(Len(sent) + 1, command, size)
           o == Frame(Len(sent) + 1, size)
<1>1. Control /\ Ordered /\ Stream /\ Progress
  BY DEF FInv
<1>2. /\ sent \in Seq(Message) /\ Len(sent) \in Nat /\ failed \in BOOLEAN
      /\ Packets = wire /\ wire \in Seq(Seq(Byte)) /\ Chain(wire, sent, failed)
  BY <1>1 DEF Stream, Control, Packets
<1>3. m \in Message /\ m.size = size
  BY <1>2 DEF IpcClientSend, Message, ClientCommands, Command
<1>4. /\ Chain(Append(wire, o), Append(sent, m), failed)
      /\ Chain(wire, Append(sent, m), TRUE)
  BY <1>2, <1>3, ChainAppend
<1>5. /\ o \in Seq(Byte) /\ Number(o) = Len(sent) + 1 /\ First(o) = 1
  <2>1. Len(sent) + 1 \in Nat
    BY <1>2
  <2> QED
    BY <2>1, FrameFacts
<1>6. /\ Len(sent') = Len(sent) + 1 /\ sent'[Len(sent) + 1] = m
      /\ \A k \in 1 .. Len(sent) : sent'[k] = sent[k]
  BY <1>2, <1>3, AppendProperties
<1> HIDE DEF m, o
<1>7. Chain(Packets', sent', failed')
  BY <1>2, <1>4 DEF m, o
<1>8. /\ Append(wire, o) # <<>> /\ (wire = <<>> => Append(wire, o)[1] = o)
      /\ wire # <<>> => Append(wire, o)[1] = wire[1]
  BY <1>2, <1>5, AppendFacts
<1>9. /\ wire # <<>> => Packets' # <<>> /\ Packets'[1] = wire[1]
      /\ wire = <<>> => Packets' = <<>> \/ Packets'[1] = o
  BY <1>2, <1>8 DEF o
<1>10. \A k \in 1 .. Len(sent) : k \in 1 .. Len(sent')
  BY <1>2, <1>6
<1>11. \A i : Got(i)' = Got(i)
  BY DEF Got, NumberOf
<1>12. Ordered'
  <2>1. \A i \in 1 .. Len(received) : Got(i) \in 1 .. Len(sent)
    BY <1>1 DEF Ordered
  <2>2. \A i \in 1 .. Len(received) : SameMessage(received[i], Got(i))
    BY <1>1 DEF Ordered
  <2>3. \A i \in 1 .. Len(received) : sent'[Got(i)] = sent[Got(i)]
    BY <1>6, <2>1
  <2>4. \A i \in 1 .. Len(received) : SameMessage(received[i], Got(i))'
    BY <1>11, <2>2, <2>3 DEF SameMessage
  <2> QED
    BY <1>1, <1>10, <1>11, <2>1, <2>4 DEF Ordered
<1>13. rpc' = "idle" /\ Packets' # <<>> => First(Packets'[1]) = 1
  BY <1>1, <1>2, <1>5, <1>9 DEF Stream
<1>14. rpc' = "reading" => Reading'
  <2> SUFFICES ASSUME rpc = "reading" PROVE Reading'
    OBVIOUS
  <2>1. Reading /\ wire # <<>>
    BY <1>1, <1>2 DEF Stream, Reading
  <2>2. NumberOf(msg)' = NumberOf(msg) /\ NumberOf(msg) \in 1 .. Len(sent)
    BY <2>1 DEF NumberOf, Reading
  <2>3. sent'[NumberOf(msg)] = sent[NumberOf(msg)]
    BY <1>6, <2>2
  <2>4. NumberOf(msg) \in 1 .. Len(sent')
    BY <1>10, <2>2
  <2>5. Packets'[1] = Packets[1] /\ Packets' # <<>>
    BY <1>2, <1>9, <2>1
  <2> QED
    BY <2>1, <2>2, <2>3, <2>4, <2>5
       DEF Reading, MessageSetup, HeaderSetup
<1>15. Progress'
  <2>1. CASE rpc = "reading" \/ wire # <<>>
    <3>1. Coming' = Coming
      BY <1>2, <1>9, <2>1 DEF Coming, NumberOf
    <3> QED
      BY <1>1, <1>11, <3>1 DEF Progress
  <2>2. CASE rpc # "reading" /\ wire = <<>>
    <3>1. Coming = Len(sent) + 1
      BY <1>2, <2>2 DEF Coming
    <3>2. \/ Coming' = Len(sent) + 1
          \/ failed' = TRUE /\ Coming' = Len(sent) + 2
      <4>1. CASE Packets' = Append(wire, o)
        <5>1. Packets' # <<>> /\ Packets'[1] = o
          BY <1>8, <2>2, <4>1
        <5>2. Coming' = Number(o)
          BY <2>2, <5>1 DEF Coming
        <5> QED
          BY <1>5, <5>2
      <4>2. CASE Packets' = Packets /\ failed' = TRUE
        <5>1. Coming' = Len(sent') + 1
          BY <1>2, <2>2, <4>2 DEF Coming
        <5>2. (Len(sent) + 1) + 1 = Len(sent) + 2
          BY <1>2
        <5> QED
          BY <1>6, <4>2, <5>1, <5>2
      <4> QED
        BY <1>2, <4>1, <4>2 DEF o
    <3>3. \A i \in 1 .. Len(received) : Got(i) \in Nat /\ Got(i) < Len(sent) + 1
      BY <1>1, <1>2, <3>1 DEF Progress, Ordered
    <3>4. \A i \in 1 .. Len(received) : Got(i) < Len(sent) + 2
      BY <1>2, <3>3
    <3> QED
      BY <1>1, <1>11, <3>1, <3>2, <3>3, <3>4 DEF Progress
  <2> QED
    BY <2>1, <2>2
<1> QED
  BY <1>2, <1>6, <1>7, <1>12, <1>13, <1>14, <1>15 DEF m

(* A send function begins. *)
LEMMA BeginSendStep ==
    ASSUME FInv, ~torn, spc = "idle", rpc # "undefined",
           NEW size \in Nat, NEW command \in ClientCommands,
           NEW t \in {"smdk4412", "aries"}, NEW c,
           BeginSend(t, c, IpcClientSend(Len(sent) + 1, command, size)),
           UNCHANGED kind
    PROVE  Ordered' /\ rpc' # "undefined"
           /\ (spc' # "undefined" => Stream' /\ Progress')
<1> DEFINE m == IpcClientSend(Len(sent) + 1, command, size)
           o == Frame(Len(sent) + 1, size)
<1>1. Control /\ Ordered /\ Stream /\ Progress
  BY DEF FInv
<1>2. /\ transport = t /\ sent' = Append(sent, m)
      /\ UNCHANGED <<transport, channel, wire, rpc, msg, data, received, failed, torn>>
      /\ IF HeaderSetup(m).length < Header + m.size
         THEN spc' = "undefined" /\ UNCHANGED out
         ELSE spc' = "writing" /\ out' = Frame(Len(sent'), m.size)
  BY DEF BeginSend, receiver, kind
<1>3. /\ sent \in Seq(Message) /\ Len(sent) \in Nat /\ failed \in BOOLEAN
      /\ Packets = wire /\ wire \in Seq(Seq(Byte))
      /\ channel \in {"fmt", "rfs"}
  BY <1>1 DEF Stream, Control, Packets
<1>4. m \in Message /\ m.size = size
  BY <1>3 DEF IpcClientSend, Message, ClientCommands, Command
<1> HIDE DEF m
<1>5. Len(sent') = Len(sent) + 1
  BY <1>2, <1>3, <1>4, AppendProperties
<1>6. CASE spc' = "undefined"
  <2>1. \A k \in 1 .. Len(sent) : sent'[k] = sent[k] /\ k \in 1 .. Len(sent')
    <3>1. \A k \in 1 .. Len(sent) : sent'[k] = sent[k]
      BY <1>2, <1>3, <1>4, AppendProperties
    <3>2. \A k \in 1 .. Len(sent) : k \in 1 .. Len(sent')
      BY <1>3, <1>5
    <3> QED
      BY <3>1, <3>2
  <2>2. \A i : Got(i)' = Got(i)
    BY <1>2 DEF Got, NumberOf
  <2>3. \A i \in 1 .. Len(received) :
           Got(i) \in 1 .. Len(sent) /\ SameMessage(received[i], Got(i))
    BY <1>1 DEF Ordered
  <2>4. \A i \in 1 .. Len(received) : SameMessage(received[i], Got(i))'
    BY <1>2, <2>1, <2>2, <2>3 DEF SameMessage
  <2>5. Ordered'
    BY <1>1, <1>2, <2>1, <2>2, <2>3, <2>4 DEF Ordered
  <2> QED
    BY <1>2, <1>6, <2>5
<1>7. CASE spc' # "undefined"
  <2>1. /\ ~(HeaderSetup(m).length < Header + size)
        /\ spc' = "writing" /\ out' = o
    BY <1>2, <1>4, <1>5, <1>7
  <2>2. o \in Seq(Byte) /\ Number(o) = Len(sent) + 1 /\ First(o) = 1
    <3>1. Len(sent) + 1 \in Nat
      BY <1>3
    <3> QED
      BY <3>1, FrameFacts
  <2> HIDE DEF o
  <2>3. Packets' = Append(Packets, o)
    BY <1>2, <1>3, <2>1 DEF Packets
  <2>4. /\ Chain(Packets', sent', failed') /\ Ordered' /\ Progress'
        /\ rpc' = "idle" /\ Packets' # <<>> => First(Packets'[1]) = 1
        /\ rpc' = "reading" => Reading'
        /\ \A k \in 1 .. Len(sent) : sent'[k] = sent[k]
        /\ Len(sent') = Len(sent) + 1 /\ Len(sent) \in Nat
        /\ sent'[Len(sent) + 1] = m
    BY <1>1, <1>2, <2>3, Queued DEF m, o
  <2>5. HeaderSetup(m).length = Header + size
    <3>1. size + Header \in Nat /\ size + Header = Header + size
      BY ConstantsAssumption
    <3>2. (size + Header) % Width \in Nat /\ (size + Header) % Width <= size + Header
      BY <3>1, ModSmaller, ConstantsAssumption
    <3>3. CASE channel = "fmt"
      <4>1. HeaderSetup(m).length = (size + Header) % Width
        BY <1>4, <3>3 DEF HeaderSetup, IpcFmtHeaderSetup
      <4> QED
        BY <2>1, <3>1, <3>2, <4>1
    <3>4. CASE channel = "rfs"
      <4>1. HeaderSetup(m).length = size + Header
        BY <1>4, <3>4 DEF HeaderSetup, IpcRfsHeaderSetup
      <4> QED
        BY <3>1, <4>1
    <3> QED
      BY <1>3, <3>3, <3>4
  <2>6. \A k \in 1 .. Len(sent') :
           HeaderSetup(sent[k])'.length = FrameLen(sent', k)
    <3> SUFFICES ASSUME NEW k \in 1 .. Len(sent')
                 PROVE  HeaderSetup(sent[k])'.length = FrameLen(sent', k)
      OBVIOUS
    <3>1. k \in 1 .. Len(sent) \/ k = Len(sent) + 1
      BY <2>4
    <3>2. HeaderSetup(sent[k])' = HeaderSetup(sent'[k])
      BY <1>2 DEF HeaderSetup
    <3>3. CASE k \in 1 .. Len(sent)
      <4>1. HeaderSetup(sent[k]).length = FrameLen(sent, k)
        BY <1>1, <1>2, <3>3 DEF Stream
      <4> QED
        BY <2>4, <3>2, <3>3, <4>1 DEF FrameLen
    <3>4. CASE k = Len(sent) + 1
      BY <1>4, <2>4, <2>5, <3>2, <3>4 DEF FrameLen
    <3> QED
      BY <3>1, <3>3, <3>4
  <2>7. Stream'
    BY <1>1, <1>2, <2>1, <2>2, <2>4, <2>6 DEF Stream
  <2> QED
    BY <1>2, <2>4, <2>7
<1> QED
  BY <1>6, <1>7

(* One ioctl sends a whole message on crespo. *)
LEMMA CrespoSendStep ==
    ASSUME FInv, ~torn, spc = "idle", rpc # "undefined",
           NEW size \in Nat, NEW command \in ClientCommands,
           LET m == IpcClientSend(Len(sent) + 1, command, size) IN
              CrespoFmtSend(m) \/ CrespoRfsSend(m),
           UNCHANGED kind
    PROVE  Ordered' /\ rpc' # "undefined" /\ Stream' /\ Progress'
<1> DEFINE m == IpcClientSend(Len(sent) + 1, command, size)
           o == Frame(Len(sent) + 1, size)
<1>1. Control /\ Ordered /\ Stream /\ Progress
  BY DEF FInv
<1>2. /\ transport = "crespo" /\ sent' = Append(sent, m)
      /\ UNCHANGED <<transport, channel, rpc, msg, data, received, spc, out, torn>>
      /\ \/ wire' = Append(wire, Frame(Len(sent'), m.size)) /\ UNCHANGED failed
         \/ failed' = TRUE /\ UNCHANGED wire
  BY DEF CrespoFmtSend, CrespoRfsSend, Put, receiver, kind
<1>3. /\ sent \in Seq(Message) /\ Len(sent) \in Nat /\ failed \in BOOLEAN
      /\ Packets = wire /\ Packets' = wire' /\ wire \in Seq(Seq(Byte))
      /\ rpc = "idle"
  BY <1>1, <1>2 DEF Stream, Control, Packets
<1>4. m \in Message /\ m.size = size
  BY <1>3 DEF IpcClientSend, Message, ClientCommands, Command
<1> HIDE DEF m
<1>5. Len(sent') = Len(sent) + 1
  BY <1>2, <1>3, <1>4, AppendProperties
<1>6. /\ o \in Seq(Byte) /\ Number(o) = Len(sent) + 1 /\ First(o) = 1
      /\ Final(o) = Header + size
  <2>1. Len(sent) + 1 \in Nat
    BY <1>3
  <2> QED
    BY <2>1, FrameFacts
<1>7. \/ wire' = Append(wire, o) /\ failed' = failed
      \/ wire' = wire /\ failed' = TRUE
  BY <1>2, <1>4, <1>5
<1>8. /\ Chain(Packets', sent', failed') /\ Ordered' /\ Progress'
      /\ rpc' = "idle" /\ Packets' # <<>> => First(Packets'[1]) = 1
      /\ \A k \in 1 .. Len(sent) : sent'[k] = sent[k]
      /\ sent'[Len(sent) + 1] = m
  BY <1>1, <1>2, <1>3, <1>7, Queued DEF m, o
<1> HIDE DEF o
<1>9. \A k \in 1 .. Len(wire) : /\ First(wire[k]) = 1
                                /\ Final(wire[k]) = FrameLen(sent', Number(wire[k]))
  <2>1. \A k \in 1 .. Len(wire) : Number(wire[k]) \in 1 .. Len(sent)
    BY <1>1, <1>3 DEF Stream, Chain, Piece
  <2>2. \A k \in 1 .. Len(wire) :
           FrameLen(sent', Number(wire[k])) = FrameLen(sent, Number(wire[k]))
    BY <1>8, <2>1 DEF FrameLen
  <2> QED
    BY <1>1, <1>2, <2>2 DEF Stream
<1>10. /\ wire' \in Seq(Seq(Byte))
       /\ \A k \in 1 .. Len(wire') :
             /\ First(wire'[k]) = 1
             /\ Final(wire'[k]) = FrameLen(sent', Number(wire'[k]))
  <2>1. CASE wire' = wire
    BY <1>3, <1>9, <2>1
  <2>2. CASE wire' = Append(wire, o)
    <3>1. /\ wire' \in Seq(Seq(Byte)) /\ Len(wire') = Len(wire) + 1
          /\ Len(wire) \in Nat /\ wire'[Len(wire) + 1] = o
          /\ \A k \in 1 .. Len(wire) : wire'[k] = wire[k]
      BY <1>3, <1>6, <2>2, AppendFacts
    <3>2. \A k \in 1 .. Len(wire') : k \in 1 .. Len(wire) \/ k = Len(wire) + 1
      BY <3>1
    <3>3. FrameLen(sent', Number(o)) = Header + size
      BY <1>4, <1>6, <1>8 DEF FrameLen
    <3> QED
      BY <1>6, <1>9, <3>1, <3>2, <3>3
  <2> QED
    BY <1>7, <2>1, <2>2
<1>11. Stream'
  BY <1>2, <1>3, <1>8, <1>10 DEF Stream
<1> QED
  BY <1>2, <1>8, <1>11
-----------------------------------------------------------------------------
(* The receiver takes the first packet whole. *)
LEMMA TakenWhole ==
    ASSUME Stream, sent \in Seq(Message), failed \in BOOLEAN,
           wire # <<>>, wire' = Tail(wire), UNCHANGED <<spc, out>>
    PROVE  /\ Packets' = Tail(Packets) /\ Packets # <<>> /\ Packets[1] = wire[1]
           /\ wire' \in Seq(Seq(Byte)) /\ Len(wire') = Len(wire) - 1 /\ Len(wire) \in Nat
           /\ \A k \in 1 .. Len(wire') : k + 1 \in 1 .. Len(wire) /\ wire'[k] = wire[k + 1]
<1>1. wire \in Seq(Seq(Byte)) /\ Len(wire) \in Nat /\ Len(wire) >= 1
  BY EmptySeq DEF Stream
<1>2. /\ wire' \in Seq(Seq(Byte)) /\ Len(wire') = Len(wire) - 1
      /\ \A k \in 1 .. Len(wire) - 1 : wire'[k] = wire[k + 1]
  BY <1>1
<1>3. Packets # <<>> /\ Packets[1] = wire[1]
  BY PacketFacts
<1>4. Packets' = Tail(Packets)
  <2>1. CASE spc = "writing"
    <3>1. Append(Tail(wire), out) = Tail(Append(wire, out))
      BY <1>1, <2>1, HeadTailAppend DEF Stream
    <3> QED
      BY <2>1, <3>1 DEF Packets
  <2>2. CASE spc # "writing"
    BY <2>2 DEF Packets
  <2> QED
    BY <2>1, <2>2
<1>5. \A k \in 1 .. Len(wire) - 1 : k + 1 \in 1 .. Len(wire)
  BY <1>1
<1> QED
  BY <1>1, <1>2, <1>3, <1>4, <1>5

(* A frame was received to its end. *)
LEMMA FrameTaken ==
    ASSUME Control, Stream, UNCHANGED <<transport, channel, sent, spc, out>>,
           failed => failed', failed' \in BOOLEAN,
           wire # <<>>, wire' = Tail(wire), rpc' = "idle",
           Final(wire[1]) = FrameLen(sent, Number(wire[1])),
           Number(wire[1]) = Coming
    PROVE  /\ Stream' /\ Coming \in 1 .. Len(sent)
           /\ Coming' > Coming /\ Coming' \in Nat
           /\ failed \/ Coming' = Coming + 1
           /\ Oldest(Coming) /\ OnTheirWay' = OnTheirWay \ {Coming}
<1>1. sent \in Seq(Message) /\ failed \in BOOLEAN /\ Len(sent) \in Nat
  BY DEF Control
<1>2. /\ Packets' = Tail(Packets) /\ Packets # <<>> /\ Packets[1] = wire[1]
      /\ wire' \in Seq(Seq(Byte)) /\ Len(wire') = Len(wire) - 1 /\ Len(wire) \in Nat
      /\ \A k \in 1 .. Len(wire') : k + 1 \in 1 .. Len(wire) /\ wire'[k] = wire[k + 1]
  BY <1>1, TakenWhole
<1>3. Chain(Packets, sent, failed)
  BY DEF Stream
<1>4. /\ Chain(Tail(Packets), sent, failed) /\ Piece(wire[1], sent)
      /\ Tail(Packets) # <<>> => Follows(wire[1], Tail(Packets)[1], sent, failed)
      /\ Tail(Packets) = <<>> => failed \/ Number(wire[1]) = Len(sent)
  BY <1>1, <1>2, <1>3, ChainTail
<1>5. Chain(Packets', sent', failed')
  <2>1. Chain(Tail(Packets), sent, TRUE)
    BY <1>1, <1>4, ChainLossy
  <2>2. CASE failed' = TRUE
    BY <1>2, <2>1, <2>2
  <2>3. CASE failed' = FALSE
    BY <1>1, <1>2, <1>4, <2>3
  <2> QED
    BY <2>2, <2>3
<1>6. /\ Number(wire[1]) \in 1 .. Len(sent) /\ Number(wire[1]) \in Nat
      /\ Final(wire[1]) \in Nat
  BY <1>1, <1>4, PieceNumbers DEF Piece
<1>7. Oldest(Coming) /\ OnTheirWay' = OnTheirWay \ {Coming}
  <2>1. Final(Packets[1]) = FrameLen(sent, Number(Packets[1]))
        /\ Number(Packets[1]) = Coming
    BY <1>2
  <2>2. Oldest(Coming)
    BY <1>1, <1>2, <1>3, <2>1, OldestFirst DEF Oldest, OnTheirWay
  <2>3. Numbers(Tail(Packets)) = Numbers(Packets) \ {Coming}
    BY <1>1, <1>2, <1>3, <2>1, NumbersTail
  <2>4. OnTheirWay' = Numbers(Packets')
    BY DEF OnTheirWay, Numbers, Number
  <2> QED
    BY <1>2, <2>2, <2>3, <2>4 DEF OnTheirWay
<1>8. CASE Packets' # <<>>
  <2>1. Piece(Packets'[1], sent)
    BY <1>1, <1>2, <1>4, <1>8, ChainTail
  <2>2. Number(Packets'[1]) \in Nat /\ First(Packets'[1]) \in Nat
    BY <1>1, <2>1, PieceNumbers
  <2>3. ~(Number(Packets'[1]) = Number(wire[1]) /\ First(Packets'[1]) = Final(wire[1]) + 1)
    <3> SUFFICES ASSUME Number(Packets'[1]) = Number(wire[1]),
                        First(Packets'[1]) = Final(wire[1]) + 1
                 PROVE  FALSE
      OBVIOUS
    <3>1. Final(Packets'[1]) <= FrameLen(sent, Number(wire[1]))
      BY <2>1 DEF Piece
    <3>2. Final(Packets'[1]) >= First(Packets'[1]) /\ Final(Packets'[1]) \in Nat
      BY <1>1, <2>1, PieceNumbers
    <3>3. FrameLen(sent, Number(wire[1])) \in Nat
      BY <1>1, <1>4, PieceNumbers
    <3> QED
      BY <1>6, <2>2, <3>1, <3>2, <3>3
  <2>4. /\ First(Packets'[1]) = 1 /\ Number(Packets'[1]) > Number(wire[1])
        /\ failed \/ Number(Packets'[1]) = Number(wire[1]) + 1
    BY <1>2, <1>4, <1>8, <2>3 DEF Follows
  <2>5. Coming' = Number(Packets'[1])
    BY <1>8 DEF Coming
  <2> QED
    <3>1. Coming' > Coming /\ Coming' \in Nat
      BY <2>2, <2>4, <2>5
    <3>2. failed \/ Coming' = Coming + 1
      BY <2>4, <2>5
    <3>3. \A k \in 1 .. Len(sent') : transport' # "crespo" =>
             HeaderSetup(sent[k])'.length = FrameLen(sent', k)
      BY DEF Stream, HeaderSetup
    <3>4. Stream'
      BY <1>2, <1>5, <2>4, <3>3 DEF Stream
    <3> QED
      BY <1>6, <1>7, <3>1, <3>2, <3>4
<1>9. CASE Packets' = <<>>
  <2>1. Coming' = Len(sent) + 1
    BY <1>9 DEF Coming
  <2>2. failed \/ Number(wire[1]) = Len(sent)
    BY <1>2, <1>4, <1>9
  <2>3. \A k \in 1 .. Len(sent') : transport' # "crespo" =>
           HeaderSetup(sent[k])'.length = FrameLen(sent', k)
    BY DEF Stream, HeaderSetup
  <2>4. Stream'
    BY <1>2, <1>5, <1>9, <2>3 DEF Stream
  <2>5. Coming' > Coming /\ Coming' \in Nat
    BY <1>1, <1>6, <2>1
  <2> QED
    BY <1>6, <1>7, <2>1, <2>2, <2>4, <2>5
<1> QED
  BY <1>8, <1>9

(* More of a frame is to come. *)
LEMMA FrameBegun ==
    ASSUME Control, Stream, transport # "crespo",
           UNCHANGED <<transport, channel, sent, spc, out, failed>>,
           wire # <<>>, wire' = Tail(wire), rpc' = "reading",
           Number(wire[1]) = NumberOf(msg)',
           msg' = [MessageSetup(HeaderSetup(sent[Number(wire[1])]))
                      EXCEPT !.size = sent[Number(wire[1])].size],
           data' \in Seq(Byte), Len(data') < sent[Number(wire[1])].size,
           \A i \in 1 .. Len(data') : data'[i] = <<Number(wire[1]), Header + i>>,
           Final(wire[1]) = Header + Len(data')
    PROVE  Stream' /\ Coming' = Number(wire[1]) /\ OnTheirWay' = OnTheirWay
<1>1. sent \in Seq(Message) /\ failed \in BOOLEAN /\ Len(sent) \in Nat
  BY DEF Control
<1>2. /\ Packets' = Tail(Packets) /\ Packets # <<>> /\ Packets[1] = wire[1]
      /\ wire' \in Seq(Seq(Byte)) /\ Len(wire') = Len(wire) - 1 /\ Len(wire) \in Nat
      /\ \A k \in 1 .. Len(wire') : k + 1 \in 1 .. Len(wire) /\ wire'[k] = wire[k + 1]
  BY <1>1, TakenWhole
<1>3. Chain(Packets, sent, failed)
  BY DEF Stream
<1>4. /\ Chain(Tail(Packets), sent, failed) /\ Piece(wire[1], sent)
      /\ Tail(Packets) # <<>> => Follows(wire[1], Tail(Packets)[1], sent, failed)
      /\ Tail(Packets) = <<>> => Final(wire[1]) = FrameLen(sent, Number(wire[1]))
  BY <1>1, <1>2, <1>3, ChainTail
<1>5. Final(wire[1]) # FrameLen(sent, Number(wire[1]))
  <2>1. sent[Number(wire[1])].size \in Nat /\ Len(data') \in Nat /\ Header \in Nat
    <3>1. sent[Number(wire[1])] \in Message
      BY <1>1, <1>4, PieceNumbers
    <3>2. Len(data') \in Nat
      BY LenProperties
    <3> QED
      BY <3>1, <3>2, ConstantsAssumption DEF Message
  <2> QED
    BY <2>1 DEF FrameLen
<1>6. /\ Packets' # <<>> /\ Number(Packets'[1]) = Number(wire[1])
      /\ First(Packets'[1]) = Header + Len(data') + 1
  BY <1>2, <1>4, <1>5 DEF Follows
<1>7. Number(wire[1]) \in 1 .. Len(sent)
  BY <1>4 DEF Piece
<1>8. Reading'
  BY <1>6, <1>7 DEF Reading, MessageSetup, HeaderSetup
<1>9. \A k \in 1 .. Len(sent') :
         HeaderSetup(sent[k])'.length = FrameLen(sent', k)
  BY DEF Stream, HeaderSetup
<1>10. Chain(Packets', sent', failed')
  BY <1>2, <1>4
<1>11. Stream'
  BY <1>2, <1>8, <1>9, <1>10 DEF Stream
<1>12. OnTheirWay' = OnTheirWay
  <2>1. Numbers(Tail(Packets)) = Numbers(Packets)
    BY <1>1, <1>2, <1>3, <1>5, NumbersTail
  <2>2. OnTheirWay' = Numbers(Packets')
    BY DEF OnTheirWay, Numbers, Number
  <2> QED
    BY <1>2, <2>1, <2>2 DEF OnTheirWay
<1> QED
  BY <1>11, <1>12 DEF Coming

(* The smdk4412 driver keeps what did not fit into the buffer. *)
LEMMA FrameCut ==
    ASSUME Control, Stream, transport = "smdk4412",
           UNCHANGED <<transport, channel, sent, spc, out, failed>>,
           wire # <<>>, First(wire[1]) = 1, Len(wire[1]) > Buffer,
           wire' = <<SubSeq(wire[1], Buffer + 1, Len(wire[1]))>> \o Tail(wire),
           rpc' = "reading",
           Number(wire[1]) = NumberOf(msg)',
           msg' = [MessageSetup(HeaderSetup(sent[Number(wire[1])]))
                      EXCEPT !.size = sent[Number(wire[1])].size],
           data' \in Seq(Byte), Len(data') < sent[Number(wire[1])].size,
           \A i \in 1 .. Len(data') : data'[i] = <<Number(wire[1]), Header + i>>,
           Buffer = Header + Len(data')
    PROVE  Stream' /\ Coming' = Number(wire[1]) /\ OnTheirWay' = OnTheirWay
<1> DEFINE p == wire[1]
           r == SubSeq(p, Buffer + 1, Len(p))
<1>1. /\ sent \in Seq(Message) /\ failed \in BOOLEAN /\ Len(sent) \in Nat
      /\ wire \in Seq(Seq(Byte)) /\ Len(wire) \in Nat /\ Len(wire) >= 1
  BY EmptySeq DEF Control, Stream
<1>2. Packets # <<>> /\ Packets[1] = p /\ Chain(Packets, sent, failed)
  BY PacketFacts DEF Stream
<1>3. Piece(p, sent)
  BY <1>1, <1>2, ChainTail
<1>4. Buffer \in 1 .. Len(p) - 1
  <2>1. Len(p) \in Nat
    BY <1>1, <1>3, PieceNumbers
  <2> QED
    <3>1. Buffer \in Nat /\ Buffer >= 1
      BY BufferHoldsHeader
    <3>2. \A l, b \in Nat : l > b /\ b >= 1 => b \in 1 .. l - 1
      OBVIOUS
    <3> QED
      BY <2>1, <3>1, <3>2
<1>5. /\ Number(r) = Number(p) /\ First(r) = First(p) + Buffer /\ r \in Seq(Byte)
  BY <1>1, <1>3, <1>4, PieceCut
<1>6. /\ Chain(<<r>> \o Tail(Packets), sent, failed)
      /\ <<r>> \o Tail(Packets) # <<>> /\ (<<r>> \o Tail(Packets))[1] = r
  <2> DEFINE q == SubSeq(Packets[1], Buffer + 1, Len(Packets[1]))
  <2>1. Buffer \in 1 .. Len(Packets[1]) - 1
    BY <1>2, <1>4
  <2>2. /\ Chain(<<q>> \o Tail(Packets), sent, failed)
        /\ <<q>> \o Tail(Packets) # <<>> /\ (<<q>> \o Tail(Packets))[1] = q
    BY <1>1, <1>2, <2>1, ChainCutFirst
  <2>3. q = r
    BY <1>2
  <2> HIDE DEF q, r
  <2> QED
    BY <2>2, <2>3
<1> HIDE DEF r
<1>7. <<r>> \in Seq(Seq(Byte)) /\ Tail(wire) \in Seq(Seq(Byte))
  BY <1>1, <1>5
<1>8. wire' = <<r>> \o Tail(wire) /\ wire' \in Seq(Seq(Byte))
  BY <1>7, ConcatProperties DEF r
<1>9. Packets' = <<r>> \o Tail(Packets)
  <2>1. CASE spc = "writing"
    <3>1. out \in Seq(Byte) /\ Packets = Append(wire, out)
      BY <2>1 DEF Stream, Packets
    <3>2. Tail(Packets) = Append(Tail(wire), out)
      BY <1>1, <3>1, HeadTailAppend
    <3>3. <<out>> \in Seq(Seq(Byte))
      BY <3>1
    <3>4. /\ Append(Tail(wire), out) = Tail(wire) \o <<out>>
          /\ Append(<<r>> \o Tail(wire), out) = (<<r>> \o Tail(wire)) \o <<out>>
      BY <1>7, <1>8, <3>1, AppendIsConcat
    <3>5. (<<r>> \o Tail(wire)) \o <<out>> = <<r>> \o (Tail(wire) \o <<out>>)
      BY <1>7, <3>3, ConcatAssociative
    <3>6. Packets' = Append(wire', out)
      BY <2>1 DEF Packets
    <3> QED
      BY <1>8, <3>2, <3>4, <3>5, <3>6
  <2>2. CASE spc # "writing"
    BY <1>8, <2>2 DEF Packets
  <2> QED
    BY <2>1, <2>2
<1>10. /\ Packets' # <<>> /\ Number(Packets'[1]) = Number(p)
       /\ First(Packets'[1]) = Header + Len(data') + 1
  <2>1. First(p) + Buffer = Header + Len(data') + 1
    <3>1. Len(data') \in Nat
      BY LenProperties
    <3> QED
      BY <3>1, ConstantsAssumption
  <2> QED
    BY <1>5, <1>6, <1>9, <2>1
<1>11. Number(p) \in 1 .. Len(sent)
  BY <1>3 DEF Piece
<1>12. Reading'
  BY <1>10, <1>11 DEF Reading, MessageSetup, HeaderSetup
<1>13. \A k \in 1 .. Len(sent') :
         HeaderSetup(sent[k])'.length = FrameLen(sent', k)
  BY DEF Stream, HeaderSetup
<1>14. Chain(Packets', sent', failed')
  BY <1>6, <1>9
<1>15. Stream'
  BY <1>8, <1>12, <1>13, <1>14 DEF Stream
<1>16. OnTheirWay' = OnTheirWay
  <2>1. Numbers(<<r>> \o Tail(Packets)) = Numbers(Packets)
    BY <1>1, <1>2, <1>5, NumbersCut
  <2>2. OnTheirWay' = Numbers(Packets')
    BY DEF OnTheirWay, Numbers, Number
  <2> QED
    BY <1>9, <2>1, <2>2 DEF OnTheirWay
<1> QED
  BY <1>15, <1>16 DEF Coming

(* After a delivery the order and the count are as they should be. *)
LEMMA DeliveredStep ==
    ASSUME FInv, ~torn, spc # "undefined",
           UNCHANGED <<transport, channel, sent, spc, out, failed, torn>>,
           wire # <<>>, wire' = Tail(wire), NEW n, n = Number(wire[1]),
           Final(wire[1]) = FrameLen(sent, n), n = Coming,
           NEW r, NEW bytes \in Seq(Byte), Len(bytes) = sent[n].size,
           \A i \in 1 .. Len(bytes) : bytes[i] = <<n, Header + i>>,
           [r EXCEPT !.size = Len(bytes)] =
              [MessageSetup(HeaderSetup(sent[n])) EXCEPT !.size = sent[n].size],
           Deliver(r, bytes)
    PROVE  Ordered' /\ rpc' # "undefined" /\ Stream' /\ Progress' /\ Hands
<1>1. Control /\ Ordered /\ Stream /\ Progress
  BY DEF FInv
<1>2. rpc' = "idle"
  BY DEF Deliver
<1>3. failed \in BOOLEAN
  BY <1>1 DEF Control
<1>4. /\ Stream' /\ Coming \in 1 .. Len(sent) /\ Coming' > Coming
      /\ Coming' \in Nat /\ (failed \/ Coming' = Coming + 1)
      /\ Oldest(Coming) /\ OnTheirWay' = OnTheirWay \ {Coming}
  BY <1>1, <1>2, <1>3, FrameTaken
<1>5. \A i \in 1 .. Len(received) : Got(i) < n
  BY <1>1 DEF Progress
<1>6. /\ Ordered' /\ Len(received') = Len(received) + 1 /\ Len(received) \in Nat
      /\ \A i \in 1 .. Len(received') : Got(i)' <= n
  BY <1>1, <1>4, <1>5, Delivering
<1>7. \A i \in 1 .. Len(received') : Got(i)' < Coming'
  <2>1. \A i \in 1 .. Len(received') : Got(i)' \in 1 .. Len(sent')
    BY <1>6 DEF Ordered
  <2>2. n \in Nat /\ Len(sent') \in Nat
    BY <1>1, <1>4 DEF Control
  <2> QED
    BY <1>4, <1>6, <2>1, <2>2
<1>8. failed' \/ Coming' = Len(received') + 1
  BY <1>1, <1>4, <1>6 DEF Progress
<1>9. Hands
  <2> DEFINE m == [MessageSetup(HeaderSetup(sent[n])) EXCEPT !.size = sent[n].size]
             d == [message |-> m, data |-> bytes]
  <2>1. received' = Append(received, d)
    BY DEF Deliver
  <2>2. m \in Message /\ NumberOf(m) = n
    <3>1. sent[n].size \in Nat
      BY <1>1, <1>4, ElementOfSeq DEF Control, Message
    <3> QED
      BY <1>1, <1>4, <3>1, Decoded
  <2> HIDE DEF m
  <2>3. d \in Delivery /\ NumberOf(d.message) = n
    BY <2>2 DEF Delivery, NumberOf
  <2>4. n \in OnTheirWay /\ Oldest(n) /\ OnTheirWay' = OnTheirWay \ {n}
    BY <1>4 DEF Oldest
  <2> HIDE DEF d
  <2> QED
    BY <2>1, <2>3, <2>4 DEF Hands
<1> QED
  BY <1>2, <1>4, <1>6, <1>7, <1>8, <1>9 DEF Progress

(* After a message was refused whole. *)
LEMMA RefusedStep ==
    ASSUME FInv, ~torn, spc # "undefined",
           UNCHANGED <<transport, channel, sent, spc, out, received>>,
           failed' = TRUE, rpc' = "idle",
           wire # <<>>, wire' = Tail(wire),
           Final(wire[1]) = FrameLen(sent, Number(wire[1])),
           Number(wire[1]) = Coming
    PROVE  Ordered' /\ rpc' # "undefined" /\ Stream' /\ Progress' /\ Loses
<1>1. Control /\ Ordered /\ Stream /\ Progress
  BY DEF FInv
<1>2. /\ Stream' /\ Coming \in 1 .. Len(sent) /\ Coming' > Coming
      /\ Coming' \in Nat
      /\ Oldest(Coming) /\ OnTheirWay' = OnTheirWay \ {Coming}
  BY <1>1, FrameTaken
<1>3. \A i : Got(i)' = Got(i)
  BY DEF Got, NumberOf
<1>4. Ordered'
  BY <1>1, <1>3 DEF Ordered, SameMessage
<1>5. Progress'
  <2>1. \A i \in 1 .. Len(received) : Got(i) < Coming /\ Got(i) \in 1 .. Len(sent)
    BY <1>1 DEF Progress, Ordered
  <2>2. Len(sent) \in Nat
    BY <1>1 DEF Control
  <2>3. \A i \in 1 .. Len(received) : Got(i) < Coming'
    BY <1>2, <2>1, <2>2
  <2> QED
    BY <1>3, <2>3 DEF Progress
<1>6. Loses
  BY <1>2 DEF Loses, Oldest
<1> QED
  BY <1>2, <1>4, <1>5, <1>6
-----------------------------------------------------------------------------
(* The first read of a receive function. *)
LEMMA BeginRecvStep ==
    ASSUME FInv, ~torn', spc # "undefined",
           NEW t \in {"smdk4412", "aries"}, NEW c, BeginRecv(t, c)
    PROVE  Ordered' /\ rpc' # "undefined" /\ Stream' /\ Progress'
           /\ Moves
<1> DEFINE p == wire[1]
           n == Number(wire[1])
           got == Fetched(Buffer)
           h == HeaderSetup(sent[n])
           rest == SubSeq(got, Header + 1, Len(got))
           size == sent[n].size
<1>1. /\ rpc = "idle" /\ wire # <<>> /\ transport = t
      /\ wire' = Read(Buffer)
      /\ UNCHANGED <<transport, channel, sent, spc, out>>
  BY DEF BeginRecv, kind, sender
<1>2. torn => torn'
  BY DEF BeginRecv, RecvError, Undefined
<1>3. Control /\ ~torn /\ Ordered /\ Stream /\ Progress
  BY <1>2 DEF FInv, Control
<1>4. /\ sent \in Seq(Message) /\ failed \in BOOLEAN
      /\ Packets # <<>> /\ Packets[1] = p /\ Chain(Packets, sent, failed)
  BY <1>1, <1>3, PacketFacts DEF Stream, Control
<1>5. Piece(p, sent)
  BY <1>4, ChainTail
<1>6. First(p) = 1 /\ Coming = n
  BY <1>1, <1>3, <1>4 DEF Stream, Coming
<1>7. /\ p \in Seq(Byte) /\ Len(p) \in Nat /\ Len(p) >= 1 /\ n \in Nat
      /\ sent[n] \in Message /\ n \in 1 .. Len(sent)
  BY <1>4, <1>5, PieceNumbers DEF Piece
<1>8. size \in Nat /\ Header \in Nat /\ Header >= 1 /\ Buffer \in Nat /\ Buffer >= Header
  BY <1>7, ConstantsAssumption DEF Message
<1>9. /\ Final(p) = Len(p) /\ Len(p) <= Header + size
      /\ FrameLen(sent, n) = Header + size
  <2>1. Final(p) = Len(p)
    BY <1>6, <1>7 DEF Final
  <2> QED
    BY <1>5, <2>1 DEF Piece, FrameLen
<1>10. h.length = Header + size /\ h.length - Header = size
  <2>1. h.length = FrameLen(sent, n)
    BY <1>1, <1>3, <1>7 DEF Stream
  <2> QED
    BY <1>8, <1>9, <2>1
<1>11. \A i \in 1 .. Len(p) : p[i] = <<n, i>>
  <2>1. \A i \in 1 .. Len(p) : (1 + i) - 1 = i
    BY <1>7
  <2> QED
    BY <1>5, <1>6, <2>1 DEF Piece
<1> DEFINE g == Smaller(Buffer, Len(p))
<1>12. /\ g \in 1 .. Len(p) /\ g <= Buffer /\ g \in Nat
       /\ g = Len(p) \/ (g = Buffer /\ Len(p) > Buffer)
  BY <1>7, <1>8 DEF Smaller
<1>13. got = SubSeq(p, 1, g)
  BY DEF Fetched
<1> HIDE DEF g, got
<1>14. /\ got \in Seq(Byte) /\ Len(got) = g
       /\ \A i \in 1 .. g : got[i] = <<n, i>>
  <2>1. 1 \in 1 .. Len(p) /\ (g - 1) + 1 = g /\ \A i \in 1 .. g : (1 + i) - 1 = i /\ i \in 1 .. Len(p)
    BY <1>7, <1>12
  <2>2. /\ SubSeq(p, 1, g) \in Seq(Byte) /\ Len(SubSeq(p, 1, g)) = (g - 1) + 1
        /\ \A i \in 1 .. (g - 1) + 1 : SubSeq(p, 1, g)[i] = p[(1 + i) - 1]
    BY <1>7, <1>12, <2>1, SubSeqProperties
  <2> QED
    BY <1>11, <1>13, <2>1, <2>2
<1>15. got[1][1] = n /\ got[1][2] = 1
  <2>1. 1 \in 1 .. g
    BY <1>12
  <2> QED
    BY <1>14, <2>1
<1>16. \/ g < Header /\ RecvError(n, g)
       \/ /\ g >= Header /\ TooLong(h) /\ RecvError(n, g)
       \/ /\ g >= Header /\ ~TooLong(h)
          /\ IF size = 0 THEN Deliver(MessageSetup(h), <<>>)
                              /\ UNCHANGED <<failed, torn>>
             ELSE IF Len(rest) > size THEN Undefined
             ELSE IF Len(rest) = size THEN Deliver(MessageSetup(h), rest)
                                           /\ UNCHANGED <<failed, torn>>
             ELSE /\ rpc' = "reading" /\ data' = rest
                  /\ msg' = [MessageSetup(h) EXCEPT !.size = size]
                  /\ UNCHANGED <<received, failed, torn>>
  BY <1>10, <1>14, <1>15 DEF BeginRecv, got
<1>17. g = Len(p) => wire' = Tail(wire)
  BY <1>1, <1>12 DEF Read, AriesRead, Smdk4412Read
<1>18. g >= Header => /\ rest \in Seq(Byte) /\ Len(rest) = g - Header
                      /\ \A i \in 1 .. Len(rest) : rest[i] = <<n, Header + i>>
  <2> SUFFICES ASSUME g >= Header
               PROVE  /\ rest \in Seq(Byte) /\ Len(rest) = g - Header
                      /\ \A i \in 1 .. Len(rest) : rest[i] = <<n, Header + i>>
    OBVIOUS
  <2>1. Len(got) >= Header
    BY <1>14
  <2>2. /\ rest \in Seq(Byte) /\ Len(rest) = Len(got) - Header
        /\ \A i \in 1 .. Len(got) - Header :
              rest[i] = got[Header + i] /\ Header + i \in 1 .. Len(got)
    BY <1>14, <2>1, RestFacts
  <2> HIDE DEF rest
  <2> QED
    BY <1>14, <2>2
<1> HIDE DEF rest
<1>19. CASE g < Header /\ RecvError(n, g)
  <2>1. g < Header + sent[n].size
    BY <1>8, <1>12, <1>19
  <2> QED
    BY <1>19, <2>1 DEF RecvError
<1>20. CASE RecvError(n, g)
  <2>1. /\ failed' = TRUE /\ rpc' = "idle" /\ received' = received
        /\ ~(g < Header + size)
    BY <1>20 DEF RecvError
  <2>2. g = Len(p) /\ Len(p) = Header + size
    <3>1. \A x, y, z \in Nat : x <= y /\ y <= z /\ ~(x < z) => x = y /\ y = z
      OBVIOUS
    <3>2. Header + size \in Nat /\ g <= Len(p)
      BY <1>7, <1>8, <1>12
    <3> QED
      BY <1>7, <1>9, <1>12, <2>1, <3>1, <3>2
  <2>3. Final(wire[1]) = FrameLen(sent, Number(wire[1])) /\ wire' = Tail(wire)
    BY <1>9, <1>17, <2>2
  <2> QED
    BY <1>1, <1>3, <1>6, <2>1, <2>3, RefusedStep DEF Moves
<1>21. ASSUME NEW bytes \in Seq(Byte), g = Header + size, Len(bytes) = size,
              \A i \in 1 .. Len(bytes) : bytes[i] = <<n, Header + i>>,
              Deliver(MessageSetup(h), bytes), UNCHANGED <<failed, torn>>
       PROVE  Ordered' /\ rpc' # "undefined" /\ Stream' /\ Progress'
           /\ Moves
  <2>1. g = Len(p) /\ Len(p) = Header + size
    BY <1>7, <1>8, <1>9, <1>12, <1>21
  <2>2. Final(wire[1]) = FrameLen(sent, n) /\ wire' = Tail(wire)
    BY <1>9, <1>17, <2>1
  <2>3. [MessageSetup(h) EXCEPT !.size = Len(bytes)] =
           [MessageSetup(HeaderSetup(sent[n])) EXCEPT !.size = sent[n].size]
    BY <1>21
  <2> QED
    BY <1>1, <1>3, <1>6, <1>21, <2>2, <2>3, DeliveredStep DEF Moves
<1>22. ASSUME g >= Header, Len(rest) < size,
              rpc' = "reading", data' = rest,
              msg' = [MessageSetup(h) EXCEPT !.size = size],
              UNCHANGED <<received, failed, torn>>
       PROVE  Ordered' /\ rpc' # "undefined" /\ Stream' /\ Progress'
           /\ Moves
  <2>1. NumberOf(msg') = n /\ NumberOf(msg)' = n
    BY <1>1, <1>3, <1>7, <1>8, <1>22, Decoded DEF NumberOf
  <2>2. g = Header + Len(data')
    BY <1>8, <1>12, <1>18, <1>22
  <2>3. /\ data' \in Seq(Byte) /\ Len(data') < sent[n].size
        /\ \A i \in 1 .. Len(data') : data'[i] = <<n, Header + i>>
    BY <1>18, <1>22
  <2>4. Stream' /\ Coming' = n /\ OnTheirWay' = OnTheirWay
    <3>1. CASE g = Len(p)
      <4>1. Final(wire[1]) = Header + Len(data')
        BY <1>9, <2>2, <3>1
      <4>2. transport # "crespo" /\ UNCHANGED failed
        BY <1>1, <1>22
      <4> QED
        BY <1>1, <1>3, <1>17, <1>22, <2>1, <2>3, <3>1, <4>1, <4>2, FrameBegun
    <3>2. CASE g = Buffer /\ Len(p) > Buffer
      <4>1. transport = "smdk4412"
        <5> SUFFICES ASSUME transport = "aries" PROVE FALSE
          BY <1>1
        <5>1. Len(wire) \in Nat /\ 1 \in 1 .. Len(wire)
          BY <1>1, <1>3, EmptySeq DEF Stream
        <5>2. Len(p) <= Buffer
          BY <1>3, <5>1 DEF Stream
        <5> QED
          BY <1>7, <1>8, <3>2, <5>2
      <4>2. wire' = <<SubSeq(wire[1], Buffer + 1, Len(wire[1]))>> \o Tail(wire)
        BY <1>1, <1>7, <1>8, <3>2, <4>1 DEF Read, Smdk4412Read
      <4>3. Buffer = Header + Len(data') /\ UNCHANGED failed
        BY <1>22, <2>2, <3>2
      <4> QED
        BY <1>1, <1>3, <1>6, <1>22, <2>1, <2>3, <3>2, <4>1, <4>2, <4>3, FrameCut
    <3> QED
      BY <1>12, <3>1, <3>2
  <2>5. \A i : Got(i)' = Got(i)
    BY <1>1, <1>22 DEF Got, NumberOf
  <2>6. Ordered'
    BY <1>1, <1>3, <1>22, <2>5 DEF Ordered, SameMessage
  <2>7. Progress'
    BY <1>3, <1>6, <1>22, <2>4, <2>5 DEF Progress
  <2>8. Moves
    BY <1>1, <1>22, <2>4 DEF Moves, Keeps
  <2> QED
    BY <1>22, <2>4, <2>6, <2>7, <2>8
<1>23. CASE g >= Header /\ ~TooLong(h) /\ size = 0
            /\ Deliver(MessageSetup(h), <<>>) /\ UNCHANGED <<failed, torn>>
  <2>1. g = Header + size
    BY <1>8, <1>9, <1>12, <1>23
  <2>2. <<>> \in Seq(Byte) /\ Len(<<>>) = size
    BY <1>23
  <2>3. \A i \in 1 .. Len(<<>>) : <<>>[i] = <<n, Header + i>>
    OBVIOUS
  <2> QED
    BY <1>21, <1>23, <2>1, <2>2, <2>3
<1>24. CASE g >= Header /\ ~TooLong(h) /\ size # 0
            /\ IF Len(rest) > size THEN Undefined
               ELSE IF Len(rest) = size THEN Deliver(MessageSetup(h), rest)
                                             /\ UNCHANGED <<failed, torn>>
               ELSE /\ rpc' = "reading" /\ data' = rest
                    /\ msg' = [MessageSetup(h) EXCEPT !.size = size]
                    /\ UNCHANGED <<received, failed, torn>>
  <2>1. Len(rest) = g - Header /\ ~(Len(rest) > size) /\ Len(rest) \in Nat
    BY <1>7, <1>8, <1>9, <1>12, <1>18, <1>24
  <2>2. CASE Len(rest) = size
    <3>1. g = Header + size
      BY <1>8, <1>12, <2>1, <2>2
    <3> QED
      BY <1>18, <1>21, <1>24, <2>1, <2>2, <3>1
  <2>3. CASE Len(rest) < size
    <3>1. Len(rest) # size
      BY <1>8, <2>1, <2>3
    <3> QED
      BY <1>22, <1>24, <2>1, <2>3, <3>1
  <2> QED
    BY <1>8, <2>1, <2>2, <2>3
<1> QED
  BY <1>16, <1>19, <1>20, <1>23, <1>24

(* The reads that follow. *)
LEMMA RecvMoreStep ==
    ASSUME FInv, ~torn, spc # "undefined", rpc # "undefined",
           Smdk4412RecvMore \/ AriesRecvMore
    PROVE  Ordered' /\ rpc' # "undefined" /\ Stream' /\ Progress'
           /\ Moves
<1> DEFINE p == wire[1]
           n == Number(wire[1])
           size == sent[n].size
<1>1. Control /\ Ordered /\ Stream /\ Progress
  BY DEF FInv
<1>2. PICK t \in {"smdk4412", "aries"},
           max \in {msg.size - Len(data),
                    Smaller(msg.size - Len(data), Buffer)} :
         /\ t = "smdk4412" => max = msg.size - Len(data)
         /\ t = "aries" => max = Smaller(msg.size - Len(data), Buffer)
         /\ RecvMore(t, max)
  BY DEF Smdk4412RecvMore, AriesRecvMore
<1> DEFINE bytes == data \o Fetched(max)
<1>3. /\ rpc = "reading" /\ wire # <<>> /\ transport = t
      /\ wire' = Read(max)
      /\ IF Len(bytes) = msg.size THEN Deliver(msg, bytes)
         ELSE data' = bytes /\ UNCHANGED <<rpc, msg, received>>
      /\ UNCHANGED <<transport, channel, sent, spc, out, failed, torn>>
  BY <1>2 DEF RecvMore, kind, sender
<1>4. /\ sent \in Seq(Message) /\ failed \in BOOLEAN
      /\ Packets # <<>> /\ Packets[1] = p /\ Chain(Packets, sent, failed)
  BY <1>1, <1>3, PacketFacts DEF Stream, Control
<1>5. Piece(p, sent)
  BY <1>4, ChainTail
<1>6. Reading
  BY <1>1, <1>3 DEF Stream
<1>7. /\ p \in Seq(Byte) /\ Len(p) \in Nat /\ Len(p) >= 1 /\ n \in Nat
      /\ sent[n] \in Message /\ n \in 1 .. Len(sent)
  BY <1>4, <1>5, PieceNumbers DEF Piece
<1>8. size \in Nat /\ Header \in Nat /\ Header >= 1 /\ Buffer \in Nat
  BY <1>7, ConstantsAssumption DEF Message
<1>9. /\ NumberOf(msg) = n /\ Coming = n
      /\ msg = [MessageSetup(HeaderSetup(sent[n])) EXCEPT !.size = size]
      /\ data \in Seq(Byte) /\ Len(data) < size /\ Len(data) \in Nat
      /\ \A i \in 1 .. Len(data) : data[i] = <<n, Header + i>>
      /\ First(p) = Header + Len(data) + 1
  BY <1>3, <1>4, <1>6 DEF Reading, Coming
<1>10. msg.size = size
  BY <1>1, <1>7, <1>8, <1>9, Decoded
<1>11. /\ Final(p) = Header + (Len(data) + Len(p))
       /\ FrameLen(sent, n) = Header + size
       /\ Len(data) + Len(p) <= size
  <2>1. Final(p) = Header + (Len(data) + Len(p))
    BY <1>7, <1>8, <1>9 DEF Final
  <2>2. Final(p) <= FrameLen(sent, n)
    BY <1>5 DEF Piece
  <2>3. FrameLen(sent, n) = Header + size
    BY DEF FrameLen
  <2>4. \A x \in Nat : Header + x <= Header + size => x <= size
    BY <1>8
  <2>5. Len(data) + Len(p) \in Nat
    BY <1>7, <1>9
  <2> QED
    BY <2>1, <2>2, <2>3, <2>4, <2>5
<1>12. Len(p) <= max /\ max \in Nat
  <2>1. Len(p) <= msg.size - Len(data) /\ msg.size - Len(data) \in Nat
    <3>1. \A s, d, l \in Nat : d + l <= s => l <= s - d /\ s - d \in Nat
      OBVIOUS
    <3>2. msg.size \in Nat /\ Len(data) \in Nat /\ Len(p) \in Nat
          /\ Len(data) + Len(p) <= msg.size
      BY <1>7, <1>8, <1>9, <1>10, <1>11
    <3> QED
      BY <3>1, <3>2
  <2>2. CASE t = "smdk4412"
    BY <1>2, <2>1, <2>2
  <2>3. CASE t = "aries"
    <3>1. Len(wire) \in Nat /\ 1 \in 1 .. Len(wire)
      BY <1>1, <1>3, EmptySeq DEF Stream
    <3>2. Len(p) <= Buffer
      BY <1>1, <1>3, <2>3, <3>1 DEF Stream
    <3>3. max = Smaller(msg.size - Len(data), Buffer)
      BY <1>2, <2>3
    <3> QED
      BY <1>8, <2>1, <3>2, <3>3 DEF Smaller
  <2> QED
    BY <2>2, <2>3
<1>13. Fetched(max) = p
  <2>1. Smaller(max, Len(p)) = Len(p)
    BY <1>7, <1>12 DEF Smaller
  <2>2. SubSeq(p, 1, Len(p)) = p
    BY <1>7, SubSeqFull
  <2> QED
    BY <2>1, <2>2 DEF Fetched
<1>14. wire' = Tail(wire)
  BY <1>3, <1>12 DEF Read, AriesRead, Smdk4412Read
<1>15. /\ bytes \in Seq(Byte) /\ Len(bytes) = Len(data) + Len(p)
       /\ \A i \in 1 .. Len(bytes) : bytes[i] = <<n, Header + i>>
  <2>1. /\ data \o p \in Seq(Byte) /\ Len(data \o p) = Len(data) + Len(p)
        /\ \A i \in 1 .. Len(data) + Len(p) :
              (data \o p)[i] = IF i <= Len(data) THEN data[i] ELSE p[i - Len(data)]
    BY <1>7, <1>9, ConcatProperties
  <2>2. bytes = data \o p
    BY <1>13
  <2> HIDE DEF bytes
  <2>3. ASSUME NEW i \in 1 .. Len(data) + Len(p)
        PROVE  bytes[i] = <<n, Header + i>>
    <3>1. CASE i <= Len(data)
      <4>1. i \in 1 .. Len(data)
        BY <1>7, <1>9, <2>3, <3>1
      <4> QED
        BY <1>9, <2>1, <2>2, <2>3, <3>1, <4>1
    <3>2. CASE ~(i <= Len(data))
      <4>1. /\ i - Len(data) \in 1 .. Len(p)
            /\ ((Header + Len(data) + 1) + (i - Len(data))) - 1 = Header + i
        <5>1. \A h, d, l \in Nat : \A k \in 1 .. d + l : ~(k <= d) =>
                 k - d \in 1 .. l /\ ((h + d + 1) + (k - d)) - 1 = h + k
          OBVIOUS
        <5>2. Header \in Nat /\ Len(data) \in Nat /\ Len(p) \in Nat
          BY <1>7, <1>9, ConstantsAssumption
        <5> QED
          BY <2>3, <3>2, <5>1, <5>2
      <4>2. p[i - Len(data)] = <<n, (First(p) + (i - Len(data))) - 1>>
        BY <1>5, <4>1 DEF Piece
      <4>3. p[i - Len(data)] = <<n, Header + i>>
        BY <1>9, <4>1, <4>2
      <4>4. bytes[i] = p[i - Len(data)]
        BY <2>1, <2>2, <2>3, <3>2
      <4> QED
        BY <4>3, <4>4
    <3> QED
      BY <3>1, <3>2
  <2> QED
    BY <2>1, <2>2, <2>3
<1> HIDE DEF bytes
<1>16. CASE Len(bytes) = msg.size
  <2>1. Deliver(msg, bytes) /\ Len(bytes) = size
    BY <1>3, <1>10, <1>16
  <2>2. Final(wire[1]) = FrameLen(sent, n)
    BY <1>11, <1>15, <2>1
  <2>3. [msg EXCEPT !.size = Len(bytes)] =
           [MessageSetup(HeaderSetup(sent[n])) EXCEPT !.size = sent[n].size]
    <3>1. [msg EXCEPT !.size = size] = msg
      <4>1. msg \in Message
        BY <1>1, <1>7, <1>8, <1>9, Decoded
      <4> QED
        BY <1>10, <4>1 DEF Message
    <3> QED
      BY <1>9, <2>1, <3>1
  <2> QED
    BY <1>3, <1>9, <1>14, <1>15, <2>1, <2>2, <2>3, DeliveredStep DEF Moves
<1>17. CASE Len(bytes) # msg.size
  <2>1. data' = bytes /\ UNCHANGED <<rpc, msg, received>>
    BY <1>3, <1>17
  <2>2. Len(bytes) < size
    <3>1. \A x, y \in Nat : x <= y /\ x # y => x < y
      OBVIOUS
    <3>2. Len(bytes) \in Nat /\ Len(bytes) <= size
      BY <1>11, <1>15
    <3>3. Len(bytes) # size /\ size \in Nat
      BY <1>8, <1>10, <1>17
    <3> QED
      BY <3>1, <3>2, <3>3
  <2>3. /\ transport # "crespo" /\ UNCHANGED failed /\ rpc' = "reading"
        /\ Number(wire[1]) = NumberOf(msg)'
    BY <1>3, <1>9, <2>1 DEF NumberOf
  <2>4. /\ msg' = [MessageSetup(HeaderSetup(sent[Number(wire[1])]))
                      EXCEPT !.size = sent[Number(wire[1])].size]
        /\ data' \in Seq(Byte) /\ Len(data') < sent[Number(wire[1])].size
        /\ \A i \in 1 .. Len(data') : data'[i] = <<Number(wire[1]), Header + i>>
        /\ Final(wire[1]) = Header + Len(data')
    BY <1>9, <1>11, <1>15, <2>1, <2>2
  <2>5. Stream' /\ Coming' = n /\ OnTheirWay' = OnTheirWay
    BY <1>1, <1>3, <1>14, <2>3, <2>4, FrameBegun
  <2>6. \A i : Got(i)' = Got(i)
    BY <1>3, <2>1 DEF Got, NumberOf
  <2>7. Ordered'
    BY <1>1, <1>3, <2>1, <2>6 DEF Ordered, SameMessage
  <2>8. Progress'
    BY <1>1, <1>3, <1>9, <2>1, <2>5, <2>6 DEF Progress
  <2>9. Moves
    BY <1>3, <2>1, <2>5 DEF Moves, Keeps
  <2> QED
    BY <2>3, <2>5, <2>7, <2>8, <2>9
<1> QED
  BY <1>16, <1>17

(* A message on crespo comes with one ioctl. *)
LEMMA CrespoRecvStep ==
    ASSUME FInv, ~torn', spc # "undefined", CrespoFmtRecv \/ CrespoRfsRecv
    PROVE  Ordered' /\ rpc' # "undefined" /\ Stream' /\ Progress'
           /\ Moves
<1> DEFINE p == wire[1]
           n == Number(wire[1])
           rest == SubSeq(p, Header + 1, Len(p))
           size == sent[n].size
<1>1. PICK c \in {"fmt", "rfs"}, rejected \in BOOLEAN :
         CrespoRecv(c, n, p, rejected)
  <2>1. CASE CrespoFmtRecv
    <3>1. CrespoRecv("fmt", n, p, Len(p) < Header \/ Len(p) > Buffer)
      BY <2>1 DEF CrespoFmtRecv, Number
    <3>2. (Len(p) < Header \/ Len(p) > Buffer) \in BOOLEAN
      OBVIOUS
    <3> QED
      BY <3>1, <3>2, Zenon
  <2>2. CASE CrespoRfsRecv
    <3>1. CrespoRecv("rfs", n, p, Len(p) - Header <= 0
                                  \/ Len(p) - Header > Buffer)
      BY <2>2 DEF CrespoRfsRecv, Number
    <3>2. (Len(p) - Header <= 0 \/ Len(p) - Header > Buffer) \in BOOLEAN
      OBVIOUS
    <3> QED
      BY <3>1, <3>2, Zenon
  <2> QED
    BY <2>1, <2>2, Zenon
<1>2. /\ rpc = "idle" /\ wire # <<>> /\ transport = "crespo"
      /\ wire' = Tail(wire)
      /\ IF rejected THEN RecvError(n, Len(p))
         ELSE Deliver(MessageSetup(HeaderSetup(sent[n])), rest)
              /\ UNCHANGED <<failed, torn>>
      /\ UNCHANGED <<transport, channel, sent, spc, out>>
  BY <1>1 DEF CrespoRecv, kind, sender
<1>3. torn => torn'
  BY <1>2 DEF RecvError
<1>4. Control /\ ~torn /\ Ordered /\ Stream /\ Progress
  BY <1>3 DEF FInv, Control
<1>5. /\ sent \in Seq(Message) /\ failed \in BOOLEAN
      /\ Packets # <<>> /\ Packets[1] = p /\ Chain(Packets, sent, failed)
  BY <1>2, <1>4, PacketFacts DEF Stream, Control
<1>6. Piece(p, sent)
  BY <1>5, ChainTail
<1>7. Coming = n
  BY <1>2, <1>5 DEF Coming
<1>8. First(p) = 1 /\ Final(p) = FrameLen(sent, n)
  <2>1. 1 \in 1 .. Len(wire)
    BY <1>2, <1>4, EmptySeq DEF Stream
  <2> QED
    BY <1>2, <1>4, <2>1 DEF Stream
<1>9. /\ p \in Seq(Byte) /\ Len(p) \in Nat /\ Len(p) >= 1 /\ n \in Nat
      /\ sent[n] \in Message /\ n \in 1 .. Len(sent)
  BY <1>5, <1>6, PieceNumbers DEF Piece
<1>10. size \in Nat /\ Header \in Nat /\ Header >= 1
  BY <1>9, ConstantsAssumption DEF Message
<1>11. Len(p) = Header + size
  <2>1. Final(p) = Len(p)
    BY <1>8, <1>9 DEF Final
  <2> QED
    BY <1>8, <2>1 DEF FrameLen
<1>12. CASE rejected
  <2>1. failed' = TRUE /\ rpc' = "idle" /\ received' = received
    BY <1>2, <1>12 DEF RecvError
  <2> QED
    BY <1>2, <1>4, <1>7, <1>8, <2>1, RefusedStep DEF Moves
<1>13. CASE ~rejected
  <2>1. /\ Deliver(MessageSetup(HeaderSetup(sent[n])), rest)
        /\ UNCHANGED <<failed, torn>>
    BY <1>2, <1>13
  <2>2. Len(p) >= Header /\ Len(p) - Header = size
    BY <1>9, <1>10, <1>11
  <2>3. /\ rest \in Seq(Byte) /\ Len(rest) = size
        /\ \A i \in 1 .. size :
              rest[i] = p[Header + i] /\ Header + i \in 1 .. Len(p)
    BY <1>9, <2>2, RestFacts
  <2> HIDE DEF rest
  <2>4. \A i \in 1 .. Len(p) : p[i] = <<n, i>>
    <3>1. \A i \in 1 .. Len(p) : (1 + i) - 1 = i
      BY <1>9
    <3> QED
      BY <1>6, <1>8, <3>1 DEF Piece
  <2>5. \A i \in 1 .. Len(rest) : rest[i] = <<n, Header + i>>
    BY <2>3, <2>4
  <2>6. [MessageSetup(HeaderSetup(sent[n])) EXCEPT !.size = Len(rest)] =
           [MessageSetup(HeaderSetup(sent[n])) EXCEPT !.size = sent[n].size]
    BY <2>3
  <2> QED
    BY <1>2, <1>4, <1>7, <1>8, <2>1, <2>3, <2>5, <2>6, DeliveredStep DEF Moves
<1> QED
  BY <1>12, <1>13

(* A message sent is one of the client's messages, numbered in turn. *)
LEMMA ControlSend ==
    ASSUME Control, NEW size \in Nat, NEW command \in ClientCommands,
           sent' = Append(sent, IpcClientSend(Len(sent) + 1, command, size)),
           UNCHANGED <<transport, channel, torn, rpc>>,
           spc' \in {"idle", "writing", "undefined"},
           failed' \in {failed, TRUE}
    PROVE  Control'
<1> DEFINE m == IpcClientSend(Len(sent) + 1, command, size)
<1>1. m \in Message /\ m.mseq = Len(sent) + 1 /\ m.aseq = 255
      /\ m.type = "get" /\ m.command = command
  <2>1. command \in Command
    BY DEF ClientCommands, Command
  <2>2. Len(sent) \in Nat
    BY DEF Control
  <2> QED
    BY <2>1, <2>2 DEF IpcClientSend, Message
<1>2. sent \in Seq(Message) /\ Len(sent) \in Nat
  BY DEF Control
<1> HIDE DEF m
<1>3. /\ sent' \in Seq(Message) /\ Len(sent') = Len(sent) + 1
      /\ \A k \in 1 .. Len(sent) : sent'[k] = sent[k]
      /\ sent'[Len(sent) + 1] = m
  <2>1. sent' = Append(sent, m)
    BY DEF m
  <2> QED
    BY <1>1, <1>2, <2>1
<1>4. ASSUME NEW k \in 1 .. Len(sent')
      PROVE  /\ sent'[k].mseq = k /\ sent'[k].aseq = 255
             /\ sent'[k].type = "get" /\ sent'[k].command \in ClientCommands'
  <2>1. k \in 1 .. Len(sent) \/ k = Len(sent) + 1
    BY <1>2, <1>3
  <2>2. ClientCommands' = ClientCommands
    BY DEF ClientCommands
  <2>3. CASE k \in 1 .. Len(sent)
    BY <1>3, <2>2, <2>3 DEF Control
  <2>4. CASE k = Len(sent) + 1
    BY <1>1, <1>3, <2>2, <2>4
  <2> QED
    BY <2>1, <2>3, <2>4
<1> QED
  BY <1>3, <1>4 DEF Control

(* Every call keeps the types of the functions' states, and only a call    *)
(* that returns -1 tears a frame.                                          *)
LEMMA ControlStep ==
    ASSUME Control, [Next]_vars
    PROVE  Control' /\ (torn => torn')
<1>1. CASE Send
  <2>1. PICK size \in Sizes, command \in ClientCommands :
           LET m == IpcClientSend(Len(sent) + 1, command, size) IN
           \/ Smdk4412FmtSend(m) \/ Smdk4412RfsSend(m)
           \/ AriesFmtSend(m) \/ AriesRfsSend(m)
           \/ CrespoFmtSend(m) \/ CrespoRfsSend(m)
    BY <1>1 DEF Send
  <2>2. size \in Nat /\ spc = "idle" /\ UNCHANGED kind
    BY <1>1, ConstantsAssumption DEF Send
  <2>3. sent' = Append(sent, IpcClientSend(Len(sent) + 1, command, size))
        /\ UNCHANGED <<torn, rpc>>
        /\ spc' \in {"idle", "writing", "undefined"}
        /\ failed' \in {failed, TRUE}
    BY <2>1, <2>2 DEF Smdk4412FmtSend, Smdk4412RfsSend, AriesFmtSend,
          AriesRfsSend, BeginSend, CrespoFmtSend, CrespoRfsSend, receiver
  <2> QED
    BY <2>2, <2>3, ControlSend DEF kind
<1>2. CASE Write
  <2>1. PICK k : Written(k)
    BY <1>2 DEF Write, Smdk4412Write, AriesWrite
  <2> QED
    BY <2>1 DEF Written, kind, receiver, Control, ClientCommands
<1>3. CASE WriteFails
  BY <1>3 DEF WriteFails, kind, receiver, Control, ClientCommands
<1>4. CASE Recv
  <2>1. UNCHANGED <<kind, sender>>
    BY <1>4 DEF Recv, Smdk4412FmtRecv, Smdk4412RfsRecv, AriesFmtRecv,
          AriesRfsRecv, BeginRecv, CrespoFmtRecv, CrespoRfsRecv, CrespoRecv,
          Smdk4412RecvMore, AriesRecvMore, RecvMore
  <2>2. /\ rpc' \in {"idle", "reading", "undefined"}
        /\ \/ UNCHANGED <<failed, torn>>
           \/ failed' = TRUE /\ \E m, count :
                 torn' = (torn \/ count < Header + sent[m].size)
    <3>1. CASE \E t, c : BeginRecv(t, c)
      BY <3>1, Zenon DEF BeginRecv, RecvError, Undefined, Deliver
    <3>2. CASE \E c, m, got, rejected : CrespoRecv(c, m, got, rejected)
      BY <3>2 DEF CrespoRecv, RecvError, Deliver
    <3>3. CASE \E t, max : RecvMore(t, max)
      BY <3>3 DEF RecvMore, Deliver, Control
    <3> QED
      BY <1>4, <3>1, <3>2, <3>3 DEF Recv, Smdk4412FmtRecv, Smdk4412RfsRecv,
          AriesFmtRecv, AriesRfsRecv, CrespoFmtRecv, CrespoRfsRecv,
          Smdk4412RecvMore, AriesRecvMore
  <2> QED
    <3>1. failed' \in BOOLEAN /\ torn' \in BOOLEAN /\ (torn => torn')
          /\ (torn' => failed')
      <4>1. CASE UNCHANGED <<failed, torn>>
        BY <4>1 DEF Control
      <4>2. CASE failed' = TRUE /\ \E m, count :
                    torn' = (torn \/ count < Header + sent[m].size)
        <5>1. PICK m, count : torn' = (torn \/ count < Header + sent[m].size)
          BY <4>2
        <5> QED
          BY <4>2, <5>1
      <4> QED
        BY <2>2, <4>1, <4>2
    <3>2. UNCHANGED <<transport, channel, sent, spc, ClientCommands>>
      BY <2>1 DEF kind, sender, ClientCommands
    <3> QED
      BY <2>2, <3>1, <3>2 DEF Control
<1>5. CASE ReadFails
  BY <1>5 DEF ReadFails, kind, sender, Control, ClientCommands
<1>6. CASE UNCHANGED vars
  BY <1>6 DEF vars, Control, ClientCommands
<1> QED
  BY <1>1, <1>2, <1>3, <1>4, <1>5, <1>6 DEF Next, Quiet

(* The steps of a call that is under way. *)
LEMMA CallStep ==
    ASSUME FInv, ~torn, ~torn', spc # "undefined", rpc # "undefined",
           Write \/ WriteFails \/ Recv \/ ReadFails
    PROVE  Ordered' /\ rpc' # "undefined" /\ Stream' /\ Progress' /\ Moves
<1>1. Control /\ Ordered /\ Stream
  BY DEF FInv
<1>2. CASE Write
  <2>1. Stream /\ spc = "writing" /\ transport # "crespo"
    BY <1>1, <1>2 DEF FInv, Write, Smdk4412Write, AriesWrite
  <2>2. Len(out) \in Nat /\ Len(out) >= 1
    <3>1. /\ wire \in Seq(Seq(Byte)) /\ out \in Seq(Byte)
          /\ Chain(Append(wire, out), sent, failed)
          /\ sent \in Seq(Message) /\ failed \in BOOLEAN
      BY <1>1, <2>1 DEF Stream, Control, Packets
    <3>2. Piece(out, sent)
      BY <3>1, ChainLast
    <3> QED
      BY <3>1, <3>2 DEF Piece
  <2>3. PICK k \in 1 .. Len(out) :
           Written(k) /\ (transport = "aries" => k <= Buffer)
    <3>1. CASE Smdk4412Write
      BY <3>1 DEF Smdk4412Write
    <3>2. CASE AriesWrite
      <4>1. \A x, y \in Nat : x >= 1 /\ y >= 1 =>
               Smaller(x, y) \in 1 .. x /\ Smaller(x, y) <= y
        BY DEF Smaller
      <4>2. /\ Smaller(Len(out), Buffer) \in 1 .. Len(out)
            /\ Smaller(Len(out), Buffer) <= Buffer
        BY <2>2, <4>1, BufferHoldsHeader
      <4> QED
        BY <3>2, <4>2 DEF AriesWrite
    <3> QED
      BY <1>2, <3>1, <3>2 DEF Write
  <2> QED
    BY <1>1, <2>1, <2>3, WrittenStep
<1>3. CASE WriteFails
  BY <1>1, <1>3, WriteFailsStep
<1>4. CASE Recv
  <2>1. CASE \E t \in {"smdk4412", "aries"}, c \in {"fmt", "rfs"} :
               BeginRecv(t, c)
    BY <1>4, <2>1, BeginRecvStep
  <2>2. CASE CrespoFmtRecv \/ CrespoRfsRecv
    BY <1>4, <2>2, CrespoRecvStep
  <2>3. CASE Smdk4412RecvMore \/ AriesRecvMore
    BY <1>1, <1>4, <2>3, RecvMoreStep
  <2> QED
    BY <1>4, <2>1, <2>2, <2>3 DEF Recv, Smdk4412FmtRecv, Smdk4412RfsRecv,
          AriesFmtRecv, AriesRfsRecv
<1>5. CASE ReadFails
  BY <1>1, <1>5, ReadFailsStep
<1> QED
  BY <1>2, <1>3, <1>4, <1>5

(* Every step of the two functions keeps the invariant. *)
LEMMA FInvStep == FInv /\ [Next]_vars => FInv'
<1> SUFFICES ASSUME FInv, [Next]_vars PROVE FInv'
  OBVIOUS
<1>1. Control' /\ (torn => torn')
  BY ControlStep DEF FInv
<1>2. SUFFICES ASSUME ~torn'
               PROVE  /\ Ordered' /\ rpc' # "undefined"
                      /\ spc' # "undefined" => Stream' /\ Progress'
  BY <1>1 DEF FInv
<1>3. ~torn /\ Ordered /\ rpc # "undefined" /\ Control
  BY <1>1, <1>2 DEF FInv
<1>4. CASE spc # "undefined" /\ Send
  <2>1. PICK size \in Sizes, command \in ClientCommands :
           LET m == IpcClientSend(Len(sent) + 1, command, size) IN
           \/ Smdk4412FmtSend(m) \/ Smdk4412RfsSend(m)
           \/ AriesFmtSend(m) \/ AriesRfsSend(m)
           \/ CrespoFmtSend(m) \/ CrespoRfsSend(m)
    BY <1>4 DEF Send
  <2> DEFINE m == IpcClientSend(Len(sent) + 1, command, size)
  <2>2. size \in Nat /\ spc = "idle" /\ UNCHANGED kind
    BY <1>4, ConstantsAssumption DEF Send
  <2>3. CASE \E t \in {"smdk4412", "aries"}, c \in {"fmt", "rfs"} :
               BeginSend(t, c, m)
    BY <1>3, <2>2, <2>3, BeginSendStep
  <2>4. CASE CrespoFmtSend(m) \/ CrespoRfsSend(m)
    BY <1>3, <2>2, <2>4, CrespoSendStep
  <2> HIDE DEF m
  <2>5. \/ Smdk4412FmtSend(m) \/ Smdk4412RfsSend(m)
        \/ AriesFmtSend(m) \/ AriesRfsSend(m)
        \/ CrespoFmtSend(m) \/ CrespoRfsSend(m)
    BY <2>1 DEF m
  <2> QED
    BY <2>3, <2>4, <2>5 DEF Smdk4412FmtSend, Smdk4412RfsSend, AriesFmtSend,
          AriesRfsSend
<1>5. CASE /\ spc # "undefined"
           /\ Write \/ WriteFails \/ Recv \/ ReadFails
  BY <1>2, <1>3, <1>5, CallStep
<1>6. CASE UNCHANGED vars
  <2>1. Ordered' /\ rpc' # "undefined"
    <3>1. \A i : Got(i)' = Got(i)
      BY <1>6 DEF vars, Got, NumberOf
    <3> QED
      BY <1>3, <1>6, <3>1 DEF vars, Ordered, SameMessage
  <2>2. Packets' = Packets /\ Coming' = Coming
    BY <1>6 DEF vars, Packets, Coming, NumberOf
  <2>3. ASSUME spc # "undefined" PROVE Stream' /\ Progress'
    <3>1. Stream /\ Progress
      BY <1>3, <2>3 DEF FInv
    <3>2. rpc = "reading" => Reading'
      BY <1>6, <2>2, <3>1 DEF vars, Stream, Reading, NumberOf, HeaderSetup,
            MessageSetup
    <3>3. Stream'
      BY <1>6, <2>2, <3>1, <3>2 DEF vars, Stream, HeaderSetup
    <3>4. Progress'
      BY <1>6, <2>2, <3>1 DEF vars, Progress, Got, NumberOf
    <3> QED
      BY <3>3, <3>4
  <2> QED
    BY <1>6, <2>1, <2>3 DEF vars
<1> QED
  BY <1>4, <1>5, <1>6 DEF Next, Quiet

(* Before the first call nothing is on its way. *)
LEMMA FInvInit == Init => FInv
<1> SUFFICES ASSUME Init PROVE FInv
  OBVIOUS
<1>1. Control
  <2>1. sent \in Seq(Message) /\ Len(sent) = 0
    BY DEF Init
  <2>2. \A m \in 1 .. Len(sent) : FALSE
    BY <2>1
  <2>3. failed \in BOOLEAN /\ torn \in BOOLEAN /\ (torn => failed)
    BY DEF Init
  <2>4. /\ transport \in {"smdk4412", "aries", "crespo"}
        /\ channel \in {"fmt", "rfs"} /\ spc = "idle" /\ rpc = "idle"
    BY DEF Init
  <2> QED
    BY <2>1, <2>2, <2>3, <2>4 DEF Control
<1>2. Packets = <<>> /\ wire = <<>> /\ received = <<>> /\ sent = <<>>
      /\ Len(received) = 0 /\ Len(sent) = 0 /\ spc = "idle" /\ rpc = "idle"
  BY DEF Init, Packets
<1>3. Ordered
  <2>1. received \in Seq(Delivery)
    BY <1>2
  <2> QED
    BY <1>2, <2>1 DEF Ordered
<1>4. Stream
  <2>1. Chain(Packets, sent, failed)
    <3>1. Len(Packets) = 0 /\ Packets \in Seq(Seq(Byte))
      BY <1>2
    <3> QED
      BY <3>1 DEF Chain
  <2>2. wire \in Seq(Seq(Byte)) /\ Len(wire) = 0
    BY <1>2
  <2> QED
    BY <1>2, <2>1, <2>2 DEF Stream
<1>5. Coming = 1
  BY <1>2 DEF Coming
<1>6. Progress
  BY <1>2, <1>5 DEF Progress
<1> QED
  BY <1>1, <1>2, <1>3, <1>4, <1>6 DEF FInv

(* On every transport the chain of frames between sender and receiver      *)
(* stays whole until a send or receive function returns -1 in the middle   *)
(* of a frame.                                                             *)
THEOREM FramesStayWhole == Spec => []FInv
BY FInvInit, FInvStep, PTL DEF Spec

(* smdk4412_ipc_fmt_recv and the five functions like it return only        *)
(* messages that were sent, unchanged, in order and at most once, however  *)
(* write() and read() split them, until a frame is torn.                   *)
THEOREM OrderKept == Spec => []ReceivedInOrder
<1>1. FInv => ReceivedInOrder
  <2> SUFFICES ASSUME FInv, ~torn PROVE
         \E f \in [DOMAIN received -> DOMAIN sent] :
          /\ \A i, j \in DOMAIN received : i < j => f[i] < f[j]
          /\ \A i \in DOMAIN received : SameMessage(received[i], f[i])
    BY DEF ReceivedInOrder
  <2>1. Ordered /\ sent \in Seq(Message) /\ received \in Seq(Delivery)
    BY DEF FInv, Control, Ordered
  <2>2. DOMAIN received = 1 .. Len(received) /\ DOMAIN sent = 1 .. Len(sent)
    BY <2>1
  <2> DEFINE f == [i \in DOMAIN received |-> Got(i)]
  <2>3. f \in [DOMAIN received -> DOMAIN sent]
    BY <2>1, <2>2 DEF Ordered
  <2>4. \A i \in DOMAIN received : f[i] = Got(i)
    OBVIOUS
  <2> HIDE DEF f
  <2>5. \A i, j \in DOMAIN received : i < j => f[i] < f[j]
    BY <2>1, <2>2, <2>4 DEF Ordered
  <2>6. \A i \in DOMAIN received : SameMessage(received[i], f[i])
    BY <2>1, <2>2, <2>4 DEF Ordered
  <2> QED
    BY <2>3, <2>5, <2>6
<1> QED
  BY <1>1, FramesStayWhole, PTL

(* The unchecked memcpy of what came with the header never goes beyond the *)
(* message's data, and a receive function never takes data for a header,   *)
(* unless a frame was torn.                                                *)
THEOREM CopiesInBounds == Spec => []ReceiverInBounds
<1>1. FInv => ReceiverInBounds
  BY DEF FInv, ReceiverInBounds
<1> QED
  BY <1>1, FramesStayWhole, PTL

(* With no failed call, a receiver that has emptied the driver has every   *)
(* message that was sent.                                                  *)
THEOREM AllReceived == Spec => []NothingLost
<1>1. FInv => NothingLost
  <2> SUFFICES ASSUME FInv, ~failed, spc = "idle", rpc = "idle", wire = <<>>
               PROVE  Len(received) = Len(sent)
    BY DEF NothingLost
  <2>1. Progress /\ Ordered /\ Control
    BY DEF FInv, Control
  <2>2. Coming = Len(sent) + 1
    BY DEF Coming, Packets
  <2>3. Coming = Len(received) + 1
    BY <2>1 DEF Progress
  <2>4. Len(received) \in Nat /\ Len(sent) \in Nat
    BY <2>1 DEF Ordered, Control
  <2> QED
    BY <2>2, <2>3, <2>4
<1> QED
  BY <1>1, FramesStayWhole, PTL

-----------------------------------------------------------------------------
(***************************************************************************)
(* The channel that the functions implement.  A function on 1 .. n is a    *)
(* sequence, and one with one more place is the other with one more        *)
(* element.                                                                *)
(***************************************************************************)
LEMMA FunctionIsSeq ==
    ASSUME NEW n \in Nat, NEW f, f = [i \in 1 .. n |-> f[i]]
    PROVE  Len(f) = n /\ (n = 0 => f = <<>>)
           /\ f \in Seq({f[i] : i \in 1 .. n})
<1> DEFINE S == {f[i] : i \in 1 .. n}
<1>1. \A i \in 1 .. n : f[i] \in S
  OBVIOUS
<1> HIDE DEF S
<1>2. [i \in 1 .. n |-> f[i]] \in Seq(S)
  BY <1>1, IsASeq
<1>3. f \in Seq(S)
  BY <1>2
<1>4. DOMAIN f = 1 .. n
  OBVIOUS
<1>5. Len(f) = n
  <2>1. Len(f) \in Nat /\ DOMAIN f = 1 .. Len(f)
    BY <1>3, LenProperties
  <2> QED
    BY <1>4, <2>1
<1>6. n = 0 => f = <<>>
  BY <1>3, <1>5, EmptySeq
<1> QED
  BY <1>3, <1>5, <1>6 DEF S

LEMMA OneMorePlace ==
    ASSUME NEW n \in Nat, NEW f, NEW g, f = [i \in 1 .. n |-> f[i]],
           g = [i \in 1 .. n + 1 |-> g[i]], \A i \in 1 .. n : g[i] = f[i]
    PROVE  g = Append(f, g[n + 1])
<1> DEFINE S == {g[i] : i \in 1 .. n + 1}
<1>1. (\A i \in 1 .. n : i \in 1 .. n + 1) /\ n + 1 \in 1 .. n + 1 /\ n + 1 \in Nat
  OBVIOUS
<1>2. g \in Seq(S) /\ Len(g) = n + 1
  BY <1>1, FunctionIsSeq
<1>3. \A i \in 1 .. n : f[i] \in S
  BY <1>1
<1>4. g[n + 1] \in S
  BY <1>1
<1> HIDE DEF S
<1>5. [i \in 1 .. n |-> f[i]] \in Seq(S)
  BY <1>3, IsASeq
<1>6. f \in Seq(S) /\ Len(f) = n
  BY <1>5, FunctionIsSeq
<1> DEFINE a == Append(f, g[n + 1])
<1>7. /\ a \in Seq(S) /\ Len(a) = n + 1 /\ a[n + 1] = g[n + 1]
      /\ \A i \in 1 .. n : a[i] = f[i]
  BY <1>4, <1>6, AppendProperties
<1> HIDE DEF a
<1>8. \A i \in 1 .. n + 1 : i \in 1 .. n \/ i = n + 1
  OBVIOUS
<1>9. \A i \in 1 .. Len(g) : g[i] = a[i]
  BY <1>2, <1>7, <1>8
<1>10. g = a
  BY <1>2, <1>7, <1>9, SeqEqual
<1> QED
  BY <1>10 DEF a

(* The two sequences of the channel. *)
LEMMA GivenFacts ==
    ASSUME Len(sent) \in Nat
    PROVE  /\ Given = [m \in 1 .. Len(sent) |-> Given[m]]
           /\ Len(Given) = Len(sent)
           /\ \A m \in 1 .. Len(sent) : Given[m] =
                 Carried(sent[m].mseq, sent[m], Body(m, sent[m].size))
<1>1. /\ Given = [m \in 1 .. Len(sent) |-> Given[m]]
      /\ \A m \in 1 .. Len(sent) : Given[m] =
            Carried(sent[m].mseq, sent[m], Body(m, sent[m].size))
  BY DEF Given
<1>2. Len(Given) = Len(sent)
  BY <1>1, FunctionIsSeq
<1> QED
  BY <1>1, <1>2

LEMMA TakenFacts ==
    ASSUME Len(received) \in Nat
    PROVE  /\ Taken = [i \in 1 .. Len(received) |-> Taken[i]]
           /\ \A i \in 1 .. Len(received) : Taken[i] =
                 Carried(Got(i), received[i].message, received[i].data)
BY DEF Taken, Got

(* What the client gives to ipc_client_send is a message of the channel,   *)
(* and comes after those it gave before.                                   *)
LEMMA GivenOneMore ==
    ASSUME Control, Len(sent) < MaxSends,
           NEW size \in Sizes, NEW command \in ClientCommands,
           sent' = Append(sent, IpcClientSend(Len(sent) + 1, command, size)),
           UNCHANGED channel
    PROVE  \E x \in Carriable : Given' = Append(Given, x)
<1> DEFINE m == IpcClientSend(Len(sent) + 1, command, size)
           n == Len(sent) + 1
<1>1. /\ sent \in Seq(Message) /\ Len(sent) \in Nat /\ n \in 1 .. MaxSends
      /\ size \in Nat /\ channel \in {"fmt", "rfs"}
  BY ConstantsAssumption DEF Control
<1>2. m \in Message
  BY <1>1 DEF IpcClientSend, Message, ClientCommands, Command
<1>3. m.mseq = n /\ m.aseq = 255 /\ m.type = "get" /\ m.size = size
      /\ m.command = command
  BY DEF IpcClientSend
<1> HIDE DEF m
<1>4. /\ Len(sent') = n /\ sent'[n] = m /\ Len(sent') \in Nat
      /\ \A k \in 1 .. Len(sent) : sent'[k] = sent[k]
  <2>1. sent' = Append(sent, m)
    BY DEF m
  <2> QED
    BY <1>1, <1>2, <2>1
<1>5. /\ Given' = [k \in 1 .. n |-> Given'[k]]
      /\ \A k \in 1 .. n : Given'[k] =
            Carried(sent'[k].mseq, sent'[k], Body(k, sent'[k].size))
  BY <1>4 DEF Given, Carried, Body
<1>6. \A k \in 1 .. Len(sent) : Given'[k] = Given[k]
  <2>1. \A k \in 1 .. Len(sent) : k \in 1 .. n
    BY <1>1
  <2> QED
    BY <1>1, <1>4, <1>5, <2>1, GivenFacts
<1>7. n \in 1 .. n /\ n = Len(sent) + 1
  BY <1>1
<1>8. Given'[n] = Carried(n, m, Body(n, size))
  BY <1>3, <1>4, <1>5, <1>7
<1>9. Carried(n, m, Body(n, size)) \in Carriable
  <2>1. command \in {<<"rfs", 1>>, <<"sec", 2>>}
    BY DEF ClientCommands
  <2> DEFINE a == IF channel = "fmt" THEN 255 ELSE 0
             t == IF channel = "fmt" THEN "get" ELSE "none"
  <2>2. a \in {0, 255} /\ t \in {"get", "none"}
    OBVIOUS
  <2> DEFINE h == [number |-> n, command |-> command, size |-> size,
                   answers |-> a, type |-> t]
  <2>3. Carried(n, m, Body(n, size)) = [head |-> h, data |-> Body(n, size)]
    BY <1>3 DEF Carried
  <2> HIDE DEF a, t
  <2>4. h \in Heads /\ h.number = n /\ h.size = size
    BY <1>1, <2>1, <2>2 DEF Heads
  <2> HIDE DEF h
  <2>5. [head |-> h, data |-> Body(h.number, h.size)] \in Carriable
    BY <2>4 DEF Carriable
  <2> QED
    BY <2>3, <2>4, <2>5
<1>10. Given' = Append(Given, Given'[n])
  <2>1. Given = [k \in 1 .. Len(sent) |-> Given[k]]
    BY <1>1, GivenFacts
  <2>2. Given' = [k \in 1 .. Len(sent) + 1 |-> Given'[k]]
    BY <1>5
  <2> QED
    BY <1>1, <1>6, <2>1, <2>2, OneMorePlace
<1> QED
  BY <1>8, <1>9, <1>10

(* What does not change. *)
LEMMA SameGiven ==
    ASSUME UNCHANGED <<channel, sent>> PROVE Given' = Given
BY DEF Given, Carried, Body

LEMMA SameTaken ==
    ASSUME UNCHANGED <<channel, received>> PROVE Taken' = Taken
BY DEF Taken, Carried, NumberOf

(* A message handed over is the one that was sent under its number. *)
LEMMA TakenOneMore ==
    ASSUME Control, Ordered, Ordered', UNCHANGED <<channel, sent>>,
           NEW r \in Delivery, received' = Append(received, r)
    PROVE  /\ NumberOf(r.message) \in 1 .. Len(sent)
           /\ Taken' = Append(Taken, Given[NumberOf(r.message)])
<1>0. PICK l : l = Len(received)
  OBVIOUS
<1> DEFINE n == NumberOf(r.message)
<1>1. received \in Seq(Delivery) /\ l \in Nat /\ Len(sent) \in Nat
  BY <1>0 DEF Ordered, Control
<1>2. /\ Len(received') = l + 1 /\ received'[l + 1] = r
      /\ \A i \in 1 .. l : received'[i] = received[i]
  BY <1>0, <1>1, AppendProperties
<1>3. l + 1 \in 1 .. l + 1 /\ \A i \in 1 .. l : i \in 1 .. l + 1
  BY <1>1
<1>4. \A i : Got(i)' = NumberOf(received'[i].message)
  BY DEF Got, NumberOf
<1>5. /\ n \in 1 .. Len(sent)
      /\ r.data = SubSeq(Frame(n, sent[n].size), Header + 1,
                         Header + sent[n].size)
      /\ r.message.size = sent[n].size /\ r.message.command = sent[n].command
      /\ channel = "fmt" => /\ r.message.aseq = sent[n].aseq
                            /\ r.message.type = sent[n].type
  <2>1. \A i \in 1 .. l + 1 : Got(i)' \in 1 .. Len(sent)
                              /\ SameMessage(received[i], Got(i))'
    BY <1>2 DEF Ordered
  <2>2. PICK k : k = l + 1
    OBVIOUS
  <2>3. Got(k)' = n /\ received'[k] = r
    BY <1>2, <1>4, <2>2
  <2>4. Got(k)' \in 1 .. Len(sent) /\ SameMessage(received[k], Got(k))'
    BY <1>3, <2>1, <2>2
  <2> HIDE DEF n
  <2>5. SameMessage(received[k], Got(k))' =>
          /\ received'[k].data =
                SubSeq(Frame(Got(k)', sent[Got(k)'].size), Header + 1,
                       Header + sent[Got(k)'].size)
          /\ received'[k].message.size = sent[Got(k)'].size
          /\ received'[k].message.command = sent[Got(k)'].command
          /\ channel = "fmt" =>
                /\ received'[k].message.aseq = sent[Got(k)'].aseq
                /\ received'[k].message.type = sent[Got(k)'].type
    BY DEF SameMessage, Frame
  <2> QED
    BY <2>3, <2>4, <2>5
<1>6. r.data = Body(n, sent[n].size)
  BY <1>5 DEF Body
<1>7. sent[n].mseq = n
  BY <1>5 DEF Control
<1> HIDE DEF n
<1>8. Carried(n, r.message, r.data) = Given[n]
  <2>1. Given[n] = Carried(sent[n].mseq, sent[n], Body(n, sent[n].size))
    BY <1>1, <1>5, GivenFacts
  <2>2. Carried(n, r.message, r.data) = Carried(n, sent[n], r.data)
    BY <1>5, <1>6 DEF Carried
  <2> QED
    BY <1>6, <1>7, <2>1, <2>2
<1>9. /\ Taken' = [i \in 1 .. l + 1 |-> Taken'[i]]
      /\ \A i \in 1 .. l + 1 : Taken'[i] =
            Carried(NumberOf(received'[i].message), received'[i].message,
                    received'[i].data)
  BY <1>2 DEF Taken, Carried, NumberOf
<1>10. Taken'[l + 1] = Given[n]
  BY <1>2, <1>3, <1>8, <1>9 DEF n
<1>11. /\ Taken = [i \in 1 .. l |-> Taken[i]]
       /\ \A i \in 1 .. l : Taken'[i] = Taken[i]
  <2>1. /\ Taken = [i \in 1 .. l |-> Taken[i]]
        /\ \A i \in 1 .. l : Taken[i] =
              Carried(NumberOf(received[i].message), received[i].message,
                      received[i].data)
    BY <1>0, <1>1, TakenFacts DEF Got
  <2> QED
    BY <1>2, <1>3, <1>9, <2>1
<1>12. Taken' = Append(Taken, Taken'[l + 1])
  BY <1>1, <1>9, <1>11, OneMorePlace
<1> QED
  BY <1>5, <1>10, <1>12 DEF n

(* Keeping, losing and handing over are steps of the channel. *)
LEMMA MovesRefine ==
    ASSUME FInv, FInv', ~Broken, ~Broken', Moves
    PROVE  [Link!Next]_(Link!vars)
<1>1. Control /\ Ordered /\ Ordered'
  BY DEF FInv, Broken
<1>2. Len(sent) \in Nat /\ Len(Given) = Len(sent)
  BY <1>1, GivenFacts DEF Control
<1>3. Broken = FALSE /\ Broken' = FALSE
  BY DEF Broken
<1>4. UNCHANGED <<channel, sent>> /\ Given' = Given
  BY SameGiven DEF Moves, Keeps, Loses, Hands
<1>5. CASE Keeps
  <2>1. Taken' = Taken /\ OnTheirWay' = OnTheirWay
    BY <1>5, SameTaken DEF Keeps
  <2>2. CASE failed' = failed
    BY <1>3, <1>4, <2>1, <2>2 DEF Link!vars
  <2>3. CASE failed' = TRUE
    <3>1. Link!Fail
      BY <1>4, <2>1, <2>3 DEF Link!Fail
    <3> QED
      BY <1>3, <3>1 DEF Link!Next, Link!Works
  <2> QED
    BY <1>5, <2>2, <2>3 DEF Keeps
<1>6. CASE Loses
  <2>1. PICK m \in OnTheirWay :
           /\ m = Len(sent) \/ Oldest(m)
           /\ OnTheirWay' = OnTheirWay \ {m}
    BY <1>6 DEF Loses
  <2>2. Taken' = Taken /\ failed' = TRUE
    BY <1>6, SameTaken DEF Loses
  <2>3. CASE m = Len(sent)
    <3>1. Link!Withdraw
      BY <1>2, <1>4, <2>1, <2>2, <2>3 DEF Link!Withdraw
    <3> QED
      BY <1>3, <3>1 DEF Link!Next, Link!Works
  <2>4. CASE Oldest(m)
    <3>1. Link!Drop(m)
      BY <1>4, <2>1, <2>2, <2>4 DEF Link!Drop, Link!Oldest, Oldest
    <3> QED
      BY <1>3, <3>1 DEF Link!Next, Link!Works
  <2> QED
    BY <2>1, <2>3, <2>4
<1>7. CASE Hands
  <2>1. PICK m \in OnTheirWay, r \in Delivery :
           /\ Oldest(m) /\ OnTheirWay' = OnTheirWay \ {m}
           /\ received' = Append(received, r) /\ NumberOf(r.message) = m
    BY <1>7 DEF Hands
  <2>2. Taken' = Append(Taken, Given[m]) /\ failed' = failed
    BY <1>1, <1>4, <1>7, <2>1, TakenOneMore DEF Hands
  <2>3. Link!Deliver(m)
    BY <1>4, <2>1, <2>2 DEF Link!Deliver, Link!Oldest, Oldest
  <2> QED
    BY <1>3, <2>3 DEF Link!Next, Link!Works
<1> QED
  BY <1>5, <1>6, <1>7 DEF Moves

(* A send puts its message on its way, or fails. *)
LEMMA SendRefines ==
    ASSUME FInv, ~Broken, ~Broken', Send
    PROVE  [Link!Next]_(Link!vars)
<1>1. PICK size \in Sizes, command \in ClientCommands :
         LET m == IpcClientSend(Len(sent) + 1, command, size) IN
         \/ Smdk4412FmtSend(m) \/ Smdk4412RfsSend(m)
         \/ AriesFmtSend(m) \/ AriesRfsSend(m)
         \/ CrespoFmtSend(m) \/ CrespoRfsSend(m)
  BY DEF Send
<1> DEFINE m == IpcClientSend(Len(sent) + 1, command, size)
           o == Frame(Len(sent) + 1, size)
<1>2. Control /\ Stream
  BY DEF FInv, Broken
<1>3. /\ spc = "idle" /\ Len(sent) < MaxSends /\ UNCHANGED channel
      /\ Len(sent) \in Nat /\ sent \in Seq(Message) /\ size \in Nat
      /\ Packets = wire /\ wire \in Seq(Seq(Byte))
  BY <1>2, ConstantsAssumption DEF Send, kind, Control, Stream, Packets
<1>4. m \in Message /\ m.size = size
  BY <1>3 DEF IpcClientSend, Message, ClientCommands, Command
<1>5. sent' = Append(sent, m) /\ received' = received
  BY <1>1 DEF Smdk4412FmtSend, Smdk4412RfsSend, AriesFmtSend, AriesRfsSend,
        BeginSend, CrespoFmtSend, CrespoRfsSend, receiver
<1>6. PICK x \in Carriable : Given' = Append(Given, x)
  BY <1>2, <1>3, <1>5, GivenOneMore
<1> HIDE DEF m
<1>7. Len(sent') = Len(sent) + 1
  BY <1>3, <1>4, <1>5, AppendProperties
<1>8. \/ Packets' = Append(wire, o) /\ failed' = failed
      \/ Packets' = wire /\ failed' = TRUE
  <2>1. CASE \E t, c : BeginSend(t, c, m)
    <3>1. spc' = "writing" /\ out' = o /\ UNCHANGED <<wire, failed>>
      BY <1>4, <1>7, <2>1 DEF BeginSend, Broken
    <3> QED
      BY <3>1 DEF Packets
  <2>2. CASE CrespoFmtSend(m) \/ CrespoRfsSend(m)
    <3>1. /\ spc' = "idle"
          /\ \/ wire' = Append(wire, o) /\ failed' = failed
             \/ wire' = wire /\ failed' = TRUE
      BY <1>3, <1>4, <1>7, <2>2 DEF CrespoFmtSend, CrespoRfsSend, Put
    <3> QED
      BY <3>1 DEF Packets
  <2> QED
    BY <1>1, <2>1, <2>2 DEF m, Smdk4412FmtSend, Smdk4412RfsSend, AriesFmtSend,
          AriesRfsSend
<1>9. o \in Seq(Byte) /\ Number(o) = Len(sent) + 1
  <2>1. Len(sent) + 1 \in Nat
    BY <1>3
  <2> QED
    BY <1>3, <2>1, FrameFacts
<1> HIDE DEF o
<1>10. \/ OnTheirWay' = OnTheirWay \cup {Len(sent) + 1} /\ failed' = failed
       \/ OnTheirWay' = OnTheirWay /\ failed' = TRUE
  <2>1. OnTheirWay' = Numbers(Packets') /\ OnTheirWay = Numbers(wire)
    BY <1>3 DEF OnTheirWay, Numbers, Number
  <2>2. Numbers(Append(wire, o)) = Numbers(wire) \cup {Len(sent) + 1}
    BY <1>3, <1>9, NumbersAppend
  <2> QED
    BY <1>8, <2>1, <2>2
<1>11. /\ Taken' = Taken /\ Len(Given) = Len(sent)
       /\ Broken = FALSE /\ Broken' = FALSE
  BY <1>3, <1>5, SameTaken, GivenFacts DEF Broken
<1>12. Link!Accept(x) \/ Link!Refuse(x)
  BY <1>6, <1>10, <1>11 DEF Link!Accept, Link!Refuse
<1> QED
  BY <1>6, <1>11, <1>12 DEF Link!Next, Link!Works

(* No receive returns a message in the step that breaks the channel. *)
LEMMA BreaksQuietly ==
    ASSUME Next, ~Broken, Broken'
    PROVE  UNCHANGED <<channel, received>>
<1>1. CASE Send
  BY <1>1 DEF Send, Smdk4412FmtSend, Smdk4412RfsSend, AriesFmtSend,
        AriesRfsSend, BeginSend, CrespoFmtSend, CrespoRfsSend, receiver, kind
<1>2. CASE Write
  <2>1. PICK k : Written(k)
    BY <1>2 DEF Write, Smdk4412Write, AriesWrite
  <2> QED
    BY <2>1 DEF Written, kind, receiver
<1>3. CASE WriteFails \/ ReadFails
  BY <1>3 DEF WriteFails, ReadFails, kind, receiver
<1>4. CASE Recv
  <2>1. UNCHANGED <<kind, sender>>
    BY <1>4 DEF Recv, Smdk4412FmtRecv, Smdk4412RfsRecv, AriesFmtRecv,
          AriesRfsRecv, BeginRecv, CrespoFmtRecv, CrespoRfsRecv, CrespoRecv,
          Smdk4412RecvMore, AriesRecvMore, RecvMore
  <2>2. torn' # torn
    BY <2>1 DEF Broken, sender
  <2>3. received' = received
    <3>1. CASE \E t, c : BeginRecv(t, c)
      BY <2>2, <3>1, Zenon DEF BeginRecv, RecvError, Undefined
    <3>2. CASE \E c, m, got, rejected : CrespoRecv(c, m, got, rejected)
      BY <2>2, <3>2 DEF CrespoRecv, RecvError
    <3>3. CASE \E t, max : RecvMore(t, max)
      BY <2>2, <3>3 DEF RecvMore
    <3> QED
      BY <1>4, <3>1, <3>2, <3>3 DEF Recv, Smdk4412FmtRecv, Smdk4412RfsRecv,
          AriesFmtRecv, AriesRfsRecv, CrespoFmtRecv, CrespoRfsRecv,
          Smdk4412RecvMore, AriesRecvMore
  <2> QED
    BY <2>1, <2>3 DEF kind
<1>5. CASE Quiet
  BY <1>5 DEF Quiet, vars
<1> QED
  BY <1>1, <1>2, <1>3, <1>4, <1>5 DEF Next

(* Every step of the functions is one of the channel or leaves it alone. *)
LEMMA StepRefines ==
    ASSUME FInv, FInv', [Next]_vars
    PROVE  [Link!Next]_(Link!vars)
<1>1. torn => torn'
  BY ControlStep DEF FInv
<1>2. CASE UNCHANGED vars
  <2>1. /\ UNCHANGED <<channel, sent, received, failed>>
        /\ Packets' = Packets /\ Broken' = Broken
    BY <1>2 DEF vars, Packets, Broken
  <2>2. Given' = Given /\ Taken' = Taken /\ OnTheirWay' = OnTheirWay
    BY <2>1, SameGiven, SameTaken DEF OnTheirWay, Numbers, Number
  <2> QED
    BY <2>1, <2>2 DEF Link!vars
<1>3. CASE Next /\ Broken
  <2>1. Broken'
    BY <1>1, <1>3 DEF Broken, Next, Quiet, vars
  <2>2. Link!StaysBroken
    BY <1>3, <2>1 DEF Link!StaysBroken, Broken
  <2> QED
    BY <2>2 DEF Link!Next
<1>4. CASE Next /\ ~Broken /\ Broken'
  <2>1. Taken' = Taken
    BY <1>4, BreaksQuietly, SameTaken
  <2>2. Link!Break
    BY <1>4, <2>1 DEF Link!Break, Broken
  <2> QED
    BY <2>2 DEF Link!Next
<1>5. CASE Next /\ ~Broken /\ ~Broken'
  <2>1. CASE Send
    BY <1>5, <2>1, SendRefines
  <2>2. CASE Write \/ WriteFails \/ Recv \/ ReadFails
    <3>1. /\ ~torn /\ ~torn' /\ spc # "undefined" /\ rpc # "undefined"
      BY <1>5 DEF Broken, FInv
    <3>2. Moves
      BY <2>2, <3>1, CallStep
    <3> QED
      BY <1>5, <3>2, MovesRefine
  <2>3. CASE Quiet
    BY <1>2, <2>3 DEF Quiet
  <2> QED
    BY <1>5, <2>1, <2>2, <2>3 DEF Next
<1> QED
  BY <1>2, <1>3, <1>4, <1>5

LEMMA InitRefines == Init => Link!Init
<1> SUFFICES ASSUME Init PROVE Link!Init
  OBVIOUS
<1>1. /\ Len(sent) = 0 /\ Len(received) = 0 /\ Len(Packets) = 0
      /\ failed = FALSE /\ Broken = FALSE
  BY DEF Init, Packets, Broken
<1>2. Given = <<>>
  <2>1. Given = [m \in 1 .. 0 |-> Given[m]]
    BY <1>1, GivenFacts
  <2> QED
    BY <2>1, FunctionIsSeq
<1>3. Taken = <<>>
  <2>1. Taken = [m \in 1 .. 0 |-> Taken[m]]
    BY <1>1, TakenFacts
  <2> QED
    BY <2>1, FunctionIsSeq
<1>4. OnTheirWay = {}
  BY <1>1 DEF OnTheirWay, Numbers
<1> QED
  BY <1>1, <1>2, <1>3, <1>4 DEF Link!Init

(* smdk4412, aries and crespo: however reads and writes cut the frames,    *)
(* the send and receive functions are a channel that delivers the oldest   *)
(* message on its way and loses one only in a call that returns -1, until  *)
(* such a call leaves part of a frame behind.                              *)
THEOREM ChannelImplemented == Spec => ImplementsChannel
<1>1. FInv /\ FInv' /\ [Next]_vars => [Link!Next]_(Link!vars)
  BY StepRefines
<1> QED
  BY <1>1, InitRefines, FramesStayWhole, PTL
     DEF Spec, ImplementsChannel, Link!Spec
=============================================================================
