----------------------------- MODULE HsicProofs -----------------------------
(***************************************************************************)
(* Proofs about the boot protocol over HSIC, for every size of the images, *)
(* every number of probes and every number of bytes before the PSI's       *)
(* acknowledgement that is even.                                           *)
(*                                                                         *)
(* Until the EBL is loaded the bytes are counted: what the ROM and the PSI *)
(* have sent is what the host has read and what is in rx (HsicCounts).     *)
(* Late answers come in pairs, so ack_read, which reads pairs, stays in    *)
(* step with them and meets the PSI's acknowledgement in one piece; it     *)
(* gives up only after as many late answers as it makes attempts.          *)
(*                                                                         *)
(* After that the commands are counted.  Blocks are not acknowledged, so   *)
(* the modem may lag behind the host by any number of them; but it takes   *)
(* them in order, and the answer to SEC_END comes after all of them        *)
(* (HsicProgress, HsicReplies).                                            *)
(***************************************************************************)
EXTENDS BootProofs

(* What is assumed of the sizes, for xmm626_hsic.c. *)
LEMMA HsicConstants ==
    /\ AtMax \in Nat /\ AckMax \in Nat \ {0} /\ Unknown \in Nat \ {0} /\ CrcAcks \in Nat \ {0}
    /\ (Unknown + CrcAcks) % 2 = 0
    /\ PsiParts \in Nat \ {0} /\ EblParts \in Nat \ {0}
    /\ FirmwareBlocks \in Nat \ {0} /\ NvBlocks \in Nat \ {0}
  BY HsicAssumption DEF Hsic!ConstantsAssumption

(* The number of commands, the regions, and where their blocks lie among   *)
(* the commands.                                                           *)
HsicLast    == 6 + FirmwareBlocks + NvBlocks
HsicRegions == {"firmware", "nv_data"}
HSelects(r) == IF r = "firmware" THEN 3 ELSE 4 + FirmwareBlocks
HBlocks(r)  == IF r = "firmware" THEN FirmwareBlocks ELSE NvBlocks

(* xmm626_hsic_modem_data_send: the address, then the blocks, which are    *)
(* not acknowledged.                                                       *)
LEMMA HsicRegion ==
    ASSUME NEW r \in HsicRegions, NEW m \in Nat
    PROVE  /\ Hsic!ModemDataSend(r, m) \in Seq(Orders) /\ Len(Hsic!ModemDataSend(r, m)) = m + 1
           /\ Hsic!ModemDataSend(r, m)[1] = [code |-> "set_address", arg |-> r, ack |-> TRUE]
           /\ \A k \in 2..(m + 1) :
                 /\ Hsic!ModemDataSend(r, m)[k].code = "write_block"
                 /\ Hsic!ModemDataSend(r, m)[k].ack = FALSE
  <1> DEFINE a == <<Hsic!Command("set_address", r, TRUE)>>
             b == [k \in 1 .. m |-> Hsic!Command("write_block", k, FALSE)]
  <1>1. /\ a \in Seq(Orders) /\ Len(a) = 1
        /\ a[1] = [code |-> "set_address", arg |-> r, ack |-> TRUE]
    BY DEF Hsic!Command, Orders, HsicRegions
  <1>2. b \in Seq(Orders) /\ Len(b) = m
    BY DEF Hsic!Command, Orders
  <1>3. \A k \in 1..m : b[k].code = "write_block" /\ b[k].ack = FALSE
    BY DEF Hsic!Command
  <1>4. Hsic!ModemDataSend(r, m) = a \o b
    BY DEF Hsic!ModemDataSend
  <1>10. a \in Seq(Orders) /\ Len(a) = 1 /\ b \in Seq(Orders) /\ Len(b) = m
    BY <1>1, <1>2
  <1> HIDE DEF a, b
  <1>5. /\ a \o b \in Seq(Orders) /\ Len(a \o b) = 1 + m /\ (a \o b)[1] = a[1]
        /\ \A k \in 2..(1 + m) : (a \o b)[k] = b[k - 1]
    <2>1. /\ a \o b \in Seq(Orders) /\ Len(a \o b) = Len(a) + Len(b)
          /\ \A k \in 1..Len(a) : (a \o b)[k] = a[k]
          /\ \A k \in (Len(a) + 1)..(Len(a) + Len(b)) : (a \o b)[k] = b[k - Len(a)]
      BY <1>10, Concatenated
    <2>2. QED
      BY <1>10, <2>1
  <1>6. \A k \in 2..(1 + m) : k - 1 \in 1..m
    OBVIOUS
  <1>7. \A k \in 2..(1 + m) : (a \o b)[k].code = "write_block" /\ (a \o b)[k].ack = FALSE
    BY <1>3, <1>5, <1>6
  <1>8. m + 1 = 1 + m
    OBVIOUS
  <1>9. QED
    BY <1>1, <1>4, <1>5, <1>7, <1>8

(* The commands of a boot, in order. *)
LEMMA HsicCommandsAre ==
    /\ Hsic!Commands \in Seq(Orders) /\ Len(Hsic!Commands) = HsicLast
    /\ Hsic!Commands[1] = [code |-> "set_port_config", arg |-> "config", ack |-> TRUE]
    /\ Hsic!Commands[2] = [code |-> "sec_start", arg |-> "image", ack |-> TRUE]
    /\ \A r \in HsicRegions :
          /\ Hsic!Commands[HSelects(r)] = [code |-> "set_address", arg |-> r, ack |-> TRUE]
          /\ \A k \in (HSelects(r) + 1)..(HSelects(r) + HBlocks(r)) :
                Hsic!Commands[k].code = "write_block" /\ Hsic!Commands[k].ack = FALSE
    /\ Hsic!Commands[HsicLast - 1] = [code |-> "sec_end", arg |-> "magic", ack |-> TRUE]
    /\ Hsic!Commands[HsicLast] = [code |-> "hw_reset", arg |-> "magic", ack |-> FALSE]
  <1> DEFINE F == FirmwareBlocks  N == NvBlocks
             p0 == Hsic!PortConfigSend  s0 == Hsic!SecStartSend
             f0 == Hsic!FirmwareSend  n0 == Hsic!NvDataSend
             e0 == Hsic!SecEndSend  h0 == Hsic!HwResetSend
             c2 == p0 \o s0
             c3 == c2 \o f0
             c4 == c3 \o n0
             c5 == c4 \o e0
  <1>1. /\ p0 \in Seq(Orders) /\ Len(p0) = 1
        /\ p0[1] = [code |-> "set_port_config", arg |-> "config", ack |-> TRUE]
    BY DEF Hsic!PortConfigSend, Hsic!Command, Orders
  <1>2. /\ s0 \in Seq(Orders) /\ Len(s0) = 1
        /\ s0[1] = [code |-> "sec_start", arg |-> "image", ack |-> TRUE]
    BY DEF Hsic!SecStartSend, Hsic!Command, Orders
  <1>3. /\ f0 \in Seq(Orders) /\ Len(f0) = F + 1
        /\ f0[1] = [code |-> "set_address", arg |-> "firmware", ack |-> TRUE]
        /\ \A k \in 2..(F + 1) : f0[k].code = "write_block" /\ f0[k].ack = FALSE
    BY HsicRegion, HsicConstants DEF Hsic!FirmwareSend, HsicRegions
  <1>4. /\ n0 \in Seq(Orders) /\ Len(n0) = N + 1
        /\ n0[1] = [code |-> "set_address", arg |-> "nv_data", ack |-> TRUE]
        /\ \A k \in 2..(N + 1) : n0[k].code = "write_block" /\ n0[k].ack = FALSE
    BY HsicRegion, HsicConstants DEF Hsic!NvDataSend, HsicRegions
  <1>6. /\ e0 \in Seq(Orders) /\ Len(e0) = 1
        /\ e0[1] = [code |-> "sec_end", arg |-> "magic", ack |-> TRUE]
    BY DEF Hsic!SecEndSend, Hsic!Command, Orders
  <1>7. /\ h0 \in Seq(Orders) /\ Len(h0) = 1
        /\ h0[1] = [code |-> "hw_reset", arg |-> "magic", ack |-> FALSE]
    BY DEF Hsic!HwResetSend, Hsic!Command, Orders
  <1>0. /\ p0 \in Seq(Orders) /\ Len(p0) = 1 /\ s0 \in Seq(Orders) /\ Len(s0) = 1
        /\ e0 \in Seq(Orders) /\ Len(e0) = 1 /\ h0 \in Seq(Orders) /\ Len(h0) = 1
    BY <1>1, <1>2, <1>6, <1>7
  <1>5. f0 \in Seq(Orders) /\ Len(f0) = F + 1
    BY <1>3
  <1>9. n0 \in Seq(Orders) /\ Len(n0) = N + 1
    BY <1>4
  <1>8. Hsic!Commands = c5 \o h0
    BY DEF Hsic!Commands
  <1> HIDE DEF p0, s0, f0, n0, e0, h0
  <1>11. c2 \in Seq(Orders) /\ Len(c2) = 2 /\ c2[1] = p0[1] /\ c2[2] = s0[1]
    <2>1. /\ p0 \o s0 \in Seq(Orders) /\ Len(p0 \o s0) = Len(p0) + 1
          /\ \A k \in 1..Len(p0) : (p0 \o s0)[k] = p0[k]
          /\ (p0 \o s0)[Len(p0) + 1] = s0[1]
      BY <1>0, ConcatenatedOne
    <2>2. QED
      BY <1>0, <2>1
  <1> HIDE DEF c2
  <1>12. /\ c3 \in Seq(Orders) /\ Len(c3) = 3 + F
         /\ \A k \in 1..2 : c3[k] = c2[k]
         /\ \A k \in 3..(3 + F) : c3[k] = f0[k - 2]
    <2>0. c2 \in Seq(Orders) /\ Len(c2) = 2
      BY <1>11
    <2>1. /\ c2 \o f0 \in Seq(Orders) /\ Len(c2 \o f0) = Len(c2) + Len(f0)
          /\ \A k \in 1..Len(c2) : (c2 \o f0)[k] = c2[k]
          /\ \A k \in (Len(c2) + 1)..(Len(c2) + Len(f0)) : (c2 \o f0)[k] = f0[k - Len(c2)]
      BY <1>5, <2>0, Concatenated
    <2>2. QED
      BY <1>5, <2>0, HsicConstants, <2>1
  <1> HIDE DEF c3
  <1>13. /\ c4 \in Seq(Orders) /\ Len(c4) = 4 + F + N
         /\ \A k \in 1..(3 + F) : c4[k] = c3[k]
         /\ \A k \in (4 + F)..(4 + F + N) : c4[k] = n0[k - (3 + F)]
    <2>0. c3 \in Seq(Orders) /\ Len(c3) = 3 + F
      BY <1>12
    <2>1. /\ c3 \o n0 \in Seq(Orders) /\ Len(c3 \o n0) = Len(c3) + Len(n0)
          /\ \A k \in 1..Len(c3) : (c3 \o n0)[k] = c3[k]
          /\ \A k \in (Len(c3) + 1)..(Len(c3) + Len(n0)) : (c3 \o n0)[k] = n0[k - Len(c3)]
      BY <1>9, <2>0, Concatenated
    <2>2. QED
      BY <1>9, <2>0, HsicConstants, <2>1
  <1> HIDE DEF c4
  <1>15. /\ c5 \in Seq(Orders) /\ Len(c5) = 5 + F + N
         /\ \A k \in 1..(4 + F + N) : c5[k] = c4[k]
         /\ c5[5 + F + N] = e0[1]
    <2>1. /\ c4 \o e0 \in Seq(Orders) /\ Len(c4 \o e0) = Len(c4) + 1
          /\ \A k \in 1..Len(c4) : (c4 \o e0)[k] = c4[k]
          /\ (c4 \o e0)[Len(c4) + 1] = e0[1]
      BY <1>0, <1>13, ConcatenatedOne
    <2>2. Len(c4) + 1 = 5 + F + N
      BY <1>13, HsicConstants
    <2>3. QED
      BY <1>13, <2>1, <2>2
  <1> HIDE DEF c5
  <1>16. /\ Hsic!Commands \in Seq(Orders) /\ Len(Hsic!Commands) = HsicLast
         /\ \A k \in 1..(5 + F + N) : Hsic!Commands[k] = c5[k]
         /\ Hsic!Commands[6 + F + N] = h0[1]
    <2>1. /\ c5 \o h0 \in Seq(Orders) /\ Len(c5 \o h0) = Len(c5) + 1
          /\ \A k \in 1..Len(c5) : (c5 \o h0)[k] = c5[k]
          /\ (c5 \o h0)[Len(c5) + 1] = h0[1]
      BY <1>0, <1>15, ConcatenatedOne
    <2>2. Len(c5) + 1 = 6 + F + N
      BY <1>15, HsicConstants
    <2>3. QED
      BY <1>8, <1>15, <2>1, <2>2 DEF HsicLast
  <1>17. /\ \A k \in 1..(4 + F + N) : Hsic!Commands[k] = c4[k]
         /\ \A k \in 1..(3 + F) : Hsic!Commands[k] = c3[k]
         /\ \A k \in 1..2 : Hsic!Commands[k] = c2[k]
    BY <1>12, <1>13, <1>15, <1>16, HsicConstants
  <1>18. ASSUME NEW r \in HsicRegions
         PROVE  /\ Hsic!Commands[HSelects(r)] = [code |-> "set_address", arg |-> r, ack |-> TRUE]
                /\ \A k \in (HSelects(r) + 1)..(HSelects(r) + HBlocks(r)) :
                      Hsic!Commands[k].code = "write_block" /\ Hsic!Commands[k].ack = FALSE
    <2>2. CASE r = "firmware"
      <3>1. \A k \in 3..(3 + F) : Hsic!Commands[k] = f0[k - 2] /\ k - 2 \in 1..(F + 1)
                                        /\ (k > 3 => k - 2 \in 2..(F + 1))
        BY <1>12, <1>17, HsicConstants
      <3>2. HSelects(r) = 3 /\ 3 - 2 = 1 /\ HBlocks(r) = F
        BY <2>2 DEF HSelects, HBlocks
      <3>3. QED
        BY <1>3, <2>2, <3>1, <3>2, HsicConstants
    <2>3. CASE r = "nv_data"
      <3>1. \A k \in (4 + F)..(4 + F + N) :
               /\ Hsic!Commands[k] = n0[k - (3 + F)]
               /\ (k > 4 + F => k - (3 + F) \in 2..(N + 1))
               /\ (k = 4 + F => k - (3 + F) = 1)
        BY <1>13, <1>17, HsicConstants
      <3>2. HSelects(r) = 4 + F /\ HBlocks(r) = N
        BY <2>3 DEF HSelects, HBlocks
      <3>3. QED
        BY <1>4, <2>3, <3>1, <3>2, HsicConstants
    <2>5. QED
      BY <2>2, <2>3 DEF HsicRegions
  <1>19. /\ Hsic!Commands[1] = p0[1] /\ Hsic!Commands[2] = s0[1]
         /\ Hsic!Commands[HsicLast - 1] = e0[1] /\ Hsic!Commands[HsicLast] = h0[1]
    <2>1. HsicLast - 1 = 5 + F + N /\ 5 + F + N \in Nat
      BY HsicConstants DEF HsicLast
    <2>2. 5 + F + N \in 1..(5 + F + N)
      BY <2>1, HsicConstants
    <2>3. QED
      BY <1>11, <1>15, <1>16, <1>17, <2>1, <2>2 DEF HsicLast
  <1>20. QED
    BY <1>1, <1>2, <1>6, <1>7, <1>16, <1>18, <1>19

(* There are more than five commands. *)
LEMMA HsicLastIs == HsicLast \in Nat /\ HsicLast > 5
  BY HsicConstants DEF HsicLast

(* The codes of the commands and which of them are answered. *)
LEMMA HsicFields ==
    /\ Hsic!Commands[1].code = "set_port_config" /\ Hsic!Commands[1].ack = TRUE
    /\ Hsic!Commands[2].code = "sec_start" /\ Hsic!Commands[2].ack = TRUE
    /\ Hsic!Commands[HsicLast - 1].code = "sec_end" /\ Hsic!Commands[HsicLast - 1].ack = TRUE
    /\ Hsic!Commands[HsicLast].code = "hw_reset" /\ Hsic!Commands[HsicLast].ack = FALSE
    /\ \A r \in HsicRegions :
          /\ Hsic!Commands[HSelects(r)].code = "set_address"
          /\ Hsic!Commands[HSelects(r)].arg = r /\ Hsic!Commands[HSelects(r)].ack = TRUE
          /\ \A k \in (HSelects(r) + 1)..(HSelects(r) + HBlocks(r)) :
                Hsic!Commands[k].code = "write_block" /\ Hsic!Commands[k].ack = FALSE
  <1>1. Hsic!Commands[1].code = "set_port_config" /\ Hsic!Commands[1].ack = TRUE
    BY HsicCommandsAre
  <1>2. Hsic!Commands[2].code = "sec_start" /\ Hsic!Commands[2].ack = TRUE
    BY HsicCommandsAre
  <1>3. Hsic!Commands[HsicLast - 1].code = "sec_end" /\ Hsic!Commands[HsicLast - 1].ack = TRUE
    BY HsicCommandsAre
  <1>4. Hsic!Commands[HsicLast].code = "hw_reset" /\ Hsic!Commands[HsicLast].ack = FALSE
    BY HsicCommandsAre
  <1>5. ASSUME NEW r \in HsicRegions
        PROVE  /\ Hsic!Commands[HSelects(r)].code = "set_address"
               /\ Hsic!Commands[HSelects(r)].arg = r /\ Hsic!Commands[HSelects(r)].ack = TRUE
    <2>1. Hsic!Commands[HSelects(r)] = [code |-> "set_address", arg |-> r, ack |-> TRUE]
      BY HsicCommandsAre
    <2>2. QED
      BY <2>1
  <1>6. QED
    BY <1>1, <1>2, <1>3, <1>4, <1>5, HsicCommandsAre

(* The regions do not overlap, and every other command is one of the four  *)
(* single ones.                                                            *)
LEMMA HsicPlaces ==
    /\ \A r \in HsicRegions :
          /\ HBlocks(r) \in Nat \ {0}
          /\ HSelects(r) \in 3..(HsicLast - 2) /\ HSelects(r) + HBlocks(r) \in 3..(HsicLast - 2)
    /\ \A r, q \in HsicRegions : r # q =>
          HSelects(r) + HBlocks(r) < HSelects(q) \/ HSelects(q) + HBlocks(q) < HSelects(r)
    /\ \A k \in 1..HsicLast :
          \/ k \in {1, 2, HsicLast - 1, HsicLast}
          \/ \E r \in HsicRegions : k \in HSelects(r)..(HSelects(r) + HBlocks(r))
  <1>1. HSelects("firmware") = 3 /\ HSelects("nv_data") = 4 + FirmwareBlocks
        /\ HBlocks("firmware") = FirmwareBlocks /\ HBlocks("nv_data") = NvBlocks
    BY DEF HSelects, HBlocks
  <1>2. \A k \in 1..HsicLast :
          \/ k \in {1, 2, HsicLast - 1, HsicLast}
          \/ k \in 3..(3 + FirmwareBlocks)
          \/ k \in (4 + FirmwareBlocks)..((4 + FirmwareBlocks) + NvBlocks)
    BY HsicConstants DEF HsicLast
  <1>3. QED
    BY <1>1, <1>2, HsicConstants DEF HsicLast, HsicRegions

(* The host waits for an answer to exactly the commands the EBL answers;   *)
(* only the last one resets.                                               *)
LEMMA HsicAcks ==
    ASSUME NEW k \in 1..HsicLast
    PROVE  /\ Hsic!Commands[k].ack <=> Hsic!Commands[k].code \in Hsic!Replies
           /\ Hsic!Commands[k].ack \in BOOLEAN
           /\ Hsic!Commands[k].code = "hw_reset" <=> k = HsicLast
           /\ Hsic!Commands[k].code = "sec_start" <=> k = 2
           /\ Hsic!Commands[k].code = "sec_end" <=> k = HsicLast - 1
  <1>1. CASE k = 1
    BY <1>1, HsicFields, HsicLastIs DEF Hsic!Replies
  <1>2. CASE k = 2
    BY <1>2, HsicFields, HsicLastIs DEF Hsic!Replies
  <1>3. CASE k = HsicLast - 1
    BY <1>3, HsicFields, HsicLastIs DEF Hsic!Replies
  <1>4. CASE k = HsicLast
    BY <1>4, HsicFields, HsicLastIs DEF Hsic!Replies
  <1>5. ASSUME NEW r \in HsicRegions, k \in HSelects(r)..(HSelects(r) + HBlocks(r))
        PROVE  /\ Hsic!Commands[k].ack <=> Hsic!Commands[k].code \in Hsic!Replies
               /\ Hsic!Commands[k].ack \in BOOLEAN
               /\ Hsic!Commands[k].code \in {"set_address", "write_block"}
               /\ k # 2 /\ k # HsicLast /\ k # HsicLast - 1
    <2>1. HSelects(r) \in 3..(HsicLast - 2) /\ HSelects(r) + HBlocks(r) \in 3..(HsicLast - 2)
          /\ HBlocks(r) \in Nat
      BY HsicPlaces, HsicLastIs
    <2>2. k # 2 /\ k # HsicLast /\ k # HsicLast - 1
      BY <1>5, <2>1, HsicLastIs
    <2>3. CASE k = HSelects(r)
      <3>1. Hsic!Commands[k].code = "set_address" /\ Hsic!Commands[k].ack = TRUE
        BY <2>3, HsicFields
      <3>2. QED
        BY <2>2, <3>1 DEF Hsic!Replies
    <2>4. CASE k # HSelects(r)
      <3>1. k \in (HSelects(r) + 1)..(HSelects(r) + HBlocks(r))
        BY <1>5, <2>1, <2>4, HsicLastIs
      <3>2. Hsic!Commands[k].code = "write_block" /\ Hsic!Commands[k].ack = FALSE
        BY <3>1, HsicFields
      <3>3. QED
        BY <2>2, <3>2 DEF Hsic!Replies
    <2>5. QED
      BY <2>3, <2>4
  <1>6. ASSUME NEW r \in HsicRegions, k \in HSelects(r)..(HSelects(r) + HBlocks(r))
        PROVE  /\ Hsic!Commands[k].ack <=> Hsic!Commands[k].code \in Hsic!Replies
               /\ Hsic!Commands[k].ack \in BOOLEAN
               /\ Hsic!Commands[k].code = "hw_reset" <=> k = HsicLast
               /\ Hsic!Commands[k].code = "sec_start" <=> k = 2
               /\ Hsic!Commands[k].code = "sec_end" <=> k = HsicLast - 1
    BY <1>5, <1>6
  <1>7. QED
    BY <1>1, <1>2, <1>3, <1>4, <1>6, HsicPlaces

(* The flash, the session and the address after the first k commands. *)
HsicUpto(r, k) == IF k < 0 THEN 0 ELSE IF k > HBlocks(r) THEN HBlocks(r) ELSE k
HsicSession(k) == IF k < 2 THEN "none" ELSE IF k < HsicLast - 1 THEN "started" ELSE "ended"
HsicState(k, f, s, a) ==
    /\ f \in [HsicRegions -> Nat]
    /\ \A r \in HsicRegions : f[r] = HsicUpto(r, k - HSelects(r))
    /\ s = HsicSession(k)
    /\ \A r \in HsicRegions : k \in HSelects(r)..(HSelects(r) + HBlocks(r)) => a = r
HsicAfter(k) == HsicState(k, flash, sec, address)

(* The next command takes the modem from the state after k commands to     *)
(* that after k + 1.                                                       *)
LEMMA HsicApplies ==
    ASSUME NEW k \in 0..(HsicLast - 2), NEW f, NEW s, NEW a, NEW f2, NEW s2, NEW a2,
           HsicState(k, f, s, a), MipiHandles(Hsic!Commands[k + 1], f, s, a, f2, s2, a2)
    PROVE  HsicState(k + 1, f2, s2, a2)
  <1>0. HsicLast \in Nat /\ HsicLast > 5 /\ k + 1 \in 1..HsicLast /\ k + 1 # HsicLast
    BY HsicConstants DEF HsicLast
  <1>1. s2 = HsicSession(k + 1)
    <2>1. /\ Hsic!Commands[k + 1].code = "sec_start" <=> k + 1 = 2
          /\ Hsic!Commands[k + 1].code = "sec_end" <=> k + 1 = HsicLast - 1
      BY <1>0, HsicAcks
    <2>2. s = HsicSession(k)
      BY DEF HsicState
    <2>3. CASE k + 1 = 2
      BY <1>0, <2>1, <2>3 DEF MipiHandles, HsicSession
    <2>4. CASE k + 1 = HsicLast - 1
      <3>1. s2 = "ended"
        BY <1>0, <2>1, <2>4 DEF MipiHandles
      <3>2. QED
        BY <1>0, <2>4, <3>1 DEF HsicSession
    <2>5. CASE k + 1 # 2 /\ k + 1 # HsicLast - 1
      <3>1. s2 = s
        BY <2>1, <2>5 DEF MipiHandles
      <3>2. QED
        BY <1>0, <2>2, <2>5, <3>1 DEF HsicSession
    <2>6. QED
      BY <2>3, <2>4, <2>5
  <1>2. CASE k + 1 \in {1, 2, HsicLast - 1}
    <2>1. Hsic!Commands[k + 1].code \in {"set_port_config", "sec_start", "sec_end"}
      BY <1>0, <1>2, HsicFields
    <2>2. a2 = a /\ f2 = f
      BY <2>1 DEF MipiHandles
    <2>3. ASSUME NEW r \in HsicRegions
          PROVE  /\ HsicUpto(r, (k + 1) - HSelects(r)) = HsicUpto(r, k - HSelects(r))
                 /\ ~(k + 1 \in HSelects(r)..(HSelects(r) + HBlocks(r)))
      <3>1. HSelects(r) \in 3..(HsicLast - 2) /\ HSelects(r) + HBlocks(r) \in 3..(HsicLast - 2)
           /\ HBlocks(r) \in Nat \ {0}
        BY HsicPlaces, <1>0, HsicConstants
      <3>2. QED
        BY <1>0, <1>2, <3>1, HsicConstants DEF HsicUpto
    <2>4. f2 \in [HsicRegions -> Nat] /\ \A r \in HsicRegions : f2[r] = HsicUpto(r, (k + 1) - HSelects(r))
      BY <2>2, <2>3 DEF HsicState
    <2>5. \A r \in HsicRegions : k + 1 \in HSelects(r)..(HSelects(r) + HBlocks(r)) => a2 = r
      BY <2>3
    <2>6. QED
      BY <1>1, <2>4, <2>5 DEF HsicState
  <1>3. ASSUME NEW q \in HsicRegions, k + 1 \in HSelects(q)..(HSelects(q) + HBlocks(q))
        PROVE  HsicState(k + 1, f2, s2, a2)
    <2>1. HSelects(q) \in 3..(HsicLast - 2) /\ HSelects(q) + HBlocks(q) \in 3..(HsicLast - 2) /\ HBlocks(q) \in Nat \ {0}
      BY HsicPlaces, <1>0, HsicConstants
    <2>2. ASSUME NEW r \in HsicRegions, r # q
          PROVE  /\ HsicUpto(r, (k + 1) - HSelects(r)) = HsicUpto(r, k - HSelects(r))
                 /\ ~(k + 1 \in HSelects(r)..(HSelects(r) + HBlocks(r)))
      <3>1. /\ HSelects(r) \in 3..(HsicLast - 2) /\ HBlocks(r) \in Nat \ {0}
            /\ HSelects(q) + HBlocks(q) < HSelects(r) \/ HSelects(r) + HBlocks(r) < HSelects(q)
        BY <2>2, HsicPlaces, <1>0, HsicConstants
      <3>2. QED
        BY <1>0, <1>3, <2>1, <3>1, HsicConstants DEF HsicUpto
    <2>3. CASE k + 1 = HSelects(q)
      <3>1. Hsic!Commands[k + 1].code = "set_address" /\ Hsic!Commands[k + 1].arg = q
        BY <2>3, HsicFields
      <3>2. a2 = q /\ f2 = f
        BY <3>1 DEF MipiHandles
      <3>3. HsicUpto(q, (k + 1) - HSelects(q)) = HsicUpto(q, k - HSelects(q))
        BY <2>1, <2>3, HsicConstants DEF HsicUpto
      <3>4. f2 \in [HsicRegions -> Nat] /\ \A r \in HsicRegions : f2[r] = HsicUpto(r, (k + 1) - HSelects(r))
        BY <2>2, <3>2, <3>3 DEF HsicState
      <3>5. \A r \in HsicRegions : k + 1 \in HSelects(r)..(HSelects(r) + HBlocks(r)) => a2 = r
        BY <2>2, <3>2
      <3>6. QED
        BY <1>1, <3>4, <3>5 DEF HsicState
    <2>4. CASE k + 1 # HSelects(q)
      <3>1. k + 1 \in (HSelects(q) + 1)..(HSelects(q) + HBlocks(q))
        BY <1>0, <1>3, <2>1, <2>4, HsicConstants
      <3>2. Hsic!Commands[k + 1].code = "write_block"
        BY <3>1, HsicFields
      <3>3. a = q /\ s = "started"
        <4>1. k \in HSelects(q)..(HSelects(q) + HBlocks(q)) /\ ~(k < 2) /\ k < HsicLast - 1
          BY <1>0, <2>1, <3>1, HsicConstants
        <4>2. QED
          BY <4>1 DEF HsicState, HsicSession
      <3>4. a2 = a /\ f2 = [f EXCEPT ![q] = @ + 1]
        BY <3>2, <3>3 DEF MipiHandles
      <3>5. HsicUpto(q, (k + 1) - HSelects(q)) = HsicUpto(q, k - HSelects(q)) + 1
        BY <1>0, <2>1, <3>1, HsicConstants DEF HsicUpto
      <3>6. f2 \in [HsicRegions -> Nat] /\ \A r \in HsicRegions : f2[r] = HsicUpto(r, (k + 1) - HSelects(r))
        <4>1. f \in [HsicRegions -> Nat] /\ \A r \in HsicRegions : f[r] = HsicUpto(r, k - HSelects(r))
          BY DEF HsicState
        <4>2. QED
          BY <2>2, <3>4, <3>5, <4>1
      <3>7. \A r \in HsicRegions : k + 1 \in HSelects(r)..(HSelects(r) + HBlocks(r)) => a2 = r
        BY <2>2, <3>3, <3>4
      <3>8. QED
        BY <1>1, <3>6, <3>7 DEF HsicState
    <2>5. QED
      BY <2>3, <2>4
  <1>4. QED
    BY <1>0, <1>2, <1>3, HsicPlaces

(* After all commands everything is flashed. *)
LEMMA HsicFlashed ==
    ASSUME HsicAfter(HsicLast)
    PROVE  Hsic!Flashed
  <1>1. HsicLast \in Nat /\ HsicLast > 5
    BY HsicConstants DEF HsicLast
  <1>2. \A r \in HsicRegions : HsicUpto(r, HsicLast - HSelects(r)) = HBlocks(r)
    BY <1>1, HsicPlaces, HsicConstants DEF HsicUpto
  <1>3. sec = "ended"
    BY <1>1 DEF HsicAfter, HsicState, HsicSession
  <1>4. flash \in [HsicRegions -> Nat] /\ \A r \in HsicRegions : flash[r] = HBlocks(r)
    BY <1>2 DEF HsicAfter, HsicState
  <1>5. QED
    BY <1>3, <1>4 DEF Hsic!Flashed, HsicRegions, HBlocks

(* The reset changes nothing of what was flashed. *)
LEMMA HsicResets ==
    ASSUME HsicAfter(HsicLast - 1)
    PROVE  HsicAfter(HsicLast)
  <1>1. HsicLast \in Nat /\ HsicLast > 5
    BY HsicConstants DEF HsicLast
  <1>2. \A r \in HsicRegions :
           /\ HsicUpto(r, HsicLast - HSelects(r)) = HsicUpto(r, (HsicLast - 1) - HSelects(r))
           /\ ~(HsicLast \in HSelects(r)..(HSelects(r) + HBlocks(r)))
    BY <1>1, HsicPlaces, HsicConstants DEF HsicUpto
  <1>3. sec = "ended"
    BY <1>1 DEF HsicAfter, HsicState, HsicSession
  <1>4. QED
    BY <1>1, <1>2, <1>3 DEF HsicAfter, HsicState, HsicSession

(***************************************************************************)
(* The invariant.                                                          *)
(***************************************************************************)
HsicProbing  == {"at_write", "at_select", "boot_ack", "chip_id", "psi_header"}
HsicSending  == {"psi", "psi_crc"}
HsicReading  == {"psi_unknown", "psi_crc_ack", "psi_ack"}
HsicFlashing == {"command", "reply_header", "reply_data", "done"}
HsicEarly    == HsicProbing \cup HsicSending \cup HsicReading
HsicEbl      == {"ebl_size", "ebl_size_ack", "ebl", "ebl_crc", "ebl_ack", "port_config"}
HsicLoads    == {"at", "psi_header", "psi", "psi_crc", "ebl_size", "ebl", "ebl_crc"}
RomBytes     == {"boot_ack", "chip_id", "unknown", "crc_ack"} \X {"byte"}
PsiBytes     == RomBytes \cup {<<"psi", "low">>, <<"psi", "high">>}

(* Types, and the items that travel. *)
HsicTypes ==
    /\ pc \in HsicEarly \cup HsicEbl \cup HsicFlashing \cup {"error"}
    /\ n \in Nat /\ got \in Nat /\ stale \in Nat
    /\ tx \in Seq(HsicLoads \cup Orders)
    /\ stage \in {"rom", "rom_psi", "psi", "psi_ebl", "ebl", "firmware"}

(* Whatever became of the host. *)
HsicAlways ==
    /\ stage \notin {"ebl", "firmware"} => \A k \in 1..Len(tx) : tx[k] = "ebl_crc" => k = Len(tx)
    /\ stage = "ebl" =>
          \A k \in 1..Len(tx) :
              \E j \in 1..HsicLast : tx[k] = Hsic!Commands[j] /\ (j = HsicLast => pc = "done")
    /\ stage = "firmware" => pc = "done"
    /\ Hsic!LateRepliesHarmless

(* Bytes read by the host, and bytes sent by the modem, before the EBL is loaded. *)
BytesRead ==
    IF pc \in {"at_write", "at_select", "boot_ack"} THEN 0
    ELSE IF pc = "chip_id" THEN 1
    ELSE IF pc \in {"psi_header", "psi", "psi_crc"} THEN 2
    ELSE IF pc = "psi_unknown" THEN 2 + n
    ELSE IF pc = "psi_crc_ack" THEN 2 + Unknown + n
    ELSE 2 + Unknown + CrcAcks + 2 * n
BytesSent ==
    IF stage = "rom" THEN 2 * (stale + got)
    ELSE IF stage = "rom_psi" THEN 2 * (stale + 1)
    ELSE 2 * (stale + 1) + Unknown + CrcAcks + 2

(* What was sent and not read is in rx, and the loops count what they      *)
(* read.                                                                   *)
HsicCounts ==
    pc \in HsicEarly =>
        /\ Len(rx) + BytesRead = BytesSent
        /\ stage = "rom" => got \in {0, 1} /\ (got = 0 => stale = 0)
        /\ pc = "psi_unknown" => n < Unknown
        /\ pc = "psi_crc_ack" => n < CrcAcks
        /\ pc = "psi_ack" => n < AckMax

(* What may be on its way while the ROM and the PSI are spoken to. *)
HsicStages ==
    /\ pc \in HsicProbing => stage = "rom" /\ \A k \in 1..Len(tx) : tx[k] = "at"
    /\ pc \in HsicSending =>
          /\ stage \in {"rom", "rom_psi"}
          /\ \A k \in 1..Len(tx) : tx[k] \in {"at", "psi_header", "psi"}
    /\ pc \in HsicReading =>
          \/ /\ stage \in {"rom", "rom_psi"}
             /\ \A k \in 1..Len(tx) :
                   tx[k] \in {"at", "psi_header", "psi"} \/ (tx[k] = "psi_crc" /\ k = Len(tx))
          \/ stage = "psi" /\ tx = <<>>

(* The PSI's acknowledgement ends what it sends. *)
PsiEnds(s) ==
    /\ s \in Seq(PsiBytes) /\ Len(s) >= 2
    /\ s[Len(s) - 1] = <<"psi", "low">> /\ s[Len(s)] = <<"psi", "high">>
    /\ \A k \in 1..(Len(s) - 2) : s[k] \in RomBytes
HsicBytes ==
    pc \in HsicEarly => IF stage = "psi" THEN PsiEnds(rx) ELSE rx \in Seq(RomBytes)

(* Host and PSI in step. *)
EblReady == Hsic!Ack("ebl") \o Hsic!Bytes("port_config", 1)
HsicLoading ==
    /\ pc = "ebl_size" => tx = <<>> /\ rx = <<>> /\ stage = "psi"
    /\ pc = "ebl_size_ack" =>
          \/ tx = <<"ebl_size">> /\ rx = <<>> /\ stage = "psi"
          \/ tx = <<>> /\ rx = Hsic!Ack("ebl_size") /\ stage = "psi_ebl"
    /\ pc \in {"ebl", "ebl_crc"} =>
          rx = <<>> /\ stage = "psi_ebl" /\ \A k \in 1..Len(tx) : tx[k] = "ebl"
    /\ pc = "ebl_ack" =>
          \/ /\ rx = <<>> /\ stage = "psi_ebl"
             /\ \A k \in 1..Len(tx) : tx[k] = "ebl" \/ (tx[k] = "ebl_crc" /\ k = Len(tx))
          \/ tx = <<>> /\ rx = EblReady /\ stage = "ebl"
    /\ pc = "port_config" => tx = <<>> /\ rx = Hsic!Bytes("port_config", 1) /\ stage = "ebl"

(* Host and EBL: the commands written, and among them the ones the EBL has taken. *)
HsicSent    == HsicLast - Len(todo)
HsicWritten == IF pc \in {"reply_header", "reply_data"} THEN HsicSent + 1 ELSE HsicSent
HsicTaken   == HsicWritten - Len(tx)

(* The commands still to send end the list of commands. *)
HsicTodo ==
    /\ todo \in Seq(Orders) /\ Len(todo) \in 0..HsicLast
    /\ \A k \in 1..Len(todo) : todo[k] = Hsic!Commands[HsicSent + k]
    /\ pc \in HsicEarly \cup HsicEbl => Len(todo) = HsicLast
    /\ pc \in HsicFlashing \ {"done"} => Len(todo) > 0
    /\ pc \in {"reply_header", "reply_data"} => Head(todo).ack
    /\ pc = "done" => Len(todo) = 0

(* The EBL has carried out the commands that it has taken, and the others  *)
(* are on their way in order.                                              *)
HsicProgress ==
    /\ pc \in HsicEarly \cup HsicEbl => HsicAfter(0)
    /\ pc \in HsicFlashing =>
          /\ stage = "ebl" \/ (stage = "firmware" /\ pc = "done")
          /\ HsicTaken \in Nat /\ HsicAfter(HsicTaken)
          /\ \A k \in 1..Len(tx) : tx[k] = Hsic!Commands[HsicTaken + k]

(* A command to which no answer comes. *)
Unanswered(k) == tx[k].code \notin Hsic!Replies
(* Only the last command written can be unanswered when an answer is       *)
(* waited for.                                                             *)
HsicReplies ==
    /\ pc = "command" => rx = <<>> /\ \A k \in 1..Len(tx) : Unanswered(k)
    /\ pc = "reply_header" =>
          /\ \A k \in 1..Len(tx) : k < Len(tx) => Unanswered(k)
          /\ rx = IF tx = <<>> THEN Hsic!Reply(Head(todo).code) ELSE <<>>
    /\ pc = "reply_data" => tx = <<>> /\ rx = <<<<Head(todo).code, "data">>>>
    /\ pc = "done" => rx = <<>> /\ Len(tx) <= 1

(* The inductive invariant of xmm626_hsic.c. *)
HsicInv ==
    /\ OnHsic
    /\ HsicTypes /\ HsicAlways /\ HsicCounts /\ HsicStages /\ HsicBytes
    /\ HsicLoading /\ HsicTodo /\ HsicProgress /\ HsicReplies

(* It holds when the boot function starts. *)
LEMMA HsicInit ==
    ASSUME OnHsic, Hsic!Init
    PROVE  HsicInv
  <1>1. /\ pc = "at_write" /\ n = 0 /\ todo = Hsic!Commands /\ tx = <<>> /\ rx = <<>>
        /\ stage = "rom" /\ flash = [r \in HsicRegions |-> 0] /\ sec = "none"
        /\ got = 0 /\ stale = 0
    BY DEF Hsic!Init, HsicRegions
  <1>2. HsicTypes /\ HsicAlways
    BY <1>1 DEF HsicTypes, HsicAlways, HsicEarly, HsicProbing, Hsic!LateRepliesHarmless
  <1>3. HsicCounts /\ HsicStages /\ HsicBytes
    BY <1>1 DEF HsicCounts, HsicStages, HsicBytes, BytesRead, BytesSent, HsicReading, HsicSending
  <1>4. HsicLoading /\ HsicReplies
    BY <1>1 DEF HsicLoading, HsicReplies
  <1>5. HsicTodo
    <2>1. todo \in Seq(Orders) /\ Len(todo) = HsicLast
      BY <1>1, HsicCommandsAre
    <2>2. HsicSent = 0
      BY <2>1, HsicLastIs DEF HsicSent
    <2>3. \A k \in 1..Len(todo) : 0 + k = k
      BY <2>1, HsicLastIs
    <2>4. QED
      BY <1>1, <2>1, <2>2, <2>3, HsicLastIs DEF HsicTodo, HsicFlashing
  <1>6. HsicProgress
    <2>1. \A r \in HsicRegions : /\ HsicUpto(r, 0 - HSelects(r)) = 0
                                 /\ ~(0 \in HSelects(r)..(HSelects(r) + HBlocks(r)))
      BY HsicPlaces, HsicLastIs DEF HsicUpto
    <2>2. HsicSession(0) = "none"
      BY DEF HsicSession
    <2>3. HsicAfter(0)
      BY <1>1, <2>1, <2>2 DEF HsicAfter, HsicState
    <2>4. QED
      BY <1>1, <2>3 DEF HsicProgress, HsicFlashing
  <1>7. QED
    BY <1>2, <1>3, <1>4, <1>5, <1>6 DEF HsicInv

(* A boot that fails leaves the modem alone. *)
LEMMA HsicFails ==
    ASSUME HsicInv, pc # "done", pc' = "error", n' \in Nat, faulted' \/ stale >= AckMax,
           UNCHANGED <<device, tx, stage, todo, got, stale>>
    PROVE  HsicInv'
  <1>1. HsicTypes' /\ HsicAlways'
    BY DEF HsicInv, HsicTypes, HsicAlways, Hsic!LateRepliesHarmless
  <1>2. HsicCounts' /\ HsicStages' /\ HsicBytes' /\ HsicLoading' /\ HsicReplies' /\ HsicProgress'
    BY DEF HsicCounts, HsicStages, HsicBytes, HsicLoading, HsicReplies, HsicProgress,
        HsicEarly, HsicProbing, HsicSending, HsicReading, HsicEbl, HsicFlashing
  <1>3. HsicTodo'
    BY DEF HsicInv, HsicTodo, HsicSent, HsicEarly, HsicProbing, HsicSending, HsicReading, HsicEbl,
        HsicFlashing
  <1>4. QED
    BY <1>1, <1>2, <1>3 DEF HsicInv, OnHsic

(* A hang of the modem, or nothing at all. *)
LEMMA HsicStutter ==
    ASSUME HsicInv, faulted => faulted',
           UNCHANGED <<device, pc, n, todo, tx, rx, stage, got, stale, address, flash, sec>>
    PROVE  HsicInv'
  <1>1. HsicTypes' /\ HsicAlways'
    BY DEF HsicInv, HsicTypes, HsicAlways, Hsic!LateRepliesHarmless
  <1>2. HsicCounts' /\ HsicStages' /\ HsicBytes'
    BY DEF HsicInv, HsicCounts, HsicStages, HsicBytes, BytesRead, BytesSent, PsiEnds
  <1>3. HsicLoading'
    BY DEF HsicInv, HsicLoading
  <1>4. HsicTodo' /\ HsicProgress'
    BY DEF HsicInv, HsicTodo, HsicProgress, HsicSent, HsicWritten, HsicTaken, HsicAfter
  <1>5. HsicReplies'
    BY DEF HsicInv, HsicReplies, Unanswered
  <1>6. QED
    BY <1>1, <1>2, <1>3, <1>4, <1>5 DEF HsicInv, OnHsic

(* While the loaders are sent, the commands wait. *)
LEMMA HsicKept ==
    ASSUME HsicInv, UNCHANGED <<device, todo, address, flash, sec>>,
           pc \in HsicEarly \cup HsicEbl, pc' \in HsicEarly \cup HsicEbl
    PROVE  HsicTodo' /\ HsicProgress' /\ HsicReplies' /\ OnHsic'
  <1>1. HsicTodo'
    BY DEF HsicInv, HsicTodo, HsicSent, HsicEarly, HsicProbing, HsicSending, HsicReading, HsicEbl,
        HsicFlashing
  <1>2. HsicProgress'
    BY DEF HsicInv, HsicProgress, HsicAfter, HsicEarly, HsicProbing, HsicSending, HsicReading, HsicEbl,
        HsicFlashing
  <1>3. HsicReplies' /\ OnHsic'
    BY DEF HsicInv, HsicReplies, HsicEarly, HsicProbing, HsicSending, HsicReading, HsicEbl,
        HsicFlashing, OnHsic
  <1>4. QED
    BY <1>1, <1>2, <1>3

(* A write puts an item at the end of what is on its way. *)
LEMMA HsicPuts ==
    ASSUME HsicInv, NEW item \in HsicLoads, tx' = Append(tx, item)
    PROVE  /\ tx' \in Seq(HsicLoads \cup Orders)
           /\ \A k \in 1..Len(tx') : \/ k \in 1..Len(tx) /\ tx'[k] = tx[k]
                                     \/ k = Len(tx') /\ tx'[k] = item
           /\ Len(tx') = Len(tx) + 1
  BY PutLast DEF HsicInv, HsicTypes

(* Steps of xmm626_hsic_psi_send that write. *)
LEMMA HsicPsiWrites ==
    ASSUME HsicInv, device' = device,
           Hsic!AtWrite \/ Hsic!PsiHeader \/ Hsic!PsiData \/ Hsic!PsiCrc
    PROVE  HsicInv'
  <1>1. /\ UNCHANGED <<todo, rx, stage, got, address, flash, sec, stale, faulted>>
        /\ n' \in Nat
        /\ \/ pc = "at_write" /\ pc' = "at_select" /\ tx' = Append(tx, "at")
           \/ pc = "psi_header" /\ pc' = "psi" /\ tx' = Append(tx, "psi_header")
           \/ pc = "psi" /\ pc' \in {"psi", "psi_crc"} /\ tx' = Append(tx, "psi")
           \/ pc = "psi_crc" /\ pc' = "psi_unknown" /\ n' = 0 /\ tx' = Append(tx, "psi_crc")
    BY DEF Hsic!AtWrite, Hsic!PsiHeader, Hsic!PsiData, Hsic!PsiCrc, Hsic!Write, Hsic!Loop, Hsic!Goto,
        Hsic!modem, HsicInv, HsicTypes
  <1>2. PICK item \in {"at", "psi_header", "psi", "psi_crc"} :
           tx' = Append(tx, item) /\ (item = "at" <=> pc = "at_write") /\ (item = "psi_crc" <=> pc = "psi_crc")
    BY <1>1
  <1>3. /\ tx' \in Seq(HsicLoads \cup Orders)
        /\ \A k \in 1..Len(tx') : \/ k \in 1..Len(tx) /\ tx'[k] = tx[k]
                                  \/ k = Len(tx') /\ tx'[k] = item
    BY <1>2, HsicPuts DEF HsicLoads
  <1>4. pc \in HsicEarly /\ pc' \in HsicEarly
    BY <1>1 DEF HsicEarly, HsicProbing, HsicSending, HsicReading
  <1>5. stage \in {"rom", "rom_psi"} /\ (pc \in {"at_write", "psi_header"} => stage = "rom")
        /\ \A k \in 1..Len(tx) : /\ tx[k] \in {"at", "psi_header", "psi"}
                                 /\ pc = "at_write" => tx[k] = "at"
    BY <1>1 DEF HsicInv, HsicStages, HsicProbing, HsicSending
  <1>6. HsicTypes'
    BY <1>1, <1>3, <1>4 DEF HsicInv, HsicTypes
  <1>7. HsicAlways'
    <2>1. pc' # "error" /\ stage' = stage
      BY <1>1
    <2>2. \A k \in 1..Len(tx') : tx'[k] # "ebl_crc"
      BY <1>2, <1>3, <1>5
    <2>3. QED
      BY <1>5, <2>1, <2>2 DEF HsicAlways, Hsic!LateRepliesHarmless
  <1>8. HsicCounts'
    BY <1>1, <1>4, HsicConstants DEF HsicInv, HsicCounts, BytesRead, BytesSent
  <1>9. HsicStages'
    <2>1. CASE pc = "at_write"
      <3>1. \A k \in 1..Len(tx') : tx'[k] = "at"
        BY <1>2, <1>3, <1>5, <2>1
      <3>2. QED
        BY <1>1, <1>5, <2>1, <3>1 DEF HsicStages, HsicProbing, HsicSending, HsicReading
    <2>2. CASE pc \in {"psi_header", "psi"}
      <3>1. \A k \in 1..Len(tx') : tx'[k] \in {"at", "psi_header", "psi"}
        BY <1>2, <1>3, <1>5, <2>2
      <3>2. QED
        BY <1>1, <1>5, <2>2, <3>1 DEF HsicStages, HsicProbing, HsicSending, HsicReading
    <2>3. CASE pc = "psi_crc"
      <3>1. \A k \in 1..Len(tx') : tx'[k] \in {"at", "psi_header", "psi"} \/ (tx'[k] = "psi_crc" /\ k = Len(tx'))
        BY <1>2, <1>3, <1>5, <2>3
      <3>2. QED
        BY <1>1, <1>5, <2>3, <3>1 DEF HsicStages, HsicProbing, HsicSending, HsicReading
    <2>4. QED
      BY <1>1, <2>1, <2>2, <2>3
  <1>10. HsicBytes' /\ HsicLoading'
    BY <1>1, <1>4 DEF HsicInv, HsicBytes, HsicLoading, HsicEarly, HsicProbing, HsicSending, HsicReading
  <1>11. QED
    BY <1>1, <1>4, <1>6, <1>7, <1>8, <1>9, <1>10, HsicKept DEF HsicInv

(* One byte read of what the ROM and the PSI send. *)
LEMMA PsiTail ==
    ASSUME NEW s, PsiEnds(s), Len(s) >= 3
    PROVE  PsiEnds(Tail(s)) /\ Len(Tail(s)) = Len(s) - 1
  <1>1. s \in Seq(PsiBytes) /\ Len(s) \in Nat /\ s # <<>>
    BY DEF PsiEnds
  <1>2. /\ Tail(s) \in Seq(PsiBytes) /\ Len(Tail(s)) = Len(s) - 1
        /\ \A k \in 1..Len(Tail(s)) : k + 1 \in 1..Len(s) /\ Tail(s)[k] = s[k + 1]
    BY <1>1, TakeFirst
  <1>3. /\ Tail(s)[Len(Tail(s)) - 1] = s[Len(s) - 1] /\ Tail(s)[Len(Tail(s))] = s[Len(s)]
        /\ \A k \in 1..(Len(Tail(s)) - 2) : k + 1 \in 1..(Len(s) - 2) /\ Tail(s)[k] = s[k + 1]
    BY <1>1, <1>2
  <1>4. QED
    BY <1>1, <1>2, <1>3 DEF PsiEnds

(* The same before the PSI runs. *)
LEMMA RomTail ==
    ASSUME NEW s \in Seq(RomBytes), s # <<>>
    PROVE  Tail(s) \in Seq(RomBytes) /\ Len(Tail(s)) = Len(s) - 1
  BY TakeFirst

(* What ack_read takes: two bytes. *)
LEMMA SecondPart ==
    ASSUME NEW S, NEW s \in Seq(S), Len(s) >= 2
    PROVE  /\ SubSeq(s, 1, 2) = <<s[1], s[2]>> /\ Len(SubSeq(s, 1, 2)) = 2
           /\ SubSeq(s, 3, Len(s)) \in Seq(S) /\ Len(SubSeq(s, 3, Len(s))) = Len(s) - 2
           /\ \A k \in 1..(Len(s) - 2) : SubSeq(s, 3, Len(s))[k] = s[k + 2]
  <1>1. Len(s) \in Nat /\ \A k \in 1..Len(s) : s[k] \in S
    OBVIOUS
  <1>2. /\ SubSeq(s, 1, 2) \in Seq(S)
        /\ Len(SubSeq(s, 1, 2)) = IF 1 <= 2 THEN 2 - 1 + 1 ELSE 0
        /\ \A k \in 1..(2 - 1 + 1) : SubSeq(s, 1, 2)[k] = s[1 + k - 1]
    BY <1>1, SubSeqProperties
  <1>3. Len(SubSeq(s, 1, 2)) = 2 /\ SubSeq(s, 1, 2)[1] = s[1] /\ SubSeq(s, 1, 2)[2] = s[2]
    BY <1>2
  <1>4. SubSeq(s, 1, 2) = <<s[1], s[2]>>
    <2>1. s[1] \in S /\ s[2] \in S
      BY <1>1
    <2>2. /\ <<s[1], s[2]>> \in Seq(S) /\ Len(<<s[1], s[2]>>) = 2
          /\ <<s[1], s[2]>>[1] = s[1] /\ <<s[1], s[2]>>[2] = s[2]
      BY <2>1
    <2>3. \A k \in 1..Len(SubSeq(s, 1, 2)) : SubSeq(s, 1, 2)[k] = <<s[1], s[2]>>[k]
      <3>1. \A k \in 1..2 : k = 1 \/ k = 2
        OBVIOUS
      <3>2. QED
        BY <1>3, <2>2, <3>1
    <2>4. QED
      BY <1>2, <1>3, <2>2, <2>3, SeqEqual
  <1>5. /\ SubSeq(s, 3, Len(s)) \in Seq(S)
        /\ Len(SubSeq(s, 3, Len(s))) = IF 3 <= Len(s) THEN Len(s) - 3 + 1 ELSE 0
        /\ \A k \in 1..(Len(s) - 3 + 1) : SubSeq(s, 3, Len(s))[k] = s[3 + k - 1]
    BY <1>1, SubSeqProperties
  <1>6. Len(SubSeq(s, 3, Len(s))) = Len(s) - 2
    <2>1. \A m \in Nat : m >= 2 => (IF 3 <= m THEN m - 3 + 1 ELSE 0) = m - 2
      OBVIOUS
    <2>2. QED
      BY <1>1, <1>5, <2>1
  <1>7. \A k \in 1..(Len(s) - 2) : k \in 1..(Len(s) - 3 + 1) /\ 3 + k - 1 = k + 2
    BY <1>1
  <1>8. QED
    BY <1>3, <1>4, <1>5, <1>6, <1>7

(* There are at least two, and not three. *)
LEMMA TwoOrFour ==
    ASSUME NEW m \in Nat, m >= 2, m # 3
    PROVE  m = 2 \/ m >= 4
  OBVIOUS

(* ack_read takes two bytes of the PSI: they are its acknowledgement, or   *)
(* all of it is still to come.                                             *)
LEMMA PsiPair ==
    ASSUME NEW s, PsiEnds(s), Len(s) # 3
    PROVE  /\ Len(SubSeq(s, 1, 2)) = 2
           /\ Len(SubSeq(s, 3, Len(s))) = Len(s) - 2
           /\ SubSeq(s, 1, 2) = Hsic!Ack("psi") => SubSeq(s, 3, Len(s)) = <<>>
           /\ SubSeq(s, 1, 2) # Hsic!Ack("psi") => Len(s) >= 4 /\ PsiEnds(SubSeq(s, 3, Len(s)))
  <1>1. s \in Seq(PsiBytes) /\ Len(s) \in Nat /\ Len(s) >= 2
    BY DEF PsiEnds
  <1> DEFINE u == SubSeq(s, 3, Len(s))
  <1>2. /\ SubSeq(s, 1, 2) = <<s[1], s[2]>> /\ Len(SubSeq(s, 1, 2)) = 2
        /\ u \in Seq(PsiBytes) /\ Len(u) = Len(s) - 2
        /\ \A k \in 1..(Len(s) - 2) : u[k] = s[k + 2]
    BY <1>1, SecondPart
  <1> HIDE DEF u
  <1>3. CASE Len(s) = 2
    <2>1. s[1] = <<"psi", "low">> /\ s[2] = <<"psi", "high">>
      BY <1>3 DEF PsiEnds
    <2>2. SubSeq(s, 1, 2) = Hsic!Ack("psi")
      BY <1>2, <2>1 DEF Hsic!Ack
    <2>3. u = <<>>
      BY <1>2, <1>3, EmptySeq
    <2>4. QED
      BY <1>2, <2>2, <2>3 DEF u
  <1>4. CASE Len(s) >= 4
    <2>1. s[1] \in RomBytes
      BY <1>1, <1>4 DEF PsiEnds
    <2>2. s[1] # <<"psi", "low">>
      BY <2>1 DEF RomBytes
    <2>3. SubSeq(s, 1, 2) # Hsic!Ack("psi")
      <3>1. <<s[1], s[2]>>[1] = s[1] /\ Hsic!Ack("psi")[1] = <<"psi", "low">>
        BY DEF Hsic!Ack
      <3>2. QED
        BY <1>2, <2>2, <3>1
    <2>4. /\ Len(u) - 1 \in 1..(Len(s) - 2) /\ Len(u) \in 1..(Len(s) - 2)
          /\ Len(u) - 1 + 2 = Len(s) - 1 /\ Len(u) + 2 = Len(s) /\ Len(u) >= 2
          /\ \A k \in 1..(Len(u) - 2) : k \in 1..(Len(s) - 2) /\ k + 2 \in 1..(Len(s) - 2)
      BY <1>1, <1>2, <1>4
    <2>5. u[Len(u) - 1] = s[Len(s) - 1] /\ u[Len(u)] = s[Len(s)]
      <3>1. u[Len(u) - 1] = s[(Len(u) - 1) + 2] /\ u[Len(u)] = s[Len(u) + 2]
        BY <1>2, <2>4
      <3>2. (Len(u) - 1) + 2 = Len(s) - 1 /\ Len(u) + 2 = Len(s)
        BY <1>1, <1>2
      <3>3. QED
        BY <3>1, <3>2
    <2>6. \A k \in 1..(Len(u) - 2) : u[k] \in RomBytes
      BY <1>2, <2>4 DEF PsiEnds
    <2>7. PsiEnds(u)
      BY <1>2, <2>4, <2>5, <2>6 DEF PsiEnds
    <2>8. QED
      BY <1>2, <1>4, <2>3, <2>7 DEF u
  <1>5. Len(s) = 2 \/ Len(s) >= 4
    BY <1>1, TwoOrFour
  <1>6. QED
    BY <1>3, <1>4, <1>5, Zenon

(* Two bytes of the ROM are not an acknowledgement of the PSI. *)
LEMMA RomPair ==
    ASSUME NEW s \in Seq(RomBytes), Len(s) >= 2
    PROVE  /\ Len(SubSeq(s, 1, 2)) = 2 /\ SubSeq(s, 1, 2) # Hsic!Ack("psi")
           /\ SubSeq(s, 3, Len(s)) \in Seq(RomBytes) /\ Len(SubSeq(s, 3, Len(s))) = Len(s) - 2
  <1>1. /\ SubSeq(s, 1, 2) = <<s[1], s[2]>> /\ Len(SubSeq(s, 1, 2)) = 2
        /\ SubSeq(s, 3, Len(s)) \in Seq(RomBytes) /\ Len(SubSeq(s, 3, Len(s))) = Len(s) - 2
    BY SecondPart
  <1>2. s[1] \in RomBytes
    OBVIOUS
  <1>3. s[1] # <<"psi", "low">>
    BY <1>2 DEF RomBytes
  <1>4. <<s[1], s[2]>>[1] = s[1] /\ Hsic!Ack("psi")[1] = <<"psi", "low">>
    BY DEF Hsic!Ack
  <1>5. QED
    BY <1>1, <1>3, <1>4

(* Steps of xmm626_hsic_psi_send that read one byte, or none. *)
LEMMA HsicPsiReads ==
    ASSUME HsicInv, device' = device,
           Hsic!AtSelect \/ Hsic!BootAck \/ Hsic!ChipId \/ Hsic!PsiUnknown \/ Hsic!PsiCrcAck
    PROVE  HsicInv'
  <1>1. /\ UNCHANGED <<todo, tx, stage, got, address, flash, sec, stale, faulted>>
        /\ n \in Nat /\ n' \in Nat /\ stale \in Nat /\ got \in Nat
        /\ \/ pc = "at_select" /\ pc' \in {"at_write", "boot_ack"} /\ rx' = rx
           \/ pc = "boot_ack" /\ pc' = "chip_id" /\ rx # <<>> /\ rx' = Tail(rx)
           \/ pc = "chip_id" /\ pc' = "psi_header" /\ rx # <<>> /\ rx' = Tail(rx)
           \/ /\ pc = "psi_unknown" /\ rx # <<>> /\ rx' = Tail(rx)
              /\ \/ pc' = "psi_unknown" /\ n + 1 < Unknown /\ n' = n + 1
                 \/ pc' = "psi_crc_ack" /\ n + 1 >= Unknown /\ n' = 0
           \/ /\ pc = "psi_crc_ack" /\ rx # <<>> /\ rx' = Tail(rx)
              /\ \/ pc' = "psi_crc_ack" /\ n + 1 < CrcAcks /\ n' = n + 1
                 \/ pc' = "psi_ack" /\ n + 1 >= CrcAcks /\ n' = 0
    <2>1. n \in Nat /\ stale \in Nat /\ got \in Nat
      BY DEF HsicInv, HsicTypes
    <2>2. CASE Hsic!AtSelect
      BY <2>1, <2>2 DEF Hsic!AtSelect, Hsic!Goto, Hsic!modem
    <2>3. CASE Hsic!BootAck \/ Hsic!ChipId
      BY <2>1, <2>3 DEF Hsic!BootAck, Hsic!ChipId, Hsic!ReadByte, Hsic!Readable, Hsic!Goto, Hsic!modem
    <2>4. CASE Hsic!PsiUnknown
      BY <2>1, <2>4, HsicConstants
          DEF Hsic!PsiUnknown, Hsic!Loop, Hsic!ReadByte, Hsic!Readable, Hsic!Goto, Hsic!modem
    <2>5. CASE Hsic!PsiCrcAck
      BY <2>1, <2>5, HsicConstants
          DEF Hsic!PsiCrcAck, Hsic!Loop, Hsic!ReadByte, Hsic!Readable, Hsic!Goto, Hsic!modem
    <2>6. QED
      BY <2>2, <2>3, <2>4, <2>5
  <1>2. pc \in HsicEarly /\ pc' \in HsicEarly
    BY <1>1 DEF HsicEarly, HsicProbing, HsicSending, HsicReading
  <1>3. /\ Len(rx) + BytesRead = BytesSent
        /\ stage = "rom" => got \in {0, 1} /\ (got = 0 => stale = 0)
        /\ pc = "psi_unknown" => n < Unknown
        /\ pc = "psi_crc_ack" => n < CrcAcks
    BY <1>2 DEF HsicInv, HsicCounts
  <1>4. stage \in {"rom", "rom_psi", "psi"} /\ (pc \in HsicProbing => stage = "rom")
    BY <1>1, <1>2 DEF HsicInv, HsicStages, HsicProbing, HsicSending, HsicReading
  <1>5. /\ IF stage = "psi" THEN PsiEnds(rx) ELSE rx \in Seq(RomBytes)
        /\ Len(rx) \in Nat
    BY <1>2, <1>4 DEF HsicInv, HsicBytes, PsiEnds
  <1>6. /\ IF stage = "psi" THEN PsiEnds(rx') ELSE rx' \in Seq(RomBytes)
        /\ rx # <<>> /\ rx' = Tail(rx) => Len(rx') = Len(rx) - 1
    <2>1. CASE pc = "at_select" /\ rx' = rx
      BY <1>4, <1>5, <2>1, RomTail DEF HsicProbing
    <2>2. CASE stage # "psi" /\ rx # <<>> /\ rx' = Tail(rx)
      BY <1>5, <2>2, RomTail
    <2>3. CASE stage = "psi" /\ rx # <<>> /\ rx' = Tail(rx)
      <3>1. pc \in {"psi_unknown", "psi_crc_ack"}
        BY <1>1, <1>4, <2>3 DEF HsicProbing
      <3>2. BytesSent = 2 * (stale + 1) + Unknown + CrcAcks + 2
        BY <2>3 DEF BytesSent
      <3>3. BytesRead < 2 + Unknown + CrcAcks /\ BytesRead \in Nat
        BY <1>1, <1>3, <3>1, HsicConstants DEF BytesRead
      <3>4. Len(rx) >= 3
        BY <1>1, <1>3, <1>5, <3>2, <3>3, HsicConstants
      <3>5. QED
        BY <1>5, <2>3, <3>4, PsiTail
    <2>4. QED
      BY <1>1, <2>1, <2>2, <2>3
  <1>7. HsicTypes' /\ HsicAlways'
    BY <1>1, <1>2 DEF HsicInv, HsicTypes, HsicAlways, Hsic!LateRepliesHarmless
  <1>8. HsicCounts'
    <2>1. BytesSent' = BytesSent
      BY <1>1 DEF BytesSent
    <2>2. CASE rx' = rx /\ pc = "at_select"
      BY <1>1, <1>2, <1>3, <2>1, <2>2 DEF HsicCounts, BytesRead
    <2>3. CASE pc # "at_select"
      <3>0. rx # <<>> /\ rx' = Tail(rx) /\ Len(rx') = Len(rx) - 1
        BY <1>1, <1>6, <2>3
      <3>1. BytesRead' = BytesRead + 1 /\ BytesRead \in Nat /\ Len(rx') = Len(rx) - 1
        <4>1. \/ pc = "boot_ack" /\ pc' = "chip_id"
              \/ pc = "chip_id" /\ pc' = "psi_header"
              \/ /\ pc = "psi_unknown"
                 /\ \/ pc' = "psi_unknown" /\ n' = n + 1
                    \/ pc' = "psi_crc_ack" /\ n + 1 = Unknown /\ n' = 0
              \/ /\ pc = "psi_crc_ack"
                 /\ \/ pc' = "psi_crc_ack" /\ n' = n + 1
                    \/ pc' = "psi_ack" /\ n + 1 = CrcAcks /\ n' = 0
          BY <1>1, <1>3, <2>3, HsicConstants
        <4>2. n \in Nat /\ n' \in Nat /\ Unknown \in Nat /\ CrcAcks \in Nat
          BY <1>1, HsicConstants
        <4>3. BytesRead' = BytesRead + 1 /\ BytesRead \in Nat
          <5>1. CASE pc = "boot_ack" /\ pc' = "chip_id"
            BY <5>1 DEF BytesRead
          <5>2. CASE pc = "chip_id" /\ pc' = "psi_header"
            BY <5>2 DEF BytesRead
          <5>3. CASE pc = "psi_unknown" /\ pc' = "psi_unknown" /\ n' = n + 1
            BY <4>2, <5>3 DEF BytesRead
          <5>4. CASE pc = "psi_unknown" /\ pc' = "psi_crc_ack" /\ n + 1 = Unknown /\ n' = 0
            BY <4>2, <5>4 DEF BytesRead
          <5>5. CASE pc = "psi_crc_ack" /\ pc' = "psi_crc_ack" /\ n' = n + 1
            BY <4>2, <5>5 DEF BytesRead
          <5>6. CASE pc = "psi_crc_ack" /\ pc' = "psi_ack" /\ n + 1 = CrcAcks /\ n' = 0
            BY <4>2, <5>6 DEF BytesRead
          <5>7. QED
            BY <4>1, <5>1, <5>2, <5>3, <5>4, <5>5, <5>6
        <4>4. QED
          BY <3>0, <4>3
      <3>2. BytesSent \in Nat
        BY <1>1, HsicConstants DEF BytesSent
      <3>3. Len(rx') + BytesRead' = BytesSent'
        BY <1>3, <1>5, <2>1, <3>1, <3>2
      <3>4. /\ stage' = "rom" => got' \in {0, 1} /\ (got' = 0 => stale' = 0)
            /\ pc' = "psi_unknown" => n' < Unknown
            /\ pc' = "psi_crc_ack" => n' < CrcAcks
            /\ pc' = "psi_ack" => n' < AckMax
        BY <1>1, <1>3, <2>3, HsicConstants
      <3>5. QED
        BY <3>3, <3>4 DEF HsicCounts
    <2>4. QED
      BY <1>1, <2>2, <2>3
  <1>9. HsicStages'
    BY <1>1 DEF HsicInv, HsicStages, HsicProbing, HsicSending, HsicReading
  <1>10. HsicBytes' /\ HsicLoading'
    BY <1>1, <1>2, <1>6 DEF HsicBytes, HsicLoading
  <1>11. QED
    BY <1>1, <1>2, <1>7, <1>8, <1>9, <1>10, HsicKept DEF HsicInv

(* Counting in pairs: an odd number of bytes is never left, and what is left to skip was *)
(* answered late.                                                                        *)
LEMMA LateRom ==
    ASSUME NEW l \in Nat, l > 0, NEW m \in Nat, m >= 1, NEW c \in Nat, NEW t \in Nat,
           NEW g \in Nat, g <= 1, l + (2 + 2 * m + 2 * c) = 2 * (t + g)
    PROVE  l >= 2 /\ l # 3 /\ t >= c + 2
  OBVIOUS

(* The same once the PSI has answered. *)
LEMMA LatePsi ==
    ASSUME NEW l \in Nat, l > 0, NEW m \in Nat, NEW c \in Nat, NEW t \in Nat,
           l + (2 + 2 * m + 2 * c) = 2 * (t + 1) + 2 * m + 2
    PROVE  l >= 2 /\ l # 3 /\ (l >= 4 => t >= c + 1)
  OBVIOUS

(* xmm626_hsic_ack_read for the PSI: late answers of the ROM come in pairs, and are skipped *)
(* pair by pair.                                                                            *)
LEMMA HsicPsiAck ==
    ASSUME HsicInv, device' = device, Hsic!PsiAck
    PROVE  HsicInv'
  <1>1. /\ pc = "psi_ack" /\ rx # <<>>
        /\ rx' = SubSeq(rx, Len(Hsic!TwoBytes) + 1, Len(rx))
        /\ UNCHANGED <<todo, tx, stage, got, address, flash, sec, stale, faulted>>
        /\ \/ Hsic!TwoBytes = Hsic!Ack("psi") /\ pc' = "ebl_size" /\ n' = 0
           \/ /\ Hsic!TwoBytes # Hsic!Ack("psi")
              /\ \/ n + 1 < AckMax /\ pc' = "psi_ack" /\ n' = n + 1
                 \/ ~(n + 1 < AckMax) /\ pc' = "error" /\ n' = 0
    BY DEF Hsic!PsiAck, Hsic!AckRead, Hsic!Readable, Hsic!Loop, Hsic!Goto, Hsic!modem
  <1>2. pc \in HsicEarly /\ pc \in HsicReading
    BY <1>1 DEF HsicEarly, HsicReading
  <1>3. /\ n \in Nat /\ stale \in Nat /\ got \in Nat /\ n < AckMax /\ AckMax \in Nat
        /\ Unknown + CrcAcks \in Nat /\ Unknown + CrcAcks >= 2
        /\ \E m \in Nat : Unknown + CrcAcks = 2 * m
    <2>1. \E m \in Nat : Unknown + CrcAcks = 2 * m
      <3>1. Unknown + CrcAcks \in Nat /\ (Unknown + CrcAcks) % 2 = 0
        BY HsicConstants
      <3>2. \A x \in Nat : x % 2 = 0 => x = 2 * (x \div 2) /\ x \div 2 \in Nat
        OBVIOUS
      <3>3. QED
        BY <3>1, <3>2
    <2>2. QED
      BY <1>1, <1>2, <2>1, HsicConstants DEF HsicInv, HsicTypes, HsicCounts
  <1>4. stage \in {"rom", "rom_psi", "psi"}
    BY <1>2 DEF HsicInv, HsicStages
  <1>5. IF stage = "psi" THEN PsiEnds(rx) ELSE rx \in Seq(RomBytes)
    BY <1>2, <1>4 DEF HsicInv, HsicBytes
  <1>6. Len(rx) \in Nat /\ Len(rx) > 0
    <2>1. \E S : rx \in Seq(S)
      BY <1>5 DEF PsiEnds
    <2>2. PICK S : rx \in Seq(S)
      BY <2>1
    <2>3. QED
      BY <1>1, <2>2, EmptySeq
  <1> DEFINE U == Unknown + CrcAcks
  <1>7. Len(rx) + (2 + U + 2 * n) = BytesSent
    <2>1. Len(rx) + BytesRead = BytesSent
      BY <1>2 DEF HsicInv, HsicCounts
    <2>2. BytesRead = 2 + Unknown + CrcAcks + 2 * n
      BY <1>1 DEF BytesRead
    <2>3. 2 + Unknown + CrcAcks + 2 * n = 2 + U + 2 * n
      BY <1>3, HsicConstants
    <2>4. QED
      BY <2>1, <2>2, <2>3
  <1>8. /\ stage = "rom" => BytesSent = 2 * (stale + got) /\ got <= 1
        /\ stage = "rom_psi" => BytesSent = 2 * (stale + 1)
        /\ stage = "psi" => BytesSent = 2 * (stale + 1) + U + 2
    <2>1. stage = "rom" => got <= 1
      BY <1>2 DEF HsicInv, HsicCounts
    <2>2. 2 * (stale + 1) + Unknown + CrcAcks + 2 = 2 * (stale + 1) + U + 2
      BY <1>3, HsicConstants
    <2>3. QED
      BY <1>4, <2>1, <2>2 DEF BytesSent
  <1>9. U \in Nat /\ U >= 2 /\ \E m \in Nat : U = 2 * m
    BY <1>3
  <1> HIDE DEF U
  <1>10. /\ Len(rx) >= 2 /\ Len(rx) # 3
         /\ stage # "psi" => stale >= n + 2
         /\ stage = "psi" /\ Len(rx) >= 4 => stale >= n + 1
    <2>1. PICK m \in Nat : U = 2 * m
      BY <1>9
    <2>0. m >= 1
      BY <1>9, <2>1
    <2>2. CASE stage = "rom"
      <3>1. Len(rx) + (2 + 2 * m + 2 * n) = 2 * (stale + got) /\ got <= 1
        BY <1>7, <1>8, <2>1, <2>2
      <3>2. QED
        BY <1>3, <1>6, <2>0, <2>2, <3>1, LateRom
    <2>3. CASE stage = "rom_psi"
      <3>1. Len(rx) + (2 + 2 * m + 2 * n) = 2 * (stale + 1)
        BY <1>7, <1>8, <2>1, <2>3
      <3>2. PICK g \in Nat : g <= 1 /\ Len(rx) + (2 + 2 * m + 2 * n) = 2 * (stale + g)
        BY <3>1
      <3>3. QED
        BY <1>3, <1>6, <2>0, <2>3, <3>2, LateRom
    <2>4. CASE stage = "psi"
      <3>1. Len(rx) + (2 + 2 * m + 2 * n) = 2 * (stale + 1) + 2 * m + 2
        BY <1>7, <1>8, <2>1, <2>4
      <3>2. QED
        BY <1>3, <1>6, <2>4, <3>1, LatePsi
    <2>5. QED
      BY <1>4, <2>2, <2>3, <2>4
  <1>11. Hsic!TwoBytes = SubSeq(rx, 1, 2)
    BY <1>6, <1>10 DEF Hsic!TwoBytes
  <1>12. Len(SubSeq(rx, 1, 2)) = 2
    BY <1>5, <1>10, PsiPair, RomPair
  <1>13. rx' = SubSeq(rx, 3, Len(rx))
    BY <1>1, <1>11, <1>12
  <1>14. CASE pc' = "ebl_size"
    <2>1. SubSeq(rx, 1, 2) = Hsic!Ack("psi")
      BY <1>1, <1>11, <1>14
    <2>2. stage = "psi"
      BY <1>5, <1>10, <2>1, RomPair
    <2>3. rx' = <<>>
      BY <1>5, <1>10, <1>13, <2>1, <2>2, PsiPair
    <2>4. tx = <<>>
      BY <1>2, <2>2 DEF HsicInv, HsicStages
    <2>5. pc \in HsicEarly \cup HsicEbl /\ pc' \in HsicEarly \cup HsicEbl /\ pc' \notin HsicEarly /\ n' \in Nat
      BY <1>1, <1>2, <1>14 DEF HsicEbl, HsicEarly, HsicProbing, HsicSending, HsicReading
    <2>6. HsicTypes' /\ HsicAlways'
      BY <1>1, <1>14, <2>5 DEF HsicInv, HsicTypes, HsicAlways, Hsic!LateRepliesHarmless
    <2>7. HsicCounts' /\ HsicStages' /\ HsicBytes'
      BY <1>14, <2>5 DEF HsicCounts, HsicStages, HsicBytes, HsicEarly
    <2>8. HsicLoading'
      BY <1>1, <1>14, <2>2, <2>3, <2>4 DEF HsicLoading
    <2>9. QED
      BY <1>1, <2>5, <2>6, <2>7, <2>8, HsicKept DEF HsicInv
  <1>15. CASE pc' = "psi_ack"
    <2>1. SubSeq(rx, 1, 2) # Hsic!Ack("psi") /\ n + 1 < AckMax /\ n' = n + 1
      BY <1>1, <1>11, <1>15
    <2>2. /\ IF stage = "psi" THEN PsiEnds(rx') ELSE rx' \in Seq(RomBytes)
          /\ Len(rx') = Len(rx) - 2
      BY <1>5, <1>10, <1>13, <2>1, PsiPair, RomPair
    <2>3. HsicTypes' /\ HsicAlways'
      BY <1>1, <1>15, <1>3, <2>1 DEF HsicInv, HsicTypes, HsicAlways, Hsic!LateRepliesHarmless
    <2>4. HsicCounts'
      <3>1. BytesSent' = BytesSent
        BY <1>1 DEF BytesSent
      <3>2. BytesRead' = 2 + Unknown + CrcAcks + 2 * (n + 1)
        BY <1>15, <2>1 DEF BytesRead
      <3>3. BytesRead' = 2 + U + 2 * (n + 1)
        BY <3>2, <1>3, HsicConstants DEF U
      <3>4. Len(rx') + BytesRead' = BytesSent'
        BY <1>3, <1>6, <1>7, <1>9, <2>2, <3>1, <3>3
      <3>5. stage' = "rom" => got' \in {0, 1} /\ (got' = 0 => stale' = 0)
        BY <1>1, <1>2 DEF HsicInv, HsicCounts
      <3>6. QED
        BY <1>15, <2>1, <3>4, <3>5 DEF HsicCounts
    <2>5. HsicStages' /\ HsicBytes' /\ HsicLoading'
      BY <1>1, <1>15, <2>2 DEF HsicInv, HsicStages, HsicBytes, HsicLoading, HsicProbing, HsicSending
    <2>6. QED
      BY <1>1, <1>2, <1>15, <2>3, <2>4, <2>5, HsicKept DEF HsicInv
  <1>16. CASE pc' = "error"
    <2>1. SubSeq(rx, 1, 2) # Hsic!Ack("psi") /\ ~(n + 1 < AckMax) /\ n' \in Nat
      BY <1>1, <1>11, <1>16
    <2>2. stage = "psi" => Len(rx) >= 4
      BY <1>5, <1>10, <2>1, PsiPair
    <2>3. stale >= AckMax
      BY <1>3, <1>10, <2>1, <2>2
    <2>4. QED
      BY <1>1, <1>16, <2>1, <2>3, HsicFails
  <1>17. QED
    BY <1>1, <1>14, <1>15, <1>16

(* Steps of xmm626_hsic_ebl_send that write. *)
LEMMA HsicEblWrites ==
    ASSUME HsicInv, device' = device, Hsic!EblSize \/ Hsic!EblData \/ Hsic!EblCrc
    PROVE  HsicInv'
  <1>1. /\ UNCHANGED <<todo, rx, stage, got, address, flash, sec, stale, faulted>>
        /\ n' \in Nat
        /\ \/ pc = "ebl_size" /\ pc' = "ebl_size_ack" /\ tx' = Append(tx, "ebl_size")
           \/ pc = "ebl" /\ pc' \in {"ebl", "ebl_crc"} /\ tx' = Append(tx, "ebl")
           \/ pc = "ebl_crc" /\ pc' = "ebl_ack" /\ tx' = Append(tx, "ebl_crc")
    BY DEF Hsic!EblSize, Hsic!EblData, Hsic!EblCrc, Hsic!Write, Hsic!Loop, Hsic!Goto,
        Hsic!modem, HsicInv, HsicTypes
  <1>2. /\ pc \in HsicEarly \cup HsicEbl /\ pc' \in HsicEarly \cup HsicEbl
        /\ pc' \notin HsicEarly /\ pc' # "error"
    BY <1>1 DEF HsicEbl, HsicEarly, HsicProbing, HsicSending, HsicReading
  <1>3. /\ rx = <<>> /\ stage \in {"psi", "psi_ebl"}
        /\ pc = "ebl_size" => tx = <<>> /\ stage = "psi"
        /\ pc # "ebl_size" => stage = "psi_ebl" /\ \A k \in 1..Len(tx) : tx[k] = "ebl"
    BY <1>1 DEF HsicInv, HsicLoading
  <1>4. PICK item \in {"ebl_size", "ebl", "ebl_crc"} :
           tx' = Append(tx, item) /\ (item = "ebl_size" <=> pc = "ebl_size") /\ (item = "ebl_crc" <=> pc = "ebl_crc")
    BY <1>1
  <1>5. /\ tx' \in Seq(HsicLoads \cup Orders)
        /\ \A k \in 1..Len(tx') : \/ k \in 1..Len(tx) /\ tx'[k] = tx[k]
                                  \/ k = Len(tx') /\ tx'[k] = item
    BY <1>4, HsicPuts DEF HsicLoads
  <1>6. HsicTypes'
    BY <1>1, <1>2, <1>5 DEF HsicInv, HsicTypes
  <1>7. HsicAlways'
    <2>1. \A k \in 1..Len(tx') : tx'[k] = "ebl_crc" => k = Len(tx')
      BY <1>3, <1>5
    <2>2. stage' # "ebl" /\ stage' # "firmware"
      BY <1>1, <1>3
    <2>3. QED
      BY <1>2, <2>1, <2>2 DEF HsicAlways, Hsic!LateRepliesHarmless
  <1>8. HsicCounts' /\ HsicStages' /\ HsicBytes'
    BY <1>2 DEF HsicCounts, HsicStages, HsicBytes, HsicEarly
  <1>9. HsicLoading'
    <2>1. CASE pc = "ebl_size"
      <3>1. tx' = <<"ebl_size">>
        BY <1>1, <1>3, <2>1
      <3>2. QED
        BY <1>1, <1>3, <2>1, <3>1 DEF HsicLoading
    <2>2. CASE pc = "ebl"
      <3>1. \A k \in 1..Len(tx') : tx'[k] = "ebl"
        BY <1>3, <1>4, <1>5, <2>2
      <3>2. QED
        BY <1>1, <1>3, <2>2, <3>1 DEF HsicLoading
    <2>3. CASE pc = "ebl_crc"
      <3>1. \A k \in 1..Len(tx') : tx'[k] = "ebl" \/ (tx'[k] = "ebl_crc" /\ k = Len(tx'))
        BY <1>3, <1>4, <1>5, <2>3
      <3>2. QED
        BY <1>1, <1>3, <2>3, <3>1 DEF HsicLoading
    <2>4. QED
      BY <1>1, <2>1, <2>2, <2>3
  <1>10. QED
    BY <1>1, <1>2, <1>6, <1>7, <1>8, <1>9, HsicKept DEF HsicInv

(* An acknowledgement is taken off what was received. *)
LEMMA PairOff ==
    ASSUME NEW S, NEW x \in S, NEW y \in S, NEW rest \in Seq(S)
    PROVE  /\ Len(<<x, y>> \o rest) \in Nat /\ Len(<<x, y>> \o rest) >= 2
           /\ SubSeq(<<x, y>> \o rest, 1, 2) = <<x, y>>
           /\ SubSeq(<<x, y>> \o rest, 3, Len(<<x, y>> \o rest)) = rest
  <1> DEFINE p0 == <<x, y>>
             s == p0 \o rest
  <1>1. p0 \in Seq(S) /\ Len(p0) = 2 /\ p0[1] = x /\ p0[2] = y
    OBVIOUS
  <1> HIDE DEF p0
  <1>2. /\ s \in Seq(S) /\ Len(s) = 2 + Len(rest) /\ Len(rest) \in Nat
        /\ s[1] = x /\ s[2] = y
        /\ \A k \in 3..(2 + Len(rest)) : s[k] = rest[k - 2]
    <2>1. /\ p0 \o rest \in Seq(S) /\ Len(p0 \o rest) = Len(p0) + Len(rest)
          /\ \A k \in 1..Len(p0) : (p0 \o rest)[k] = p0[k]
          /\ \A k \in (Len(p0) + 1)..(Len(p0) + Len(rest)) : (p0 \o rest)[k] = rest[k - Len(p0)]
      BY <1>1, Concatenated
    <2>2. QED
      BY <1>1, <2>1
  <1> HIDE DEF s
  <1>3. Len(s) \in Nat /\ Len(s) >= 2 /\ Len(s) - 2 = Len(rest)
    BY <1>2
  <1>4. /\ SubSeq(s, 1, 2) = <<s[1], s[2]>>
        /\ SubSeq(s, 3, Len(s)) \in Seq(S) /\ Len(SubSeq(s, 3, Len(s))) = Len(s) - 2
        /\ \A k \in 1..(Len(s) - 2) : SubSeq(s, 3, Len(s))[k] = s[k + 2]
    BY <1>2, <1>3, SecondPart
  <1>5. SubSeq(s, 3, Len(s)) = rest
    <2>2. \A k \in 1..(Len(s) - 2) : k + 2 \in 3..(2 + Len(rest)) /\ (k + 2) - 2 = k
      BY <1>2, <1>3
    <2>3. \A k \in 1..Len(SubSeq(s, 3, Len(s))) : SubSeq(s, 3, Len(s))[k] = rest[k]
      BY <1>2, <1>4, <2>2
    <2>4. QED
      BY <1>3, <1>4, <2>3, SeqEqual
  <1>6. SubSeq(s, 1, 2) = <<x, y>>
    BY <1>2, <1>4
  <1>7. QED
    BY <1>3, <1>5, <1>6 DEF s, p0

(* The acknowledgements of the PSI, read as they were sent. *)
LEMMA AckIs ==
    ASSUME NEW S, NEW a, <<a, "low">> \in S, <<a, "high">> \in S, NEW rest \in Seq(S),
           rx = Hsic!Ack(a) \o rest
    PROVE  /\ rx # <<>> /\ Hsic!TwoBytes = Hsic!Ack(a)
           /\ SubSeq(rx, Len(Hsic!TwoBytes) + 1, Len(rx)) = rest
  <1> DEFINE x == <<a, "low">>
             y == <<a, "high">>
  <1>1. Hsic!Ack(a) = <<x, y>>
    BY DEF Hsic!Ack
  <1> HIDE DEF x, y
  <1>2. /\ Len(<<x, y>> \o rest) \in Nat /\ Len(<<x, y>> \o rest) >= 2
        /\ SubSeq(<<x, y>> \o rest, 1, 2) = <<x, y>>
        /\ SubSeq(<<x, y>> \o rest, 3, Len(<<x, y>> \o rest)) = rest
    <2>1. x \in S /\ y \in S
      BY DEF x, y
    <2>2. QED
      BY <2>1, PairOff
  <1>3. rx = <<x, y>> \o rest
    BY <1>1
  <1>4. Len(rx) \in Nat /\ Len(rx) >= 2 /\ SubSeq(rx, 1, 2) = <<x, y>> /\ SubSeq(rx, 3, Len(rx)) = rest
    BY <1>2, <1>3
  <1>5. Hsic!TwoBytes = <<x, y>>
    BY <1>4 DEF Hsic!TwoBytes
  <1>6. Len(Hsic!TwoBytes) + 1 = 3
    BY <1>5
  <1>7. rx # <<>>
    BY <1>4
  <1>8. QED
    BY <1>1, <1>4, <1>5, <1>6, <1>7

(* Bytes, one of them. *)
LEMMA OneByte ==
    ASSUME NEW kind
    PROVE  Hsic!Bytes(kind, 1) = <<<<kind, "byte">>>>
  BY DEF Hsic!Bytes

(* What the PSI sends while the EBL is loaded. *)
EblBytes == {<<"ebl_size", "low">>, <<"ebl_size", "high">>, <<"ebl", "low">>, <<"ebl", "high">>,
             <<"port_config", "byte">>}

(* Steps of xmm626_hsic_ebl_send and xmm626_hsic_port_config_send that read. *)
LEMMA HsicEblReads ==
    ASSUME HsicInv, device' = device, Hsic!EblSizeAck \/ Hsic!EblAck
    PROVE  HsicInv'
  <1> DEFINE rest == IF pc = "ebl_ack" THEN Hsic!Bytes("port_config", 1) ELSE <<>>
             a == IF pc = "ebl_ack" THEN "ebl" ELSE "ebl_size"
  <1>1. /\ pc \in {"ebl_size_ack", "ebl_ack"} /\ rx # <<>>
        /\ rx' = SubSeq(rx, Len(Hsic!TwoBytes) + 1, Len(rx))
        /\ UNCHANGED <<todo, tx, stage, got, address, flash, sec, stale, faulted>>
        /\ Hsic!TwoBytes = Hsic!Ack(a) => pc' = (IF pc = "ebl_ack" THEN "port_config" ELSE "ebl") /\ n' = 0
    BY DEF Hsic!EblSizeAck, Hsic!EblAck, Hsic!AckRead, Hsic!Readable, Hsic!Goto, Hsic!modem
  <1>2. /\ tx = <<>>
        /\ pc = "ebl_size_ack" => rx = Hsic!Ack("ebl_size") /\ stage = "psi_ebl"
        /\ pc = "ebl_ack" => rx = EblReady /\ stage = "ebl"
    BY <1>1 DEF HsicInv, HsicLoading
  <1>3. rest \in Seq(EblBytes) /\ <<a, "low">> \in EblBytes /\ <<a, "high">> \in EblBytes
    BY OneByte DEF EblBytes
  <1>4. rx = Hsic!Ack(a) \o rest
    <2>1. CASE pc = "ebl_ack"
      BY <1>2, <2>1 DEF EblReady
    <2>2. CASE pc = "ebl_size_ack"
      <3>1. Hsic!Ack("ebl_size") \in Seq(EblBytes)
        BY DEF Hsic!Ack, EblBytes
      <3>2. Hsic!Ack("ebl_size") \o <<>> = Hsic!Ack("ebl_size")
        BY <3>1, NothingAdded
      <3>3. QED
        BY <1>2, <2>2, <3>2
    <2>3. QED
      BY <1>1, <2>1, <2>2
  <1>5. Hsic!TwoBytes = Hsic!Ack(a) /\ rx' = rest
    <2> HIDE DEF rest, a
    <2>1. Hsic!TwoBytes = Hsic!Ack(a) /\ SubSeq(rx, Len(Hsic!TwoBytes) + 1, Len(rx)) = rest
      BY <1>3, <1>4, AckIs
    <2>2. QED
      BY <1>1, <2>1
  <1>6. pc' = (IF pc = "ebl_ack" THEN "port_config" ELSE "ebl") /\ n' = 0
    BY <1>1, <1>5
  <1>7. /\ pc \in HsicEarly \cup HsicEbl /\ pc' \in HsicEarly \cup HsicEbl
        /\ pc' \notin HsicEarly /\ pc' # "error"
    BY <1>1, <1>6 DEF HsicEbl, HsicEarly, HsicProbing, HsicSending, HsicReading
  <1>8. HsicTypes'
    BY <1>1, <1>6, <1>7 DEF HsicInv, HsicTypes
  <1>9. HsicAlways'
    BY <1>1, <1>2, <1>7 DEF HsicAlways, Hsic!LateRepliesHarmless
  <1>10. HsicCounts' /\ HsicStages' /\ HsicBytes'
    BY <1>7 DEF HsicCounts, HsicStages, HsicBytes, HsicEarly
  <1>11. HsicLoading'
    BY <1>1, <1>2, <1>5, <1>6 DEF HsicLoading
  <1>12. QED
    BY <1>1, <1>7, <1>8, <1>9, <1>10, <1>11, HsicKept DEF HsicInv

(* The port configuration read is the one the EBL sent. *)
LEMMA HsicPortConfig ==
    ASSUME HsicInv, device' = device, Hsic!PortConfigRead
    PROVE  HsicInv'
  <1>1. /\ pc = "port_config" /\ rx' = Tail(rx) /\ n' = 0
        /\ UNCHANGED <<todo, tx, stage, got, address, flash, sec, stale, faulted>>
        /\ rx[1] = <<"port_config", "byte">> => pc' = "command"
    BY DEF Hsic!PortConfigRead, Hsic!Goto, Hsic!modem
  <1>2. tx = <<>> /\ stage = "ebl" /\ rx = <<<<"port_config", "byte">>>>
    BY <1>1, OneByte DEF HsicInv, HsicLoading
  <1>3. pc' = "command" /\ rx' = <<>>
    BY <1>1, <1>2, OneWord
  <1>4. HsicTypes' /\ HsicAlways'
    <2>1. HsicTypes'
      BY <1>1, <1>3 DEF HsicInv, HsicTypes, HsicFlashing
    <2>2. QED
      BY <1>1, <1>2, <1>3, <2>1 DEF HsicAlways, Hsic!LateRepliesHarmless
  <1>5. HsicCounts' /\ HsicStages' /\ HsicBytes' /\ HsicLoading' /\ HsicReplies'
    BY <1>1, <1>2, <1>3 DEF HsicCounts, HsicStages, HsicBytes, HsicLoading, HsicReplies,
        HsicEarly, HsicProbing, HsicSending, HsicReading
  <1>6. HsicTodo /\ HsicProgress /\ pc \in HsicEarly \cup HsicEbl
    BY <1>1 DEF HsicInv, HsicEbl
  <1>7. Len(todo) = HsicLast /\ HsicLast > 5 /\ HsicLast \in Nat
    BY <1>6, HsicLastIs DEF HsicTodo
  <1>8. HsicTodo' /\ HsicSent' = 0
    BY <1>1, <1>3, <1>6, <1>7 DEF HsicTodo, HsicSent, HsicEarly, HsicProbing, HsicSending, HsicReading,
        HsicEbl, HsicFlashing
  <1>9. HsicProgress'
    <2>1. HsicTaken' = 0
      BY <1>1, <1>2, <1>3, <1>8 DEF HsicTaken, HsicWritten
    <2>2. HsicAfter(0)'
      BY <1>1, <1>6 DEF HsicProgress, HsicAfter
    <2>3. stage' = "ebl" /\ tx' = <<>>
      BY <1>1, <1>2
    <2>4. pc' \notin HsicEarly \cup HsicEbl
      BY <1>3 DEF HsicEarly, HsicProbing, HsicSending, HsicReading, HsicEbl
    <2>5. QED
      BY <2>1, <2>2, <2>3, <2>4 DEF HsicProgress, HsicAfter
  <1>10. QED
    BY <1>1, <1>4, <1>5, <1>8, <1>9 DEF HsicInv, OnHsic

(* The command to send next. *)
LEMMA HsicHead ==
    ASSUME HsicTodo, Len(todo) > 0
    PROVE  /\ todo # <<>> /\ HsicSent \in Nat /\ HsicSent + 1 \in 1..HsicLast
           /\ Head(todo) = Hsic!Commands[HsicSent + 1] /\ Head(todo) \in Orders
           /\ Head(todo).ack <=> Head(todo).code \in Hsic!Replies
           /\ Head(todo).ack => HsicSent + 1 # HsicLast
           /\ Len(todo) = 1 => HsicSent = HsicLast - 1
           /\ Tail(todo) \in Seq(Orders) /\ Len(Tail(todo)) = Len(todo) - 1
           /\ \A k \in 1..Len(Tail(todo)) : Tail(todo)[k] = Hsic!Commands[(HsicLast - Len(Tail(todo))) + k]
  <1>1. /\ todo \in Seq(Orders) /\ Len(todo) \in 1..HsicLast
        /\ \A k \in 1..Len(todo) : todo[k] = Hsic!Commands[HsicSent + k]
    BY HsicLastIs DEF HsicTodo
  <1>2. /\ HsicSent \in Nat /\ HsicSent + 1 \in 1..HsicLast /\ (Len(todo) = 1 => HsicSent = HsicLast - 1)
        /\ (Len(todo) > 1 <=> HsicSent + 1 # HsicLast)
    <2>1. Len(todo) \in 1..HsicLast
      BY <1>1
    <2>2. QED
      BY <2>1, HsicLastIs, Remaining DEF HsicSent
  <1>3. todo # <<>>
    BY <1>1
  <1>4. /\ Tail(todo) \in Seq(Orders) /\ Head(todo) = todo[1] /\ 1 \in 1..Len(todo)
        /\ Len(Tail(todo)) = Len(todo) - 1
        /\ \A k \in 1..Len(Tail(todo)) : k + 1 \in 1..Len(todo) /\ Tail(todo)[k] = todo[k + 1]
    BY <1>1, <1>3, TakeFirst
  <1>5. Head(todo) = Hsic!Commands[HsicSent + 1] /\ Head(todo) \in Orders
    <2>1. todo[1] \in Orders
      BY <1>1, <1>4, ElementOfSeq
    <2>2. QED
      BY <1>1, <1>4, <2>1
  <1>6. /\ Head(todo).ack <=> Head(todo).code \in Hsic!Replies
        /\ Head(todo).ack => HsicSent + 1 # HsicLast
    <2>1. /\ Hsic!Commands[HsicSent + 1].ack <=> Hsic!Commands[HsicSent + 1].code \in Hsic!Replies
          /\ Hsic!Commands[HsicLast].ack = FALSE
      BY <1>2, HsicAcks, HsicFields
    <2>2. QED
      BY <1>5, <2>1
  <1>7. ASSUME NEW k \in 1..Len(Tail(todo))
        PROVE  Tail(todo)[k] = Hsic!Commands[(HsicLast - Len(Tail(todo))) + k]
    <2>1. Tail(todo)[k] = Hsic!Commands[HsicSent + (k + 1)]
      BY <1>1, <1>4, <1>7
    <2>2. HsicSent + (k + 1) = (HsicLast - Len(Tail(todo))) + k
      BY <1>1, <1>4, <1>7, HsicLastIs DEF HsicSent
    <2>3. QED
      BY <2>1, <2>2
  <1>8. QED
    BY <1>2, <1>3, <1>4, <1>5, <1>6, <1>7

(* A command written is a command not yet taken. *)
LEMMA Shifted ==
    ASSUME NEW w \in Nat, NEW l \in Nat, w - l \in Nat
    PROVE  (w + 1) - (l + 1) = w - l /\ (w - l) + (l + 1) = w + 1 /\ (w - l) + l = w
  OBVIOUS

(* xmm626_hsic_command_send writes a command. *)
LEMMA HsicCommandWrite ==
    ASSUME HsicInv, device' = device, Hsic!CommandWrite
    PROVE  HsicInv'
  <1>1. /\ pc = "command" /\ todo # <<>> /\ tx' = Append(tx, Head(todo)) /\ n' = 0
        /\ UNCHANGED <<rx, stage, got, address, flash, sec, stale, faulted>>
        /\ \/ Head(todo).ack /\ pc' = "reply_header" /\ todo' = todo
           \/ /\ ~Head(todo).ack /\ todo' = Tail(todo)
              /\ \/ Tail(todo) = <<>> /\ pc' = "done"
                 \/ Tail(todo) # <<>> /\ pc' = "command"
    BY DEF Hsic!CommandWrite, Hsic!Write, Hsic!Goto, Hsic!modem
  <1>2. HsicTodo /\ Len(todo) > 0 /\ tx \in Seq(HsicLoads \cup Orders) /\ Len(tx) \in Nat
    BY <1>1 DEF HsicInv, HsicTodo, HsicTypes, HsicFlashing
  <1>3. /\ HsicSent \in Nat /\ HsicSent + 1 \in 1..HsicLast
        /\ Head(todo) = Hsic!Commands[HsicSent + 1] /\ Head(todo) \in Orders
        /\ Head(todo).ack <=> Head(todo).code \in Hsic!Replies
        /\ Head(todo).ack => HsicSent + 1 # HsicLast
        /\ Len(todo) = 1 => HsicSent = HsicLast - 1
        /\ Tail(todo) \in Seq(Orders) /\ Len(Tail(todo)) = Len(todo) - 1
        /\ \A k \in 1..Len(Tail(todo)) : Tail(todo)[k] = Hsic!Commands[(HsicLast - Len(Tail(todo))) + k]
    BY <1>2, HsicHead
  <1>4. Len(todo) \in 1..HsicLast /\ HsicLast \in Nat
    BY <1>2, HsicLastIs DEF HsicTodo
  <1>5. /\ stage = "ebl" /\ rx = <<>> /\ HsicTaken = HsicSent - Len(tx) /\ HsicTaken \in Nat
        /\ HsicAfter(HsicTaken)
        /\ \A k \in 1..Len(tx) : tx[k] = Hsic!Commands[HsicTaken + k] /\ Unanswered(k)
    BY <1>1 DEF HsicInv, HsicProgress, HsicReplies, HsicFlashing, HsicTaken, HsicWritten
  <1>6. /\ tx' \in Seq(HsicLoads \cup Orders) /\ Len(tx') = Len(tx) + 1
        /\ \A k \in 1..Len(tx') : \/ k \in 1..Len(tx) /\ tx'[k] = tx[k]
                                  \/ k = Len(tx) + 1 /\ tx'[k] = Head(todo)
    <2>1. Head(todo) \in HsicLoads \cup Orders
      BY <1>3
    <2>2. /\ Append(tx, Head(todo)) \in Seq(HsicLoads \cup Orders)
          /\ Len(Append(tx, Head(todo))) = Len(tx) + 1
          /\ \A k \in 1..Len(Append(tx, Head(todo))) :
                 \/ k \in 1..Len(tx) /\ Append(tx, Head(todo))[k] = tx[k]
                 \/ k = Len(Append(tx, Head(todo))) /\ Append(tx, Head(todo))[k] = Head(todo)
      BY <1>2, <2>1, PutLast
    <2>3. QED
      BY <1>1, <2>2
  <1>7. HsicWritten' = HsicSent + 1 /\ (Head(todo).ack \/ HsicSent' = HsicSent + 1)
    <2>1. CASE Head(todo).ack
      BY <1>1, <2>1 DEF HsicWritten, HsicSent
    <2>2. CASE ~Head(todo).ack
      <3>1. pc' \in {"done", "command"} /\ todo' = Tail(todo)
        BY <1>1, <2>2
      <3>2. HsicSent' = HsicSent + 1
        BY <1>3, <1>4, <3>1 DEF HsicSent
      <3>3. QED
        BY <3>1, <3>2 DEF HsicWritten
    <2>3. QED
      BY <2>1, <2>2
  <1>8. HsicTaken' = HsicTaken
    <2>1. HsicTaken' = (HsicSent + 1) - (Len(tx) + 1)
      BY <1>6, <1>7 DEF HsicTaken
    <2>2. QED
      BY <1>2, <1>3, <1>5, <2>1, Shifted
  <1>9. \A k \in 1..Len(tx') : tx'[k] = Hsic!Commands[HsicTaken + k]
    <2>1. HsicTaken + (Len(tx) + 1) = HsicSent + 1
      BY <1>2, <1>3, <1>5, Shifted
    <2>2. QED
      BY <1>3, <1>5, <1>6, <2>1
  <1>10. Head(todo).ack => pc' = "reply_header"
    BY <1>1
  <1>11. ~Head(todo).ack => pc' \in {"command", "done"} /\ (pc' = "done" <=> HsicSent + 1 = HsicLast)
    <2>1. Tail(todo) = <<>> <=> Len(todo) = 1
      <3>1. Tail(todo) \in Seq(Orders) /\ Len(Tail(todo)) = Len(todo) - 1 /\ Len(todo) \in Nat
        BY <1>3, <1>4
      <3>2. Tail(todo) = <<>> <=> Len(Tail(todo)) = 0
        BY <3>1, EmptySeq
      <3>3. QED
        BY <3>1, <3>2
    <2>2. Len(todo) = 1 <=> HsicSent + 1 = HsicLast
      <3>1. (HsicLast - Len(todo)) + 1 = HsicLast <=> Len(todo) = 1
        BY <1>4, Remaining
      <3>2. QED
        BY <3>1 DEF HsicSent
    <2>3. QED
      BY <1>1, <2>1, <2>2
  <1>12. pc' \in HsicFlashing /\ pc' # "error" /\ pc' # "reply_data"
    BY <1>10, <1>11 DEF HsicFlashing
  <1>13. HsicTypes'
    BY <1>1, <1>6, <1>12 DEF HsicInv, HsicTypes
  <1>14. HsicAlways'
    <2>1. ASSUME NEW k \in 1..Len(tx')
          PROVE  \E j \in 1..HsicLast : tx'[k] = Hsic!Commands[j] /\ (j = HsicLast => pc' = "done")
      <3>1. HsicTaken + k \in 1..(HsicSent + 1)
        BY <1>2, <1>3, <1>5, <1>6, <2>1
      <3>2. HsicTaken + k \in 1..HsicLast
        BY <1>3, <1>4, <3>1
      <3>3. HsicTaken + k = HsicLast => HsicSent + 1 = HsicLast
        BY <1>3, <1>4, <3>1
      <3>4. HsicSent + 1 = HsicLast => pc' = "done"
        BY <1>3, <1>11
      <3>5. QED
        BY <1>9, <2>1, <3>2, <3>3, <3>4
    <2>2. stage' = "ebl"
      BY <1>1, <1>5
    <2>3. QED
      BY <1>12, <2>1, <2>2 DEF HsicAlways, Hsic!LateRepliesHarmless
  <1>15. HsicTodo'
    <2>1. CASE Head(todo).ack
      BY <1>1, <1>2, <2>1 DEF HsicTodo, HsicSent, HsicEarly, HsicProbing, HsicSending, HsicReading,
          HsicEbl, HsicFlashing
    <2>2. CASE ~Head(todo).ack
      <3>1. todo' = Tail(todo) /\ pc' \in {"command", "done"}
        BY <1>1, <2>2
      <3>2. /\ todo' \in Seq(Orders) /\ Len(todo') \in 0..HsicLast
            /\ \A k \in 1..Len(todo') : todo'[k] = Hsic!Commands[HsicSent' + k]
        BY <1>3, <1>4, <3>1 DEF HsicSent
      <3>3. pc' = "done" => Len(todo') = 0
        BY <1>3, <1>4, <1>11, <2>2, <3>1 DEF HsicSent
      <3>4. pc' = "command" => Len(todo') > 0
        BY <1>3, <1>4, <1>11, <2>2, <3>1 DEF HsicSent
      <3>5. pc' \notin HsicEarly \cup HsicEbl
        BY <3>1 DEF HsicEarly, HsicProbing, HsicSending, HsicReading, HsicEbl
      <3>6. QED
        BY <3>1, <3>2, <3>3, <3>4, <3>5 DEF HsicTodo, HsicFlashing
    <2>3. QED
      BY <2>1, <2>2
  <1>16. HsicProgress'
    <2>1. pc' \notin HsicEarly \cup HsicEbl
      BY <1>10, <1>11 DEF HsicEarly, HsicProbing, HsicSending, HsicReading, HsicEbl
    <2>2. HsicAfter(HsicTaken)'
      BY <1>1, <1>5, <1>8 DEF HsicAfter
    <2>3. QED
      BY <1>1, <1>5, <1>8, <1>9, <2>1, <2>2 DEF HsicProgress, HsicAfter
  <1>17. HsicReplies'
    <2>1. \A k \in 1..Len(tx) : tx'[k] = tx[k]
      BY <1>2, <1>6
    <2>2. \A k \in 1..Len(tx) : tx'[k].code \notin Hsic!Replies
      BY <1>5, <2>1 DEF Unanswered
    <2>3. tx' # <<>> /\ rx' = <<>>
      BY <1>1, <1>2, <1>5, <1>6
    <2>4. CASE Head(todo).ack
      <3>1. \A k \in 1..Len(tx') : k < Len(tx') => tx'[k].code \notin Hsic!Replies
        BY <1>2, <1>6, <2>2
      <3>2. QED
        BY <1>10, <2>3, <2>4, <3>1 DEF HsicReplies, Unanswered
    <2>5. CASE ~Head(todo).ack /\ pc' = "command"
      <3>1. \A k \in 1..Len(tx') : tx'[k].code \notin Hsic!Replies
        BY <1>3, <1>6, <2>2, <2>5
      <3>2. QED
        BY <2>3, <2>5, <3>1 DEF HsicReplies, Unanswered
    <2>6. CASE ~Head(todo).ack /\ pc' = "done"
      <3>1. HsicSent = HsicLast - 1
        BY <1>3, <1>4, <1>11, <2>6
      <3>2. ASSUME Len(tx) > 0 PROVE FALSE
        <4>1. Len(tx) \in 1..Len(tx) /\ HsicTaken + Len(tx) = HsicSent
          BY <1>2, <1>3, <1>5, <3>2, Shifted
        <4>2. tx[Len(tx)] = Hsic!Commands[HsicLast - 1] /\ Unanswered(Len(tx))
          BY <1>5, <3>1, <4>1
        <4>3. Hsic!Commands[HsicLast - 1].code = "sec_end"
          BY HsicFields
        <4>4. QED
          BY <4>2, <4>3 DEF Unanswered, Hsic!Replies
      <3>3. Len(tx') <= 1
        BY <1>2, <1>6, <3>2
      <3>4. QED
        BY <2>3, <2>6, <3>3 DEF HsicReplies
    <2>7. QED
      BY <1>10, <1>11, <2>4, <2>5, <2>6
  <1>18. HsicCounts' /\ HsicStages' /\ HsicBytes' /\ HsicLoading'
    BY <1>10, <1>11 DEF HsicCounts, HsicStages, HsicBytes, HsicLoading, HsicEarly, HsicProbing,
        HsicSending, HsicReading
  <1>19. QED
    BY <1>13, <1>14, <1>15, <1>16, <1>17, <1>18 DEF HsicInv, OnHsic

(* A reply has two parts. *)
LEMMA ReplyParts ==
    ASSUME NEW c
    PROVE  /\ Hsic!Reply(c) # <<>> /\ Head(Hsic!Reply(c)) = Hsic!Reply(c)[1]
           /\ Tail(Hsic!Reply(c)) = <<<<c, "data">>>>
  <1> DEFINE x == <<c, "header">>
             y == <<c, "data">>
             S == {x, y}
  <1>1. Hsic!Reply(c) = <<x, y>>
    BY DEF Hsic!Reply
  <1> HIDE DEF x, y
  <1>2. Head(<<x, y>>) = <<x, y>>[1] /\ Tail(<<x, y>>) = <<y>> /\ <<x, y>> # <<>>
    <2>1. /\ <<x, y>> \in Seq(S) /\ Len(<<x, y>>) = 2 /\ <<x, y>> # <<>>
          /\ <<x, y>>[1] = x /\ <<x, y>>[2] = y /\ <<y>> \in Seq(S) /\ Len(<<y>>) = 1 /\ <<y>>[1] = y
      OBVIOUS
    <2> HIDE DEF S
    <2>2. /\ Tail(<<x, y>>) \in Seq(S) /\ Head(<<x, y>>) = <<x, y>>[1]
          /\ Len(Tail(<<x, y>>)) = Len(<<x, y>>) - 1
          /\ \A k \in 1..Len(Tail(<<x, y>>)) : Tail(<<x, y>>)[k] = <<x, y>>[k + 1]
      BY <2>1, TakeFirst
    <2>3. Len(Tail(<<x, y>>)) = 1 /\ Tail(<<x, y>>)[1] = y
      BY <2>1, <2>2
    <2>4. \A k \in 1..Len(Tail(<<x, y>>)) : Tail(<<x, y>>)[k] = <<y>>[k]
      <3>1. \A k \in 1..1 : k = 1
        OBVIOUS
      <3>2. QED
        BY <2>1, <2>3, <3>1
    <2>5. Tail(<<x, y>>) = <<y>>
      BY <2>1, <2>2, <2>3, <2>4, SeqEqual
    <2>6. QED
      BY <2>1, <2>2, <2>5
  <1>3. QED
    BY <1>1, <1>2 DEF y

(* xmm626_hsic_command_send reads the header and the data of the reply. *)
LEMMA HsicReplyHeader ==
    ASSUME HsicInv, device' = device, Hsic!ReplyHeader
    PROVE  HsicInv'
  <1>1. /\ pc = "reply_header" /\ rx # <<>> /\ rx' = Tail(rx) /\ n' = 0
        /\ UNCHANGED <<todo, tx, stage, got, address, flash, sec, stale, faulted>>
        /\ Head(rx) = Hsic!Reply(Head(todo).code)[1] => pc' = "reply_data"
    BY DEF Hsic!ReplyHeader, Hsic!Readable, Hsic!Goto, Hsic!modem
  <1>2. tx = <<>> /\ rx = Hsic!Reply(Head(todo).code)
    BY <1>1 DEF HsicInv, HsicReplies
  <1>3. pc' = "reply_data" /\ rx' = <<<<Head(todo).code, "data">>>>
    BY <1>1, <1>2, ReplyParts
  <1>4. HsicTodo /\ HsicProgress /\ stage = "ebl"
    BY <1>1 DEF HsicInv, HsicProgress, HsicFlashing
  <1>5. HsicTypes' /\ HsicAlways'
    <2>1. HsicTypes'
      BY <1>1, <1>3 DEF HsicInv, HsicTypes, HsicFlashing
    <2>2. QED
      BY <1>1, <1>2, <1>3, <1>4, <2>1 DEF HsicAlways, Hsic!LateRepliesHarmless
  <1>6. HsicCounts' /\ HsicStages' /\ HsicBytes' /\ HsicLoading' /\ HsicReplies'
    BY <1>1, <1>2, <1>3 DEF HsicCounts, HsicStages, HsicBytes, HsicLoading, HsicReplies,
        HsicEarly, HsicProbing, HsicSending, HsicReading
  <1>7. HsicTodo'
    BY <1>1, <1>3, <1>4 DEF HsicTodo, HsicSent, HsicEarly, HsicProbing, HsicSending, HsicReading,
        HsicEbl, HsicFlashing
  <1>8. HsicProgress'
    <2>1. HsicTaken' = HsicTaken
      BY <1>1, <1>3 DEF HsicTaken, HsicWritten, HsicSent
    <2>2. HsicTaken \in Nat /\ HsicAfter(HsicTaken)
      BY <1>1, <1>4 DEF HsicProgress, HsicFlashing
    <2>3. stage' = "ebl" /\ tx' = <<>> /\ pc' \notin HsicEarly \cup HsicEbl
      BY <1>1, <1>2, <1>3, <1>4 DEF HsicEarly, HsicProbing, HsicSending, HsicReading, HsicEbl
    <2>4. QED
      BY <1>1, <2>1, <2>2, <2>3 DEF HsicProgress, HsicAfter
  <1>9. QED
    BY <1>5, <1>6, <1>7, <1>8 DEF HsicInv, OnHsic

(* The reply was that of the command sent: the next one follows. *)
LEMMA HsicReplyData ==
    ASSUME HsicInv, device' = device, Hsic!ReplyData
    PROVE  HsicInv'
  <1>1. /\ pc = "reply_data" /\ rx' = Tail(rx) /\ n' = 0 /\ pc' = "command" /\ todo' = Tail(todo)
        /\ UNCHANGED <<tx, stage, got, address, flash, sec, stale, faulted>>
    BY DEF Hsic!ReplyData, Hsic!Goto, Hsic!modem
  <1>2. tx = <<>> /\ rx' = <<>>
    BY <1>1, OneWord DEF HsicInv, HsicReplies
  <1>3. HsicTodo /\ HsicProgress /\ stage = "ebl" /\ Len(todo) > 0 /\ Head(todo).ack
    BY <1>1 DEF HsicInv, HsicProgress, HsicTodo, HsicFlashing
  <1>4. /\ HsicSent \in Nat /\ HsicSent + 1 # HsicLast
        /\ Tail(todo) \in Seq(Orders) /\ Len(Tail(todo)) = Len(todo) - 1
        /\ \A k \in 1..Len(Tail(todo)) : Tail(todo)[k] = Hsic!Commands[(HsicLast - Len(Tail(todo))) + k]
    BY <1>3, HsicHead
  <1>5. Len(todo) \in 1..HsicLast /\ HsicLast \in Nat
    BY <1>3, HsicLastIs DEF HsicTodo
  <1>6. Len(todo) > 1 /\ HsicSent' = HsicSent + 1
    <2>1. Len(todo) > 1 <=> (HsicLast - Len(todo)) + 1 # HsicLast
      BY <1>5, Remaining
    <2>2. HsicLast - (Len(todo) - 1) = (HsicLast - Len(todo)) + 1
      BY <1>5
    <2>3. QED
      BY <1>1, <1>4, <2>1, <2>2 DEF HsicSent
  <1>7. HsicTypes' /\ HsicAlways'
    <2>1. HsicTypes'
      BY <1>1 DEF HsicInv, HsicTypes, HsicFlashing
    <2>2. QED
      BY <1>1, <1>2, <1>3, <2>1 DEF HsicAlways, Hsic!LateRepliesHarmless
  <1>8. HsicCounts' /\ HsicStages' /\ HsicBytes' /\ HsicLoading' /\ HsicReplies'
    BY <1>1, <1>2 DEF HsicCounts, HsicStages, HsicBytes, HsicLoading, HsicReplies,
        HsicEarly, HsicProbing, HsicSending, HsicReading
  <1>9. HsicTodo'
    <2>1. /\ todo' \in Seq(Orders) /\ Len(todo') \in 0..HsicLast
          /\ \A k \in 1..Len(todo') : todo'[k] = Hsic!Commands[HsicSent' + k]
      BY <1>1, <1>4, <1>5 DEF HsicSent
    <2>2. Len(todo') > 0
      BY <1>1, <1>4, <1>5, <1>6
    <2>3. pc' \notin HsicEarly \cup HsicEbl
      BY <1>1 DEF HsicEarly, HsicProbing, HsicSending, HsicReading, HsicEbl
    <2>4. QED
      BY <1>1, <2>1, <2>2, <2>3 DEF HsicTodo, HsicFlashing
  <1>10. HsicProgress'
    <2>1. HsicTaken' = HsicTaken
      BY <1>1, <1>6 DEF HsicTaken, HsicWritten
    <2>2. HsicTaken \in Nat /\ HsicAfter(HsicTaken)
      BY <1>1, <1>3 DEF HsicProgress, HsicFlashing
    <2>3. stage' = "ebl" /\ tx' = <<>> /\ pc' \notin HsicEarly \cup HsicEbl
      BY <1>1, <1>2, <1>3 DEF HsicEarly, HsicProbing, HsicSending, HsicReading, HsicEbl
    <2>4. QED
      BY <1>1, <2>1, <2>2, <2>3 DEF HsicProgress, HsicAfter
  <1>11. QED
    BY <1>7, <1>8, <1>9, <1>10 DEF HsicInv, OnHsic

(* The attempts are used up, a select times out or a write fails. *)
LEMMA HsicGivesUp ==
    ASSUME HsicInv, device' = device, Hsic!AtGivenUp \/ Hsic!SelectTimeout \/ Hsic!WriteFails
    PROVE  HsicInv'
  <1>1. pc # "done"
    BY DEF Hsic!AtGivenUp, Hsic!SelectTimeout, Hsic!WriteFails, Hsic!Waits, Hsic!Writes
  <1>2. /\ pc' = "error" /\ n' = 0 /\ faulted' = TRUE
        /\ UNCHANGED <<tx, stage, todo, got, stale>>
    BY DEF Hsic!AtGivenUp, Hsic!SelectTimeout, Hsic!WriteFails, Hsic!Fail, Hsic!Goto, Hsic!modem
  <1>3. QED
    BY <1>1, <1>2, HsicFails

(***************************************************************************)
(* The modem.                                                              *)
(***************************************************************************)
LEMMA HsicTakesOff ==
    ASSUME HsicInv, tx # <<>>, tx' = Tail(tx)
    PROVE  /\ tx' \in Seq(HsicLoads \cup Orders) /\ Len(tx) \in Nat /\ Len(tx') = Len(tx) - 1
           /\ Head(tx) = tx[1] /\ 1 \in 1..Len(tx)
           /\ \A k \in 1..Len(tx') : /\ k + 1 \in 1..Len(tx) /\ tx'[k] = tx[k + 1]
                                     /\ k + 1 = Len(tx) => k = Len(tx')
           /\ Len(tx) = 1 => tx' = <<>>
  <1>1. tx \in Seq(HsicLoads \cup Orders) /\ Len(tx) \in Nat
    BY DEF HsicInv, HsicTypes
  <1>2. /\ tx' \in Seq(HsicLoads \cup Orders) /\ Head(tx) = tx[1] /\ 1 \in 1..Len(tx)
        /\ Len(tx') = Len(tx) - 1
        /\ \A k \in 1..Len(tx') : k + 1 \in 1..Len(tx) /\ tx'[k] = tx[k + 1]
    BY <1>1, TakeFirst
  <1>3. \A k \in 1..Len(tx') : k + 1 = Len(tx) => k = Len(tx')
    <2>1. Len(tx) \in Nat /\ Len(tx') = Len(tx) - 1
      BY <1>1, <1>2
    <2>2. \A m \in Nat : \A k \in 1..(m - 1) : k + 1 = m => k = m - 1
      OBVIOUS
    <2>3. QED
      BY <2>1, <2>2
  <1>4. Len(tx) = 1 => tx' = <<>>
    BY <1>1, <1>2, EmptySeq
  <1>5. QED
    BY <1>1, <1>2, <1>3, <1>4

(* A loader takes an item. *)
LEMMA HsicStill ==
    ASSUME HsicInv, UNCHANGED <<device, pc, todo, address, flash, sec>>, pc \notin HsicFlashing
    PROVE  HsicTodo' /\ HsicProgress' /\ HsicReplies' /\ OnHsic'
  <1>1. HsicTodo'
    BY DEF HsicInv, HsicTodo, HsicSent
  <1>2. HsicProgress'
    BY DEF HsicInv, HsicProgress, HsicAfter
  <1>3. HsicReplies' /\ OnHsic'
    BY DEF HsicInv, HsicReplies, HsicFlashing, OnHsic
  <1>4. QED
    BY <1>1, <1>2, <1>3

(* What holds whatever became of the host, while a loader runs. *)
LEMMA HsicLoaderAlways ==
    ASSUME HsicInv, tx # <<>>, tx' = Tail(tx), UNCHANGED <<pc, faulted>>,
           stage \notin {"ebl", "firmware"}, stage' \notin {"ebl", "firmware"},
           stale' \in Nat, stale' >= stale
    PROVE  HsicAlways'
  <1>1. \A k \in 1..Len(tx') : tx'[k] = "ebl_crc" => k = Len(tx')
    <2>1. \A k \in 1..Len(tx) : tx[k] = "ebl_crc" => k = Len(tx)
      BY DEF HsicInv, HsicAlways
    <2>2. QED
      BY <2>1, HsicTakesOff
  <1>2. Hsic!LateRepliesHarmless'
    <2>1. stale \in Nat /\ AckMax \in Nat /\ (pc = "error" => faulted \/ stale >= AckMax)
      BY HsicConstants DEF HsicInv, HsicTypes, HsicAlways, Hsic!LateRepliesHarmless
    <2>2. QED
      BY <2>1 DEF Hsic!LateRepliesHarmless
  <1>3. QED
    BY <1>1, <1>2 DEF HsicAlways

(* Bytes sent before the PSI runs. *)
LEMMA RomBytesAre ==
    ASSUME NEW kind \in {"boot_ack", "chip_id", "unknown", "crc_ack"}, NEW m \in Nat
    PROVE  Hsic!Bytes(kind, m) \in Seq(RomBytes) /\ Len(Hsic!Bytes(kind, m)) = m
  BY DEF Hsic!Bytes, RomBytes

(* They are added to such bytes. *)
LEMMA RomAdds ==
    ASSUME NEW s \in Seq(RomBytes), NEW t \in Seq(RomBytes), NEW u \in Seq(RomBytes)
    PROVE  s \o t \o u \in Seq(RomBytes) /\ Len(s \o t \o u) = Len(s) + Len(t) + Len(u)
  <1>1. s \o t \in Seq(RomBytes) /\ Len(s \o t) = Len(s) + Len(t)
    BY Concatenated
  <1>2. (s \o t) \o u \in Seq(RomBytes) /\ Len((s \o t) \o u) = Len(s \o t) + Len(u)
    BY <1>1, Concatenated
  <1>3. QED
    BY <1>1, <1>2

(* The PSI's acknowledgement comes last. *)
LEMMA PsiAcked ==
    ASSUME NEW s \in Seq(RomBytes)
    PROVE  PsiEnds(s \o Hsic!Ack("psi")) /\ Len(s \o Hsic!Ack("psi")) = Len(s) + 2
  <1> DEFINE t == Hsic!Ack("psi")
             u == s \o t
  <1>1. /\ t \in Seq(PsiBytes) /\ Len(t) = 2
        /\ t[1] = <<"psi", "low">> /\ t[2] = <<"psi", "high">>
    BY DEF Hsic!Ack, PsiBytes
  <1>2. s \in Seq(PsiBytes) /\ Len(s) \in Nat /\ \A k \in 1..Len(s) : s[k] \in RomBytes
    BY DEF PsiBytes
  <1> HIDE DEF t
  <1>3. /\ u \in Seq(PsiBytes) /\ Len(u) = Len(s) + Len(t)
        /\ \A k \in 1..Len(s) : u[k] = s[k]
        /\ \A k \in (Len(s) + 1)..(Len(s) + Len(t)) : u[k] = t[k - Len(s)]
    BY <1>1, <1>2, Concatenated
  <1> HIDE DEF u
  <1>4. /\ Len(u) = Len(s) + 2 /\ Len(u) >= 2 /\ Len(u) - 1 = Len(s) + 1 /\ Len(u) - 2 = Len(s)
        /\ Len(s) + 1 \in (Len(s) + 1)..(Len(s) + 2) /\ Len(s) + 2 \in (Len(s) + 1)..(Len(s) + 2)
        /\ (Len(s) + 1) - Len(s) = 1 /\ (Len(s) + 2) - Len(s) = 2
    BY <1>1, <1>2, <1>3
  <1>5. u[Len(u) - 1] = t[1] /\ u[Len(u)] = t[2]
    BY <1>1, <1>3, <1>4
  <1>6. \A k \in 1..(Len(u) - 2) : u[k] \in RomBytes
    BY <1>2, <1>3, <1>4
  <1>7. QED
    BY <1>1, <1>3, <1>4, <1>5, <1>6 DEF PsiEnds, t, u

(* The ROM takes a probe, the header or a part of the PSI. *)
LEMMA HsicRomTakes ==
    ASSUME HsicInv, device' = device, Hsic!RomProbe \/ Hsic!RomPsiHeader \/ Hsic!RomPsi
    PROVE  HsicInv'
  <1>1. /\ UNCHANGED <<pc, n, todo, address, flash, sec, faulted>>
        /\ tx # <<>> /\ tx' = Tail(tx)
        /\ \/ /\ stage = "rom" /\ stage' = "rom" /\ Head(tx) = "at"
              /\ rx' = rx \o Hsic!Bytes("boot_ack", 1) \o Hsic!Bytes("chip_id", 1)
              /\ got' = 1 /\ stale' = stale + got
           \/ stage = "rom" /\ stage' = "rom" /\ Head(tx) = "at" /\ UNCHANGED <<rx, got, stale>>
           \/ /\ stage = "rom" /\ stage' = "rom_psi" /\ Head(tx) = "psi_header" /\ got' = 0
              /\ UNCHANGED <<rx, stale>>
           \/ /\ stage = "rom_psi" /\ stage' = "rom_psi" /\ Head(tx) = "psi" /\ got' = got + 1
              /\ UNCHANGED <<rx, stale>>
    <2>1. CASE Hsic!RomProbe
      BY <2>1 DEF Hsic!RomProbe, Hsic!Receive, Hsic!host
    <2>2. CASE Hsic!RomPsiHeader
      BY <2>2 DEF Hsic!RomPsiHeader, Hsic!Receive, Hsic!host
    <2>3. CASE Hsic!RomPsi
      BY <2>3 DEF Hsic!RomPsi, Hsic!Receive, Hsic!host
    <2>4. QED
      BY <2>1, <2>2, <2>3
  <1>2. /\ tx' \in Seq(HsicLoads \cup Orders) /\ Head(tx) = tx[1] /\ 1 \in 1..Len(tx)
        /\ \A k \in 1..Len(tx') : /\ k + 1 \in 1..Len(tx) /\ tx'[k] = tx[k + 1]
                                  /\ k + 1 = Len(tx) => k = Len(tx')
    BY <1>1, HsicTakesOff
  <1>3. n \in Nat /\ got \in Nat /\ stale \in Nat /\ stale + got \in Nat /\ stale + got >= stale
    BY DEF HsicInv, HsicTypes
  <1>4. pc \notin HsicFlashing /\ pc \notin HsicEbl
    BY <1>1 DEF HsicInv, HsicProgress, HsicLoading, HsicEbl
  <1>5. HsicTypes'
    BY <1>1, <1>2, <1>3 DEF HsicInv, HsicTypes
  <1>6. HsicAlways'
    <2>1. stage \notin {"ebl", "firmware"} /\ stage' \notin {"ebl", "firmware"}
      BY <1>1
    <2>2. stale' \in Nat /\ stale' >= stale
      BY <1>1, <1>3
    <2>3. QED
      BY <1>1, <2>1, <2>2, HsicLoaderAlways
  <1>7. HsicLoading'
    BY <1>1, <1>4 DEF HsicLoading, HsicEbl
  <1>8. CASE pc \in HsicEarly
    <2>1. pc \in HsicProbing \/ pc \in HsicSending \/ pc \in HsicReading
      BY <1>8 DEF HsicEarly
    <2>2. /\ Len(rx) + BytesRead = BytesSent
          /\ stage = "rom" => got \in {0, 1} /\ (got = 0 => stale = 0)
          /\ pc = "psi_unknown" => n < Unknown
          /\ pc = "psi_crc_ack" => n < CrcAcks
          /\ pc = "psi_ack" => n < AckMax
      BY <1>8 DEF HsicInv, HsicCounts
    <2>3. rx \in Seq(RomBytes) /\ Len(rx) \in Nat
      BY <1>1, <1>8 DEF HsicInv, HsicBytes
    <2>4. /\ pc \in HsicProbing => stage = "rom" /\ \A k \in 1..Len(tx) : tx[k] = "at"
          /\ pc \in HsicSending => \A k \in 1..Len(tx) : tx[k] \in {"at", "psi_header", "psi"}
          /\ pc \in HsicReading =>
                \A k \in 1..Len(tx) :
                   tx[k] \in {"at", "psi_header", "psi"} \/ (tx[k] = "psi_crc" /\ k = Len(tx))
      BY <1>1 DEF HsicInv, HsicStages
    <2>5. HsicStages'
      <3>1. pc \in HsicProbing => stage' = "rom" /\ \A k \in 1..Len(tx') : tx'[k] = "at"
        BY <1>1, <1>2, <2>4
      <3>2. pc \in HsicSending => \A k \in 1..Len(tx') : tx'[k] \in {"at", "psi_header", "psi"}
        BY <1>2, <2>4
      <3>3. pc \in HsicReading =>
               \A k \in 1..Len(tx') :
                  tx'[k] \in {"at", "psi_header", "psi"} \/ (tx'[k] = "psi_crc" /\ k = Len(tx'))
        BY <1>2, <2>4
      <3>4. pc' = pc /\ stage' \in {"rom", "rom_psi"}
        BY <1>1
      <3>5. QED
        BY <3>1, <3>2, <3>3, <3>4 DEF HsicStages
    <2>6. BytesRead' = BytesRead
      BY <1>1 DEF BytesRead
    <2>7. CASE /\ stage = "rom" /\ stage' = "rom" /\ got' = 1 /\ stale' = stale + got
               /\ rx' = rx \o Hsic!Bytes("boot_ack", 1) \o Hsic!Bytes("chip_id", 1)
      <3>1. rx' \in Seq(RomBytes) /\ Len(rx') = Len(rx) + 1 + 1
        <4>1. /\ Hsic!Bytes("boot_ack", 1) \in Seq(RomBytes) /\ Len(Hsic!Bytes("boot_ack", 1)) = 1
              /\ Hsic!Bytes("chip_id", 1) \in Seq(RomBytes) /\ Len(Hsic!Bytes("chip_id", 1)) = 1
          BY RomBytesAre
        <4> DEFINE b == Hsic!Bytes("boot_ack", 1)
                   c == Hsic!Bytes("chip_id", 1)
        <4> HIDE DEF b, c
        <4>2. rx \o b \o c \in Seq(RomBytes) /\ Len(rx \o b \o c) = Len(rx) + Len(b) + Len(c)
          BY <2>3, <4>1, RomAdds DEF b, c
        <4>3. rx' = rx \o b \o c /\ Len(b) = 1 /\ Len(c) = 1
          BY <2>7, <4>1 DEF b, c
        <4>4. QED
          BY <4>2, <4>3
      <3>2. BytesSent' = 2 * ((stale + got) + 1) /\ BytesSent = 2 * (stale + got)
        BY <2>7 DEF BytesSent
      <3>3. Len(rx') + BytesRead' = BytesSent'
        <4>1. \A l, r, q \in Int : l + r = 2 * q => (l + 1 + 1) + r = 2 * (q + 1)
          OBVIOUS
        <4>2. BytesRead \in Int
          <5>1. Unknown \in Nat /\ CrcAcks \in Nat
            BY HsicConstants
          <5>2. QED
            BY <1>3, <5>1 DEF BytesRead
        <4>3. QED
          BY <1>3, <2>2, <2>3, <2>6, <3>1, <3>2, <4>1, <4>2
      <3>4. HsicCounts'
        BY <1>1, <2>2, <2>7, <3>3 DEF HsicCounts
      <3>5. HsicBytes'
        BY <2>7, <3>1 DEF HsicBytes
      <3>6. QED
        BY <1>1, <1>4, <1>5, <1>6, <1>7, <2>5, <3>4, <3>5, HsicStill DEF HsicInv
    <2>8. CASE stage = "rom" /\ stage' = "rom" /\ UNCHANGED <<rx, got, stale>>
      <3>1. HsicCounts' /\ HsicBytes'
        BY <1>1, <2>2, <2>3, <2>6, <2>8 DEF HsicCounts, HsicBytes, BytesSent
      <3>2. QED
        BY <1>1, <1>4, <1>5, <1>6, <1>7, <2>5, <3>1, HsicStill DEF HsicInv
    <2>9. CASE /\ stage = "rom" /\ stage' = "rom_psi" /\ Head(tx) = "psi_header"
               /\ UNCHANGED <<rx, stale>>
      <3>1. pc \notin HsicProbing
        BY <1>2, <2>4, <2>9
      <3>2. BytesRead \in Nat /\ BytesRead >= 2
        <4>1. Unknown \in Nat /\ CrcAcks \in Nat
          BY HsicConstants
        <4>2. QED
          BY <1>3, <2>1, <3>1, <4>1 DEF BytesRead, HsicProbing
      <3>3. got = 1
        <4>1. Len(rx) + BytesRead = 2 * (stale + got)
          BY <2>2, <2>9 DEF BytesSent
        <4>2. ASSUME got = 0 PROVE FALSE
          <5>1. stale = 0
            BY <2>2, <2>9, <4>2
          <5>2. Len(rx) + BytesRead = 0
            BY <4>1, <4>2, <5>1
          <5>3. QED
            BY <2>3, <3>2, <5>2
        <4>3. QED
          BY <2>2, <2>9, <4>2
      <3>4. BytesSent' = BytesSent
        BY <2>9, <3>3 DEF BytesSent
      <3>5. HsicCounts' /\ HsicBytes'
        BY <1>1, <2>2, <2>3, <2>6, <2>9, <3>4 DEF HsicCounts, HsicBytes
      <3>6. QED
        BY <1>1, <1>4, <1>5, <1>6, <1>7, <2>5, <3>5, HsicStill DEF HsicInv
    <2>10. CASE stage = "rom_psi" /\ stage' = "rom_psi" /\ UNCHANGED <<rx, stale>>
      <3>1. HsicCounts' /\ HsicBytes'
        BY <1>1, <2>2, <2>3, <2>6, <2>10 DEF HsicCounts, HsicBytes, BytesSent
      <3>2. QED
        BY <1>1, <1>4, <1>5, <1>6, <1>7, <2>5, <3>1, HsicStill DEF HsicInv
    <2>11. QED
      BY <1>1, <2>7, <2>8, <2>9, <2>10
  <1>9. CASE pc \notin HsicEarly
    <2>1. HsicCounts' /\ HsicStages' /\ HsicBytes'
      BY <1>1, <1>9 DEF HsicCounts, HsicStages, HsicBytes, HsicEarly
    <2>2. QED
      BY <1>1, <1>4, <1>5, <1>6, <1>7, <2>1, HsicStill DEF HsicInv
  <1>10. QED
    BY <1>8, <1>9

(* What is sent when the PSI starts, counted. *)
LEMMA RomSum ==
    ASSUME NEW l \in Int, NEW r \in Int, NEW a \in Int, NEW u \in Int, NEW c \in Int, l + r = a
    PROVE  (((l + u) + c) + 2) + r = ((a + u) + c) + 2
  OBVIOUS

(* The ROM starts the PSI. *)
LEMMA HsicPsiStarts ==
    ASSUME HsicInv, device' = device, Hsic!RomPsiCrc
    PROVE  HsicInv'
  <1>1. /\ UNCHANGED <<pc, n, todo, address, flash, sec, stale, faulted>>
        /\ tx # <<>> /\ tx' = Tail(tx) /\ Head(tx) = "psi_crc"
        /\ stage = "rom_psi" /\ stage' = "psi" /\ got' = 0
        /\ rx' = rx \o Hsic!Bytes("unknown", Unknown) \o Hsic!Bytes("crc_ack", CrcAcks)
                    \o Hsic!Ack("psi")
    BY DEF Hsic!RomPsiCrc, Hsic!Receive, Hsic!host
  <1>2. /\ tx' \in Seq(HsicLoads \cup Orders) /\ Head(tx) = tx[1] /\ 1 \in 1..Len(tx)
        /\ Len(tx) = 1 => tx' = <<>>
    BY <1>1, HsicTakesOff
  <1>3. n \in Nat /\ got \in Nat /\ stale \in Nat /\ stale >= stale
    BY DEF HsicInv, HsicTypes
  <1>4. pc \notin HsicFlashing /\ pc \notin HsicEbl
    BY <1>1 DEF HsicInv, HsicProgress, HsicLoading, HsicEbl
  <1>5. HsicTypes'
    BY <1>1, <1>2 DEF HsicInv, HsicTypes
  <1>6. HsicAlways'
    <2>1. stage \notin {"ebl", "firmware"} /\ stage' \notin {"ebl", "firmware"}
      BY <1>1
    <2>2. QED
      BY <1>1, <1>3, <2>1, HsicLoaderAlways
  <1>7. HsicLoading'
    BY <1>1, <1>4 DEF HsicLoading, HsicEbl
  <1>8. CASE pc \in HsicEarly
    <2>1. pc \in HsicProbing \/ pc \in HsicSending \/ pc \in HsicReading
      BY <1>8 DEF HsicEarly
    <2>2. pc \in HsicReading /\ Len(tx) = 1
      <3>1. pc \notin HsicProbing /\ pc \notin HsicSending
        BY <1>1, <1>2 DEF HsicInv, HsicStages
      <3>2. 1 = Len(tx)
        BY <1>1, <1>2, <2>1, <3>1 DEF HsicInv, HsicStages
      <3>3. QED
        BY <2>1, <3>1, <3>2
    <2>3. HsicStages'
      <3>1. pc' \notin HsicProbing /\ pc' \notin HsicSending
        BY <1>1, <2>2 DEF HsicProbing, HsicSending, HsicReading
      <3>2. QED
        BY <1>1, <1>2, <2>2, <3>1 DEF HsicStages
    <2>4. rx \in Seq(RomBytes) /\ Len(rx) \in Nat
      BY <1>1, <1>8 DEF HsicInv, HsicBytes
    <2>5. Unknown \in Nat /\ CrcAcks \in Nat
      BY HsicConstants
    <2>6. PsiEnds(rx') /\ Len(rx') = ((Len(rx) + Unknown) + CrcAcks) + 2
      <3> DEFINE u == Hsic!Bytes("unknown", Unknown)
                 c == Hsic!Bytes("crc_ack", CrcAcks)
                 s == rx \o u \o c
      <3>1. /\ u \in Seq(RomBytes) /\ Len(u) = Unknown
            /\ c \in Seq(RomBytes) /\ Len(c) = CrcAcks
        BY <2>5, RomBytesAre
      <3>0. rx' = s \o Hsic!Ack("psi")
        BY <1>1
      <3> HIDE DEF u, c
      <3>2. s \in Seq(RomBytes) /\ Len(s) = Len(rx) + Len(u) + Len(c)
        BY <2>4, <3>1, RomAdds
      <3> HIDE DEF s
      <3>3. PsiEnds(s \o Hsic!Ack("psi")) /\ Len(s \o Hsic!Ack("psi")) = Len(s) + 2
        BY <3>2, PsiAcked
      <3>4. Len(s) = (Len(rx) + Unknown) + CrcAcks
        BY <2>4, <2>5, <3>1, <3>2
      <3>5. QED
        BY <3>0, <3>3, <3>4
    <2>7. HsicBytes'
      BY <1>1, <2>6 DEF HsicBytes
    <2>8. HsicCounts'
      <3>1. Len(rx) + BytesRead = 2 * (stale + 1)
        BY <1>1, <1>8 DEF HsicInv, HsicCounts, BytesSent
      <3>2. BytesRead' = BytesRead
        BY <1>1 DEF BytesRead
      <3>3. BytesRead \in Int
        BY <1>3, <2>5 DEF BytesRead
      <3>4. BytesSent' = ((2 * (stale + 1) + Unknown) + CrcAcks) + 2
        BY <1>1 DEF BytesSent
      <3>5. Len(rx') + BytesRead' = BytesSent'
        <4>1. 2 * (stale + 1) \in Int
          BY <1>3
        <4>2. (((Len(rx) + Unknown) + CrcAcks) + 2) + BytesRead = ((2 * (stale + 1) + Unknown) + CrcAcks) + 2
          BY <2>4, <2>5, <3>1, <3>3, <4>1, RomSum
        <4>3. QED
          BY <2>6, <3>2, <3>4, <4>2
      <3>6. /\ pc = "psi_unknown" => n < Unknown
            /\ pc = "psi_crc_ack" => n < CrcAcks
            /\ pc = "psi_ack" => n < AckMax
        BY <1>8 DEF HsicInv, HsicCounts
      <3>7. QED
        BY <1>1, <3>5, <3>6 DEF HsicCounts
    <2>9. QED
      BY <1>1, <1>4, <1>5, <1>6, <1>7, <2>3, <2>7, <2>8, HsicStill DEF HsicInv
  <1>9. CASE pc \notin HsicEarly
    <2>1. HsicCounts' /\ HsicStages' /\ HsicBytes'
      BY <1>1, <1>9 DEF HsicCounts, HsicStages, HsicBytes, HsicEarly
    <2>2. QED
      BY <1>1, <1>4, <1>5, <1>6, <1>7, <2>1, HsicStill DEF HsicInv
  <1>10. QED
    BY <1>8, <1>9

(* The PSI takes the EBL. *)
LEMMA HsicPsiTakes ==
    ASSUME HsicInv, device' = device, Hsic!PsiEblSize \/ Hsic!PsiEbl \/ Hsic!PsiEblCrc
    PROVE  HsicInv'
  <1>1. /\ UNCHANGED <<pc, n, todo, address, flash, sec, stale, faulted>>
        /\ tx # <<>> /\ tx' = Tail(tx)
        /\ \/ /\ stage = "psi" /\ stage' = "psi_ebl" /\ Head(tx) = "ebl_size" /\ got' = got
              /\ rx' = rx \o Hsic!Ack("ebl_size")
           \/ /\ stage = "psi_ebl" /\ stage' = "psi_ebl" /\ Head(tx) = "ebl" /\ got' = got + 1
              /\ rx' = rx
           \/ /\ stage = "psi_ebl" /\ stage' = "ebl" /\ Head(tx) = "ebl_crc" /\ got' = 0
              /\ rx' = rx \o Hsic!Ack("ebl") \o Hsic!Bytes("port_config", 1)
    <2>1. CASE Hsic!PsiEblSize
      BY <2>1 DEF Hsic!PsiEblSize, Hsic!Receive, Hsic!host
    <2>2. CASE Hsic!PsiEbl
      BY <2>2 DEF Hsic!PsiEbl, Hsic!Receive, Hsic!host
    <2>3. CASE Hsic!PsiEblCrc
      BY <2>3 DEF Hsic!PsiEblCrc, Hsic!Receive, Hsic!host
    <2>4. QED
      BY <2>1, <2>2, <2>3
  <1>2. /\ tx' \in Seq(HsicLoads \cup Orders) /\ Head(tx) = tx[1] /\ 1 \in 1..Len(tx)
        /\ \A k \in 1..Len(tx') : /\ k + 1 \in 1..Len(tx) /\ tx'[k] = tx[k + 1]
                                  /\ k + 1 = Len(tx) => k = Len(tx')
        /\ Len(tx) = 1 => tx' = <<>>
    BY <1>1, HsicTakesOff
  <1>3. n \in Nat /\ got \in Nat /\ got + 1 \in Nat /\ stale \in Nat /\ stale >= stale
    BY DEF HsicInv, HsicTypes
  <1>4. pc \notin HsicFlashing
    BY <1>1 DEF HsicInv, HsicProgress
  <1>5. pc \notin HsicEarly
    BY <1>1, <1>2 DEF HsicInv, HsicStages, HsicEarly
  <1>6. HsicTypes'
    BY <1>1, <1>2, <1>3 DEF HsicInv, HsicTypes
  <1>7. stage' = "ebl" => tx' = <<>>
    <2>1. stage = "psi_ebl" => \A k \in 1..Len(tx) : tx[k] = "ebl_crc" => k = Len(tx)
      BY DEF HsicInv, HsicAlways
    <2>2. QED
      BY <1>1, <1>2, <2>1
  <1>8. HsicAlways'
    <2>1. CASE stage' # "ebl"
      <3>1. stage \notin {"ebl", "firmware"} /\ stage' \notin {"ebl", "firmware"}
        BY <1>1, <2>1
      <3>2. QED
        BY <1>1, <1>3, <3>1, HsicLoaderAlways
    <2>2. CASE stage' = "ebl"
      BY <1>1, <1>7, <2>2 DEF HsicInv, HsicAlways, Hsic!LateRepliesHarmless
    <2>3. QED
      BY <2>1, <2>2
  <1>9. HsicCounts' /\ HsicStages' /\ HsicBytes'
    BY <1>1, <1>5 DEF HsicCounts, HsicStages, HsicBytes, HsicEarly
  <1>10. HsicLoading'
    <2>1. CASE stage = "psi"
      <3>1. pc \in HsicEbl => pc = "ebl_size_ack" /\ tx = <<"ebl_size">> /\ rx = <<>>
        BY <1>1, <2>1 DEF HsicInv, HsicLoading, HsicEbl
      <3>2. Hsic!Ack("ebl_size") \in Seq(EblBytes)
        BY DEF Hsic!Ack, EblBytes
      <3>3. <<>> \o Hsic!Ack("ebl_size") = Hsic!Ack("ebl_size")
        BY <3>2, NothingAdded
      <3>4. pc \in HsicEbl => tx' = <<>> /\ rx' = Hsic!Ack("ebl_size") /\ stage' = "psi_ebl"
        BY <1>1, <1>2, <2>1, <3>1, <3>3, OneWord
      <3>5. QED
        BY <1>1, <3>1, <3>4 DEF HsicLoading, HsicEbl
    <2>2. CASE stage = "psi_ebl" /\ stage' = "psi_ebl"
      <3>1. /\ pc \in HsicEbl => pc \in {"ebl", "ebl_crc", "ebl_ack"} /\ rx = <<>>
            /\ pc \in {"ebl", "ebl_crc"} => \A k \in 1..Len(tx) : tx[k] = "ebl"
            /\ pc = "ebl_ack" => \A k \in 1..Len(tx) : tx[k] = "ebl" \/ (tx[k] = "ebl_crc" /\ k = Len(tx))
        BY <1>1, <2>2 DEF HsicInv, HsicLoading, HsicEbl
      <3>2. /\ pc \in {"ebl", "ebl_crc"} => \A k \in 1..Len(tx') : tx'[k] = "ebl"
            /\ pc = "ebl_ack" => \A k \in 1..Len(tx') : tx'[k] = "ebl" \/ (tx'[k] = "ebl_crc" /\ k = Len(tx'))
        BY <1>2, <3>1
      <3>3. rx' = rx
        BY <1>1, <2>2
      <3>4. QED
        BY <1>1, <2>2, <3>1, <3>2, <3>3 DEF HsicLoading, HsicEbl
    <2>3. CASE stage = "psi_ebl" /\ stage' = "ebl"
      <3>1. pc \in HsicEbl => pc = "ebl_ack" /\ rx = <<>>
        BY <1>1, <1>2, <2>3 DEF HsicInv, HsicLoading, HsicEbl
      <3>2. Hsic!Ack("ebl") \in Seq(EblBytes)
        BY DEF Hsic!Ack, EblBytes
      <3>3. <<>> \o Hsic!Ack("ebl") = Hsic!Ack("ebl")
        BY <3>2, NothingAdded
      <3>4. pc \in HsicEbl => rx' = EblReady
        BY <1>1, <2>3, <3>1, <3>3 DEF EblReady
      <3>5. QED
        BY <1>1, <1>7, <2>3, <3>1, <3>4 DEF HsicLoading, HsicEbl
    <2>4. QED
      BY <1>1, <2>1, <2>2, <2>3
  <1>11. QED
    BY <1>1, <1>4, <1>6, <1>8, <1>9, <1>10, HsicStill DEF HsicInv

(* A command taken, counted. *)
LEMMA Advanced ==
    ASSUME NEW w \in Nat, NEW l \in Nat, l >= 1, w - l \in Nat
    PROVE  /\ w - (l - 1) = (w - l) + 1 /\ (w - l) + 1 \in Nat /\ (w - l) + 1 \in 1..w
           /\ (l = 1 <=> (w - l) + 1 = w)
  OBVIOUS

(* The EBL carries out a command. *)
LEMMA HsicEblTakes ==
    ASSUME HsicInv, device' = device, Hsic!EblCommand
    PROVE  HsicInv'
  <1> DEFINE c == Head(tx)
  <1>1. /\ UNCHANGED <<pc, n, todo, got, stale, faulted>>
        /\ tx # <<>> /\ tx' = Tail(tx) /\ stage = "ebl"
        /\ rx' = IF c.code \in Hsic!Replies THEN rx \o Hsic!Reply(c.code) ELSE rx
        /\ stage' = IF c.code = "hw_reset" THEN "firmware" ELSE "ebl"
    BY DEF Hsic!EblCommand, Hsic!host
  <1>2. MipiHandles(c, flash, sec, address, flash', sec', address')
    BY DEF Hsic!EblCommand, MipiHandles
  <1>3. /\ tx' \in Seq(HsicLoads \cup Orders) /\ Len(tx) \in Nat /\ Len(tx') = Len(tx) - 1
        /\ c = tx[1] /\ 1 \in 1..Len(tx)
        /\ \A k \in 1..Len(tx') : k + 1 \in 1..Len(tx) /\ tx'[k] = tx[k + 1]
        /\ Len(tx) = 1 => tx' = <<>>
    BY <1>1, HsicTakesOff
  <1> HIDE DEF c
  <1>4. \A k \in 1..Len(tx) :
           \E j \in 1..HsicLast : tx[k] = Hsic!Commands[j] /\ (j = HsicLast => pc = "done")
    BY <1>1 DEF HsicInv, HsicAlways
  <1>5. c.code = "hw_reset" => pc = "done"
    <2>1. PICK j \in 1..HsicLast : tx[1] = Hsic!Commands[j] /\ (j = HsicLast => pc = "done")
      BY <1>3, <1>4
    <2>2. Hsic!Commands[j].code = "hw_reset" <=> j = HsicLast
      BY HsicAcks
    <2>3. QED
      BY <1>3, <2>1, <2>2
  <1>6. HsicTypes'
    BY <1>1, <1>3 DEF HsicInv, HsicTypes
  <1>7. HsicAlways'
    <2>1. \A k \in 1..Len(tx') :
             \E j \in 1..HsicLast : tx'[k] = Hsic!Commands[j] /\ (j = HsicLast => pc' = "done")
      BY <1>1, <1>3, <1>4
    <2>2. stage' = "firmware" => pc' = "done"
      BY <1>1, <1>5
    <2>3. stage' \in {"ebl", "firmware"}
      BY <1>1
    <2>4. QED
      BY <1>1, <2>1, <2>2, <2>3 DEF HsicInv, HsicAlways, Hsic!LateRepliesHarmless
  <1>8. pc \notin HsicEarly \cup HsicEbl
    BY <1>1 DEF HsicInv, HsicStages, HsicLoading, HsicEarly, HsicEbl
  <1>9. HsicCounts' /\ HsicStages' /\ HsicBytes' /\ HsicLoading'
    BY <1>1, <1>8 DEF HsicCounts, HsicStages, HsicBytes, HsicLoading, HsicEarly, HsicEbl
  <1>10. HsicTodo'
    BY <1>1 DEF HsicInv, HsicTodo, HsicSent
  <1>11. CASE pc \notin HsicFlashing
    <2>1. HsicProgress' /\ HsicReplies'
      BY <1>1, <1>8, <1>11 DEF HsicProgress, HsicReplies, HsicFlashing
    <2>2. QED
      BY <1>6, <1>7, <1>9, <1>10, <2>1 DEF HsicInv, OnHsic
  <1>12. CASE pc \in HsicFlashing
    <2>1. /\ HsicTaken \in Nat /\ HsicAfter(HsicTaken)
          /\ \A k \in 1..Len(tx) : tx[k] = Hsic!Commands[HsicTaken + k]
      BY <1>12 DEF HsicInv, HsicProgress
    <2>2. HsicLast \in Nat /\ HsicSent \in Nat /\ HsicWritten \in Nat /\ HsicWritten <= HsicLast
      <3>1. HsicTodo /\ Len(todo) \in 0..HsicLast /\ HsicLast \in Nat
        BY HsicLastIs DEF HsicInv, HsicTodo
      <3>2. HsicLast - Len(todo) \in Nat /\ HsicLast - Len(todo) <= HsicLast
        BY <3>1
      <3>3. CASE pc \in {"reply_header", "reply_data"}
        <4>1. Len(todo) > 0
          BY <3>1, <3>3 DEF HsicTodo, HsicFlashing
        <4>2. (HsicLast - Len(todo)) + 1 \in 1..HsicLast
          BY <3>1, <4>1, Remaining
        <4>3. QED
          BY <3>1, <3>2, <3>3, <4>2 DEF HsicWritten, HsicSent
      <3>4. CASE pc \notin {"reply_header", "reply_data"}
        BY <3>1, <3>2, <3>4 DEF HsicWritten, HsicSent
      <3>5. QED
        BY <3>3, <3>4
    <2> DEFINE t == HsicTaken
    <2>3. /\ HsicTaken' = t + 1 /\ t + 1 \in Nat /\ t + 1 \in 1..HsicWritten
          /\ (Len(tx) = 1 <=> t + 1 = HsicWritten)
      <3>1. HsicWritten' = HsicWritten
        BY <1>1 DEF HsicWritten, HsicSent
      <3>2. HsicWritten - Len(tx) \in Nat /\ Len(tx) >= 1
        BY <1>3, <2>1 DEF HsicTaken
      <3>3. /\ HsicWritten - (Len(tx) - 1) = (HsicWritten - Len(tx)) + 1
            /\ (HsicWritten - Len(tx)) + 1 \in Nat /\ (HsicWritten - Len(tx)) + 1 \in 1..HsicWritten
            /\ (Len(tx) = 1 <=> (HsicWritten - Len(tx)) + 1 = HsicWritten)
        BY <1>3, <2>2, <3>2, Advanced
      <3>4. QED
        BY <1>3, <3>1, <3>3 DEF HsicTaken
    <2>4. t \in Nat /\ HsicAfter(t) /\ \A k \in 1..Len(tx) : tx[k] = Hsic!Commands[t + k]
      BY <2>1
    <2> HIDE DEF t
    <2>5. c = Hsic!Commands[t + 1] /\ t + 1 \in 1..HsicLast
      <3>1. t + 1 \in 1..HsicLast
        BY <2>2, <2>3
      <3>2. QED
        BY <1>3, <2>4, <3>1
    <2>6. HsicState(t + 1, flash', sec', address')
      <3>1. CASE t + 1 = HsicLast
        <4>1. c.code = "hw_reset"
          BY <2>5, <3>1, HsicFields
        <4>2. UNCHANGED <<flash, sec, address>>
          BY <1>2, <4>1 DEF MipiHandles
        <4>3. t = HsicLast - 1
          BY <2>4, <3>1
        <4>4. HsicAfter(HsicLast)
          BY <2>4, <4>3, HsicResets
        <4>5. QED
          BY <3>1, <4>2, <4>4 DEF HsicAfter
      <3>2. CASE t + 1 # HsicLast
        <4>1. t \in 0..(HsicLast - 2)
          BY <2>2, <2>4, <2>5, <3>2
        <4>2. HsicState(t, flash, sec, address)
          BY <2>4 DEF HsicAfter
        <4>3. MipiHandles(Hsic!Commands[t + 1], flash, sec, address, flash', sec', address')
          BY <1>2, <2>5
        <4>4. HsicState(t + 1, flash', sec', address')
          BY <4>1, <4>2, <4>3, HsicApplies
        <4>5. QED
          BY <4>4
      <3>3. QED
        BY <3>1, <3>2
    <2>7. HsicProgress'
      <3>1. \A k \in 1..Len(tx') : tx'[k] = Hsic!Commands[(t + 1) + k]
        <4>1. \A k \in 1..Len(tx') : t + (k + 1) = (t + 1) + k
          BY <2>4
        <4>2. QED
          BY <1>3, <2>4, <4>1
      <3>2. stage' = "ebl" \/ (stage' = "firmware" /\ pc' = "done")
        BY <1>1, <1>5
      <3>3. pc' \notin HsicEarly \cup HsicEbl
        BY <1>1, <1>8
      <3>4. HsicAfter(HsicTaken)'
        BY <2>3, <2>6 DEF HsicAfter
      <3>5. QED
        BY <2>3, <3>1, <3>2, <3>3, <3>4 DEF HsicProgress
    <2>8. HsicReplies'
      <3>1. CASE pc = "command"
        <4>1. rx = <<>> /\ \A k \in 1..Len(tx) : tx[k].code \notin Hsic!Replies
          BY <3>1 DEF HsicInv, HsicReplies, Unanswered
        <4>2. rx' = <<>>
          BY <1>1, <1>3, <4>1
        <4>3. \A k \in 1..Len(tx') : tx'[k].code \notin Hsic!Replies
          BY <1>3, <4>1
        <4>4. QED
          BY <1>1, <3>1, <4>2, <4>3 DEF HsicReplies, Unanswered
      <3>2. CASE pc = "reply_header"
        <4>1. rx = <<>> /\ \A k \in 1..Len(tx) : k < Len(tx) => tx[k].code \notin Hsic!Replies
          BY <1>1, <3>2 DEF HsicInv, HsicReplies, Unanswered
        <4>2. CASE Len(tx) = 1
          <5>1. HsicTodo /\ Len(todo) > 0 /\ Head(todo).ack
            BY <3>2 DEF HsicInv, HsicTodo, HsicFlashing
          <5>2. /\ Head(todo) = Hsic!Commands[HsicSent + 1]
                /\ Head(todo).ack <=> Head(todo).code \in Hsic!Replies
            BY <5>1, HsicHead
          <5>3. t + 1 = HsicSent + 1
            BY <2>3, <3>2, <4>2 DEF HsicWritten
          <5>4. c = Head(todo) /\ c.code \in Hsic!Replies
            BY <2>5, <5>1, <5>2, <5>3
          <5>5. rx' = <<>> \o Hsic!Reply(Head(todo).code)
            BY <1>1, <4>1, <5>4
          <5>6. <<>> \o Hsic!Reply(Head(todo).code) = Hsic!Reply(Head(todo).code)
            <6> DEFINE d == Head(todo).code
            <6>1. Hsic!Reply(d) \in Seq({<<d, "header">>, <<d, "data">>})
              BY DEF Hsic!Reply
            <6>2. QED
              BY <6>1, NothingAdded
          <5>7. tx' = <<>>
            BY <1>3, <4>2
          <5>8. rx' = Hsic!Reply(Head(todo').code) /\ pc' = "reply_header" /\ Len(tx') = 0
            BY <1>1, <3>2, <5>5, <5>6, <5>7
          <5>9. QED
            BY <5>7, <5>8 DEF HsicReplies
        <4>3. CASE Len(tx) # 1
          <5>1. 1 < Len(tx)
            BY <1>3, <4>3
          <5>2. rx' = <<>>
            BY <1>1, <1>3, <4>1, <5>1
          <5>3. \A k \in 1..Len(tx') : k < Len(tx') => k + 1 < Len(tx)
            <6>1. Len(tx) \in Nat /\ Len(tx') = Len(tx) - 1
              BY <1>3
            <6>2. \A m \in Nat : \A k \in 1..(m - 1) : k < m - 1 => k + 1 < m
              OBVIOUS
            <6>3. QED
              BY <6>1, <6>2
          <5>4. \A k \in 1..Len(tx') : k < Len(tx') => tx'[k].code \notin Hsic!Replies
            BY <1>3, <4>1, <5>3
          <5>5. tx' # <<>>
            BY <1>3, <5>1
          <5>6. QED
            BY <1>1, <3>2, <5>2, <5>4, <5>5 DEF HsicReplies, Unanswered
        <4>4. QED
          BY <4>2, <4>3
      <3>3. CASE pc = "reply_data"
        BY <1>1, <3>3 DEF HsicInv, HsicReplies
      <3>4. CASE pc = "done"
        <4>1. rx = <<>> /\ Len(tx) = 1
          BY <1>3, <3>4 DEF HsicInv, HsicReplies
        <4>2. t + 1 = HsicLast
          <5>1. Len(todo) = 0
            BY <3>4 DEF HsicInv, HsicTodo
          <5>2. HsicWritten = HsicLast
            BY <2>2, <3>4, <5>1 DEF HsicWritten, HsicSent
          <5>3. QED
            BY <2>3, <4>1, <5>2
        <4>3. c.code = "hw_reset"
          BY <2>5, <4>2, HsicFields
        <4>4. rx' = <<>>
          BY <1>1, <4>1, <4>3 DEF Hsic!Replies
        <4>5. Len(tx') <= 1
          BY <1>3, <4>1
        <4>6. QED
          BY <1>1, <3>4, <4>4, <4>5 DEF HsicReplies
      <3>5. QED
        BY <1>12, <3>1, <3>2, <3>3, <3>4 DEF HsicFlashing
    <2>9. QED
      BY <1>6, <1>7, <1>9, <1>10, <2>7, <2>8 DEF HsicInv, OnHsic
  <1>13. QED
    BY <1>11, <1>12

(* Every step of host and modem keeps the invariant. *)
LEMMA HsicNext ==
    ASSUME HsicInv, device' = device, Hsic!Next
    PROVE  HsicInv'
  <1>1. CASE Hsic!Host
    <2>1. CASE Hsic!AtWrite \/ Hsic!PsiHeader \/ Hsic!PsiData \/ Hsic!PsiCrc
      BY <2>1, HsicPsiWrites
    <2>2. CASE Hsic!AtSelect \/ Hsic!BootAck \/ Hsic!ChipId \/ Hsic!PsiUnknown \/ Hsic!PsiCrcAck
      BY <2>2, HsicPsiReads
    <2>3. CASE Hsic!PsiAck
      BY <2>3, HsicPsiAck
    <2>4. CASE Hsic!EblSize \/ Hsic!EblData \/ Hsic!EblCrc
      BY <2>4, HsicEblWrites
    <2>5. CASE Hsic!EblSizeAck \/ Hsic!EblAck
      BY <2>5, HsicEblReads
    <2>6. CASE Hsic!PortConfigRead
      BY <2>6, HsicPortConfig
    <2>7. CASE Hsic!CommandWrite
      BY <2>7, HsicCommandWrite
    <2>8. CASE Hsic!ReplyHeader
      BY <2>8, HsicReplyHeader
    <2>9. CASE Hsic!ReplyData
      BY <2>9, HsicReplyData
    <2>10. CASE Hsic!AtGivenUp \/ Hsic!SelectTimeout \/ Hsic!WriteFails
      BY <2>10, HsicGivesUp
    <2>11. QED
      BY <1>1, <2>1, <2>2, <2>3, <2>4, <2>5, <2>6, <2>7, <2>8, <2>9, <2>10 DEF Hsic!Host
  <1>2. CASE Hsic!Modem
    <2>1. CASE Hsic!RomProbe \/ Hsic!RomPsiHeader \/ Hsic!RomPsi
      BY <2>1, HsicRomTakes
    <2>2. CASE Hsic!RomPsiCrc
      BY <2>2, HsicPsiStarts
    <2>3. CASE Hsic!PsiEblSize \/ Hsic!PsiEbl \/ Hsic!PsiEblCrc
      BY <2>3, HsicPsiTakes
    <2>4. CASE Hsic!EblCommand
      BY <2>4, HsicEblTakes
    <2>5. QED
      BY <1>2, <2>1, <2>2, <2>3, <2>4 DEF Hsic!Modem
  <1>3. CASE Hsic!ModemHangs \/ Hsic!Returned
    <2>1. /\ UNCHANGED <<pc, n, todo, tx, rx, stage, got, stale, address, flash, sec>>
          /\ faulted => faulted'
      BY <1>3 DEF Hsic!ModemHangs, Hsic!Returned, Hsic!host, Hsic!vars
    <2>2. QED
      BY <2>1, HsicStutter
  <1>4. QED
    BY <1>1, <1>2, <1>3 DEF Hsic!Next

(* The invariant implies the properties. *)
LEMMA HsicSafe ==
    ASSUME HsicInv
    PROVE  Hsic!DoneMeansFlashed /\ Hsic!LateRepliesHarmless /\ Hsic!DoneMeansDrained
  <1>1. Hsic!LateRepliesHarmless /\ Hsic!DoneMeansDrained
    BY DEF HsicInv, HsicAlways, HsicReplies, Hsic!DoneMeansDrained
  <1>2. ASSUME pc = "done" PROVE Hsic!Flashed
    <2>1. Len(todo) = 0 /\ HsicLast \in Nat /\ Len(tx) \in Nat /\ Len(tx) <= 1
      BY <1>2, HsicLastIs DEF HsicInv, HsicTodo, HsicTypes, HsicReplies
    <2>2. HsicTaken = HsicLast - Len(tx)
      BY <1>2, <2>1 DEF HsicTaken, HsicWritten, HsicSent
    <2>3. HsicAfter(HsicTaken)
      BY <1>2 DEF HsicInv, HsicProgress, HsicFlashing
    <2>4. HsicTaken = HsicLast \/ HsicTaken = HsicLast - 1
      BY <2>1, <2>2
    <2>5. HsicAfter(HsicLast)
      BY <2>3, <2>4, HsicResets
    <2>6. QED
      BY <2>5, HsicFlashed
  <1>3. stage = "firmware" => pc = "done"
    BY DEF HsicInv, HsicAlways
  <1>4. QED
    BY <1>1, <1>2, <1>3 DEF Hsic!DoneMeansFlashed

(***************************************************************************)
(* The theorems.                                                           *)
(***************************************************************************)
HsicIInv == OnHsic => HsicInv

(* Init establishes the invariant. *)
LEMMA HsicInitially == Init => HsicIInv
  <1>1. ASSUME OnHsic, Hsic!Init PROVE HsicIInv
    BY <1>1, HsicInit DEF HsicIInv
  <1>2. ASSUME OnMipi \/ Xmm616!Init \/ OnHerolte PROVE HsicIInv
    BY <1>2 DEF HsicIInv, OnHsic, OnMipi, OnHerolte, Xmm616!Init
  <1>3. QED
    BY <1>1, <1>2 DEF Init

(* Every step keeps the invariant. *)
LEMMA HsicInductive == HsicIInv /\ BootIInv /\ [Next]_vars => HsicIInv'
  <1> SUFFICES ASSUME HsicIInv, BootIInv, [Next]_vars PROVE HsicIInv'
    OBVIOUS
  <1>1. CASE AsHsic /\ Hsic!Next
    <2>1. OnHsic /\ device' = device
      BY <1>1 DEF AsHsic
    <2>2. HsicInv'
      BY <1>1, <2>1, HsicNext DEF HsicIInv
    <2>3. QED
      BY <2>2 DEF HsicIInv
  <1>2. CASE AsMipi \/ AsHerolte
    BY <1>2 DEF AsMipi, AsHerolte, OnMipi, OnHerolte, HsicIInv, OnHsic
  <1>3. CASE AsXmm616 /\ Xmm616!Next
    <2>1. X616Inv'
      BY <1>3, X616Next DEF AsXmm616, BootIInv
    <2>2. QED
      BY <2>1 DEF X616Inv, HsicIInv, OnHsic
  <1>4. CASE UNCHANGED vars
    <2>1. UNCHANGED <<device, pc, n, todo, tx, rx, stage, got, stale, address, flash, sec, faulted>>
      BY <1>4 DEF vars, line, xmm626, hsic
    <2>2. OnHsic => HsicInv'
      BY <2>1, HsicStutter DEF HsicIInv
    <2>3. QED
      BY <2>1, <2>2 DEF HsicIInv, OnHsic
  <1>5. QED
    BY <1>1, <1>2, <1>3, <1>4 DEF Next

(* The invariant holds. *)
LEMMA HsicHolds == Spec => []HsicIInv
  BY BootHolds, HsicInitially, HsicInductive, PTL DEF Spec

(* xmm626_hsic.c: for all sizes, all interleavings of host and modem and   *)
(* all late answers to probes, the host returns 0, and the modem is reset, *)
(* only after every block of firmware and nv_data was taken inside the     *)
(* secure session, although no block is acknowledged.                      *)
THEOREM ZeroMeansFlashed == Spec => []DoneMeansFlashed
  <1>1. HsicIInv => DoneMeansFlashed
    BY HsicSafe DEF HsicIInv, DoneMeansFlashed
  <1>2. QED
    BY <1>1, HsicHolds, PTL

(* xmm626_hsic.c: without a fault or a timeout the boot fails only when at *)
(* least AckMax probes were answered late: xmm626_hsic_ack_read skips      *)
(* every late answer, whole pairs of bytes at a time.                      *)
THEOREM OnlyFaultsFailHsic == Spec => []LateRepliesHarmless
  <1>1. HsicIInv => LateRepliesHarmless
    BY HsicSafe DEF HsicIInv, LateRepliesHarmless
  <1>2. QED
    BY <1>1, HsicHolds, PTL

(* xmm626_hsic.c: a boot that returns 0 has read every answer of the       *)
(* modem; none is left for the transport.                                  *)
THEOREM ZeroMeansDrained == Spec => []DoneMeansDrained
  <1>1. HsicIInv => DoneMeansDrained
    BY HsicSafe DEF HsicIInv, DoneMeansDrained
  <1>2. QED
    BY <1>1, HsicHolds, PTL
=============================================================================
