----------------------------- MODULE BootProofs -----------------------------
(***************************************************************************)
(* Proofs about the boot protocols over a serial line and over MIPI and    *)
(* about herolte's, for every size of the images, every number of blocks   *)
(* and probes and every table of contents.                                 *)
(*                                                                         *)
(* XMM616: an acknowledgement is on its way only when the PSI has been     *)
(* taken, DEINIT only when the memory is complete, and the writes have     *)
(* filled the memory up to their counter.                                  *)
(*                                                                         *)
(* XMM626 over MIPI: host and modem run in step.  What is on its way is    *)
(* what the place of the host says, and the modem has carried out exactly  *)
(* the commands that were answered; by the end these are all of them, and  *)
(* the commands write every block of every region between the session's    *)
(* start and end.                                                          *)
(*                                                                         *)
(* herolte: counter, address, place in the file and buffer of upload_chunk *)
(* agree, in arithmetic modulo the width of an address; so what is sent    *)
(* goes where the table of contents says, and what was sent before stays.  *)
(***************************************************************************)
EXTENDS BootProtocols, TLAPS, SequenceTheorems

(* Taking the first of a queue. *)
LEMMA TakeFirst ==
    ASSUME NEW S, NEW s \in Seq(S), s # <<>>
    PROVE  /\ Tail(s) \in Seq(S) /\ Head(s) = s[1] /\ 1 \in 1..Len(s)
           /\ Len(Tail(s)) = Len(s) - 1
           /\ \A k \in 1..Len(Tail(s)) : k + 1 \in 1..Len(s) /\ Tail(s)[k] = s[k + 1]
  <1>1. Len(s) \in Nat \ {0}
    BY EmptySeq
  <1>2. QED
    BY <1>1

(* Adding to a queue. *)
LEMMA PutLast ==
    ASSUME NEW S, NEW s \in Seq(S), NEW x \in S
    PROVE  /\ Append(s, x) \in Seq(S)
           /\ \A k \in 1..Len(Append(s, x)) :
                 \/ k \in 1..Len(s) /\ Append(s, x)[k] = s[k]
                 \/ k = Len(Append(s, x)) /\ Append(s, x)[k] = x
  OBVIOUS


(***************************************************************************)
(* XMM616, crespo and aries.                                               *)
(***************************************************************************)
RxBytes == {"version", "info", "other", "ack"}
Mails   == {"init", "deinit", "other"}

Taken616  == rom \in {"run", "told", "started"}    \* the PSI, unharmed
(* The firmware lies in the memory of the modem. *)
FirmwareIn == \A b \in 0..(FirmwareSize - 1) : memory[b] = <<"firmware", b>>

(* Types: the bytes and the mails on their way, the memory. *)
X616Types ==
    /\ rx \in Seq(RxBytes) /\ mail \in Seq(Mails)
    /\ rc \in {"running", "0", "-1"} /\ (rc = "running" <=> pc # "returned")
    /\ DOMAIN memory = 0..(Xmm616!MemorySize - 1)

(* Where the boot function is tells what it has done. *)
X616Places ==
    /\ pc \in {"at", "version", "info", "magic", "psi", "ack", "loaded_psi", "firmware",
               "nv_load", "nv_data", "init", "copy", "nv_copy", "magic_mail", "deinit",
               "returned"}
    /\ pc \in {"firmware", "nv_data"} => device = "crespo"
    /\ pc \in {"init", "copy", "nv_copy", "magic_mail", "deinit"} => device = "aries"
    /\ \/ pc \in {"at", "version", "info", "magic", "psi", "ack"}
       \/ pc = "returned" /\ rc # "0"
       \/ Taken616
    /\ rom \in {"told", "started"} => device = "aries" /\ pc \in {"deinit", "returned"}

(* An acknowledgement or the mail DEINIT on its way tells where the modem is. *)
X616Messages ==
    /\ \A k \in 1..Len(rx) : rx[k] = "ack" => Taken616
    /\ \A k \in 1..Len(mail) : mail[k] = "deinit" => rom = "started"
    /\ rom = "started" => Xmm616!Loaded

(* crespo: what the writes have put into the memory so far. *)
X616Memory ==
    device = "crespo" =>
        /\ pc = "firmware" =>
              /\ wc \in 0..FirmwareSize /\ p = wc /\ pos = wc
              /\ \A b \in 0..(wc - 1) : memory[b] = <<"firmware", b>>
        /\ pc = "nv_load" => wc = 0 /\ p = 0 /\ pos = NvOffset /\ FirmwareIn
        /\ pc = "nv_data" =>
              /\ wc \in 0..NvSize /\ p = wc /\ pos = NvOffset + wc /\ FirmwareIn
              /\ \A b \in 0..(wc - 1) : memory[NvOffset + b] = <<"nv_data", b>>

(* The inductive invariant of xmm616.c. *)
X616Inv ==
    /\ device \in {"crespo", "aries"}
    /\ X616Types /\ X616Places /\ X616Messages /\ X616Memory
    /\ Xmm616!ReturnMeansLoaded

(* What is assumed of the sizes. *)
LEMMA Sizes616 ==
    /\ FirmwareSize \in Nat \ {0} /\ NvSize \in Nat \ {0} /\ NvOffset \in Nat
    /\ NvOffset >= FirmwareSize /\ InfoSize \in Nat
  BY Xmm616Assumption DEF Xmm616!SizesAssumption

(* At first nothing is on its way and nothing loaded. *)
LEMMA X616Init ==
    ASSUME Xmm616!Init
    PROVE  X616Inv
  BY Sizes616 DEF Xmm616!Init, X616Inv, X616Types, X616Places, X616Messages, X616Memory,
      Xmm616!ReturnMeansLoaded, Xmm616!MemorySize, Taken616

(* Steps of the serial line. *)
LEMMA X616Serial ==
    ASSUME X616Inv, OnXmm616,
           \/ Xmm616!AtWrite \/ Xmm616!VersionRead \/ Xmm616!InfoRead \/ Xmm616!HeaderWrite
           \/ Xmm616!PsiWrite \/ Xmm616!AckRead \/ Xmm616!SerialFails
    PROVE  X616Inv'
  <1>1. /\ UNCHANGED <<device, mail, memory, rom>>
        /\ pc \in {"at", "version", "info", "magic", "psi", "ack"}
        /\ rx' = rx \/ (rx # <<>> /\ rx' = Tail(rx))
        /\ \/ pc' \in {"at", "version", "info", "magic", "psi", "ack"} /\ rc' = rc
           \/ pc' = "returned" /\ rc' = "-1"
           \/ pc' = "loaded_psi" /\ rc' = rc /\ Head(rx) = "ack" /\ rx # <<>>
    BY DEF Xmm616!AtWrite, Xmm616!VersionRead, Xmm616!InfoRead, Xmm616!HeaderWrite,
        Xmm616!PsiWrite, Xmm616!AckRead, Xmm616!SerialFails, Xmm616!Idle, Xmm616!Goto,
        Xmm616!Return, Xmm616!modem
  <1>2. /\ rx' \in Seq(RxBytes)
        /\ \A k \in 1..Len(rx') : rx'[k] = "ack" => Taken616
    <2>1. CASE rx' = rx
      BY <2>1 DEF X616Inv, X616Types, X616Messages
    <2>2. CASE rx # <<>> /\ rx' = Tail(rx)
      BY <2>2, TakeFirst DEF X616Inv, X616Types, X616Messages
    <2>3. QED
      BY <1>1, <2>1, <2>2
  <1>3. pc' = "loaded_psi" => Taken616
    BY <1>1, TakeFirst DEF X616Inv, X616Types, X616Messages
  <1>4. X616Types'
    BY <1>1, <1>2 DEF X616Inv, X616Types
  <1>5. X616Places'
    BY <1>1, <1>3 DEF X616Inv, X616Types, X616Places, Taken616
  <1>6. X616Messages'
    BY <1>1, <1>2 DEF X616Inv, X616Messages, Taken616, Xmm616!Loaded
  <1>7. X616Memory' /\ Xmm616!ReturnMeansLoaded'
    BY <1>1 DEF X616Inv, X616Types, X616Memory, Xmm616!ReturnMeansLoaded
  <1>8. QED
    BY <1>1, <1>4, <1>5, <1>6, <1>7 DEF X616Inv

(* Steps of crespo's writes. *)
LEMMA StoredIs ==
    ASSUME NEW what, NEW s \in Nat, NEW d \in Nat, NEW k \in Nat, NEW m \in Nat,
           DOMAIN memory = 0..(m - 1)
    PROVE  /\ DOMAIN Xmm616!Stored(what, s, d, k) = 0..(m - 1)
           /\ \A b \in 0..(m - 1) :
                 Xmm616!Stored(what, s, d, k)[b] =
                     IF b >= d /\ b < d + k THEN <<what, s + b - d>> ELSE memory[b]
  BY DEF Xmm616!Stored

(* crespo: a write of firmware, short or complete. *)
LEMMA X616FirmwareWrite ==
    ASSUME X616Inv, Xmm616!FirmwareWrite
    PROVE  X616Inv'
  <1>1. /\ pc = "firmware" /\ device = "crespo"
        /\ UNCHANGED <<device, rc, i, noisy, tx, rx, mail, rom, got, bad>>
        /\ wc \in 0..FirmwareSize /\ p = wc /\ pos = wc
        /\ \A b \in 0..(wc - 1) : memory[b] = <<"firmware", b>>
        /\ DOMAIN memory = 0..(NvOffset + NvSize - 1)
    <2>1. /\ pc = "firmware"
          /\ UNCHANGED <<device, rc, i, noisy, tx, rx, mail, rom, got, bad>>
      BY DEF Xmm616!FirmwareWrite, Xmm616!modem
    <2>2. DOMAIN memory = 0..(NvOffset + NvSize - 1)
      BY Sizes616 DEF X616Inv, X616Types, Xmm616!MemorySize
    <2>3. device = "crespo"
      BY <2>1 DEF X616Inv, X616Places
    <2>4. QED
      BY <2>1, <2>2, <2>3 DEF X616Inv, X616Memory
  <1>2. /\ X616Types' /\ X616Memory' /\ pc' \in {"firmware", "nv_load"}
        /\ Xmm616!ReturnMeansLoaded'
    <2>1. CASE wc < FirmwareSize
      <3>1. PICK k \in 1..(FirmwareSize - wc) :
               /\ memory' = Xmm616!Stored("firmware", p, pos, k)
               /\ wc' = wc + k /\ p' = p + k /\ pos' = pos + k /\ pc' = pc
        BY <2>1 DEF Xmm616!FirmwareWrite, Xmm616!WriteSome
      <3>2. /\ DOMAIN memory' = 0..(NvOffset + NvSize - 1)
            /\ \A b \in 0..(NvOffset + NvSize - 1) :
                  memory'[b] = IF b >= wc /\ b < wc + k THEN <<"firmware", wc + b - wc>>
                                                       ELSE memory[b]
        <4>1. NvOffset + NvSize \in Nat /\ p \in Nat /\ pos \in Nat /\ k \in Nat
          BY <1>1, Sizes616
        <4> DEFINE m == NvOffset + NvSize
        <4>2. m \in Nat /\ DOMAIN memory = 0..(m - 1)
          BY <1>1, <4>1, Sizes616
        <4> HIDE DEF m
        <4>3. /\ DOMAIN memory' = 0..(m - 1)
              /\ \A b \in 0..(m - 1) :
                    memory'[b] = IF b >= pos /\ b < pos + k THEN <<"firmware", p + b - pos>>
                                                           ELSE memory[b]
          BY <3>1, <4>1, <4>2 DEF Xmm616!Stored
        <4> USE DEF m
        <4>4. QED
          BY <1>1, <4>3, Sizes616
      <3>3. \A b \in 0..(wc' - 1) : memory'[b] = <<"firmware", b>>
        <4> TAKE b \in 0..(wc' - 1)
        <4>1. b \in 0..(NvOffset + NvSize - 1) /\ wc \in Int
          BY <1>1, <3>1, Sizes616
        <4>2. wc + b - wc = b
          BY <1>1, <3>1, Sizes616
        <4>3. CASE b >= wc
          <5>1. b < wc + k
            BY <1>1, <3>1, <4>1, Sizes616
          <5>2. QED
            BY <3>2, <4>1, <4>2, <4>3, <5>1
        <4>4. CASE ~(b >= wc)
          <5>1. b \in 0..(wc - 1)
            BY <1>1, <3>1, <4>1, <4>4, Sizes616
          <5>2. QED
            BY <1>1, <3>2, <4>1, <4>4, <5>1
        <4>5. QED
          BY <4>3, <4>4
      <3>4. wc' \in 0..FirmwareSize /\ p' = wc' /\ pos' = wc'
        BY <1>1, <3>1, Sizes616
      <3>5. QED
        BY <1>1, <3>1, <3>2, <3>3, <3>4
            DEF X616Inv, X616Types, X616Memory, Xmm616!ReturnMeansLoaded, Xmm616!MemorySize
    <2>2. CASE ~(wc < FirmwareSize)
      <3>1. /\ pc' = "nv_load" /\ wc' = 0 /\ p' = 0 /\ pos' = NvOffset
            /\ memory' = memory
        BY <2>2 DEF Xmm616!FirmwareWrite
      <3>2. wc = FirmwareSize
        BY <1>1, <2>2, Sizes616
      <3>3. FirmwareIn'
        BY <1>1, <3>1, <3>2 DEF FirmwareIn
      <3>4. QED
        BY <1>1, <3>1, <3>3
            DEF X616Inv, X616Types, X616Memory, Xmm616!ReturnMeansLoaded, Xmm616!MemorySize
    <2>3. QED
      BY <2>1, <2>2
  <1>3. X616Places' /\ X616Messages'
    BY <1>1, <1>2 DEF X616Inv, X616Places, X616Messages, Taken616
  <1>4. QED
    BY <1>1, <1>2, <1>3 DEF X616Inv

(* crespo: a write of nv_data, short or complete. *)
LEMMA X616NvWrite ==
    ASSUME X616Inv, Xmm616!NvWrite
    PROVE  X616Inv'
  <1>1. /\ pc = "nv_data" /\ device = "crespo"
        /\ UNCHANGED <<device, i, noisy, tx, rx, mail, rom, got, bad>>
        /\ wc \in 0..NvSize /\ p = wc /\ pos = NvOffset + wc /\ FirmwareIn
        /\ \A b \in 0..(wc - 1) : memory[NvOffset + b] = <<"nv_data", b>>
        /\ DOMAIN memory = 0..(NvOffset + NvSize - 1)
        /\ rom = "run" /\ rc = "running"
    <2>1. /\ pc = "nv_data"
          /\ UNCHANGED <<device, i, noisy, tx, rx, mail, rom, got, bad>>
      BY DEF Xmm616!NvWrite, Xmm616!modem
    <2>2. DOMAIN memory = 0..(NvOffset + NvSize - 1) /\ rc = "running"
      BY <2>1, Sizes616 DEF X616Inv, X616Types, Xmm616!MemorySize
    <2>3. device = "crespo" /\ rom = "run"
      BY <2>1 DEF X616Inv, X616Places, Taken616
    <2>4. QED
      BY <2>1, <2>2, <2>3 DEF X616Inv, X616Memory
  <1>2. /\ X616Types' /\ X616Memory' /\ pc' \in {"nv_data", "returned"}
        /\ Xmm616!ReturnMeansLoaded'
    <2>1. CASE wc < NvSize
      <3>1. PICK k \in 1..(NvSize - wc) :
               /\ memory' = Xmm616!Stored("nv_data", p, pos, k)
               /\ wc' = wc + k /\ p' = p + k /\ pos' = pos + k /\ pc' = pc /\ rc' = rc
        BY <2>1 DEF Xmm616!NvWrite, Xmm616!WriteSome
      <3>2. /\ DOMAIN memory' = 0..(NvOffset + NvSize - 1)
            /\ \A b \in 0..(NvOffset + NvSize - 1) :
                  memory'[b] = IF b >= pos /\ b < pos + k THEN <<"nv_data", p + b - pos>>
                                                       ELSE memory[b]
        <4>1. NvOffset + NvSize \in Nat /\ p \in Nat /\ pos \in Nat /\ k \in Nat
          BY <1>1, Sizes616
        <4> DEFINE m == NvOffset + NvSize
        <4>2. m \in Nat /\ DOMAIN memory = 0..(m - 1)
          BY <1>1, <4>1, Sizes616
        <4> HIDE DEF m
        <4>3. /\ DOMAIN memory' = 0..(m - 1)
              /\ \A b \in 0..(m - 1) :
                    memory'[b] = IF b >= pos /\ b < pos + k THEN <<"nv_data", p + b - pos>>
                                                           ELSE memory[b]
          BY <3>1, <4>1, <4>2 DEF Xmm616!Stored
        <4> USE DEF m
        <4>4. QED
          BY <1>1, <4>3, Sizes616
      <3>3. \A b \in 0..(wc' - 1) : memory'[NvOffset + b] = <<"nv_data", b>>
        <4> TAKE b \in 0..(wc' - 1)
        <4>1. NvOffset + b \in 0..(NvOffset + NvSize - 1) /\ wc \in Int /\ b \in Int
          <5>1. wc \in Int /\ wc' = wc + k /\ k \in 1..(NvSize - wc) /\ b \in 0..(wc' - 1)
            BY <1>1, <3>1, Sizes616
          <5>2. QED
            BY <5>1, Sizes616
        <4>2. p + (NvOffset + b) - pos = b
          BY <1>1, <4>1, Sizes616
        <4>3. CASE b >= wc
          <5>1. NvOffset + b >= pos /\ NvOffset + b < pos + k
            BY <1>1, <3>1, <4>1, <4>3, Sizes616
          <5>2. QED
            BY <3>2, <4>1, <4>2, <5>1
        <4>4. CASE ~(b >= wc)
          <5>1. b \in 0..(wc - 1) /\ ~(NvOffset + b >= pos)
            BY <1>1, <3>1, <4>1, <4>4, Sizes616
          <5>2. QED
            BY <1>1, <3>2, <4>1, <5>1
        <4>5. QED
          BY <4>3, <4>4
      <3>4. wc' \in 0..NvSize /\ p' = wc' /\ pos' = NvOffset + wc'
        BY <1>1, <3>1, Sizes616
      <3>5. FirmwareIn'
        <4> SUFFICES ASSUME NEW b \in 0..(FirmwareSize - 1)
                     PROVE  memory'[b] = <<"firmware", b>>
          BY DEF FirmwareIn
        <4>1. b \in 0..(NvOffset + NvSize - 1) /\ ~(b >= pos)
          BY <1>1, Sizes616
        <4>2. QED
          BY <1>1, <3>2, <4>1 DEF FirmwareIn
      <3>6. QED
        BY <1>1, <3>1, <3>2, <3>3, <3>4, <3>5
            DEF X616Inv, X616Types, X616Memory, Xmm616!ReturnMeansLoaded, Xmm616!MemorySize
    <2>2. CASE ~(wc < NvSize)
      <3>1. pc' = "returned" /\ rc' = "0" /\ UNCHANGED <<wc, p, pos, memory>>
        BY <2>2 DEF Xmm616!NvWrite, Xmm616!Return
      <3>2. wc = NvSize
        BY <1>1, <2>2, Sizes616
      <3>3. Xmm616!Loaded'
        BY <1>1, <3>1, <3>2 DEF FirmwareIn, Xmm616!Loaded
      <3>4. QED
        BY <1>1, <3>1, <3>3
            DEF X616Inv, X616Types, X616Memory, Xmm616!ReturnMeansLoaded
    <2>3. QED
      BY <2>1, <2>2
  <1>3. X616Places' /\ X616Messages'
    BY <1>1, <1>2 DEF X616Inv, X616Places, X616Messages, Taken616
  <1>4. QED
    BY <1>1, <1>2, <1>3 DEF X616Inv

(* The other steps of the boot functions. *)
LEMMA X616Device ==
    ASSUME X616Inv,
           \/ Xmm616!CrespoSeek \/ Xmm616!NvLoad \/ Xmm616!AriesWait \/ Xmm616!DeviceFails
    PROVE  X616Inv'
  <1>1. /\ UNCHANGED <<device, rx, mail, memory, rom>>
        /\ \/ pc = "loaded_psi" /\ device = "crespo" /\ pc' = "firmware" /\ rc' = rc
              /\ wc' = 0 /\ p' = 0 /\ pos' = 0
           \/ pc = "loaded_psi" /\ device = "aries" /\ pc' = "init" /\ rc' = rc
           \/ pc = "nv_load" /\ pc' = (IF device = "crespo" THEN "nv_data" ELSE "nv_copy")
              /\ rc' = rc /\ UNCHANGED <<wc, p, pos>>
           \/ pc # "returned" /\ pc' = "returned" /\ rc' = "-1"
    BY DEF Xmm616!CrespoSeek, Xmm616!NvLoad, Xmm616!AriesWait, Xmm616!DeviceFails,
        Xmm616!Goto, Xmm616!Return, Xmm616!modem
  <1>2. X616Types' /\ X616Messages' /\ Xmm616!ReturnMeansLoaded'
    BY <1>1 DEF X616Inv, X616Types, X616Messages, Taken616, Xmm616!Loaded,
        Xmm616!ReturnMeansLoaded
  <1>3. X616Places'
    BY <1>1 DEF X616Inv, X616Types, X616Places, Taken616
  <1>4. X616Memory'
    BY <1>1, Sizes616 DEF X616Inv, X616Types, X616Memory, FirmwareIn
  <1>5. QED
    BY <1>1, <1>2, <1>3, <1>4 DEF X616Inv

(* aries: copies into the shared memory. *)
LEMMA X616Copies ==
    ASSUME X616Inv, Xmm616!FirmwareCopy \/ Xmm616!NvCopy
    PROVE  X616Inv'
  <1>1. /\ UNCHANGED <<device, rx, mail, rom, rc>> /\ device = "aries"
        /\ pc \in {"copy", "nv_copy"} /\ pc' \in {"nv_load", "magic_mail"}
        /\ DOMAIN memory' = DOMAIN memory
    BY DEF Xmm616!FirmwareCopy, Xmm616!NvCopy, Xmm616!Goto, Xmm616!modem, Xmm616!Stored,
        X616Inv, X616Places
  <1>2. rom # "started" /\ rc = "running" /\ Taken616
    BY <1>1 DEF X616Inv, X616Places, X616Types
  <1>3. X616Types' /\ X616Messages' /\ X616Memory'
    BY <1>1, <1>2 DEF X616Inv, X616Types, X616Messages, X616Memory, Taken616
  <1>6. X616Places'
    BY <1>1, <1>2 DEF X616Inv, X616Places, Taken616
  <1>4. Xmm616!ReturnMeansLoaded'
    BY <1>1, <1>2 DEF Xmm616!ReturnMeansLoaded
  <1>5. QED
    BY <1>1, <1>3, <1>4, <1>6 DEF X616Inv

(* aries: reading the mailbox, and telling the PSI that all is there. *)
LEMMA X616Mail ==
    ASSUME X616Inv, Xmm616!MailRead \/ Xmm616!MagicMail
    PROVE  X616Inv'
  <1>1. CASE Xmm616!MailRead
    <2>1. /\ UNCHANGED <<device, rx, memory, rom>> /\ pc \in {"init", "deinit"}
          /\ mail # <<>> /\ mail' = Tail(mail)
          /\ \/ pc' = pc /\ rc' = rc
             \/ pc' = "returned" /\ rc' = "-1"
             \/ pc = "init" /\ pc' = "copy" /\ rc' = rc
             \/ pc' = "returned" /\ rc' = "0" /\ Head(mail) = "deinit"
      BY <1>1 DEF Xmm616!MailRead, Xmm616!Goto, Xmm616!Return, Xmm616!modem
    <2>2. device = "aries" /\ Taken616
      BY <2>1 DEF X616Inv, X616Places
    <2>3. /\ mail' \in Seq(Mails)
          /\ \A k \in 1..Len(mail') : mail'[k] = "deinit" => rom = "started"
      BY <2>1, TakeFirst DEF X616Inv, X616Types, X616Messages
    <2>4. Head(mail) = "deinit" => rom = "started"
      BY <2>1, TakeFirst DEF X616Inv, X616Types, X616Messages
    <2>5. X616Types'
      BY <2>1, <2>3 DEF X616Inv, X616Types
    <2>6. X616Places'
      BY <2>1, <2>2, <2>4 DEF X616Inv, X616Types, X616Places, Taken616
    <2>7. X616Messages' /\ X616Memory'
      BY <2>1, <2>2, <2>3 DEF X616Inv, X616Messages, X616Memory, Taken616, Xmm616!Loaded
    <2>8. Xmm616!ReturnMeansLoaded'
      BY <2>1, <2>2, <2>4 DEF X616Inv, X616Messages, Xmm616!ReturnMeansLoaded, Xmm616!Loaded
    <2>9. QED
      BY <2>1, <2>5, <2>6, <2>7, <2>8 DEF X616Inv
  <1>2. CASE Xmm616!MagicMail
    <2>1. /\ UNCHANGED <<device, rx, memory, mail, rc>> /\ pc = "magic_mail" /\ pc' = "deinit"
          /\ rom' = IF rom = "run" THEN "told" ELSE rom
      BY <1>2 DEF Xmm616!MagicMail, Xmm616!Goto
    <2>2. device = "aries" /\ rom = "run" /\ rc = "running"
      BY <2>1 DEF X616Inv, X616Types, X616Places, Taken616
    <2>3. X616Types' /\ X616Places'
      BY <2>1, <2>2 DEF X616Inv, X616Types, X616Places, Taken616
    <2>4. X616Messages' /\ X616Memory' /\ Xmm616!ReturnMeansLoaded'
      BY <2>1, <2>2
          DEF X616Inv, X616Messages, X616Memory, Taken616, Xmm616!ReturnMeansLoaded
    <2>5. QED
      BY <2>1, <2>3, <2>4 DEF X616Inv
  <1>3. QED
    BY <1>1, <1>2

(* Steps of the modem and of the line. *)
LEMMA AddedWithout ==
    ASSUME NEW S, NEW s \in Seq(S), NEW t \in Seq(S), NEW x,
           \A k \in 1..Len(t) : t[k] # x
    PROVE  /\ s \o t \in Seq(S)
           /\ \A k \in 1..Len(s \o t) : (s \o t)[k] = x => k \in 1..Len(s) /\ s[k] = x
  <1>1. s \o t \in Seq(S) /\ Len(s \o t) = Len(s) + Len(t)
    OBVIOUS
  <1>2. ASSUME NEW k \in 1..Len(s \o t), (s \o t)[k] = x
        PROVE  k \in 1..Len(s) /\ s[k] = x
    <2>1. CASE k <= Len(s)
      BY <1>1, <1>2, <2>1
    <2>2. CASE k > Len(s)
      <3>1. k - Len(s) \in 1..Len(t) /\ (s \o t)[k] = t[k - Len(s)]
        BY <1>1, <1>2, <2>2
      <3>2. QED
        BY <1>2, <3>1
    <2>3. QED
      BY <1>1, <2>1, <2>2
  <1>3. QED
    BY <1>1, <1>2

(* What the ROM answers to a probe is no acknowledgement. *)
LEMMA AnswerHasNoAck ==
    /\ Xmm616!Answer \in Seq(RxBytes)
    /\ \A k \in 1..Len(Xmm616!Answer) : Xmm616!Answer[k] # "ack"
  <1> DEFINE o == [b \in 1..InfoSize |-> "other"]
             two == <<"version", "info">>
  <1>1. o \in Seq(RxBytes) /\ \A k \in 1..Len(o) : o[k] # "ack"
    BY Sizes616 DEF RxBytes
  <1>2. two \in Seq(RxBytes) /\ \A k \in 1..Len(two) : two[k] # "ack"
    BY DEF RxBytes
  <1>3. Xmm616!Answer = two \o o
    BY DEF Xmm616!Answer
  <1> HIDE DEF o, two
  <1>4. /\ two \o o \in Seq(RxBytes)
        /\ \A k \in 1..Len(two \o o) : (two \o o)[k] = "ack" =>
              k \in 1..Len(two) /\ two[k] = "ack"
    <2>1. \A x : (\A k \in 1..Len(o) : o[k] # x) =>
             /\ two \o o \in Seq(RxBytes)
             /\ \A k \in 1..Len(two \o o) : (two \o o)[k] = x =>
                   k \in 1..Len(two) /\ two[k] = x
      BY <1>1, <1>2, AddedWithout
    <2>2. QED
      BY <1>1, <2>1
  <1>5. QED
    BY <1>2, <1>3, <1>4

(* Steps of the ROM. *)
LEMMA X616Modem ==
    ASSUME X616Inv, Xmm616!RomWakes \/ Xmm616!RomTakes
    PROVE  X616Inv'
  <1>1. /\ UNCHANGED <<device, pc, rc, wc, p, pos, memory, mail>>
        /\ rom' \in {"awake", "greeted", "psi", "run", "stopped"} \/ rom' = rom
        /\ rom \in {"run", "told", "started"} => rom' = rom
        /\ \/ rx' = rx \/ rx' = rx \o Xmm616!Answer
           \/ rx' = Append(rx, "other")
           \/ rom' = "run" /\ rx' = Append(rx, "ack")
    BY DEF Xmm616!RomWakes, Xmm616!RomTakes, Xmm616!host, Xmm616!modem
  <1>2. /\ rx' \in Seq(RxBytes)
        /\ \A k \in 1..Len(rx') : rx'[k] = "ack" => rom' = "run" \/ Taken616
    <2>1. CASE rx' = rx
      BY <2>1 DEF X616Inv, X616Types, X616Messages
    <2>2. CASE rx' = rx \o Xmm616!Answer
      BY <2>2, AnswerHasNoAck, AddedWithout DEF X616Inv, X616Types, X616Messages
    <2>3. CASE rx' = Append(rx, "other")
      BY <2>3, PutLast DEF X616Inv, X616Types, X616Messages, RxBytes
    <2>4. CASE rom' = "run" /\ rx' = Append(rx, "ack")
      BY <2>4, PutLast DEF X616Inv, X616Types, X616Messages, RxBytes
    <2>5. QED
      BY <1>1, <2>1, <2>2, <2>3, <2>4
  <1>3. X616Types'
    BY <1>1, <1>2 DEF X616Inv, X616Types
  <1>4. X616Places'
    BY <1>1 DEF X616Inv, X616Places, Taken616
  <1>5. X616Messages'
    BY <1>1, <1>2 DEF X616Inv, X616Messages, Taken616, Xmm616!Loaded
  <1>6. X616Memory'
    BY <1>1 DEF X616Inv, X616Memory, FirmwareIn
  <1>7. Xmm616!ReturnMeansLoaded'
    BY <1>1 DEF X616Inv, Xmm616!ReturnMeansLoaded, Xmm616!Loaded
  <1>8. QED
    BY <1>1, <1>3, <1>4, <1>5, <1>6, <1>7 DEF X616Inv

(* Steps of the PSI that runs, and noise on the line. *)
LEMMA X616Environment ==
    ASSUME X616Inv, Xmm616!PsiMails \/ Xmm616!Noise
    PROVE  X616Inv'
  <1>1. /\ UNCHANGED <<device, pc, rc, wc, p, pos, memory>>
        /\ rx' = rx \/ rx' = Append(rx, "other")
        /\ \/ rom' = rom /\ (mail' = mail \/ mail' = Append(mail, "init")
                             \/ mail' = Append(mail, "other"))
           \/ /\ rom = "told" /\ Xmm616!Loaded /\ mail' = Append(mail, "deinit")
              /\ rom' = "started"
    BY DEF Xmm616!PsiMails, Xmm616!Noise, Xmm616!host, Xmm616!modem
  <1>2. /\ rx' \in Seq(RxBytes)
        /\ \A k \in 1..Len(rx') : rx'[k] = "ack" => Taken616
    <2>1. CASE rx' = rx
      BY <2>1 DEF X616Inv, X616Types, X616Messages
    <2>2. CASE rx' = Append(rx, "other")
      BY <2>2, PutLast DEF X616Inv, X616Types, X616Messages, RxBytes
    <2>3. QED
      BY <1>1, <2>1, <2>2
  <1>3. /\ mail' \in Seq(Mails)
        /\ \A k \in 1..Len(mail') : mail'[k] = "deinit" => rom' = "started"
    <2>1. mail \in Seq(Mails) /\ \A k \in 1..Len(mail) : mail[k] = "deinit" => rom = "started"
      BY DEF X616Inv, X616Types, X616Messages
    <2>2. CASE rom' = rom /\ mail' = mail
      BY <2>1, <2>2
    <2>3. CASE rom' = rom /\ mail' = Append(mail, "init")
      BY <2>1, <2>3, PutLast DEF Mails
    <2>4. CASE rom' = rom /\ mail' = Append(mail, "other")
      BY <2>1, <2>4, PutLast DEF Mails
    <2>5. CASE rom' = "started" /\ mail' = Append(mail, "deinit")
      BY <2>1, <2>5, PutLast DEF Mails
    <2>6. QED
      BY <1>1, <2>2, <2>3, <2>4, <2>5
  <1>4. X616Types'
    BY <1>1, <1>2, <1>3 DEF X616Inv, X616Types
  <1>5. X616Places'
    BY <1>1 DEF X616Inv, X616Places, Taken616
  <1>6. X616Messages'
    BY <1>1, <1>2, <1>3 DEF X616Inv, X616Messages, Taken616, Xmm616!Loaded
  <1>7. X616Memory'
    BY <1>1 DEF X616Inv, X616Memory, FirmwareIn
  <1>8. Xmm616!ReturnMeansLoaded'
    BY <1>1 DEF X616Inv, X616Places, X616Types, Xmm616!ReturnMeansLoaded, Xmm616!Loaded
  <1>9. QED
    BY <1>1, <1>4, <1>5, <1>6, <1>7, <1>8 DEF X616Inv

(* Nothing happens. *)
LEMMA X616Stutter ==
    ASSUME X616Inv, UNCHANGED <<device, pc, rc, rx, mail, memory, rom, wc, p, pos>>
    PROVE  X616Inv'
  BY DEF X616Inv, X616Types, X616Places, X616Messages, X616Memory, Taken616, FirmwareIn,
      Xmm616!ReturnMeansLoaded, Xmm616!Loaded

(* Every step keeps the invariant. *)
LEMMA X616Next ==
    ASSUME X616Inv, OnXmm616, Xmm616!Next
    PROVE  X616Inv'
  <1>1. CASE Xmm616!Boot
    BY <1>1, X616Serial, X616FirmwareWrite, X616NvWrite, X616Device, X616Copies, X616Mail
        DEF Xmm616!Boot
  <1>2. CASE Xmm616!Returned
    BY <1>2, X616Stutter DEF Xmm616!Returned, Xmm616!vars
  <1>3. QED
    BY <1>1, <1>2, X616Modem, X616Environment DEF Xmm616!Next


(***************************************************************************)
(* XMM626 over MIPI.                                                       *)
(***************************************************************************)
LEMMA MipiConstants ==
    /\ AtMax \in Nat /\ AckMax \in Nat \ {0} /\ PsiParts \in Nat \ {0} /\ EblParts \in Nat \ {0}
    /\ Mps \in BOOLEAN /\ Blocks \in Nat \ {0} /\ PortWords \in Nat \ {0}
    /\ ReplyLengths \subseteq Nat \ (0 .. 5)
  BY MipiAssumption DEF Mipi!ConstantsAssumption

(* The number of commands sent to the EBL. *)
MipiLast == IF Mps THEN 7 + Blocks + Blocks + Blocks ELSE 6 + Blocks + Blocks

(* The place of the command that selects a region. *)
Selects(r) == IF r = "firmware" THEN 3 ELSE IF r = "nv_data" THEN 4 + Blocks ELSE 5 + Blocks + Blocks

(* A sequence followed by another. *)
LEMMA Concatenated ==
    ASSUME NEW S, NEW s \in Seq(S), NEW t \in Seq(S)
    PROVE  /\ s \o t \in Seq(S) /\ Len(s \o t) = Len(s) + Len(t)
           /\ \A k \in 1..Len(s) : (s \o t)[k] = s[k]
           /\ \A k \in (Len(s) + 1)..(Len(s) + Len(t)) : (s \o t)[k] = t[k - Len(s)]
  OBVIOUS

(* A sequence followed by one more element. *)
LEMMA ConcatenatedOne ==
    ASSUME NEW S, NEW s \in Seq(S), NEW t \in Seq(S), Len(t) = 1
    PROVE  /\ s \o t \in Seq(S) /\ Len(s \o t) = Len(s) + 1
           /\ \A k \in 1..Len(s) : (s \o t)[k] = s[k]
           /\ (s \o t)[Len(s) + 1] = t[1]
  <1>1. /\ s \o t \in Seq(S) /\ Len(s \o t) = Len(s) + Len(t)
        /\ \A k \in 1..Len(s) : (s \o t)[k] = s[k]
        /\ \A k \in (Len(s) + 1)..(Len(s) + Len(t)) : (s \o t)[k] = t[k - Len(s)]
    BY Concatenated
  <1>2. Len(s) + 1 \in (Len(s) + 1)..(Len(s) + Len(t)) /\ Len(s) + 1 - Len(s) = 1
    OBVIOUS
  <1>3. QED
    BY <1>1, <1>2

(* Commands to the EBL. *)
Orders == [code : {"set_port_config", "sec_start", "set_address", "write_block", "sec_end", "hw_reset"},
           arg : {"config", "image", "magic", "firmware", "nv_data", "mps_data"} \cup Nat,
           ack : BOOLEAN]

(* What modem_data_send makes of a region: its address and its blocks. *)
LEMMA MipiRegion ==
    ASSUME NEW r \in {"firmware", "nv_data", "mps_data"}
    PROVE  /\ Mipi!ModemDataSend(r) \in Seq(Orders) /\ Len(Mipi!ModemDataSend(r)) = Blocks + 1
           /\ Mipi!ModemDataSend(r)[1] = [code |-> "set_address", arg |-> r, ack |-> TRUE]
           /\ \A k \in 2..(Blocks + 1) :
                 /\ Mipi!ModemDataSend(r)[k].code = "write_block"
                 /\ Mipi!ModemDataSend(r)[k].ack = TRUE
  <1> DEFINE a == <<Mipi!Command("set_address", r, TRUE)>>
             b == [k \in 1 .. Blocks |-> Mipi!Command("write_block", k, TRUE)]
  <1>1. /\ a \in Seq(Orders) /\ Len(a) = 1
        /\ a[1] = [code |-> "set_address", arg |-> r, ack |-> TRUE]
    BY DEF Mipi!Command, Orders
  <1>2. b \in Seq(Orders) /\ Len(b) = Blocks
    BY MipiConstants DEF Mipi!Command, Orders
  <1>3. \A k \in 1..Blocks : b[k].code = "write_block" /\ b[k].ack = TRUE
    BY DEF Mipi!Command
  <1>4. Mipi!ModemDataSend(r) = a \o b
    BY DEF Mipi!ModemDataSend
  <1>10. a \in Seq(Orders) /\ Len(a) = 1 /\ b \in Seq(Orders) /\ Len(b) = Blocks
    BY <1>1, <1>2
  <1> HIDE DEF a, b
  <1>5. /\ a \o b \in Seq(Orders) /\ Len(a \o b) = 1 + Blocks /\ (a \o b)[1] = a[1]
        /\ \A k \in 2..(1 + Blocks) : (a \o b)[k] = b[k - 1]
    <2>1. /\ a \o b \in Seq(Orders) /\ Len(a \o b) = Len(a) + Len(b)
          /\ \A k \in 1..Len(a) : (a \o b)[k] = a[k]
          /\ \A k \in (Len(a) + 1)..(Len(a) + Len(b)) : (a \o b)[k] = b[k - Len(a)]
      BY <1>10, Concatenated
    <2>2. QED
      BY <1>10, MipiConstants, <2>1
  <1>6. \A k \in 2..(1 + Blocks) : k - 1 \in 1..Blocks
    BY MipiConstants
  <1>7. \A k \in 2..(1 + Blocks) : (a \o b)[k].code = "write_block" /\ (a \o b)[k].ack = TRUE
    BY <1>3, <1>5, <1>6
  <1>8. Blocks + 1 = 1 + Blocks
    BY MipiConstants
  <1>9. QED
    BY <1>1, <1>4, <1>5, <1>7, <1>8

(* The commands in their order. *)
LEMMA MipiCommandsAre ==
    /\ MipiLast \in Nat
    /\ Mipi!Commands \in Seq(Orders) /\ Len(Mipi!Commands) = MipiLast
    /\ Mipi!Commands[1] = [code |-> "set_port_config", arg |-> "config", ack |-> TRUE]
    /\ Mipi!Commands[2] = [code |-> "sec_start", arg |-> "image", ack |-> TRUE]
    /\ \A r \in Mipi!Regions :
          /\ Mipi!Commands[Selects(r)] = [code |-> "set_address", arg |-> r, ack |-> TRUE]
          /\ \A k \in (Selects(r) + 1)..(Selects(r) + Blocks) :
                Mipi!Commands[k].code = "write_block" /\ Mipi!Commands[k].ack = TRUE
    /\ Mipi!Commands[MipiLast - 1] = [code |-> "sec_end", arg |-> "magic", ack |-> TRUE]
    /\ Mipi!Commands[MipiLast] = [code |-> "hw_reset", arg |-> "magic", ack |-> FALSE]
  <1> DEFINE p0 == Mipi!PortConfigSend  s0 == Mipi!SecStartSend
             f0 == Mipi!FirmwareSend  n0 == Mipi!NvDataSend
             m0 == IF Mps THEN Mipi!MpsDataSend ELSE <<>>
             e0 == Mipi!SecEndSend  h0 == Mipi!HwResetSend
             c2 == p0 \o s0
             c3 == c2 \o f0
             c4 == c3 \o n0
             c5 == c4 \o m0
             c6 == c5 \o e0
             L == IF Mps THEN Blocks + 1 ELSE 0
  <1>1. /\ p0 \in Seq(Orders) /\ Len(p0) = 1
        /\ p0[1] = [code |-> "set_port_config", arg |-> "config", ack |-> TRUE]
    BY DEF Mipi!PortConfigSend, Mipi!Command, Orders
  <1>2. /\ s0 \in Seq(Orders) /\ Len(s0) = 1
        /\ s0[1] = [code |-> "sec_start", arg |-> "image", ack |-> TRUE]
    BY DEF Mipi!SecStartSend, Mipi!Command, Orders
  <1>3. /\ f0 \in Seq(Orders) /\ Len(f0) = Blocks + 1
        /\ f0[1] = [code |-> "set_address", arg |-> "firmware", ack |-> TRUE]
        /\ \A k \in 2..(Blocks + 1) : f0[k].code = "write_block" /\ f0[k].ack = TRUE
    BY MipiRegion DEF Mipi!FirmwareSend
  <1>4. /\ n0 \in Seq(Orders) /\ Len(n0) = Blocks + 1
        /\ n0[1] = [code |-> "set_address", arg |-> "nv_data", ack |-> TRUE]
        /\ \A k \in 2..(Blocks + 1) : n0[k].code = "write_block" /\ n0[k].ack = TRUE
    BY MipiRegion DEF Mipi!NvDataSend
  <1>5. /\ m0 \in Seq(Orders) /\ Len(m0) = L
        /\ Mps => /\ m0[1] = [code |-> "set_address", arg |-> "mps_data", ack |-> TRUE]
                  /\ \A k \in 2..(Blocks + 1) : m0[k].code = "write_block" /\ m0[k].ack = TRUE
    <2>1. CASE Mps
      <3>1. m0 = Mipi!ModemDataSend("mps_data") /\ L = Blocks + 1
        BY <2>1 DEF Mipi!MpsDataSend
      <3>2. QED
        BY <3>1, MipiRegion
    <2>2. CASE ~Mps
      BY <2>2
    <2>3. QED
      BY <2>1, <2>2
  <1>6. /\ e0 \in Seq(Orders) /\ Len(e0) = 1
        /\ e0[1] = [code |-> "sec_end", arg |-> "magic", ack |-> TRUE]
    BY DEF Mipi!SecEndSend, Mipi!Command, Orders
  <1>7. /\ h0 \in Seq(Orders) /\ Len(h0) = 1
        /\ h0[1] = [code |-> "hw_reset", arg |-> "magic", ack |-> FALSE]
    BY DEF Mipi!HwResetSend, Mipi!Command, Orders
  <1>0. /\ p0 \in Seq(Orders) /\ Len(p0) = 1 /\ s0 \in Seq(Orders) /\ Len(s0) = 1
        /\ f0 \in Seq(Orders) /\ Len(f0) = Blocks + 1
        /\ n0 \in Seq(Orders) /\ Len(n0) = Blocks + 1
        /\ m0 \in Seq(Orders) /\ Len(m0) = L
        /\ e0 \in Seq(Orders) /\ Len(e0) = 1 /\ h0 \in Seq(Orders) /\ Len(h0) = 1
    BY <1>1, <1>2, <1>3, <1>4, <1>5, <1>6, <1>7
  <1>8. Mipi!Commands = c6 \o h0
    BY DEF Mipi!Commands
  <1>9. L \in Nat /\ (Mps => L = Blocks + 1) /\ (~Mps => L = 0) /\ MipiLast = 6 + Blocks + Blocks + L
    BY MipiConstants DEF MipiLast
  <1> HIDE DEF p0, s0, f0, n0, m0, e0, h0, L
  <1>11. c2 \in Seq(Orders) /\ Len(c2) = 2 /\ c2[1] = p0[1] /\ c2[2] = s0[1]
    <2>1. /\ p0 \o s0 \in Seq(Orders) /\ Len(p0 \o s0) = Len(p0) + 1
          /\ \A k \in 1..Len(p0) : (p0 \o s0)[k] = p0[k]
          /\ (p0 \o s0)[Len(p0) + 1] = s0[1]
      BY <1>0, ConcatenatedOne
    <2>2. QED
      BY <1>0, <2>1
  <1> HIDE DEF c2
  <1>12. /\ c3 \in Seq(Orders) /\ Len(c3) = 3 + Blocks
         /\ \A k \in 1..2 : c3[k] = c2[k]
         /\ \A k \in 3..(3 + Blocks) : c3[k] = f0[k - 2]
    <2>0. c2 \in Seq(Orders) /\ Len(c2) = 2
      BY <1>11
    <2>3. f0 \in Seq(Orders) /\ Len(f0) = Blocks + 1
      BY <1>0
    <2>1. /\ c2 \o f0 \in Seq(Orders) /\ Len(c2 \o f0) = Len(c2) + Len(f0)
          /\ \A k \in 1..Len(c2) : (c2 \o f0)[k] = c2[k]
          /\ \A k \in (Len(c2) + 1)..(Len(c2) + Len(f0)) : (c2 \o f0)[k] = f0[k - Len(c2)]
      BY <2>0, <2>3, Concatenated
    <2>2. QED
      BY <1>0, <2>0, MipiConstants, <2>1
  <1> HIDE DEF c3
  <1>13. /\ c4 \in Seq(Orders) /\ Len(c4) = 4 + Blocks + Blocks
         /\ \A k \in 1..(3 + Blocks) : c4[k] = c3[k]
         /\ \A k \in (4 + Blocks)..(4 + Blocks + Blocks) : c4[k] = n0[k - (3 + Blocks)]
    <2>0. c3 \in Seq(Orders) /\ Len(c3) = 3 + Blocks
      BY <1>12
    <2>3. n0 \in Seq(Orders) /\ Len(n0) = Blocks + 1
      BY <1>0
    <2>1. /\ c3 \o n0 \in Seq(Orders) /\ Len(c3 \o n0) = Len(c3) + Len(n0)
          /\ \A k \in 1..Len(c3) : (c3 \o n0)[k] = c3[k]
          /\ \A k \in (Len(c3) + 1)..(Len(c3) + Len(n0)) : (c3 \o n0)[k] = n0[k - Len(c3)]
      BY <2>0, <2>3, Concatenated
    <2>2. QED
      BY <2>0, <2>3, MipiConstants, <2>1
  <1> HIDE DEF c4
  <1>14. /\ c5 \in Seq(Orders) /\ Len(c5) = 4 + Blocks + Blocks + L
         /\ \A k \in 1..(4 + Blocks + Blocks) : c5[k] = c4[k]
         /\ \A k \in (5 + Blocks + Blocks)..(4 + Blocks + Blocks + L) :
               c5[k] = m0[k - (4 + Blocks + Blocks)]
    <2>0. c4 \in Seq(Orders) /\ Len(c4) = 4 + Blocks + Blocks
      BY <1>13
    <2>3. m0 \in Seq(Orders) /\ Len(m0) = L /\ L \in Nat
      BY <1>0, <1>9, MipiConstants
    <2>1. /\ c4 \o m0 \in Seq(Orders) /\ Len(c4 \o m0) = Len(c4) + Len(m0)
          /\ \A k \in 1..Len(c4) : (c4 \o m0)[k] = c4[k]
          /\ \A k \in (Len(c4) + 1)..(Len(c4) + Len(m0)) : (c4 \o m0)[k] = m0[k - Len(c4)]
      BY <2>0, <2>3, Concatenated
    <2>2. QED
      BY <2>0, <2>1, <2>3, MipiConstants
  <1> HIDE DEF c5
  <1>15. /\ c6 \in Seq(Orders) /\ Len(c6) = 5 + Blocks + Blocks + L
         /\ \A k \in 1..(4 + Blocks + Blocks + L) : c6[k] = c5[k]
         /\ c6[5 + Blocks + Blocks + L] = e0[1]
    <2>1. /\ c5 \o e0 \in Seq(Orders) /\ Len(c5 \o e0) = Len(c5) + 1
          /\ \A k \in 1..Len(c5) : (c5 \o e0)[k] = c5[k]
          /\ (c5 \o e0)[Len(c5) + 1] = e0[1]
      BY <1>0, <1>14, ConcatenatedOne
    <2>2. Len(c5) + 1 = 5 + Blocks + Blocks + L
      BY <1>9, <1>14, MipiConstants
    <2>3. QED
      BY <1>14, <2>1, <2>2
  <1> HIDE DEF c6
  <1>16. /\ Mipi!Commands \in Seq(Orders) /\ Len(Mipi!Commands) = MipiLast
         /\ \A k \in 1..(5 + Blocks + Blocks + L) : Mipi!Commands[k] = c6[k]
         /\ Mipi!Commands[6 + Blocks + Blocks + L] = h0[1]
    <2>1. /\ c6 \o h0 \in Seq(Orders) /\ Len(c6 \o h0) = Len(c6) + 1
          /\ \A k \in 1..Len(c6) : (c6 \o h0)[k] = c6[k]
          /\ (c6 \o h0)[Len(c6) + 1] = h0[1]
      BY <1>0, <1>15, ConcatenatedOne
    <2>2. Len(c6) + 1 = 6 + Blocks + Blocks + L
      BY <1>9, <1>15, MipiConstants
    <2>3. QED
      BY <1>8, <1>9, <1>15, <2>1, <2>2
  <1>17. /\ \A k \in 1..(4 + Blocks + Blocks + L) : Mipi!Commands[k] = c5[k]
         /\ \A k \in 1..(4 + Blocks + Blocks) : Mipi!Commands[k] = c4[k]
         /\ \A k \in 1..(3 + Blocks) : Mipi!Commands[k] = c3[k]
         /\ \A k \in 1..2 : Mipi!Commands[k] = c2[k]
    BY <1>9, <1>12, <1>13, <1>14, <1>15, <1>16, MipiConstants
  <1>18. ASSUME NEW r \in Mipi!Regions
         PROVE  /\ Mipi!Commands[Selects(r)] = [code |-> "set_address", arg |-> r, ack |-> TRUE]
                /\ \A k \in (Selects(r) + 1)..(Selects(r) + Blocks) :
                      Mipi!Commands[k].code = "write_block" /\ Mipi!Commands[k].ack = TRUE
    <2>1. r \in {"firmware", "nv_data"} \/ (Mps /\ r = "mps_data")
      BY DEF Mipi!Regions
    <2>2. CASE r = "firmware"
      <3>1. \A k \in 3..(3 + Blocks) : Mipi!Commands[k] = f0[k - 2] /\ k - 2 \in 1..(Blocks + 1)
                                        /\ (k > 3 => k - 2 \in 2..(Blocks + 1))
        BY <1>12, <1>17, MipiConstants
      <3>2. Selects(r) = 3 /\ 3 - 2 = 1
        BY <2>2 DEF Selects
      <3>3. QED
        BY <1>3, <2>2, <3>1, <3>2, MipiConstants
    <2>3. CASE r = "nv_data"
      <3>1. \A k \in (4 + Blocks)..(4 + Blocks + Blocks) :
               /\ Mipi!Commands[k] = n0[k - (3 + Blocks)]
               /\ (k > 4 + Blocks => k - (3 + Blocks) \in 2..(Blocks + 1))
               /\ (k = 4 + Blocks => k - (3 + Blocks) = 1)
        BY <1>13, <1>17, MipiConstants
      <3>2. Selects(r) = 4 + Blocks
        BY <2>3 DEF Selects
      <3>3. QED
        BY <1>4, <2>3, <3>1, <3>2, MipiConstants
    <2>4. CASE Mps /\ r = "mps_data"
      <3>1. \A k \in (5 + Blocks + Blocks)..(5 + Blocks + Blocks + Blocks) :
               /\ Mipi!Commands[k] = m0[k - (4 + Blocks + Blocks)]
               /\ (k > 5 + Blocks + Blocks => k - (4 + Blocks + Blocks) \in 2..(Blocks + 1))
               /\ (k = 5 + Blocks + Blocks => k - (4 + Blocks + Blocks) = 1)
        BY <1>9, <1>14, <1>17, <2>4, MipiConstants
      <3>2. Selects(r) = 5 + Blocks + Blocks
        BY <2>4 DEF Selects
      <3>3. QED
        BY <1>5, <2>4, <3>1, <3>2, MipiConstants
    <2>5. QED
      BY <2>1, <2>2, <2>3, <2>4
  <1>19. /\ Mipi!Commands[1] = p0[1] /\ Mipi!Commands[2] = s0[1]
         /\ Mipi!Commands[MipiLast - 1] = e0[1] /\ Mipi!Commands[MipiLast] = h0[1]
         /\ MipiLast \in Nat
    <2>1. MipiLast - 1 = 5 + Blocks + Blocks + L /\ MipiLast \in Nat /\ 5 + Blocks + Blocks + L \in Nat
      BY <1>9, MipiConstants
    <2>2. 5 + Blocks + Blocks + L \in 1..(5 + Blocks + Blocks + L)
      BY <2>1, MipiConstants, <1>9
    <2>3. QED
      BY <1>9, <1>11, <1>15, <1>16, <1>17, <2>1, <2>2
  <1>20. QED
    BY <1>1, <1>2, <1>6, <1>7, <1>16, <1>18, <1>19

(* Their codes and whether they are answered, for each place. *)
LEMMA MipiFields ==
    /\ Mipi!Commands[1].code = "set_port_config" /\ Mipi!Commands[1].ack = TRUE
    /\ Mipi!Commands[2].code = "sec_start" /\ Mipi!Commands[2].ack = TRUE
    /\ Mipi!Commands[MipiLast - 1].code = "sec_end" /\ Mipi!Commands[MipiLast - 1].ack = TRUE
    /\ Mipi!Commands[MipiLast].code = "hw_reset" /\ Mipi!Commands[MipiLast].ack = FALSE
    /\ \A r \in Mipi!Regions :
          /\ Mipi!Commands[Selects(r)].code = "set_address"
          /\ Mipi!Commands[Selects(r)].arg = r /\ Mipi!Commands[Selects(r)].ack = TRUE
          /\ \A k \in (Selects(r) + 1)..(Selects(r) + Blocks) :
                Mipi!Commands[k].code = "write_block" /\ Mipi!Commands[k].ack = TRUE
  <1>1. Mipi!Commands[1].code = "set_port_config" /\ Mipi!Commands[1].ack = TRUE
    BY MipiCommandsAre
  <1>2. Mipi!Commands[2].code = "sec_start" /\ Mipi!Commands[2].ack = TRUE
    BY MipiCommandsAre
  <1>3. Mipi!Commands[MipiLast - 1].code = "sec_end" /\ Mipi!Commands[MipiLast - 1].ack = TRUE
    BY MipiCommandsAre
  <1>4. Mipi!Commands[MipiLast].code = "hw_reset" /\ Mipi!Commands[MipiLast].ack = FALSE
    BY MipiCommandsAre
  <1>5. ASSUME NEW r \in Mipi!Regions
        PROVE  /\ Mipi!Commands[Selects(r)].code = "set_address"
               /\ Mipi!Commands[Selects(r)].arg = r /\ Mipi!Commands[Selects(r)].ack = TRUE
    <2>1. Mipi!Commands[Selects(r)] = [code |-> "set_address", arg |-> r, ack |-> TRUE]
      BY MipiCommandsAre
    <2>2. QED
      BY <2>1
  <1>6. QED
    BY <1>1, <1>2, <1>3, <1>4, <1>5, MipiCommandsAre

(* The places of the regions' commands: apart from each other, between the *)
(* session's start and end.                                                *)
LEMMA MipiPlaces ==
    /\ \A r \in Mipi!Regions : /\ Selects(r) \in 3..(MipiLast - 2 - Blocks)
                               /\ Selects(r) + Blocks \in 3..(MipiLast - 2)
    /\ \A r, q \in Mipi!Regions : r # q =>
          Selects(r) + Blocks < Selects(q) \/ Selects(q) + Blocks < Selects(r)
    /\ \A k \in 1..MipiLast :
          \/ k \in {1, 2, MipiLast - 1, MipiLast}
          \/ \E r \in Mipi!Regions : k \in Selects(r)..(Selects(r) + Blocks)
  <1>1. CASE Mps
    <2>1. Mipi!Regions = {"firmware", "nv_data", "mps_data"} /\ MipiLast = 7 + Blocks + Blocks + Blocks
      BY <1>1 DEF Mipi!Regions, MipiLast
    <2>2. Selects("firmware") = 3 /\ Selects("nv_data") = 4 + Blocks /\ Selects("mps_data") = 5 + Blocks + Blocks
      BY DEF Selects
    <2>3. \A k \in 1..MipiLast :
          \/ k \in {1, 2, MipiLast - 1, MipiLast}
          \/ k \in 3..(3 + Blocks) \/ k \in (4 + Blocks)..(4 + Blocks + Blocks)
          \/ k \in (5 + Blocks + Blocks)..(5 + Blocks + Blocks + Blocks)
      BY <2>1, MipiConstants
    <2>4. QED
      BY <2>1, <2>2, <2>3, MipiConstants
  <1>2. CASE ~Mps
    <2>1. Mipi!Regions = {"firmware", "nv_data"} /\ MipiLast = 6 + Blocks + Blocks
      BY <1>2 DEF Mipi!Regions, MipiLast
    <2>2. Selects("firmware") = 3 /\ Selects("nv_data") = 4 + Blocks
      BY DEF Selects
    <2>3. \A k \in 1..MipiLast :
          \/ k \in {1, 2, MipiLast - 1, MipiLast}
          \/ k \in 3..(3 + Blocks) \/ k \in (4 + Blocks)..(4 + Blocks + Blocks)
      BY <2>1, MipiConstants
    <2>4. QED
      BY <2>1, <2>2, <2>3, MipiConstants
  <1>3. QED
    BY <1>1, <1>2

(* All but the reset are answered. *)
LEMMA MipiAcks ==
    ASSUME NEW k \in 1..MipiLast
    PROVE  /\ Mipi!Commands[k].ack = (k # MipiLast)
           /\ Mipi!Commands[k].code = "hw_reset" <=> k = MipiLast
           /\ Mipi!Commands[k].code = "sec_start" <=> k = 2
           /\ Mipi!Commands[k].code = "sec_end" <=> k = MipiLast - 1
  <1>0. MipiLast \in Nat /\ MipiLast > 5
    BY MipiConstants DEF MipiLast
  <1>1. CASE k \in {1, 2, MipiLast - 1, MipiLast}
    BY <1>0, <1>1, MipiFields
  <1>2. ASSUME NEW r \in Mipi!Regions, k \in Selects(r)..(Selects(r) + Blocks)
        PROVE  /\ Mipi!Commands[k].ack = TRUE
               /\ Mipi!Commands[k].code \in {"set_address", "write_block"}
               /\ k # 2 /\ k # MipiLast /\ k # MipiLast - 1
    <2>1. Selects(r) \in 3..(MipiLast - 2) /\ Selects(r) + Blocks \in 3..(MipiLast - 2)
      BY MipiPlaces, <1>0, MipiConstants
    <2>2. k # 2 /\ k # MipiLast /\ k # MipiLast - 1
      BY <1>0, <1>2, <2>1
    <2>3. CASE k = Selects(r)
      BY <2>2, <2>3, MipiFields
    <2>4. CASE k # Selects(r)
      <3>1. k \in (Selects(r) + 1)..(Selects(r) + Blocks)
        BY <1>2, <2>1, <2>4, MipiConstants
      <3>2. QED
        BY <2>2, <3>1, MipiFields
    <2>5. QED
      BY <2>3, <2>4
  <1>3. QED
    BY <1>1, <1>2, MipiPlaces

(* Blocks of a region, between none and all. *)
Upto(k) == IF k < 0 THEN 0 ELSE IF k > Blocks THEN Blocks ELSE k

(* What the modem has taken in after k commands. *)
MipiSession(k) == IF k < 2 THEN "none" ELSE IF k < MipiLast - 1 THEN "started" ELSE "ended"
(* The flash, the session and the address after the first k commands. *)
MipiState(k, f, s, a) ==
    /\ f \in [Mipi!Regions -> Nat]
    /\ \A r \in Mipi!Regions : f[r] = Upto(k - Selects(r))
    /\ s = MipiSession(k)
    /\ \A r \in Mipi!Regions : k \in Selects(r)..(Selects(r) + Blocks) => a = r
(* The modem has carried out the first k commands. *)
MipiAfter(k) == MipiState(k, flash, sec, address)

(* What a command changes. *)
MipiHandles(c, f, s, a, f2, s2, a2) ==
    /\ a2 = IF c.code = "set_address" THEN c.arg ELSE a
    /\ f2 = IF c.code = "write_block" /\ s = "started" THEN [f EXCEPT ![a] = @ + 1] ELSE f
    /\ s2 = CASE c.code = "sec_start" -> "started"
              [] c.code = "sec_end"   -> "ended"
              [] OTHER                -> s

(* Carrying out one more command. *)
LEMMA MipiApplies ==
    ASSUME NEW k \in 0..(MipiLast - 2), NEW f, NEW s, NEW a, NEW f2, NEW s2, NEW a2,
           MipiState(k, f, s, a), MipiHandles(Mipi!Commands[k + 1], f, s, a, f2, s2, a2)
    PROVE  MipiState(k + 1, f2, s2, a2)
  <1>0. MipiLast \in Nat /\ MipiLast > 5 /\ k + 1 \in 1..MipiLast /\ k + 1 # MipiLast
    BY MipiConstants DEF MipiLast
  <1>1. s2 = MipiSession(k + 1)
    <2>1. /\ Mipi!Commands[k + 1].code = "sec_start" <=> k + 1 = 2
          /\ Mipi!Commands[k + 1].code = "sec_end" <=> k + 1 = MipiLast - 1
      BY <1>0, MipiAcks
    <2>2. s = MipiSession(k)
      BY DEF MipiState
    <2>3. CASE k + 1 = 2
      BY <1>0, <2>1, <2>3 DEF MipiHandles, MipiSession
    <2>4. CASE k + 1 = MipiLast - 1
      <3>1. s2 = "ended"
        BY <1>0, <2>1, <2>4 DEF MipiHandles
      <3>2. QED
        BY <1>0, <2>4, <3>1 DEF MipiSession
    <2>5. CASE k + 1 # 2 /\ k + 1 # MipiLast - 1
      <3>1. s2 = s
        BY <2>1, <2>5 DEF MipiHandles
      <3>2. QED
        BY <1>0, <2>2, <2>5, <3>1 DEF MipiSession
    <2>6. QED
      BY <2>3, <2>4, <2>5
  <1>2. CASE k + 1 \in {1, 2, MipiLast - 1}
    <2>1. Mipi!Commands[k + 1].code \in {"set_port_config", "sec_start", "sec_end"}
      BY <1>0, <1>2, MipiFields
    <2>2. a2 = a /\ f2 = f
      BY <2>1 DEF MipiHandles
    <2>3. ASSUME NEW r \in Mipi!Regions
          PROVE  /\ Upto((k + 1) - Selects(r)) = Upto(k - Selects(r))
                 /\ ~(k + 1 \in Selects(r)..(Selects(r) + Blocks))
      <3>1. Selects(r) \in 3..(MipiLast - 2) /\ Selects(r) + Blocks \in 3..(MipiLast - 2)
        BY MipiPlaces, <1>0, MipiConstants
      <3>2. QED
        BY <1>0, <1>2, <3>1, MipiConstants DEF Upto
    <2>4. f2 \in [Mipi!Regions -> Nat] /\ \A r \in Mipi!Regions : f2[r] = Upto((k + 1) - Selects(r))
      BY <2>2, <2>3 DEF MipiState
    <2>5. \A r \in Mipi!Regions : k + 1 \in Selects(r)..(Selects(r) + Blocks) => a2 = r
      BY <2>3
    <2>6. QED
      BY <1>1, <2>4, <2>5 DEF MipiState
  <1>3. ASSUME NEW q \in Mipi!Regions, k + 1 \in Selects(q)..(Selects(q) + Blocks)
        PROVE  MipiState(k + 1, f2, s2, a2)
    <2>1. Selects(q) \in 3..(MipiLast - 2) /\ Selects(q) + Blocks \in 3..(MipiLast - 2)
      BY MipiPlaces, <1>0, MipiConstants
    <2>2. ASSUME NEW r \in Mipi!Regions, r # q
          PROVE  /\ Upto((k + 1) - Selects(r)) = Upto(k - Selects(r))
                 /\ ~(k + 1 \in Selects(r)..(Selects(r) + Blocks))
      <3>1. /\ Selects(r) \in 3..(MipiLast - 2)
            /\ Selects(q) + Blocks < Selects(r) \/ Selects(r) + Blocks < Selects(q)
        BY <2>2, MipiPlaces, <1>0, MipiConstants
      <3>2. QED
        BY <1>0, <1>3, <2>1, <3>1, MipiConstants DEF Upto
    <2>3. CASE k + 1 = Selects(q)
      <3>1. Mipi!Commands[k + 1].code = "set_address" /\ Mipi!Commands[k + 1].arg = q
        BY <2>3, MipiFields
      <3>2. a2 = q /\ f2 = f
        BY <3>1 DEF MipiHandles
      <3>3. Upto((k + 1) - Selects(q)) = Upto(k - Selects(q))
        BY <2>1, <2>3, MipiConstants DEF Upto
      <3>4. f2 \in [Mipi!Regions -> Nat] /\ \A r \in Mipi!Regions : f2[r] = Upto((k + 1) - Selects(r))
        BY <2>2, <3>2, <3>3 DEF MipiState
      <3>5. \A r \in Mipi!Regions : k + 1 \in Selects(r)..(Selects(r) + Blocks) => a2 = r
        BY <2>2, <3>2
      <3>6. QED
        BY <1>1, <3>4, <3>5 DEF MipiState
    <2>4. CASE k + 1 # Selects(q)
      <3>1. k + 1 \in (Selects(q) + 1)..(Selects(q) + Blocks)
        BY <1>0, <1>3, <2>1, <2>4, MipiConstants
      <3>2. Mipi!Commands[k + 1].code = "write_block"
        BY <3>1, MipiFields
      <3>3. a = q /\ s = "started"
        <4>1. k \in Selects(q)..(Selects(q) + Blocks) /\ ~(k < 2) /\ k < MipiLast - 1
          BY <1>0, <2>1, <3>1, MipiConstants
        <4>2. QED
          BY <4>1 DEF MipiState, MipiSession
      <3>4. a2 = a /\ f2 = [f EXCEPT ![q] = @ + 1]
        BY <3>2, <3>3 DEF MipiHandles
      <3>5. Upto((k + 1) - Selects(q)) = Upto(k - Selects(q)) + 1
        BY <1>0, <2>1, <3>1, MipiConstants DEF Upto
      <3>6. f2 \in [Mipi!Regions -> Nat] /\ \A r \in Mipi!Regions : f2[r] = Upto((k + 1) - Selects(r))
        <4>1. f \in [Mipi!Regions -> Nat] /\ \A r \in Mipi!Regions : f[r] = Upto(k - Selects(r))
          BY DEF MipiState
        <4>2. QED
          BY <2>2, <3>4, <3>5, <4>1
      <3>7. \A r \in Mipi!Regions : k + 1 \in Selects(r)..(Selects(r) + Blocks) => a2 = r
        BY <2>2, <3>3, <3>4
      <3>8. QED
        BY <1>1, <3>6, <3>7 DEF MipiState
    <2>5. QED
      BY <2>3, <2>4
  <1>4. QED
    BY <1>0, <1>2, <1>3, MipiPlaces

(* All regions are flashed by all commands. *)
LEMMA MipiFlashed ==
    ASSUME MipiAfter(MipiLast)
    PROVE  Mipi!Flashed
  <1>1. MipiLast \in Nat /\ MipiLast > 5
    BY MipiConstants DEF MipiLast
  <1>2. \A r \in Mipi!Regions : Upto(MipiLast - Selects(r)) = Blocks
    BY <1>1, MipiPlaces, MipiConstants DEF Upto
  <1>3. sec = "ended"
    BY <1>1 DEF MipiAfter, MipiState, MipiSession
  <1>4. flash \in [Mipi!Regions -> Nat] /\ \A r \in Mipi!Regions : flash[r] = Blocks
    BY <1>2 DEF MipiAfter, MipiState
  <1>5. QED
    BY <1>3, <1>4 DEF Mipi!Flashed

(* The reset flashes nothing. *)
LEMMA MipiResets ==
    ASSUME MipiAfter(MipiLast - 1)
    PROVE  MipiAfter(MipiLast)
  <1>1. MipiLast \in Nat /\ MipiLast > 5
    BY MipiConstants DEF MipiLast
  <1>2. \A r \in Mipi!Regions :
           /\ Upto(MipiLast - Selects(r)) = Upto(MipiLast - 1 - Selects(r))
           /\ ~(MipiLast \in Selects(r)..(Selects(r) + Blocks))
    BY <1>1, MipiPlaces, MipiConstants DEF Upto
  <1>3. sec = "ended"
    BY <1>1 DEF MipiAfter, MipiState, MipiSession
  <1>4. QED
    BY <1>1, <1>2, <1>3 DEF MipiAfter, MipiState, MipiSession

(***************************************************************************)
(* The invariant.                                                          *)
(***************************************************************************)
Probing    == {"at_write", "at_select", "boot0_ack", "psi_header", "psi", "psi_crc"}
Loading    == {"magic_length", "magic", "boot1_ack", "size_length", "size", "size_ack",
               "size_plus_one", "ebl", "ebl_crc", "ebl_ack"}
(* The EBL runs and is sent commands. *)
Commanding == {"port_length", "port_config", "command", "reply_length", "reply_data"}
Loads      == {"at", "psi_header", "psi", "psi_crc", "magic_length", "magic", "size_length",
               "size", "size_plus_one", "ebl", "ebl_crc"}
(* What the ROM and the PSI send. *)
Boot0Words == {<<"ack", "boot0">>, <<"ack", "psi">>}

(* Types. *)
MipiTypes ==
    /\ pc \in Probing \cup {"psi_ack", "reopen"} \cup Loading \cup Commanding
              \cup {"done", "error", "undefined"}
    /\ n \in Nat
    /\ tx \in Seq(Loads \cup Orders)
    /\ stage \in {"rom", "rom_psi", "psi", "psi_ebl", "ebl", "firmware", "hung"}

(* Whatever became of the host: nothing follows the end of the EBL, a running EBL is    *)
(* sent only commands, and the reset only by a boot that is done.                       *)
MipiAlways ==
    /\ \A k \in 1..Len(tx) : tx[k] = "ebl_crc" => k = Len(tx)
    /\ stage = "ebl" =>
          \A k \in 1..Len(tx) :
              \E j \in 1..MipiLast : tx[k] = Mipi!Commands[j] /\ (j = MipiLast => pc = "done")
    /\ stage = "firmware" => pc = "done"

(* Before the second device is opened: the PSI is acknowledged after all of it, and all *)
(* of the probes, were taken.                                                           *)
MipiProbing ==
    /\ pc \in Probing \cup {"psi_ack", "reopen"} => rx \in Seq(Boot0Words)
    /\ pc \in Probing =>
          /\ stage \in {"rom", "rom_psi", "hung"}
          /\ \A k \in 1..Len(tx) : tx[k] \in {"at", "psi_header", "psi"}
          /\ \A k \in 1..Len(rx) : rx[k] # <<"ack", "psi">>
    /\ pc \in {"psi_ack", "reopen"} =>
          \/ /\ pc = "psi_ack" /\ stage \in {"rom", "rom_psi", "hung"}
             /\ \A k \in 1..Len(rx) : rx[k] # <<"ack", "psi">>
             /\ \A k \in 1..Len(tx) :
                   tx[k] \in {"at", "psi_header", "psi"} \/ (tx[k] = "psi_crc" /\ k = Len(tx))
          \/ tx = <<>> /\ stage \in {"psi", "hung"}

(* The host and the loaders in step. *)
Silent == tx = <<>> /\ rx = <<>>
(* Items on their way that nobody answers. *)
Unheard(items) == rx = <<>> /\ (\A k \in 1..Len(tx) : tx[k] \in items)
(* Items on their way, or their answer. *)
Heard(last, items, answer) ==
    \/ /\ rx = <<>>
       /\ \A k \in 1..Len(tx) : tx[k] \in items \/ (tx[k] = last /\ k = Len(tx))
    \/ tx = <<>> /\ rx = answer

(* The handshakes while PSI and EBL are loaded. *)
MipiLoading ==
    /\ pc \in {"magic_length", "magic", "boot1_ack", "size_length", "size", "size_ack",
               "size_plus_one"} => stage \in {"psi", "hung"}
    /\ pc \in {"ebl", "ebl_crc"} => stage \in {"psi", "psi_ebl", "hung"}
    /\ pc = "ebl_ack" => stage \in {"psi", "psi_ebl", "hung"} \/ (stage = "ebl" /\ tx = <<>>)
    /\ pc \in {"magic_length", "size_length", "size_plus_one"} => Silent
    /\ pc = "magic" => Unheard({"magic_length"})
    /\ pc = "boot1_ack" => Heard("magic", {"magic_length"}, Mipi!AckWord("boot1"))
    /\ pc = "size" => Unheard({"size_length"})
    /\ pc = "size_ack" => Heard("size", {"size_length"}, Mipi!AckWord("ebl_size"))
    /\ pc \in {"ebl", "ebl_crc"} => Unheard({"size_plus_one", "ebl"})
    /\ pc = "ebl_ack" =>
          /\ Heard("ebl_crc", {"size_plus_one", "ebl"}, Mipi!AckWord("ebl") \o Mipi!PortConfig)
          /\ tx = <<>> /\ rx # <<>> => stage \in {"ebl", "hung"}

(* The host and the EBL in step. *)
PortConfigWords == {<<"port_config", k>> : k \in 1..PortWords}

(* The handshakes of the commands. *)
MipiCommanding ==
    /\ pc \in Commanding => stage \in {"ebl", "hung"}
    /\ pc = "done" => stage \in {"ebl", "hung", "firmware"}
    /\ pc = "port_length" => tx = <<>> /\ rx = Mipi!PortConfig
    /\ pc = "port_config" =>
          tx = <<>> /\ n < PortWords /\ rx \in Seq(PortConfigWords) /\ Len(rx) = PortWords - n
    /\ pc = "command" => Silent
    /\ pc = "reply_length" =>
          \/ rx = <<>> /\ tx = <<Head(todo)>>
          \/ tx = <<>> /\ \E l \in ReplyLengths : rx = Mipi!Reply(Head(todo).code, l)
    /\ pc = "reply_data" =>
          /\ tx = <<>> /\ len \in ReplyLengths /\ count \in Nat
          /\ count % 4 = 0 /\ count <= Mipi!BufferSize
          /\ rx \in Seq({<<"word", Head(todo).code>>})
          /\ Len(rx) * 4 + count = 4 + 4 * ((len + 3) \div 4)
    /\ pc = "undefined" => len % 2 = 1
    /\ pc = "done" => rx = <<>> /\ (tx = <<>> \/ tx = <<Mipi!Commands[MipiLast]>>)

(* The commands still to send, and what the modem has taken in. *)
MipiSent == MipiLast - Len(todo)

(* What is left to send is the rest of the commands. *)
MipiTodo ==
    /\ todo \in Seq(Orders) /\ Len(todo) \in 0..MipiLast
    /\ \A k \in 1..Len(todo) : todo[k] = Mipi!Commands[MipiSent + k]
    /\ pc \in Probing \cup {"psi_ack", "reopen"} \cup Loading => Len(todo) = MipiLast
    /\ pc \in Commanding => Len(todo) > 0
    /\ pc \in {"reply_length", "reply_data"} => Len(todo) > 1
    /\ pc = "done" => Len(todo) = 0

(* The modem has carried out what was sent and answered. *)
MipiProgress ==
    pc \notin {"error", "undefined"} =>
        IF pc = "reply_data" \/ (pc = "reply_length" /\ tx = <<>>) THEN MipiAfter(MipiSent + 1)
                                                                  ELSE MipiAfter(MipiSent)

(* The inductive invariant of xmm626_mipi.c. *)
MipiInv ==
    /\ OnMipi
    /\ MipiTypes /\ MipiAlways /\ MipiProbing /\ MipiLoading /\ MipiCommanding
    /\ MipiTodo /\ MipiProgress

(* There are commands around the regions. *)
LEMMA MipiLastIs == MipiLast \in Nat /\ MipiLast > 5
  BY MipiConstants DEF MipiLast

(* At first nothing is on its way and all is to be sent. *)
LEMMA MipiInit ==
    ASSUME OnMipi, Mipi!Init
    PROVE  MipiInv
  <1>1. /\ pc = "at_write" /\ n = 0 /\ todo = Mipi!Commands /\ tx = <<>> /\ rx = <<>>
        /\ stage = "rom" /\ flash = [r \in Mipi!Regions |-> 0] /\ sec = "none"
    BY DEF Mipi!Init
  <1>2. MipiTypes /\ MipiAlways /\ MipiProbing
    BY <1>1 DEF MipiTypes, MipiAlways, MipiProbing, Probing
  <1>3. MipiLoading /\ MipiCommanding
    BY <1>1 DEF MipiLoading, MipiCommanding, Commanding
  <1>4. MipiTodo /\ MipiSent = 0
    <2>1. todo \in Seq(Orders) /\ Len(todo) = MipiLast
      BY <1>1, MipiCommandsAre
    <2>2. MipiSent = 0
      BY <2>1, MipiLastIs DEF MipiSent
    <2>3. \A k \in 1..Len(todo) : 0 + k = k
      BY <2>1, MipiLastIs
    <2>4. QED
      BY <1>1, <2>1, <2>2, <2>3, MipiLastIs DEF MipiTodo, Commanding
  <1>5. MipiProgress
    <2>1. \A r \in Mipi!Regions : Upto(0 - Selects(r)) = 0 /\ ~(0 \in Selects(r)..(Selects(r) + Blocks))
      BY MipiPlaces, MipiConstants, MipiLastIs DEF Upto
    <2>2. MipiSession(0) = "none"
      BY DEF MipiSession
    <2>3. MipiAfter(0)
      BY <1>1, <2>1, <2>2 DEF MipiAfter, MipiState
    <2>4. QED
      BY <1>1, <1>4, <2>3 DEF MipiProgress
  <1>6. QED
    BY <1>2, <1>3, <1>4, <1>5 DEF MipiInv

(* A boot that fails leaves the modem alone. *)
LEMMA MipiFails ==
    ASSUME MipiInv, pc # "done", pc' \in {"error", "undefined"}, n' \in Nat,
           pc' = "undefined" => len' % 2 = 1,
           UNCHANGED <<device, tx, stage, todo>>
    PROVE  MipiInv'
  <1>1. MipiTypes' /\ MipiAlways'
    BY DEF MipiInv, MipiTypes, MipiAlways
  <1>2. MipiProbing' /\ MipiLoading' /\ MipiCommanding' /\ MipiProgress'
    BY DEF MipiProbing, MipiLoading, MipiCommanding, MipiProgress, Probing, Commanding
  <1>3. MipiTodo'
    BY DEF MipiInv, MipiTodo, MipiSent, Probing, Loading, Commanding
  <1>4. QED
    BY <1>1, <1>2, <1>3 DEF MipiInv, OnMipi

(* Nothing happens. *)
LEMMA MipiStutter ==
    ASSUME MipiInv,
           UNCHANGED <<device, pc, n, todo, len, count, tx, rx, stage, address, flash, sec>>
    PROVE  MipiInv'
  <1>1. MipiTypes' /\ MipiAlways' /\ MipiProbing'
    BY DEF MipiInv, MipiTypes, MipiAlways, MipiProbing
  <1>2. MipiLoading'
    BY DEF MipiInv, MipiLoading, Silent, Unheard, Heard
  <1>3. MipiCommanding'
    BY DEF MipiInv, MipiCommanding, Silent, Mipi!BufferSize
  <1>4. MipiTodo' /\ MipiProgress'
    BY DEF MipiInv, MipiTodo, MipiProgress, MipiSent, MipiAfter
  <1>5. QED
    BY <1>1, <1>2, <1>3, <1>4 DEF MipiInv, OnMipi

(* While the loaders are sent, the commands wait. *)
LEMMA MipiKept ==
    ASSUME MipiInv, UNCHANGED <<device, todo, address, flash, sec>>,
           pc \in Probing \cup {"psi_ack", "reopen"} \cup Loading,
           pc' \in Probing \cup {"psi_ack", "reopen"} \cup Loading
    PROVE  MipiTodo' /\ MipiProgress' /\ MipiCommanding' /\ OnMipi'
  <1>1. MipiTodo'
    BY DEF MipiInv, MipiTodo, MipiSent, Probing, Loading, Commanding
  <1>2. MipiProgress'
    BY DEF MipiInv, MipiProgress, MipiSent, MipiAfter, Probing, Loading
  <1>3. MipiCommanding' /\ OnMipi'
    BY DEF MipiInv, MipiCommanding, Probing, Loading, Commanding, OnMipi
  <1>4. QED
    BY <1>1, <1>2, <1>3

(* A write puts an item on its way. *)
LEMMA Written ==
    ASSUME MipiInv, NEW item \in Loads, tx' = Append(tx, item)
    PROVE  /\ tx' \in Seq(Loads \cup Orders)
           /\ \A k \in 1..Len(tx') : \/ k \in 1..Len(tx) /\ tx'[k] = tx[k]
                                     \/ k = Len(tx') /\ tx'[k] = item
           /\ Len(tx') = Len(tx) + 1
  BY PutLast DEF MipiInv, MipiTypes

(* Steps of xmm626_mipi_psi_send that write. *)
LEMMA MipiPsiWrites ==
    ASSUME MipiInv, Mipi!AtWrite \/ Mipi!PsiHeader \/ Mipi!PsiData \/ Mipi!PsiCrc, device' = device
    PROVE  MipiInv'
  <1>1. PICK item \in {"at", "psi_header", "psi", "psi_crc"} :
          /\ tx' = Append(tx, item) /\ UNCHANGED <<todo, rx, stage, address, flash, sec>>
          /\ pc \in Probing /\ n' \in Nat
          /\ IF item = "psi_crc" THEN pc' = "psi_ack" ELSE pc' \in Probing
    BY DEF Mipi!AtWrite, Mipi!PsiHeader, Mipi!PsiData, Mipi!PsiCrc, Mipi!Write, Mipi!Goto,
        Mipi!Loop, Mipi!modem, Probing, MipiInv, MipiTypes
  <1>2. /\ tx' \in Seq(Loads \cup Orders)
        /\ \A k \in 1..Len(tx') : \/ k \in 1..Len(tx) /\ tx'[k] = tx[k]
                                  \/ k = Len(tx') /\ tx'[k] = item
    BY <1>1, Written DEF Loads
  <1>3. /\ rx \in Seq(Boot0Words) /\ stage \in {"rom", "rom_psi", "hung"}
        /\ \A k \in 1..Len(tx) : tx[k] \in {"at", "psi_header", "psi"}
        /\ \A k \in 1..Len(rx) : rx[k] # <<"ack", "psi">>
    BY <1>1 DEF MipiInv, MipiProbing
  <1>4. \A k \in 1..Len(tx') : tx'[k] \in {"at", "psi_header", "psi"}
                                \/ (item = "psi_crc" /\ tx'[k] = "psi_crc" /\ k = Len(tx'))
    BY <1>2, <1>3
  <1>5. MipiTypes'
    BY <1>1, <1>2 DEF MipiInv, MipiTypes, Probing
  <1>6. MipiAlways'
    BY <1>1, <1>3, <1>4 DEF MipiAlways
  <1>7. MipiProbing'
    BY <1>1, <1>3, <1>4 DEF MipiProbing, Probing
  <1>8. MipiLoading'
    BY <1>1 DEF MipiLoading, Probing
  <1>9. QED
    BY <1>1, <1>5, <1>6, <1>7, <1>8, MipiKept DEF MipiInv

(* Its steps that read, and the change of the device. *)
LEMMA MipiPsiReads ==
    ASSUME MipiInv, Mipi!AtSelect \/ Mipi!Boot0Ack \/ Mipi!PsiAck \/ Mipi!Reopen, device' = device
    PROVE  MipiInv'
  <1>1. /\ UNCHANGED <<todo, tx, stage, address, flash, sec>> /\ n' \in Nat
        /\ pc \in Probing \cup {"psi_ack", "reopen"}
        /\ \/ rx' = rx \/ (rx' = Tail(rx) /\ rx # <<>>) \/ (pc = "reopen" /\ rx' = <<>>)
        /\ \/ pc \in Probing /\ pc' \in Probing /\ pc # "reopen"
           \/ pc = "psi_ack" /\ pc' = "psi_ack" /\ rx # <<>> /\ rx' = Tail(rx)
           \/ pc = "psi_ack" /\ pc' = "reopen" /\ Head(rx) = <<"ack", "psi">> /\ rx # <<>>
              /\ rx' = Tail(rx)
           \/ pc = "reopen" /\ pc' = "magic_length" /\ rx' = <<>>
           \/ pc' = "error"
    BY DEF Mipi!AtSelect, Mipi!Boot0Ack, Mipi!PsiAck, Mipi!Reopen, Mipi!AckRead, Mipi!Goto,
        Mipi!Loop, Mipi!Readable, Mipi!modem, Probing, MipiInv, MipiTypes
  <1>2. CASE pc' = "error"
    BY <1>1, <1>2, MipiFails DEF Probing
  <1>3. CASE pc' # "error"
    <2>1. /\ rx' \in Seq(Boot0Words)
          /\ (\A k \in 1..Len(rx) : rx[k] # <<"ack", "psi">>) =>
                 \A k \in 1..Len(rx') : rx'[k] # <<"ack", "psi">>
      <3>1. rx \in Seq(Boot0Words)
        BY <1>1 DEF MipiInv, MipiProbing
      <3>2. CASE rx' = rx
        BY <3>1, <3>2
      <3>3. CASE rx' = Tail(rx) /\ rx # <<>>
        BY <3>1, <3>3, TakeFirst
      <3>4. CASE rx' = <<>>
        BY <3>4
      <3>5. QED
        BY <1>1, <3>2, <3>3, <3>4
    <2>2. pc' = "reopen" => tx = <<>> /\ stage \in {"psi", "hung"}
      <3>1. SUFFICES ASSUME pc' = "reopen" PROVE tx = <<>> /\ stage \in {"psi", "hung"}
        OBVIOUS
      <3>2. pc = "psi_ack" /\ rx # <<>> /\ Head(rx) = <<"ack", "psi">>
        BY <1>1, <3>1 DEF Probing
      <3>3. 1 \in 1..Len(rx) /\ rx[1] = <<"ack", "psi">>
        BY <3>2, TakeFirst DEF MipiInv, MipiProbing
      <3>4. QED
        BY <3>2, <3>3 DEF MipiInv, MipiProbing
    <2>3. MipiTypes' /\ MipiAlways'
      BY <1>1, <1>3 DEF MipiInv, MipiTypes, MipiAlways, Probing, Loading
    <2>4. MipiProbing'
      BY <1>1, <1>3, <2>1, <2>2 DEF MipiInv, MipiProbing, Probing
    <2>5. pc' = "magic_length" => tx = <<>> /\ stage \in {"psi", "hung"} /\ rx' = <<>>
      BY <1>1 DEF MipiInv, MipiProbing, Probing
    <2>6. MipiLoading'
      BY <1>1, <1>3, <2>5 DEF MipiLoading, Probing, Silent
    <2>7. QED
      BY <1>1, <1>3, <2>3, <2>4, <2>6, MipiKept DEF MipiInv, Probing, Loading
  <1>4. QED
    BY <1>2, <1>3

(* Steps of xmm626_mipi_ebl_send that write. *)
LEMMA MipiEblWrites ==
    ASSUME MipiInv, device' = device,
           \/ Mipi!EblWrite("magic_length", "magic") \/ Mipi!EblWrite("magic", "boot1_ack")
           \/ Mipi!EblWrite("size_length", "size") \/ Mipi!EblWrite("size", "size_ack")
           \/ Mipi!EblWrite("size_plus_one", "ebl") \/ Mipi!EblData \/ Mipi!EblCrc
    PROVE  MipiInv'
  <1>1. /\ tx' = Append(tx, pc) /\ UNCHANGED <<todo, rx, stage, address, flash, sec>>
        /\ n' \in Nat
        /\ \/ pc = "magic_length" /\ pc' = "magic"
           \/ pc = "magic" /\ pc' = "boot1_ack"
           \/ pc = "size_length" /\ pc' = "size"
           \/ pc = "size" /\ pc' = "size_ack"
           \/ pc = "size_plus_one" /\ pc' = "ebl"
           \/ pc = "ebl" /\ pc' \in {"ebl", "ebl_crc"}
           \/ pc = "ebl_crc" /\ pc' = "ebl_ack"
    BY DEF Mipi!EblWrite, Mipi!EblData, Mipi!EblCrc, Mipi!Write, Mipi!Goto, Mipi!Loop,
        Mipi!modem, MipiInv, MipiTypes
  <1>2. pc \in Loads
    BY <1>1 DEF Loads
  <1>3. /\ tx' \in Seq(Loads \cup Orders)
        /\ \A k \in 1..Len(tx') : \/ k \in 1..Len(tx) /\ tx'[k] = tx[k]
                                  \/ k = Len(tx') /\ tx'[k] = pc
    BY <1>1, <1>2, Written
  <1>4. /\ rx = <<>> /\ stage \in {"psi", "psi_ebl", "hung"}
        /\ pc \in {"magic_length", "magic", "size_length", "size", "size_plus_one"} =>
              stage \in {"psi", "hung"}
    BY <1>1 DEF MipiInv, MipiLoading, Silent, Unheard
  <1>5. /\ pc \in {"magic_length", "size_length", "size_plus_one"} => tx = <<>>
        /\ pc = "magic" => \A k \in 1..Len(tx) : tx[k] \in {"magic_length"}
        /\ pc = "size" => \A k \in 1..Len(tx) : tx[k] \in {"size_length"}
        /\ pc \in {"ebl", "ebl_crc"} => \A k \in 1..Len(tx) : tx[k] \in {"size_plus_one", "ebl"}
    BY DEF MipiInv, MipiLoading, Silent, Unheard
  <1>6. \A k \in 1..Len(tx) : tx[k] # "ebl_crc"
    <2>1. CASE tx = <<>>
      BY <2>1
    <2>2. QED
      BY <1>1, <1>5, <2>1
  <1>7. MipiTypes' /\ MipiProbing'
    BY <1>1, <1>3 DEF MipiInv, MipiTypes, MipiProbing, Loading, Probing
  <1>8. MipiAlways'
    BY <1>1, <1>3, <1>4, <1>6 DEF MipiAlways
  <1>9. MipiLoading'
    <2>1. CASE pc \in {"magic_length", "size_length"}
      <3>1. rx' = <<>> /\ \A k \in 1..Len(tx') : tx'[k] \in {pc}
        BY <1>1, <1>3, <1>4, <1>5, <2>1
      <3>2. QED
        BY <1>1, <1>4, <2>1, <3>1 DEF MipiLoading, Unheard
    <2>2. CASE pc \in {"magic", "size"}
      <3>1. /\ pc = "magic" => Heard("magic", {"magic_length"}, Mipi!AckWord("boot1"))'
            /\ pc = "size" => Heard("size", {"size_length"}, Mipi!AckWord("ebl_size"))'
        BY <1>1, <1>3, <1>4, <1>5, <2>2 DEF Heard
      <3>2. QED
        BY <1>1, <1>4, <2>2, <3>1 DEF MipiLoading
    <2>3. CASE pc \in {"size_plus_one", "ebl"}
      <3>1. rx' = <<>> /\ \A k \in 1..Len(tx') : tx'[k] \in {"size_plus_one", "ebl"}
        BY <1>1, <1>3, <1>4, <1>5, <2>3
      <3>2. QED
        BY <1>1, <1>4, <2>3, <3>1 DEF MipiLoading, Unheard
    <2>4. CASE pc = "ebl_crc"
      <3>1. Heard("ebl_crc", {"size_plus_one", "ebl"}, Mipi!AckWord("ebl") \o Mipi!PortConfig)'
        BY <1>1, <1>3, <1>4, <1>5, <2>4 DEF Heard
      <3>2. QED
        BY <1>1, <1>4, <2>4, <3>1 DEF MipiLoading
    <2>5. QED
      BY <1>1, <2>1, <2>2, <2>3, <2>4
  <1>10. QED
    BY <1>1, <1>7, <1>8, <1>9, MipiKept DEF MipiInv, Loading

(* A queue of one. *)
LEMMA OneWord ==
    ASSUME NEW w
    PROVE  Head(<<w>>) = w /\ Tail(<<w>>) = <<>>
  OBVIOUS

(* Taking the first off. *)
LEMMA FirstOff ==
    ASSUME NEW S, NEW w \in S, NEW s \in Seq(S)
    PROVE  Head(<<w>> \o s) = w /\ Tail(<<w>> \o s) = s
  <1>1. /\ <<w>> \o s \in Seq(S) /\ Len(<<w>> \o s) = 1 + Len(s) /\ (<<w>> \o s)[1] = w
        /\ \A k \in 1..Len(s) : (<<w>> \o s)[k + 1] = s[k]
    OBVIOUS
  <1> DEFINE t == <<w>> \o s
  <1>2. t \in Seq(S) /\ Len(t) = 1 + Len(s) /\ t[1] = w /\ \A k \in 1..Len(s) : t[k + 1] = s[k]
    BY <1>1
  <1> HIDE DEF t
  <1>3. Len(s) \in Nat /\ t # <<>>
    BY <1>2
  <1>4. Tail(t) \in Seq(S) /\ Len(Tail(t)) = Len(s) /\ Head(t) = w
        /\ \A k \in 1..Len(s) : Tail(t)[k] = s[k]
    BY <1>2, <1>3, TakeFirst
  <1>5. Tail(t) = s
    BY <1>4, SeqEqual
  <1>6. QED
    BY <1>4, <1>5 DEF t

(* Words of the handshakes. *)
MipiWords == ({"ack"} \X {"boot0", "psi", "boot1", "ebl_size", "ebl"})
             \cup ({"port_length", "port_config"} \X Nat)

(* The port configuration that the EBL sends: a length and its words. *)
LEMMA PortConfigIs ==
    /\ Mipi!PortConfig \in Seq(MipiWords)
    /\ Mipi!PortConfig # <<>> /\ Head(Mipi!PortConfig) = <<"port_length", PortWords>>
    /\ Tail(Mipi!PortConfig) \in Seq(PortConfigWords) /\ Len(Tail(Mipi!PortConfig)) = PortWords
    /\ Tail(Mipi!PortConfig) \in Seq(MipiWords)
  <1> DEFINE w == <<"port_length", PortWords>>
             s == [k \in 1 .. PortWords |-> <<"port_config", k>>]
  <1>1. s \in Seq(PortConfigWords) /\ Len(s) = PortWords /\ s \in Seq(MipiWords)
    BY MipiConstants DEF PortConfigWords, MipiWords
  <1>2. w \in MipiWords
    BY MipiConstants DEF MipiWords
  <1>3. Mipi!PortConfig = <<w>> \o s
    BY DEF Mipi!PortConfig
  <1> HIDE DEF s
  <1>4. Head(<<w>> \o s) = w /\ Tail(<<w>> \o s) = s
    BY <1>1, <1>2, FirstOff
  <1>5. <<w>> \o s \in Seq(MipiWords) /\ <<w>> \o s # <<>>
    <2>1. <<w>> \in Seq(MipiWords) /\ Len(<<w>>) = 1
      BY <1>2
    <2>2. <<w>> \o s \in Seq(MipiWords) /\ Len(<<w>> \o s) = 1 + Len(s)
      BY <2>1, <1>1
    <2>3. QED
      BY <2>2, <1>1, MipiConstants
  <1>6. QED
    BY <1>1, <1>3, <1>4, <1>5

(* Its steps that read. *)
LEMMA MipiEblReads ==
    ASSUME MipiInv, device' = device,
           \/ Mipi!AckRead("boot1_ack", "boot1", "size_length")
           \/ Mipi!AckRead("size_ack", "ebl_size", "size_plus_one")
           \/ Mipi!EblAck
    PROVE  MipiInv'
  <1>1. /\ UNCHANGED <<todo, tx, stage, address, flash, sec>> /\ n' \in Nat
        /\ rx # <<>> /\ rx' = Tail(rx)
        /\ \/ pc = "boot1_ack" /\ (Head(rx) = <<"ack", "boot1">> => pc' = "size_length")
           \/ pc = "size_ack" /\ (Head(rx) = <<"ack", "ebl_size">> => pc' = "size_plus_one")
           \/ pc = "ebl_ack" /\ (Head(rx) = <<"ack", "ebl">> => pc' = "port_length")
    BY DEF Mipi!AckRead, Mipi!EblAck, Mipi!Goto, Mipi!Loop, Mipi!Readable, Mipi!modem, MipiInv,
        MipiTypes
  <1>2. CASE pc \in {"boot1_ack", "size_ack"}
    <2>1. /\ tx = <<>> /\ stage \in {"psi", "hung"}
          /\ pc = "boot1_ack" => rx = <<<<"ack", "boot1">>>>
          /\ pc = "size_ack" => rx = <<<<"ack", "ebl_size">>>>
      BY <1>1, <1>2 DEF MipiInv, MipiLoading, Heard, Mipi!AckWord
    <2>2. rx' = <<>> /\ pc' \in {"size_length", "size_plus_one"}
      BY <1>1, <1>2, <2>1, OneWord
    <2>3. MipiTypes' /\ MipiAlways' /\ MipiProbing'
      BY <1>1, <1>2, <2>1, <2>2 DEF MipiInv, MipiTypes, MipiAlways, MipiProbing, Loading, Probing
    <2>4. MipiLoading'
      BY <1>1, <2>1, <2>2 DEF MipiLoading, Silent
    <2>5. QED
      BY <1>1, <1>2, <2>2, <2>3, <2>4, MipiKept DEF MipiInv, Loading
  <1>3. CASE pc = "ebl_ack"
    <2>1. tx = <<>> /\ stage \in {"ebl", "hung"} /\ rx = <<<<"ack", "ebl">>>> \o Mipi!PortConfig
      BY <1>1, <1>3 DEF MipiInv, MipiLoading, Heard, Mipi!AckWord
    <2>2. rx' = Mipi!PortConfig /\ pc' = "port_length"
      <3>1. <<"ack", "ebl">> \in MipiWords
        BY DEF MipiWords
      <3>2. Head(rx) = <<"ack", "ebl">> /\ Tail(rx) = Mipi!PortConfig
        BY <2>1, <3>1, PortConfigIs, FirstOff
      <3>3. QED
        BY <1>1, <1>3, <3>2
    <2>3. MipiTypes' /\ MipiAlways' /\ MipiProbing' /\ MipiLoading'
      BY <1>1, <1>3, <2>1, <2>2
          DEF MipiInv, MipiTypes, MipiAlways, MipiProbing, MipiLoading, Commanding, Probing
    <2>4. MipiCommanding'
      BY <1>1, <2>1, <2>2 DEF MipiCommanding, Commanding
    <2>5. MipiTodo' /\ MipiProgress'
      BY <1>1, <1>3, <2>2, MipiLastIs
          DEF MipiInv, MipiTodo, MipiProgress, MipiSent, MipiAfter, Loading, Probing, Commanding
    <2>6. QED
      BY <2>3, <2>4, <2>5 DEF MipiInv, OnMipi
  <1>4. QED
    BY <1>1, <1>2, <1>3

(* Counting down what is left. *)
LEMMA Remaining ==
    ASSUME NEW a \in Nat, NEW b \in 1..a
    PROVE  /\ a - b \in Nat /\ (a - b) + 1 \in 1..a /\ (b = 1 => a - b = a - 1)
           /\ ((a - b) + 1 = a <=> b = 1) /\ (b > 1 <=> (a - b) + 1 # a)
  OBVIOUS

(* The next command to send. *)
LEMMA MipiHead ==
    ASSUME MipiTodo, Len(todo) > 0
    PROVE  /\ todo # <<>> /\ MipiSent \in Nat /\ MipiSent + 1 \in 1..MipiLast
           /\ Head(todo) = Mipi!Commands[MipiSent + 1] /\ Head(todo) \in Orders
           /\ Head(todo).ack <=> Len(todo) > 1
           /\ Len(todo) = 1 => MipiSent = MipiLast - 1
           /\ Tail(todo) \in Seq(Orders) /\ Len(Tail(todo)) = Len(todo) - 1
           /\ \A k \in 1..Len(Tail(todo)) : Tail(todo)[k] = Mipi!Commands[(MipiLast - Len(Tail(todo))) + k]
  <1>1. /\ todo \in Seq(Orders) /\ Len(todo) \in 1..MipiLast
        /\ \A k \in 1..Len(todo) : todo[k] = Mipi!Commands[MipiSent + k]
    BY MipiLastIs DEF MipiTodo
  <1>2. /\ MipiSent \in Nat /\ MipiSent + 1 \in 1..MipiLast /\ (Len(todo) = 1 => MipiSent = MipiLast - 1)
        /\ (Len(todo) > 1 <=> MipiSent + 1 # MipiLast)
    <2>1. Len(todo) \in 1..MipiLast
      BY <1>1
    <2>2. QED
      BY <2>1, MipiLastIs, Remaining DEF MipiSent
  <1>3. todo # <<>>
    BY <1>1
  <1>4. /\ Tail(todo) \in Seq(Orders) /\ Head(todo) = todo[1] /\ 1 \in 1..Len(todo)
        /\ Len(Tail(todo)) = Len(todo) - 1
        /\ \A k \in 1..Len(Tail(todo)) : k + 1 \in 1..Len(todo) /\ Tail(todo)[k] = todo[k + 1]
    BY <1>1, <1>3, TakeFirst
  <1>5. Head(todo) = Mipi!Commands[MipiSent + 1] /\ Head(todo) \in Orders
    <2>1. todo[1] \in Orders
      BY <1>1, <1>4, ElementOfSeq
    <2>2. QED
      BY <1>1, <1>4, <2>1
  <1>6. Head(todo).ack <=> Len(todo) > 1
    <2>1. Mipi!Commands[MipiSent + 1].ack = (MipiSent + 1 # MipiLast)
      BY <1>2, MipiAcks
    <2>2. QED
      BY <1>2, <1>5, <2>1
  <1>7. ASSUME NEW k \in 1..Len(Tail(todo))
        PROVE  Tail(todo)[k] = Mipi!Commands[(MipiLast - Len(Tail(todo))) + k]
    <2>1. Tail(todo)[k] = Mipi!Commands[MipiSent + (k + 1)]
      BY <1>1, <1>4, <1>7
    <2>2. MipiSent + (k + 1) = (MipiLast - Len(Tail(todo))) + k
      BY <1>1, <1>4, <1>7, MipiLastIs DEF MipiSent
    <2>3. QED
      BY <2>1, <2>2
  <1>8. QED
    BY <1>2, <1>3, <1>4, <1>5, <1>6, <1>7

(* The vacuous parts once the commands have begun. *)
LEMMA MipiLater ==
    ASSUME OnMipi, device' = device, pc' \in Commanding \cup {"done"}
    PROVE  MipiProbing' /\ MipiLoading' /\ OnMipi'
  BY DEF MipiProbing, MipiLoading, Commanding, Probing, OnMipi

(* Reading the port configuration. *)
LEMMA MipiPortConfig ==
    ASSUME MipiInv, device' = device, Mipi!PortConfigRead
    PROVE  MipiInv'
  <1>1. /\ UNCHANGED <<todo, tx, stage, address, flash, sec>> /\ n' \in Nat
        /\ rx # <<>> /\ rx' = Tail(rx) /\ pc \in {"port_length", "port_config"}
        /\ \/ pc' = "error"
           \/ pc = "port_length" /\ pc' = "port_config" /\ n' = 0
           \/ pc = "port_config" /\ pc' = "port_config" /\ n' = n + 1 /\ n + 1 < PortWords
           \/ pc = "port_config" /\ pc' = "command" /\ ~(n + 1 < PortWords)
    BY DEF Mipi!PortConfigRead, Mipi!Goto, Mipi!Loop, Mipi!Readable, Mipi!modem, MipiInv, MipiTypes
  <1>2. CASE pc' = "error"
    BY <1>1, <1>2, MipiFails
  <1>3. CASE pc' # "error"
    <2>1. stage \in {"ebl", "hung"} /\ tx = <<>> /\ n \in Nat
      BY <1>1 DEF MipiInv, MipiTypes, MipiCommanding, Commanding
    <2>2. /\ pc' = "port_config" =>
                n' < PortWords /\ rx' \in Seq(PortConfigWords) /\ Len(rx') = PortWords - n'
          /\ pc' = "command" => rx' = <<>>
      <3>1. CASE pc = "port_length"
        <4>1. rx = Mipi!PortConfig
          BY <3>1 DEF MipiInv, MipiCommanding
        <4>2. QED
          BY <1>1, <1>3, <3>1, <4>1, PortConfigIs, MipiConstants
      <3>2. CASE pc = "port_config"
        <4>1. n < PortWords /\ rx \in Seq(PortConfigWords) /\ Len(rx) = PortWords - n
          BY <3>2 DEF MipiInv, MipiCommanding
        <4>2. rx' \in Seq(PortConfigWords) /\ Len(rx') = Len(rx) - 1
          BY <1>1, <4>1, TakeFirst
        <4>3. ~(n + 1 < PortWords) => Len(rx') = 0
          BY <2>1, <4>1, <4>2, MipiConstants
        <4>4. Len(rx') = 0 => rx' = <<>>
          BY <4>2, EmptySeq
        <4>5. n + 1 < PortWords => Len(rx') = PortWords - (n + 1)
          BY <2>1, <4>1, <4>2, MipiConstants
        <4>6. QED
          BY <1>1, <1>3, <3>2, <4>2, <4>3, <4>4, <4>5
      <3>3. QED
        BY <1>1, <3>1, <3>2
    <2>3. MipiTypes' /\ MipiAlways'
      BY <1>1, <1>3, <2>1 DEF MipiInv, MipiTypes, MipiAlways, Commanding
    <2>4. MipiCommanding'
      BY <1>1, <1>3, <2>1, <2>2 DEF MipiCommanding, Commanding, Silent
    <2>5. MipiTodo' /\ MipiProgress'
      BY <1>1, <1>3
          DEF MipiInv, MipiTodo, MipiProgress, MipiSent, MipiAfter, Commanding, Loading, Probing
    <2>6. QED
      BY <1>1, <1>3, <2>3, <2>4, <2>5, MipiLater DEF MipiInv, Commanding
  <1>4. QED
    BY <1>2, <1>3

(* Writing a command. *)
LEMMA MipiCommandWrite ==
    ASSUME MipiInv, device' = device, Mipi!CommandWrite
    PROVE  MipiInv'
  <1>1. /\ UNCHANGED <<rx, len, count, stage, address, flash, sec>> /\ n' \in Nat
        /\ pc = "command" /\ tx' = Append(tx, Head(todo)) /\ todo # <<>>
        /\ \/ Head(todo).ack /\ pc' = "reply_length" /\ todo' = todo
           \/ ~Head(todo).ack /\ todo' = Tail(todo)
              /\ pc' = (IF Tail(todo) = <<>> THEN "done" ELSE "command")
    BY DEF Mipi!CommandWrite, Mipi!Write, Mipi!Goto, Mipi!reply, Mipi!modem
  <1>2. tx = <<>> /\ rx = <<>> /\ stage \in {"ebl", "hung"} /\ Len(todo) > 0 /\ MipiTodo
    BY <1>1 DEF MipiInv, MipiCommanding, Silent, MipiTodo, Commanding
  <1>3. /\ MipiSent \in Nat /\ MipiSent + 1 \in 1..MipiLast
        /\ Head(todo) = Mipi!Commands[MipiSent + 1] /\ Head(todo) \in Orders
        /\ Head(todo).ack <=> Len(todo) > 1
        /\ Len(todo) = 1 => MipiSent = MipiLast - 1
        /\ Tail(todo) \in Seq(Orders) /\ Len(Tail(todo)) = Len(todo) - 1
    BY <1>2, MipiHead
  <1>4. /\ tx' = <<Head(todo)>> /\ Len(tx') = 1 /\ tx'[1] = Head(todo)
        /\ tx' \in Seq(Loads \cup Orders)
    BY <1>1, <1>2, <1>3
  <1>5. MipiAfter(MipiSent)
    BY <1>1 DEF MipiInv, MipiProgress
  <1>6. CASE Len(todo) > 1
    <2>1. pc' = "reply_length" /\ todo' = todo
      BY <1>1, <1>3, <1>6
    <2>2. MipiSent + 1 # MipiLast
      BY <1>2, <1>6, MipiLastIs DEF MipiTodo, MipiSent
    <2>3. MipiTypes'
      BY <1>1, <1>4, <2>1 DEF MipiInv, MipiTypes, Commanding
    <2>4. MipiAlways'
      <3>1. \A k \in 1..Len(tx') : k = 1 /\ tx'[k] = Mipi!Commands[MipiSent + 1]
        BY <1>3, <1>4
      <3>2. QED
        BY <1>1, <1>2, <1>3, <1>4, <2>2, <3>1 DEF MipiAlways
    <2>5. MipiCommanding'
      BY <1>1, <1>2, <1>4, <2>1 DEF MipiCommanding, Commanding
    <2>6. MipiTodo'
      BY <1>2, <1>6, <2>1 DEF MipiTodo, MipiSent, Commanding, Loading, Probing
    <2>7. MipiProgress'
      <3>1. tx' # <<>>
        BY <1>4
      <3>2. MipiAfter(MipiSent)'
        BY <1>1, <1>5, <2>1 DEF MipiAfter, MipiSent
      <3>3. QED
        BY <2>1, <3>1, <3>2 DEF MipiProgress
    <2>8. QED
      BY <2>1, <2>3, <2>4, <2>5, <2>6, <2>7, MipiLater DEF MipiInv, Commanding
  <1>7. CASE ~(Len(todo) > 1)
    <2>1. Len(todo) = 1 /\ Len(Tail(todo)) = 0
      BY <1>2, <1>3, <1>7 DEF MipiTodo
    <2>2. pc' = "done" /\ todo' = <<>> /\ MipiSent = MipiLast - 1
      <3>1. Tail(todo) = <<>>
        BY <1>3, <2>1, EmptySeq
      <3>2. QED
        BY <1>1, <1>3, <1>7, <2>1, <3>1
    <2>3. MipiTypes'
      BY <1>1, <1>4, <2>2 DEF MipiInv, MipiTypes
    <2>4. tx' = <<Mipi!Commands[MipiLast]>>
      <3>1. MipiSent + 1 = MipiLast
        BY <2>2, MipiLastIs
      <3>2. QED
        BY <1>3, <1>4, <3>1
    <2>5. MipiAlways'
      <3>1. \A k \in 1..Len(tx') : k = 1 /\ tx'[k] = Mipi!Commands[MipiLast]
        BY <1>4, <2>4
      <3>2. MipiLast \in 1..MipiLast
        BY MipiLastIs
      <3>3. QED
        BY <1>1, <1>2, <1>4, <2>2, <3>1, <3>2 DEF MipiAlways
    <2>6. MipiCommanding'
      BY <1>1, <1>2, <2>2, <2>4 DEF MipiCommanding, Commanding
    <2>7. MipiTodo' /\ MipiSent' = MipiLast
      BY <2>2, MipiLastIs DEF MipiTodo, MipiSent, Commanding, Loading, Probing
    <2>8. MipiProgress'
      <3>1. MipiAfter(MipiLast)
        BY <1>5, <2>2, MipiResets
      <3>2. MipiAfter(MipiSent)'
        BY <1>1, <2>7, <3>1 DEF MipiAfter
      <3>3. QED
        BY <2>2, <3>2 DEF MipiProgress
    <2>9. QED
      BY <2>2, <2>3, <2>5, <2>6, <2>7, <2>8, MipiLater DEF MipiInv
  <1>8. QED
    BY <1>6, <1>7

(* A reply: its length and its words. *)
LEMMA ReplyIs ==
    ASSUME NEW c, NEW l \in Nat
    PROVE  /\ Mipi!Reply(c, l) # <<>> /\ Head(Mipi!Reply(c, l)) = <<"length", l>>
           /\ Tail(Mipi!Reply(c, l)) \in Seq({<<"word", c>>})
           /\ Len(Tail(Mipi!Reply(c, l))) = (l + 3) \div 4
  <1> DEFINE w == <<"length", l>>
             q == (l + 3) \div 4
             s == [k \in 1..q |-> <<"word", c>>]
             S == {<<"length", l>>, <<"word", c>>}
  <1>1. q \in Nat
    OBVIOUS
  <1> HIDE DEF q
  <1>2. s \in Seq({<<"word", c>>}) /\ Len(s) = q /\ s \in Seq(S)
    BY <1>1
  <1>3. w \in S
    OBVIOUS
  <1>4. Mipi!Reply(c, l) = <<w>> \o s
    BY DEF Mipi!Reply, q
  <1> HIDE DEF s, S, w
  <1>5. Head(<<w>> \o s) = w /\ Tail(<<w>> \o s) = s
    BY <1>2, <1>3, FirstOff
  <1>6. <<w>> \o s # <<>>
    <2>1. <<w>> \in Seq(S) /\ Len(<<w>>) = 1
      BY <1>3
    <2>2. <<w>> \o s \in Seq(S) /\ Len(<<w>> \o s) = 1 + q
      BY <2>1, <1>2
    <2>3. QED
      BY <2>2, <1>1
  <1>7. QED
    BY <1>2, <1>4, <1>5, <1>6 DEF q, w

(* The length read is rounded: wrongly for odd lengths only. *)
LEMMA Rounding ==
    ASSUME NEW l \in Nat
    PROVE  /\ Mipi!Rounded(l + 4) \in Nat /\ Mipi!Rounded(l + 4) >= 4
           /\ l % 2 # 1 => Mipi!Rounded(l + 4) % 4 = 0
           /\ Mipi!Rounded(l + 4) % 4 = 0 => Mipi!Rounded(l + 4) = 4 + 4 * ((l + 3) \div 4)
  BY DEF Mipi!Rounded

(* Reading the length of a reply. *)
LEMMA MipiReplyLength ==
    ASSUME MipiInv, device' = device, Mipi!ReplyLength
    PROVE  MipiInv'
  <1>1. /\ UNCHANGED <<todo, tx, stage, address, flash, sec>> /\ n' \in Nat
        /\ rx # <<>> /\ rx' = Tail(rx) /\ pc = "reply_length"
        /\ \/ pc' = "error"
           \/ pc' = "reply_data" /\ len' = Head(rx)[2] /\ count' = 4
    BY DEF Mipi!ReplyLength, Mipi!Goto, Mipi!Readable, Mipi!modem
  <1>2. CASE pc' = "error"
    BY <1>1, <1>2, MipiFails
  <1>3. CASE pc' # "error"
    <2>1. tx = <<>> /\ stage \in {"ebl", "hung"} /\ Len(todo) > 1
      BY <1>1 DEF MipiInv, MipiCommanding, MipiTodo, Commanding
    <2>2. PICK l \in ReplyLengths : rx = Mipi!Reply(Head(todo).code, l)
      BY <1>1 DEF MipiInv, MipiCommanding
    <2>3. l \in Nat
      BY MipiConstants
    <2>4. /\ len' = l /\ rx' \in Seq({<<"word", Head(todo).code>>}) /\ Len(rx') = (l + 3) \div 4
      <3>1. Head(rx) = <<"length", l>>
        BY <2>2, <2>3, ReplyIs
      <3>2. QED
        <4>1. len' = l
          BY <1>1, <1>3, <3>1
        <4>2. QED
          BY <1>1, <2>2, <2>3, <4>1, ReplyIs
    <2>5. Mipi!BufferSize' = Mipi!Rounded(l + 4)
      BY <2>4 DEF Mipi!BufferSize
    <2>6. count' \in Nat /\ count' % 4 = 0 /\ count' <= Mipi!BufferSize'
          /\ Len(rx') * 4 + count' = 4 + 4 * ((len' + 3) \div 4)
      <3>1. (l + 3) \div 4 \in Nat
        BY <2>3
      <3>2. QED
        <4>1. count' = 4 /\ Len(rx') = (l + 3) \div 4 /\ len' = l
          BY <1>1, <1>3, <2>4
        <4>2. Mipi!Rounded(l + 4) \in Nat /\ Mipi!Rounded(l + 4) >= 4
          BY <2>3, Rounding
        <4>3. QED
          BY <2>5, <3>1, <4>1, <4>2
    <2>7. MipiTypes' /\ MipiAlways'
      BY <1>1, <1>3, <2>1 DEF MipiInv, MipiTypes, MipiAlways, Commanding
    <2>8. MipiCommanding'
      BY <1>1, <1>3, <2>1, <2>4, <2>6 DEF MipiCommanding, Commanding
    <2>9. MipiTodo' /\ MipiProgress'
      BY <1>1, <1>3, <2>1
          DEF MipiInv, MipiTodo, MipiProgress, MipiSent, MipiAfter, Commanding, Loading, Probing
    <2>10. QED
      BY <1>1, <1>3, <2>7, <2>8, <2>9, MipiLater DEF MipiInv, Commanding
  <1>4. QED
    BY <1>2, <1>3

(* Reading a word of a reply. *)
LEMMA MipiReplyData ==
    ASSUME MipiInv, device' = device, Mipi!ReplyData
    PROVE  MipiInv'
  <1>1. /\ UNCHANGED <<todo, tx, stage, len, address, flash, sec>>
        /\ rx # <<>> /\ rx' = Tail(rx) /\ pc = "reply_data" /\ count' = count + 4
        /\ count < Mipi!BufferSize
        /\ IF count + 4 > Mipi!BufferSize THEN pc' = "undefined" /\ n' = 0
                                          ELSE pc' = pc /\ n' = n
    BY DEF Mipi!ReplyData, Mipi!Goto, Mipi!Readable, Mipi!modem
  <1>2. /\ tx = <<>> /\ len \in Nat /\ len \in ReplyLengths /\ count \in Nat
        /\ count % 4 = 0 /\ rx \in Seq({<<"word", Head(todo).code>>})
        /\ Len(rx) * 4 + count = 4 + 4 * ((len + 3) \div 4)
        /\ stage \in {"ebl", "hung"} /\ n \in Nat
    BY <1>1, MipiConstants DEF MipiInv, MipiTypes, MipiCommanding, Commanding
  <1>3. /\ Mipi!BufferSize \in Nat
        /\ len % 2 # 1 => Mipi!BufferSize % 4 = 0
    BY <1>2, Rounding DEF Mipi!BufferSize
  <1>4. CASE count + 4 > Mipi!BufferSize
    <2>1. Mipi!BufferSize % 4 # 0
      BY <1>1, <1>2, <1>3, <1>4
    <2>2. len' % 2 = 1
      BY <1>1, <1>3, <2>1
    <2>3. QED
      BY <1>1, <1>4, <2>2, MipiFails
  <1>5. CASE ~(count + 4 > Mipi!BufferSize)
    <2>1. pc' = "reply_data" /\ n' \in Nat
      BY <1>1, <1>2, <1>5
    <2>2. rx' \in Seq({<<"word", Head(todo).code>>}) /\ Len(rx') = Len(rx) - 1 /\ Len(rx) \in Nat
      BY <1>1, <1>2, TakeFirst
    <2>3. /\ count' \in Nat /\ count' % 4 = 0 /\ count' <= Mipi!BufferSize
          /\ Len(rx') * 4 + count' = 4 + 4 * ((len + 3) \div 4)
      BY <1>1, <1>2, <1>3, <1>5, <2>2
    <2>4. Mipi!BufferSize' = Mipi!BufferSize
      BY <1>1 DEF Mipi!BufferSize
    <2>5. MipiTypes' /\ MipiAlways'
      BY <1>1, <1>2, <2>1 DEF MipiInv, MipiTypes, MipiAlways, Commanding
    <2>6. MipiCommanding'
      BY <1>1, <1>2, <2>1, <2>2, <2>3, <2>4 DEF MipiCommanding, Commanding
    <2>7. MipiTodo' /\ MipiProgress'
      BY <1>1, <2>1
          DEF MipiInv, MipiTodo, MipiProgress, MipiSent, MipiAfter, Commanding, Loading, Probing
    <2>8. QED
      BY <2>1, <2>5, <2>6, <2>7, MipiLater DEF MipiInv, Commanding
  <1>6. QED
    BY <1>4, <1>5

(* Reading the last word of a reply. *)
LEMMA MipiReplyCode ==
    ASSUME MipiInv, device' = device, Mipi!ReplyCode
    PROVE  MipiInv'
  <1>1. /\ UNCHANGED <<tx, rx, stage, address, flash, sec>> /\ n' = 0
        /\ pc = "reply_data" /\ count >= Mipi!BufferSize
        /\ \/ pc' = "error" /\ todo' = todo
           \/ pc' = "command" /\ todo' = Tail(todo)
    BY DEF Mipi!ReplyCode, Mipi!Goto, Mipi!modem
  <1>2. CASE pc' = "error"
    BY <1>1, <1>2, MipiFails
  <1>3. CASE pc' # "error"
    <2>1. /\ tx = <<>> /\ len \in Nat /\ count \in Nat /\ count % 4 = 0 /\ count <= Mipi!BufferSize
          /\ rx \in Seq({<<"word", Head(todo).code>>})
          /\ Len(rx) * 4 + count = 4 + 4 * ((len + 3) \div 4)
          /\ stage \in {"ebl", "hung"} /\ n \in Nat /\ Len(todo) > 1 /\ MipiTodo
      BY <1>1, MipiConstants DEF MipiInv, MipiTypes, MipiCommanding, MipiTodo, Commanding
    <2>2. rx = <<>>
      <3>1. Mipi!BufferSize \in Nat
        BY <2>1, Rounding DEF Mipi!BufferSize
      <3>2. count = Mipi!BufferSize
        BY <1>1, <2>1, <3>1
      <3>3. count = 4 + 4 * ((len + 3) \div 4)
        BY <2>1, <3>2, Rounding DEF Mipi!BufferSize
      <3>4. Len(rx) = 0
        <4>1. Len(rx) \in Nat
          BY <2>1
        <4>2. QED
          BY <2>1, <3>3, <4>1
      <3>5. QED
        BY <2>1, <3>4, EmptySeq
    <2>3. Len(todo) > 0 /\ Len(todo) \in 0..MipiLast
      BY <2>1, MipiLastIs DEF MipiTodo
    <2>4. /\ todo' \in Seq(Orders) /\ Len(todo') = Len(todo) - 1
          /\ \A k \in 1..Len(todo') : todo'[k] = Mipi!Commands[(MipiLast - Len(todo')) + k]
      BY <1>1, <1>3, <2>1, <2>3, MipiHead
    <2>5. MipiSent' = MipiSent + 1
      BY <2>3, <2>4, MipiLastIs DEF MipiSent
    <2>6. MipiTypes' /\ MipiAlways'
      BY <1>1, <1>3, <2>1 DEF MipiInv, MipiTypes, MipiAlways, Commanding
    <2>7. MipiCommanding'
      BY <1>1, <1>3, <2>1, <2>2 DEF MipiCommanding, Commanding, Silent
    <2>8. MipiTodo'
      BY <1>1, <1>3, <2>1, <2>3, <2>4, MipiLastIs DEF MipiTodo, MipiSent, Commanding, Loading, Probing
    <2>9. MipiProgress'
      <3>1. MipiAfter(MipiSent + 1)
        BY <1>1 DEF MipiInv, MipiProgress
      <3>2. MipiAfter(MipiSent)'
        BY <1>1, <2>5, <3>1 DEF MipiAfter
      <3>3. QED
        BY <1>1, <1>3, <3>2 DEF MipiProgress
    <2>10. QED
      BY <1>1, <1>3, <2>6, <2>7, <2>8, <2>9, MipiLater DEF MipiInv, Commanding
  <1>4. QED
    BY <1>2, <1>3

(* Adding nothing. *)
LEMMA NothingAdded ==
    ASSUME NEW S, NEW s \in Seq(S)
    PROVE  <<>> \o s = s /\ s \o <<>> = s
  OBVIOUS

(* What the boot ROM and the PSI do with the item they take. *)
LEMMA MipiReceived ==
    ASSUME Mipi!RomProbe \/ Mipi!Loader
    PROVE  /\ UNCHANGED <<pc, n, todo, len, count, head, address, flash, sec>>
           /\ tx # <<>> /\ tx' = Tail(tx)
           /\ \/ /\ stage = "rom" /\ Head(tx) = "at" /\ stage' = "rom"
                 /\ rx' = rx \o <<<<"ack", "boot0">>>> \/ rx' = rx \o <<>>
              \/ stage = "rom" /\ Head(tx) = "psi_header" /\ stage' = "rom_psi" /\ rx' = rx \o <<>>
              \/ stage = "rom_psi" /\ Head(tx) = "psi" /\ stage' = "rom_psi" /\ rx' = rx \o <<>>
              \/ /\ stage = "rom_psi" /\ Head(tx) = "psi_crc" /\ stage' = "psi"
                 /\ rx' = rx \o <<<<"ack", "psi">>>>
              \/ /\ stage = "psi" /\ Head(tx) \in {"magic_length", "size_length"} /\ stage' = "psi"
                 /\ rx' = rx \o <<>>
              \/ stage = "psi" /\ Head(tx) = "magic" /\ stage' = "psi" /\ rx' = rx \o Mipi!AckWord("boot1")
              \/ stage = "psi" /\ Head(tx) = "size" /\ stage' = "psi" /\ rx' = rx \o Mipi!AckWord("ebl_size")
              \/ stage = "psi" /\ Head(tx) = "size_plus_one" /\ stage' = "psi_ebl" /\ rx' = rx \o <<>>
              \/ stage = "psi_ebl" /\ Head(tx) = "ebl" /\ stage' = "psi_ebl" /\ rx' = rx \o <<>>
              \/ /\ stage = "psi_ebl" /\ Head(tx) = "ebl_crc" /\ stage' = "ebl"
                 /\ rx' = rx \o (Mipi!AckWord("ebl") \o Mipi!PortConfig)
  <1>1. CASE Mipi!RomProbe
    BY <1>1 DEF Mipi!RomProbe, Mipi!Receive, Mipi!AckWord, Mipi!host
  <1>2. CASE Mipi!Loader
    <2> DEFINE last == Mipi!AckWord("ebl") \o Mipi!PortConfig
    <2>1. last = Mipi!AckWord("ebl") \o Mipi!PortConfig
      OBVIOUS
    <2> HIDE DEF last
    <2>2. CASE Mipi!Receive("rom", "psi_header", "rom_psi", <<>>)
      BY <2>2 DEF Mipi!Receive, Mipi!host
    <2>3. CASE Mipi!Image("rom_psi", "psi", "psi_crc", PsiParts, "psi", Mipi!AckWord("psi"))
      BY <2>3 DEF Mipi!Image, Mipi!Receive, Mipi!AckWord, Mipi!host
    <2>4. CASE \/ Mipi!Receive("psi", "magic_length", "psi", <<>>)
               \/ Mipi!Receive("psi", "magic", "psi", Mipi!AckWord("boot1"))
               \/ Mipi!Receive("psi", "size_length", "psi", <<>>)
               \/ Mipi!Receive("psi", "size", "psi", Mipi!AckWord("ebl_size"))
               \/ Mipi!Receive("psi", "size_plus_one", "psi_ebl", <<>>)
      BY <2>4 DEF Mipi!Receive, Mipi!host
    <2>5. CASE Mipi!Image("psi_ebl", "ebl", "ebl_crc", EblParts, "ebl", last)
      BY <2>1, <2>5 DEF Mipi!Image, Mipi!Receive, Mipi!host
    <2>6. QED
      BY <1>2, <2>1, <2>2, <2>3, <2>4, <2>5 DEF Mipi!Loader
  <1>3. QED
    BY <1>1, <1>2

(* Steps of the ROM and the loaders. *)
LEMMA MipiReceives ==
    ASSUME MipiInv, device' = device, Mipi!RomProbe \/ Mipi!Loader
    PROVE  MipiInv'
  <1>1. /\ UNCHANGED <<pc, n, todo, len, count, head, address, flash, sec>>
        /\ tx # <<>> /\ tx' = Tail(tx) /\ stage \in {"rom", "rom_psi", "psi", "psi_ebl"}
        /\ stage' \in {"rom", "rom_psi", "psi", "psi_ebl", "ebl"}
        /\ stage' = "ebl" => Head(tx) = "ebl_crc"
    BY MipiReceived
  <1>2. /\ tx' \in Seq(Loads \cup Orders) /\ Head(tx) = tx[1] /\ Len(tx') = Len(tx) - 1
        /\ \A k \in 1..Len(tx') : k + 1 \in 1..Len(tx) /\ tx'[k] = tx[k + 1]
        /\ 1 \in 1..Len(tx) /\ Len(tx) \in Nat /\ (Len(tx) = 1 => tx' = <<>>)
    <2>1. tx \in Seq(Loads \cup Orders)
      BY DEF MipiInv, MipiTypes
    <2>2. /\ tx' \in Seq(Loads \cup Orders) /\ Head(tx) = tx[1] /\ Len(tx') = Len(tx) - 1
          /\ \A k \in 1..Len(tx') : k + 1 \in 1..Len(tx) /\ tx'[k] = tx[k + 1]
          /\ 1 \in 1..Len(tx)
      BY <1>1, <2>1, TakeFirst
    <2>3. Len(tx) = 1 => tx' = <<>>
      BY <2>2, EmptySeq
    <2>4. QED
      BY <2>1, <2>2, <2>3
  <1>3. MipiTypes'
    BY <1>1, <1>2 DEF MipiInv, MipiTypes
  <1>4. MipiAlways'
    <2>1. \A k \in 1..Len(tx') : tx'[k] = "ebl_crc" => k = Len(tx')
      BY <1>2 DEF MipiInv, MipiAlways
    <2>2. stage' = "ebl" => tx' = <<>>
      BY <1>1, <1>2 DEF MipiInv, MipiAlways
    <2>3. QED
      BY <1>1, <2>1, <2>2 DEF MipiAlways
  <1>5. MipiTodo' /\ OnMipi'
    BY <1>1 DEF MipiInv, MipiTodo, MipiSent, OnMipi
  <1>6. pc \notin Commanding \cup {"done"}
    BY <1>1 DEF MipiInv, MipiCommanding
  <1>7. MipiCommanding'
    BY <1>1, <1>6 DEF MipiInv, MipiCommanding, Commanding
  <1>8. MipiProgress'
    BY <1>1, <1>6 DEF MipiInv, MipiProgress, MipiSent, MipiAfter, Commanding
  <1>9. MipiProbing'
    <2>1. CASE pc \in Probing \cup {"psi_ack", "reopen"}
      <3>1. rx \in Seq(Boot0Words) /\ stage \in {"rom", "rom_psi"} /\ pc # "reopen"
            /\ (\A k \in 1..Len(rx) : rx[k] # <<"ack", "psi">>)
            /\ \A k \in 1..Len(tx) :
                  tx[k] \in {"at", "psi_header", "psi"} \/ (tx[k] = "psi_crc" /\ k = Len(tx) /\ pc = "psi_ack")
        BY <1>1, <2>1 DEF MipiInv, MipiProbing, Probing
      <3>2. \A k \in 1..Len(tx') :
               tx'[k] \in {"at", "psi_header", "psi"} \/ (tx'[k] = "psi_crc" /\ k = Len(tx') /\ pc = "psi_ack")
        BY <1>2, <3>1
      <3>3. CASE Head(tx) = "psi_crc"
        <4>1. tx' = <<>> /\ pc = "psi_ack"
          BY <1>2, <3>1, <3>3
        <4>2. stage' = "psi" /\ rx' = rx \o <<<<"ack", "psi">>>>
          BY <3>1, <3>3, MipiReceived
        <4>3. rx' \in Seq(Boot0Words)
          BY <3>1, <4>2 DEF Boot0Words
        <4>4. QED
          BY <1>1, <4>1, <4>2, <4>3 DEF MipiProbing, Probing
      <3>4. CASE Head(tx) # "psi_crc"
        <4>1. stage' \in {"rom", "rom_psi"} /\ (rx' = rx \o <<<<"ack", "boot0">>>> \/ rx' = rx \o <<>>)
          BY <3>1, <3>4, MipiReceived
        <4>2. rx' \in Seq(Boot0Words) /\ \A k \in 1..Len(rx') : rx'[k] # <<"ack", "psi">>
          <5>1. CASE rx' = rx \o <<>>
            BY <3>1, <5>1, NothingAdded
          <5>2. CASE rx' = rx \o <<<<"ack", "boot0">>>>
            <6>1. rx' = Append(rx, <<"ack", "boot0">>) /\ <<"ack", "boot0">> \in Boot0Words
              BY <3>1, <5>2 DEF Boot0Words
            <6>2. QED
              BY <3>1, <6>1, PutLast
          <5>3. QED
            BY <4>1, <5>1, <5>2
        <4>3. QED
          BY <1>1, <2>1, <3>1, <3>2, <4>1, <4>2 DEF MipiProbing, Probing
      <3>5. QED
        BY <3>3, <3>4
    <2>2. CASE pc \notin Probing \cup {"psi_ack", "reopen"}
      BY <1>1, <2>2 DEF MipiProbing
    <2>3. QED
      BY <2>1, <2>2
  <1>10. MipiLoading'
    <2>1. CASE pc \in Loading
      <3>1. rx = <<>> /\ pc \in {"magic", "boot1_ack", "size", "size_ack", "ebl", "ebl_crc", "ebl_ack"}
        BY <1>1, <2>1 DEF MipiInv, MipiLoading, Loading, Silent, Unheard, Heard
      <3>2. CASE pc \in {"magic", "size"}
        <4>1. /\ \A k \in 1..Len(tx) : tx[k] \in {"magic_length", "size_length"}
              /\ pc = "magic" => \A k \in 1..Len(tx) : tx[k] = "magic_length"
              /\ pc = "size" => \A k \in 1..Len(tx) : tx[k] = "size_length"
              /\ stage = "psi"
          BY <1>1, <3>2 DEF MipiInv, MipiLoading, Unheard
        <4>2. stage' = "psi" /\ rx' = <<>> \o <<>>
          BY <1>2, <3>1, <4>1, MipiReceived
        <4>3. rx' = <<>>
          BY <4>2
        <4>4. QED
          BY <1>1, <1>2, <3>2, <4>1, <4>2, <4>3 DEF MipiLoading, Unheard
      <3>3. CASE pc = "boot1_ack"
        <4>1. /\ \A k \in 1..Len(tx) : tx[k] = "magic_length" \/ (tx[k] = "magic" /\ k = Len(tx))
              /\ stage = "psi"
          BY <1>1, <3>3 DEF MipiInv, MipiLoading, Heard
        <4>2. \/ Head(tx) = "magic_length" /\ stage' = "psi" /\ rx' = rx \o <<>>
              \/ Head(tx) = "magic" /\ stage' = "psi" /\ rx' = rx \o Mipi!AckWord("boot1")
          BY <1>2, <4>1, MipiReceived
        <4>3. Heard("magic", {"magic_length"}, Mipi!AckWord("boot1"))'
          <5>1. CASE Head(tx) = "magic_length"
            <6>1. rx' = <<>>
              BY <3>1, <4>2, <5>1
            <6>2. QED
              BY <1>2, <4>1, <6>1 DEF Heard
          <5>2. CASE Head(tx) = "magic"
            <6>1. rx' = Mipi!AckWord("boot1") /\ tx' = <<>>
              BY <1>2, <3>1, <4>1, <4>2, <5>2 DEF Mipi!AckWord
            <6>2. QED
              BY <6>1 DEF Heard, Mipi!AckWord
          <5>3. QED
            BY <4>2, <5>1, <5>2
        <4>4. QED
          BY <1>1, <3>3, <4>2, <4>3 DEF MipiLoading
      <3>4. CASE pc = "size_ack"
        <4>1. /\ \A k \in 1..Len(tx) : tx[k] = "size_length" \/ (tx[k] = "size" /\ k = Len(tx))
              /\ stage = "psi"
          BY <1>1, <3>4 DEF MipiInv, MipiLoading, Heard
        <4>2. \/ Head(tx) = "size_length" /\ stage' = "psi" /\ rx' = rx \o <<>>
              \/ Head(tx) = "size" /\ stage' = "psi" /\ rx' = rx \o Mipi!AckWord("ebl_size")
          BY <1>2, <4>1, MipiReceived
        <4>3. Heard("size", {"size_length"}, Mipi!AckWord("ebl_size"))'
          <5>1. CASE Head(tx) = "size_length"
            <6>1. rx' = <<>>
              BY <3>1, <4>2, <5>1
            <6>2. QED
              BY <1>2, <4>1, <6>1 DEF Heard
          <5>2. CASE Head(tx) = "size"
            <6>1. rx' = Mipi!AckWord("ebl_size") /\ tx' = <<>>
              BY <1>2, <3>1, <4>1, <4>2, <5>2 DEF Mipi!AckWord
            <6>2. QED
              BY <6>1 DEF Heard, Mipi!AckWord
          <5>3. QED
            BY <4>2, <5>1, <5>2
        <4>4. QED
          BY <1>1, <3>4, <4>2, <4>3 DEF MipiLoading
      <3>5. CASE pc \in {"ebl", "ebl_crc"}
        <4>1. \A k \in 1..Len(tx) : tx[k] \in {"size_plus_one", "ebl"}
          BY <3>5 DEF MipiInv, MipiLoading, Unheard
        <4>2. stage' = "psi_ebl" /\ rx' = <<>> \o <<>>
          BY <1>1, <1>2, <3>1, <3>5, <4>1, MipiReceived
        <4>3. rx' = <<>>
          BY <4>2
        <4>4. QED
          BY <1>1, <1>2, <3>5, <4>1, <4>2, <4>3 DEF MipiLoading, Unheard
      <3>6. CASE pc = "ebl_ack"
        <4>1. /\ \A k \in 1..Len(tx) : tx[k] \in {"size_plus_one", "ebl"} \/ (tx[k] = "ebl_crc" /\ k = Len(tx))
              /\ stage \in {"psi", "psi_ebl"}
          BY <1>1, <3>6 DEF MipiInv, MipiLoading, Heard
        <4> DEFINE answer == Mipi!AckWord("ebl") \o Mipi!PortConfig
        <4>2. \/ Head(tx) \in {"size_plus_one", "ebl"} /\ stage' = "psi_ebl" /\ rx' = rx \o <<>>
              \/ Head(tx) = "ebl_crc" /\ stage' = "ebl" /\ rx' = rx \o answer
          BY <1>2, <4>1, MipiReceived
        <4>3. CASE Head(tx) \in {"size_plus_one", "ebl"}
          <5>1. rx' = <<>> /\ stage' = "psi_ebl"
            BY <3>1, <4>2, <4>3
          <5>2. Heard("ebl_crc", {"size_plus_one", "ebl"}, Mipi!AckWord("ebl") \o Mipi!PortConfig)'
            BY <1>2, <4>1, <5>1 DEF Heard
          <5>3. QED
            BY <1>1, <3>6, <5>1, <5>2 DEF MipiLoading
        <4>4. CASE Head(tx) = "ebl_crc"
          <5>1. tx' = <<>> /\ stage' = "ebl" /\ rx' = <<>> \o answer
            BY <1>2, <3>1, <4>1, <4>2, <4>4
          <5>2. answer \in Seq(MipiWords)
            <6>1. Mipi!AckWord("ebl") \in Seq(MipiWords)
              BY DEF Mipi!AckWord, MipiWords
            <6>2. QED
              BY <6>1, PortConfigIs
          <5>3. rx' = answer
            BY <5>1, <5>2, NothingAdded
          <5>4. Heard("ebl_crc", {"size_plus_one", "ebl"}, Mipi!AckWord("ebl") \o Mipi!PortConfig)'
            BY <5>1, <5>3 DEF Heard, Mipi!AckWord, Mipi!PortConfig
          <5>5. QED
            BY <1>1, <3>6, <5>1, <5>4 DEF MipiLoading
        <4>5. QED
          BY <4>2, <4>3, <4>4
      <3>7. QED
        BY <3>1, <3>2, <3>3, <3>4, <3>5, <3>6
    <2>2. CASE pc \notin Loading
      BY <1>1, <2>2 DEF MipiLoading, Loading
    <2>3. QED
      BY <2>1, <2>2
  <1>11. QED
    BY <1>3, <1>4, <1>5, <1>7, <1>8, <1>9, <1>10 DEF MipiInv

(* A reply on an empty line. *)
LEMMA ReplySeq ==
    ASSUME NEW c, NEW l \in Nat
    PROVE  <<>> \o Mipi!Reply(c, l) = Mipi!Reply(c, l) /\ Mipi!Reply(c, l) # <<>>
  <1> DEFINE S == {<<"length", l>>, <<"word", c>>}
             s == [k \in 1 .. (l + 3) \div 4 |-> <<"word", c>>]
             w == <<<<"length", l>>>>
  <1>1. (l + 3) \div 4 \in Nat
    OBVIOUS
  <1>2. s \in Seq(S) /\ w \in Seq(S)
    BY <1>1
  <1>3. Mipi!Reply(c, l) = w \o s
    BY DEF Mipi!Reply
  <1> HIDE DEF S, s, w
  <1>4. w \o s \in Seq(S)
    BY <1>2
  <1>5. QED
    BY <1>3, <1>4, NothingAdded, ReplyIs

(* The EBL carries out a command. *)
LEMMA MipiEblCommand ==
    ASSUME MipiInv, device' = device, Mipi!EblCommand
    PROVE  MipiInv'
  <1> DEFINE c == Head(tx)
  <1>1. /\ UNCHANGED <<pc, n, todo, len, count>> /\ stage = "ebl"
        /\ tx # <<>> /\ tx' = Tail(tx)
        /\ stage' = (IF c.code = "hw_reset" THEN "firmware" ELSE "ebl")
        /\ c.code = "hw_reset" => rx' = rx
        /\ c.code # "hw_reset" => \E l \in ReplyLengths : rx' = rx \o Mipi!Reply(c.code, l)
    BY DEF Mipi!EblCommand, Mipi!host
  <1>2. MipiHandles(c, flash, sec, address, flash', sec', address')
    BY DEF Mipi!EblCommand, MipiHandles
  <1>3. /\ tx' \in Seq(Loads \cup Orders) /\ c = tx[1] /\ Len(tx') = Len(tx) - 1
        /\ \A k \in 1..Len(tx') : k + 1 \in 1..Len(tx) /\ tx'[k] = tx[k + 1]
        /\ 1 \in 1..Len(tx) /\ Len(tx) \in Nat
    BY <1>1, TakeFirst DEF MipiInv, MipiTypes
  <1>4. PICK j \in 1..MipiLast : c = Mipi!Commands[j] /\ (j = MipiLast => pc = "done")
    BY <1>1, <1>3 DEF MipiInv, MipiAlways
  <1>5. c.code = "hw_reset" <=> j = MipiLast
    BY <1>4, MipiAcks
  <1> HIDE DEF c
  <1>6. MipiTypes'
    BY <1>1, <1>3 DEF MipiInv, MipiTypes
  <1>7. MipiAlways'
    <2>1. \A k \in 1..Len(tx') : tx'[k] = "ebl_crc" => k = Len(tx')
      BY <1>3 DEF MipiInv, MipiAlways
    <2>2. \A k \in 1..Len(tx') :
             \E i2 \in 1..MipiLast : tx'[k] = Mipi!Commands[i2] /\ (i2 = MipiLast => pc = "done")
      <3>1. \A k \in 1..Len(tx) :
               \E i2 \in 1..MipiLast : tx[k] = Mipi!Commands[i2] /\ (i2 = MipiLast => pc = "done")
        BY <1>1 DEF MipiInv, MipiAlways
      <3>2. QED
        BY <1>3, <3>1
    <2>3. QED
      BY <1>1, <1>4, <1>5, <2>1, <2>2 DEF MipiAlways
  <1>8. MipiTodo' /\ OnMipi'
    BY <1>1 DEF MipiInv, MipiTodo, MipiSent, OnMipi
  <1>9. pc \in {"reply_length", "done", "error", "undefined"}
    <2>1. pc \notin Probing \cup {"psi_ack", "reopen"}
      BY <1>1 DEF MipiInv, MipiProbing
    <2>2. pc \notin Loading
      BY <1>1 DEF MipiInv, MipiLoading, Loading
    <2>3. pc \notin {"port_length", "port_config", "command", "reply_data"}
      BY <1>1 DEF MipiInv, MipiCommanding, Silent
    <2>4. QED
      BY <2>1, <2>2, <2>3 DEF MipiInv, MipiTypes, Commanding
  <1>10. MipiProbing' /\ MipiLoading'
    BY <1>1, <1>9 DEF MipiProbing, MipiLoading, Probing
  <1>11. CASE pc = "reply_length"
    <2>1. tx = <<Head(todo)>> /\ rx = <<>> /\ Len(todo) > 1 /\ MipiTodo /\ MipiAfter(MipiSent)
      BY <1>1, <1>11 DEF MipiInv, MipiCommanding, MipiTodo, MipiProgress
    <2>2. c = Head(todo) /\ tx' = <<>>
      BY <1>1, <2>1, OneWord DEF c
    <2>3. /\ MipiSent \in 0..(MipiLast - 2) /\ c = Mipi!Commands[MipiSent + 1]
          /\ MipiSent' = MipiSent
      <3>1. MipiSent \in 0..(MipiLast - 2)
        BY <2>1, MipiLastIs DEF MipiTodo, MipiSent
      <3>2. Len(todo) > 0
        BY <2>1 DEF MipiTodo
      <3>3. Head(todo) = Mipi!Commands[MipiSent + 1]
        BY <2>1, <3>2, MipiHead
      <3>4. QED
        BY <1>1, <2>2, <3>1, <3>3 DEF MipiSent
    <2>4. MipiState(MipiSent + 1, flash', sec', address')
      BY <1>2, <2>1, <2>3, MipiApplies DEF MipiAfter
    <2>5. MipiProgress'
      <3>1. MipiAfter(MipiSent + 1)'
        BY <2>3, <2>4 DEF MipiAfter
      <3>2. QED
        BY <1>1, <1>11, <2>2, <3>1 DEF MipiProgress
    <2>6. c.code # "hw_reset"
      BY <1>4, <1>5, <1>11
    <2>7. \E l \in ReplyLengths : rx' = Mipi!Reply(Head(todo).code, l)
      <3>1. PICK l \in ReplyLengths : rx' = <<>> \o Mipi!Reply(Head(todo).code, l)
        BY <1>1, <2>1, <2>2, <2>6
      <3>2. l \in Nat
        BY MipiConstants
      <3>3. QED
        BY <3>1, <3>2, ReplySeq
    <2>8. MipiCommanding'
      BY <1>1, <1>11, <2>2, <2>6, <2>7 DEF MipiCommanding, Commanding
    <2>9. QED
      BY <1>6, <1>7, <1>8, <1>10, <2>5, <2>8 DEF MipiInv
  <1>12. CASE pc = "done"
    <2>1. tx = <<Mipi!Commands[MipiLast]>> /\ rx = <<>> /\ MipiAfter(MipiSent)
      BY <1>1, <1>12 DEF MipiInv, MipiCommanding, MipiProgress
    <2>2. c = Mipi!Commands[MipiLast] /\ tx' = <<>>
      BY <1>1, <2>1, OneWord DEF c
    <2>3. c.code = "hw_reset"
      BY <2>2, MipiFields
    <2>4. flash' = flash /\ sec' = sec /\ address' = address /\ MipiSent' = MipiSent
      BY <1>1, <1>2, <2>3 DEF MipiHandles, MipiSent
    <2>5. MipiProgress'
      BY <1>1, <1>12, <2>1, <2>4 DEF MipiProgress, MipiAfter
    <2>6. MipiCommanding'
      BY <1>1, <1>12, <2>1, <2>2, <2>3 DEF MipiCommanding, Commanding
    <2>7. QED
      BY <1>6, <1>7, <1>8, <1>10, <2>5, <2>6 DEF MipiInv
  <1>13. CASE pc \in {"error", "undefined"}
    <2>1. MipiProgress' /\ MipiCommanding'
      BY <1>1, <1>13 DEF MipiInv, MipiProgress, MipiCommanding, Commanding
    <2>2. QED
      BY <1>6, <1>7, <1>8, <1>10, <2>1 DEF MipiInv
  <1>14. QED
    BY <1>9, <1>11, <1>12, <1>13

(* The modem hangs. *)
LEMMA MipiHangs ==
    ASSUME MipiInv, device' = device, Mipi!Hangs
    PROVE  MipiInv'
  <1>1. /\ UNCHANGED <<pc, n, todo, len, count, head, tx, rx, address, flash, sec>>
        /\ stage' = "hung" /\ stage # "firmware"
    BY DEF Mipi!Hangs, Mipi!host
  <1>2. MipiTypes' /\ MipiAlways' /\ MipiProbing'
    BY <1>1 DEF MipiInv, MipiTypes, MipiAlways, MipiProbing
  <1>3. MipiLoading'
    BY <1>1 DEF MipiInv, MipiLoading, Silent, Unheard, Heard
  <1>4. MipiCommanding'
    BY <1>1 DEF MipiInv, MipiCommanding, Silent, Mipi!BufferSize
  <1>5. MipiTodo' /\ MipiProgress'
    BY <1>1 DEF MipiInv, MipiTodo, MipiProgress, MipiSent, MipiAfter
  <1>6. QED
    BY <1>2, <1>3, <1>4, <1>5 DEF MipiInv, OnMipi

(* Every step keeps the invariant. *)
LEMMA MipiNext ==
    ASSUME MipiInv, device' = device, Mipi!Next
    PROVE  MipiInv'
  <1>1. CASE Mipi!AtGivenUp \/ Mipi!SelectTimeout \/ Mipi!WriteFails
    BY <1>1, MipiFails
        DEF Mipi!AtGivenUp, Mipi!SelectTimeout, Mipi!WriteFails, Mipi!Fail, Mipi!Goto, Mipi!modem,
            Mipi!Waits, Mipi!Writes
  <1>2. CASE Mipi!EblBoot \/ Mipi!EblSize
    BY <1>2, MipiEblWrites, MipiEblReads DEF Mipi!EblBoot, Mipi!EblSize
  <1>3. CASE Mipi!Host
    BY <1>1, <1>2, <1>3, MipiPsiWrites, MipiPsiReads, MipiEblWrites, MipiEblReads,
        MipiPortConfig, MipiCommandWrite, MipiReplyLength, MipiReplyData, MipiReplyCode
        DEF Mipi!Host
  <1>4. CASE Mipi!Modem
    BY <1>4, MipiReceives, MipiEblCommand DEF Mipi!Modem
  <1>5. CASE Mipi!Returned
    BY <1>5, MipiStutter DEF Mipi!Returned, Mipi!vars, Mipi!host, Mipi!modem
  <1>6. QED
    BY <1>3, <1>4, <1>5, MipiHangs DEF Mipi!Next

(* The invariant contains what the runs check. *)
LEMMA MipiSafe ==
    ASSUME MipiInv
    PROVE  Mipi!ResetOnlyFlashed /\ Mipi!CommandsInStep /\ Mipi!ReplyInBounds
  <1>1. Mipi!CommandsInStep /\ Mipi!ReplyInBounds
    BY DEF MipiInv, MipiCommanding, Silent, Mipi!CommandsInStep, Mipi!ReplyInBounds
  <1>2. stage = "firmware" => pc = "done"
    BY DEF MipiInv, MipiAlways
  <1>3. ASSUME pc = "done" PROVE Mipi!Flashed
    <2>1. MipiAfter(MipiSent) /\ Len(todo) = 0
      BY <1>3 DEF MipiInv, MipiProgress, MipiTodo
    <2>2. MipiSent = MipiLast
      BY <2>1, MipiLastIs DEF MipiSent
    <2>3. QED
      BY <2>1, <2>2, MipiFlashed
  <1>4. QED
    BY <1>1, <1>2, <1>3 DEF Mipi!ResetOnlyFlashed

(***************************************************************************)
(* herolte.                                                                *)
(***************************************************************************)

(* What is assumed of the sizes and of the tables of contents. *)
LEMMA HerolteConstants ==
    /\ MaxChunk \in Nat \ {0} /\ Word \in Nat \ {0}
    /\ \A t \in Tocs : \A j \in DOMAIN t :
          t[j].offset \in Nat /\ t[j].load \in Nat /\ t[j].size \in Nat
  BY HerolteAssumption DEF Herolte!TocsAssumption, Herolte!BoundsAssumption

(* Division with remainder. *)
LEMMA Remainder ==
    ASSUME NEW w \in Nat \ {0}, NEW x \in Int
    PROVE  /\ x % w \in 0 .. w - 1 /\ x \div w \in Int
           /\ x = (w * (x \div w)) + (x % w)
  OBVIOUS

(* A remainder below the divisor is the only one. *)
LEMMA RemainderOf ==
    ASSUME NEW w \in Nat \ {0}, NEW q \in Int, NEW r \in 0 .. w - 1
    PROVE  ((w * q) + r) % w = r
  OBVIOUS

(* Arithmetic of addresses: the place x behind the address of d is the     *)
(* address of d + x ...                                                    *)
LEMMA AddressSum ==
    ASSUME NEW w \in Nat \ {0}, NEW a \in 0 .. w - 1, NEW f \in Nat,
           NEW d \in Nat
    PROVE  /\ (a - ((f + d) % w)) % w \in 0 .. w - 1
           /\ (f + (d + ((a - ((f + d) % w)) % w))) % w = a
  <1> DEFINE m == (f + d) % w
             s == (f + d) \div w
  <1>1. m \in 0 .. w - 1 /\ s \in Int /\ f + d = (w * s) + m
    <2>1. f + d \in Int
      OBVIOUS
    <2>2. QED
      BY <2>1, Remainder
  <1> HIDE DEF m, s
  <1> DEFINE x == (a - m) % w
             t == (a - m) \div w
  <1>2. a - m \in Int
    BY <1>1
  <1>3. x \in 0 .. w - 1 /\ t \in Int /\ a - m = (w * t) + x
    BY <1>2, Remainder
  <1> HIDE DEF x, t
  <1>4. f + (d + x) = (w * (s - t)) + a
    <2>1. w * (s - t) = (w * s) - (w * t)
      BY <1>1, <1>3
    <2>2. w * s \in Int /\ w * t \in Int /\ x \in Int /\ m \in Int
      BY <1>1, <1>3
    <2>3. \A u, v, y, z \in Int :
             f + d = u + z /\ a - z = v + y => f + (d + y) = (u - v) + a
      OBVIOUS
    <2>4. QED
      BY <1>1, <1>3, <2>1, <2>2, <2>3
  <1>5. ((w * (s - t)) + a) % w = a
    <2>1. s - t \in Int
      BY <1>1, <1>3
    <2>2. QED
      BY <2>1, RemainderOf
  <1>6. QED
    BY <1>3, <1>4, <1>5 DEF x, m

(* ... and the address of d + j lies at most j behind that of d. *)
LEMMA AddressDifference ==
    ASSUME NEW w \in Nat \ {0}, NEW f \in Nat, NEW d \in Nat, NEW j \in Nat
    PROVE  (((f + (d + j)) % w) - ((f + d) % w)) % w <= j
  <1> DEFINE m == (f + d) % w
             s == (f + d) \div w
             a == (f + (d + j)) % w
             t == (f + (d + j)) \div w
  <1>1. m \in 0 .. w - 1 /\ s \in Int /\ f + d = (w * s) + m
    <2>1. f + d \in Int
      OBVIOUS
    <2>2. QED
      BY <2>1, Remainder
  <1>2. a \in 0 .. w - 1 /\ t \in Int /\ f + (d + j) = (w * t) + a
    <2>1. f + (d + j) \in Int
      OBVIOUS
    <2>2. QED
      BY <2>1, Remainder
  <1> HIDE DEF m, s, a, t
  <1> DEFINE r == j % w
             q == j \div w
  <1>3. r \in 0 .. w - 1 /\ q \in Int /\ j = (w * q) + r /\ r <= j
    <2>1. j \in Int /\ j % w <= j
      OBVIOUS
    <2>2. QED
      BY <2>1, Remainder
  <1> HIDE DEF r, q
  <1>4. a - m = (w * ((q + s) - t)) + r
    <2>1. w * ((q + s) - t) = ((w * q) + (w * s)) - (w * t)
      BY <1>1, <1>2, <1>3
    <2>2. /\ w * s \in Int /\ w * t \in Int /\ w * q \in Int
          /\ m \in Int /\ a \in Int /\ r \in Int
      BY <1>1, <1>2, <1>3
    <2>3. \A u, v, z, g, h, y \in Int :
             f + d = u + g /\ f + (d + j) = v + h /\ j = z + y
                => h - g = ((z + u) - v) + y
      OBVIOUS
    <2>4. QED
      BY <1>1, <1>2, <1>3, <2>1, <2>2, <2>3
  <1>5. ((w * ((q + s) - t)) + r) % w = r
    <2>1. (q + s) - t \in Int
      BY <1>1, <1>2, <1>3
    <2>2. QED
      BY <1>3, <2>1, RemainderOf
  <1>6. QED
    BY <1>3, <1>4, <1>5 DEF a, m

(* Advancing an address by z. *)
LEMMA AddressSumOf ==
    ASSUME NEW w \in Nat \ {0}, NEW x \in Nat, NEW y \in Nat, NEW z \in Nat
    PROVE  (((x + y) % w) + z) % w = (x + (y + z)) % w
  <1> DEFINE m == (x + y) % w
             s == (x + y) \div w
  <1>1. m \in 0 .. w - 1 /\ s \in Int /\ x + y = (w * s) + m
    <2>1. x + y \in Int
      OBVIOUS
    <2>2. QED
      BY <2>1, Remainder
  <1> HIDE DEF m, s
  <1> DEFINE r == (m + z) % w
             q == (m + z) \div w
  <1>2. r \in 0 .. w - 1 /\ q \in Int /\ m + z = (w * q) + r
    <2>1. m + z \in Int
      BY <1>1
    <2>2. QED
      BY <2>1, Remainder
  <1> HIDE DEF r, q
  <1>3. x + (y + z) = (w * (s + q)) + r
    <2>1. w * (s + q) = (w * s) + (w * q)
      BY <1>1, <1>2
    <2>2. w * s \in Int /\ w * q \in Int /\ m \in Int /\ r \in Int
      BY <1>1, <1>2
    <2>3. \A u, v, g, h \in Int :
             x + y = u + g /\ g + z = v + h => x + (y + z) = (u + v) + h
      OBVIOUS
    <2>4. QED
      BY <1>1, <1>2, <2>1, <2>2, <2>3
  <1>4. ((w * (s + q)) + r) % w = r
    <2>1. s + q \in Int
      BY <1>1, <1>2
    <2>2. QED
      BY <1>2, <2>1, RemainderOf
  <1>5. QED
    BY <1>3, <1>4 DEF r, m

(* The same of the modem's memory. *)
LEMMA WordSum ==
    ASSUME NEW a \in 0 .. Word - 1, NEW f \in Nat, NEW d \in Nat
    PROVE  /\ (a - ((f + d) % Word)) % Word \in Nat
           /\ (f + (d + ((a - ((f + d) % Word)) % Word))) % Word = a
  <1>1. Word \in Nat \ {0}
    BY HerolteConstants
  <1>2. /\ (a - ((f + d) % Word)) % Word \in 0 .. Word - 1
        /\ (f + (d + ((a - ((f + d) % Word)) % Word))) % Word = a
    BY <1>1, AddressSum
  <1>3. QED
    BY <1>1, <1>2

(* m_offset after a chunk. *)
LEMMA WordAdvance ==
    ASSUME NEW x \in Nat, NEW y \in Nat, NEW z \in Nat
    PROVE  (((x + y) % Word) + z) % Word = (x + (y + z)) % Word
  <1>1. Word \in Nat \ {0}
    BY HerolteConstants
  <1>2. QED
    BY <1>1, AddressSumOf

(* Where the boot function is: before, in and after the uploads. *)
HEarly == {"open_image", "read_toc", "open_nv", "open_boot0", "reset",
           "insecure"}
HUploading == {"chunk", "read", "send"}
HLate == {"secure", "power_on", "boot_on", "dl_start", "hs1_write",
          "hs1_read", "hs2_write", "hs2_read", "boot_off"}

(* The size of a blob, where it begins in its file, and how much of the    *)
(* present one has been sent.                                              *)
HSize(b)   == Herolte!Entry(Herolte!Parts[b]).size
HOffset(b) == Herolte!Entry(Herolte!Parts[b]).offset
HSent      == HSize(part) - remaining

(* A blob found in the table and sent completely. *)
HComplete(b) ==
    /\ Herolte!Found(Herolte!Parts[b])
    /\ \A k \in 0 .. HSize(b) - 1 :
          mem[Herolte!Cell(b, k)] = Herolte!Wanted(b, k)

(* Where the function is; 0 is returned at the end only. *)
HControl ==
    /\ pc \in HEarly \cup HUploading \cup HLate \cup {"upload", "returned"}
    /\ part \in 1 .. 3 /\ toc \in Tocs /\ short \in BOOLEAN
    /\ DOMAIN fpos = {"image", "nv"}
    /\ pc \in HEarly => part = 1
    /\ rc = "ok" => pc = "returned"

(* During an upload without short reads, the counter, the address, the     *)
(* place in the file and the buffer agree.                                 *)
HPlace ==
    ~short /\ pc \in HUploading =>
        /\ Herolte!Found("BOOT") /\ Herolte!Found(Herolte!Parts[part])
        /\ remaining \in 0 .. HSize(part)
        /\ m_offset = Herolte!Cell(part, HSent)
        /\ pc \in {"chunk", "read"} =>
              fpos[Herolte!Source(part)] = HOffset(part) + HSent
        /\ pc \in {"read", "send"} => len \in 1 .. remaining /\ len <= MaxChunk
        /\ pc = "read" => want = len
        /\ pc = "send" =>
              /\ fpos[Herolte!Source(part)] = HOffset(part) + (HSent + len)
              /\ \A k \in 0 .. len - 1 :
                    buf[k + 1] = Herolte!Wanted(part, HSent + k)

(* Whatever is in memory belongs there. *)
HExact ==
    ~short /\ Herolte!Found("BOOT") =>
        \A a \in 0 .. Word - 1 : mem[a] # Nothing =>
            \E b \in 1 .. 3 :
                /\ Herolte!Found(Herolte!Parts[b])
                /\ \E k \in 0 .. HSize(b) - 1 :
                      a = Herolte!Cell(b, k) /\ mem[a] = Herolte!Wanted(b, k)

(* Of blobs that do not overlap, those before the present one are in       *)
(* memory, with what has been sent of the present one.                     *)
HFilled ==
    ~short /\ failed = {} /\ Herolte!Apart =>
        /\ pc \in HUploading \cup {"upload"} =>
              \A b \in 1 .. part - 1 : HComplete(b)
        /\ pc \in HUploading =>
              \A k \in 0 .. HSent - 1 :
                 mem[Herolte!Cell(part, k)] = Herolte!Wanted(part, k)
        /\ pc \in HLate \/ rc = "ok" => \A b \in 1 .. 3 : HComplete(b)

(* The invariant of herolte_boot. *)
HerolteInv == HControl /\ HPlace /\ HExact /\ HFilled

(* A table entry that was found has sizes. *)
LEMMA EntryFacts ==
    ASSUME toc \in Tocs, NEW name, Herolte!Found(name)
    PROVE  /\ Herolte!Entry(name).size \in Nat
           /\ Herolte!Entry(name).offset \in Nat
           /\ Herolte!Entry(name).load \in Nat
  <1> DEFINE S == Herolte!FindTocEntry(name, toc)
             j == CHOOSE x \in S : TRUE
  <1>1. j \in S
    BY DEF Herolte!Found
  <1>2. j \in DOMAIN toc
    BY <1>1 DEF Herolte!FindTocEntry
  <1>3. Herolte!Entry(name) = toc[j]
    BY DEF Herolte!Entry
  <1> HIDE DEF j
  <1>4. QED
    BY <1>2, <1>3, HerolteConstants

(* There are three blobs, and each has a file. *)
LEMMA PartFacts ==
    /\ Len(Herolte!Parts) = 3
    /\ \A b \in 1 .. 3 : Herolte!Source(b) \in {"image", "nv"}
  BY DEF Herolte!Parts, Herolte!Source

(* Addresses lie in the modem's memory. *)
LEMMA CellFacts ==
    ASSUME toc \in Tocs, Herolte!Found("BOOT"), NEW b \in 1 .. 3,
           Herolte!Found(Herolte!Parts[b])
    PROVE  /\ Herolte!FirstAddr(b) \in 0 .. Word - 1
           /\ HSize(b) \in Nat /\ HOffset(b) \in Nat
           /\ \A k \in Nat : Herolte!Cell(b, k) \in 0 .. Word - 1
           /\ Herolte!Cell(b, 0) = Herolte!FirstAddr(b)
  <1>1. /\ HSize(b) \in Nat /\ HOffset(b) \in Nat
        /\ Herolte!Entry(Herolte!Parts[b]).load \in Nat
        /\ Herolte!Entry("BOOT").load \in Nat
    BY EntryFacts DEF HSize, HOffset
  <1>2. Herolte!FirstAddr(b) \in 0 .. Word - 1
    <2>1. Herolte!Entry(Herolte!Parts[b]).load - Herolte!Entry("BOOT").load \in Int
      BY <1>1
    <2>2. QED
      BY <2>1, HerolteConstants, Remainder DEF Herolte!FirstAddr
  <1>3. ASSUME NEW f \in 0 .. Word - 1
        PROVE  /\ \A k \in Nat : (f + k) % Word \in 0 .. Word - 1
               /\ (f + 0) % Word = f
    BY HerolteConstants
  <1>4. QED
    BY <1>1, <1>2, <1>3 DEF Herolte!Cell

(* The table of contents does not change. *)
LEMMA SameTable ==
    ASSUME toc' = toc
    PROVE  /\ \A name : Herolte!Found(name)' = Herolte!Found(name)
           /\ \A b : HSize(b)' = HSize(b) /\ HOffset(b)' = HOffset(b)
           /\ \A b, k : /\ Herolte!Cell(b, k)' = Herolte!Cell(b, k)
                        /\ Herolte!Wanted(b, k)' = Herolte!Wanted(b, k)
           /\ Herolte!Apart' = Herolte!Apart
  <1>1. \A name : Herolte!Found(name)' = Herolte!Found(name)
    BY DEF Herolte!Found, Herolte!FindTocEntry
  <1>2. \A name : Herolte!Entry(name)' = Herolte!Entry(name)
    BY DEF Herolte!Entry, Herolte!FindTocEntry
  <1>3. \A b : HSize(b)' = HSize(b) /\ HOffset(b)' = HOffset(b)
    BY <1>2 DEF HSize, HOffset
  <1>4. \A b, k : /\ Herolte!Cell(b, k)' = Herolte!Cell(b, k)
                  /\ Herolte!Wanted(b, k)' = Herolte!Wanted(b, k)
    BY <1>2 DEF Herolte!Cell, Herolte!FirstAddr, Herolte!Wanted
  <1>5. Herolte!Apart' = Herolte!Apart
    BY <1>1, <1>2, <1>4 DEF Herolte!Apart
  <1>6. QED
    BY <1>1, <1>3, <1>4, <1>5

(* Steps that leave the memory alone. *)
LEMMA MemoryKept ==
    ASSUME HExact, toc' = toc, mem' = mem, short => short',
           short \in BOOLEAN
    PROVE  HExact' /\ \A b : HComplete(b)' = HComplete(b)
  <1>1. \A b : HComplete(b)' = HComplete(b)
    BY SameTable DEF HComplete
  <1>2. HExact'
    BY SameTable DEF HExact
  <1>3. QED
    BY <1>1, <1>2

(* Steps before and after the uploads, and the return. *)
LEMMA StepsAround ==
    ASSUME HerolteInv,
           UNCHANGED <<part, toc, remaining, m_offset, len, want, fpos, buf,
                       mem, failed, short>>,
           \/ pc \in HEarly /\ pc' \in HEarly \cup {"upload"} /\ rc' = rc
           \/ pc \in HLate /\ pc' \in HLate /\ rc' = rc
           \/ pc' = "returned" /\ (rc' = "ok" => pc \in HLate)
           \/ UNCHANGED <<pc, rc>>
    PROVE  HerolteInv'
  <1>1. HControl /\ HPlace /\ HExact /\ HFilled
    BY DEF HerolteInv
  <1>2. HExact' /\ \A b : HComplete(b)' = HComplete(b)
    BY <1>1, MemoryKept DEF HControl
  <1>3. Herolte!Apart' = Herolte!Apart
    BY SameTable
  <1>4. CASE pc \in HEarly /\ pc' \in HEarly \cup {"upload"} /\ rc' = rc
    <2>1. part' = 1 /\ pc' \notin HUploading \cup HLate \cup {"returned"}
          /\ rc' # "ok"
      BY <1>1, <1>4 DEF HControl, HEarly, HUploading, HLate
    <2>2. HControl'
      BY <1>1, <1>4, <2>1 DEF HControl
    <2>3. HPlace'
      BY <2>1 DEF HPlace
    <2>4. HFilled'
      BY <2>1 DEF HFilled
    <2>5. QED
      BY <1>2, <2>2, <2>3, <2>4 DEF HerolteInv
  <1>5. CASE pc \in HLate /\ pc' \in HLate /\ rc' = rc
    <2>1. /\ pc' \notin HEarly \cup HUploading \cup {"upload", "returned"}
          /\ rc' # "ok"
      BY <1>1, <1>5 DEF HControl, HEarly, HUploading, HLate
    <2>2. HControl'
      BY <1>1, <1>5, <2>1 DEF HControl
    <2>3. HPlace'
      BY <2>1 DEF HPlace
    <2>4. HFilled'
      BY <1>1, <1>2, <1>3, <1>5, <2>1 DEF HFilled
    <2>5. QED
      BY <1>2, <2>2, <2>3, <2>4 DEF HerolteInv
  <1>6. CASE pc' = "returned" /\ (rc' = "ok" => pc \in HLate)
    <2>1. pc' \notin HEarly \cup HUploading \cup HLate \cup {"upload"}
      BY <1>6 DEF HEarly, HUploading, HLate
    <2>2. HControl'
      BY <1>1, <1>6, <2>1 DEF HControl
    <2>3. HPlace'
      BY <2>1 DEF HPlace
    <2>4. HFilled'
      BY <1>1, <1>2, <1>3, <1>6, <2>1 DEF HFilled
    <2>5. QED
      BY <1>2, <2>2, <2>3, <2>4 DEF HerolteInv
  <1>7. CASE UNCHANGED <<pc, rc>>
    <2>1. HControl'
      BY <1>1, <1>7 DEF HControl
    <2>2. HSent' = HSent
      BY SameTable DEF HSent
    <2>3. HPlace'
      BY <1>1, <1>7, <2>2, SameTable DEF HPlace, Herolte!Source
    <2>4. HFilled'
      BY <1>1, <1>2, <1>7, <2>2, SameTable DEF HFilled
    <2>5. QED
      BY <1>2, <2>1, <2>3, <2>4 DEF HerolteInv
  <1>8. QED
    BY <1>4, <1>5, <1>6, <1>7

(* The next blob, or the end of the uploads. *)
LEMMA ProceedStep ==
    ASSUME HerolteInv, Herolte!Proceed, pc \in HUploading, rc' = rc,
           UNCHANGED <<toc, fpos, mem, short>>,
           failed' = {} => failed = {} /\ (~short => remaining = 0)
    PROVE  HerolteInv'
  <1>1. HControl /\ HPlace /\ HExact /\ HFilled
    BY DEF HerolteInv
  <1>2. HExact' /\ \A b : HComplete(b)' = HComplete(b)
    BY <1>1, MemoryKept DEF HControl
  <1>3. part' = (IF part = 3 THEN part ELSE part + 1)
        /\ pc' = (IF part = 3 THEN "secure" ELSE "upload")
    BY PartFacts DEF Herolte!Proceed
  <1>4. /\ part' \in 1 .. 3 /\ rc' # "ok"
        /\ pc' \notin HEarly \cup HUploading \cup {"returned"}
        /\ pc' \in HLate \cup {"upload"}
    BY <1>1, <1>3 DEF HControl, HEarly, HUploading, HLate
  <1>5. HControl'
    BY <1>1, <1>4 DEF HControl
  <1>6. HPlace'
    BY <1>4 DEF HPlace
  <1>7. HFilled'
    <2>1. SUFFICES ASSUME ~short, failed' = {}, Herolte!Apart
                   PROVE  /\ pc' = "upload" => \A b \in 1 .. part' - 1 : HComplete(b)
                          /\ pc' \in HLate => \A b \in 1 .. 3 : HComplete(b)
      BY <1>2, <1>4, SameTable DEF HFilled
    <2>2. HComplete(part)
      <3>1. /\ Herolte!Found("BOOT") /\ Herolte!Found(Herolte!Parts[part])
            /\ remaining = 0
        BY <1>1, <2>1 DEF HPlace
      <3>2. HSize(part) \in Nat
        BY <1>1, <3>1, CellFacts DEF HControl
      <3>3. HSent = HSize(part)
        BY <3>1, <3>2 DEF HSent
      <3>4. QED
        BY <1>1, <2>1, <3>1, <3>3 DEF HFilled, HComplete
    <2>3. \A b \in 1 .. part - 1 : HComplete(b)
      BY <1>1, <2>1 DEF HFilled
    <2>4. CASE part = 3
      <3>1. \A b \in 1 .. 3 : b \in 1 .. 3 - 1 \/ b = 3
        OBVIOUS
      <3>2. QED
        BY <1>3, <2>2, <2>3, <2>4, <3>1
    <2>5. CASE part # 3
      <3>1. \A b \in 1 .. (part + 1) - 1 : b \in 1 .. part - 1 \/ b = part
        BY <1>1 DEF HControl
      <3>2. QED
        BY <1>3, <2>2, <2>3, <2>5, <3>1 DEF HLate
    <2>6. QED
      BY <2>4, <2>5
  <1>8. QED
    BY <1>2, <1>5, <1>6, <1>7 DEF HerolteInv

(* upload_chunk begins. *)
LEMMA UploadBeginStep ==
    ASSUME HerolteInv, Herolte!UploadBegin
    PROVE  HerolteInv'
  <1>1. HControl /\ HPlace /\ HExact /\ HFilled
    BY DEF HerolteInv
  <1>2. /\ pc = "upload" /\ pc' = "chunk"
        /\ Herolte!Found("BOOT") /\ Herolte!Found(Herolte!Parts[part])
        /\ remaining' = HSize(part) /\ m_offset' = Herolte!FirstAddr(part)
        /\ fpos' = [fpos EXCEPT ![Herolte!Source(part)] = HOffset(part)]
        /\ UNCHANGED <<rc, part, toc, mem, failed, short>>
    BY DEF Herolte!UploadBegin, Herolte!world, HSize, HOffset
  <1>3. HExact' /\ \A b : HComplete(b)' = HComplete(b)
    BY <1>1, <1>2, MemoryKept DEF HControl
  <1>4. /\ HSize(part) \in Nat /\ HOffset(part) \in Nat
        /\ Herolte!Cell(part, 0) = Herolte!FirstAddr(part)
    BY <1>1, <1>2, CellFacts DEF HControl
  <1>5. /\ pc' \in HUploading /\ rc' # "ok"
        /\ pc' \notin HEarly \cup HLate \cup {"upload", "returned"}
    BY <1>1, <1>2 DEF HControl, HEarly, HUploading, HLate
  <1>6. /\ DOMAIN fpos' = {"image", "nv"}
        /\ fpos'[Herolte!Source(part)] = HOffset(part)
    BY <1>1, <1>2, PartFacts DEF HControl
  <1>7. HControl'
    BY <1>1, <1>2, <1>5, <1>6 DEF HControl
  <1>8. HSize(part)' = HSize(part) /\ HOffset(part)' = HOffset(part)
        /\ HSent' = 0 /\ Herolte!Source(part)' = Herolte!Source(part)
    BY <1>2, <1>4, SameTable DEF HSent, Herolte!Source
  <1>9. HPlace'
    <2>1. (/\ Herolte!Found("BOOT") /\ Herolte!Found(Herolte!Parts[part]))'
      BY <1>2, SameTable
    <2>2. m_offset' = Herolte!Cell(part, HSent)'
      BY <1>2, <1>4, <1>8, SameTable
    <2>3. fpos'[Herolte!Source(part)'] = HOffset(part)' + HSent'
      BY <1>4, <1>6, <1>8
    <2>4. remaining' \in 0 .. HSize(part)'
      BY <1>2, <1>4, <1>8
    <2>5. QED
      BY <1>2, <2>1, <2>2, <2>3, <2>4 DEF HPlace
  <1>10. HFilled'
    <2>1. \A k \in 0 .. HSent' - 1 : FALSE
      BY <1>8
    <2>2. QED
      BY <1>1, <1>2, <1>3, <1>5, <2>1, SameTable DEF HFilled
  <1>11. QED
    BY <1>3, <1>7, <1>9, <1>10 DEF HerolteInv

(* The length of the next chunk. *)
LEMMA NextChunkStep ==
    ASSUME HerolteInv, Herolte!NextChunk
    PROVE  HerolteInv'
  <1>1. HControl /\ HPlace /\ HExact /\ HFilled
    BY DEF HerolteInv
  <1>2. /\ pc = "chunk" /\ pc' = "read" /\ remaining > 0
        /\ len' = (IF remaining < MaxChunk THEN remaining ELSE MaxChunk)
        /\ want' = len'
        /\ UNCHANGED <<rc, part, toc, remaining, m_offset, fpos, mem, failed,
                       short>>
    BY DEF Herolte!NextChunk, Herolte!world
  <1>3. HExact' /\ \A b : HComplete(b)' = HComplete(b)
    BY <1>1, <1>2, MemoryKept DEF HControl
  <1>4. /\ pc' \in HUploading /\ rc' # "ok" /\ pc \in HUploading
        /\ pc' \notin HEarly \cup HLate \cup {"upload", "returned"}
    BY <1>1, <1>2 DEF HControl, HEarly, HUploading, HLate
  <1>5. HControl'
    BY <1>1, <1>2, <1>4 DEF HControl
  <1>6. HSize(part)' = HSize(part) /\ HOffset(part)' = HOffset(part)
        /\ HSent' = HSent /\ Herolte!Source(part)' = Herolte!Source(part)
    BY <1>2, SameTable DEF HSent, Herolte!Source
  <1>7. HPlace'
    <2>1. SUFFICES ASSUME ~short PROVE HPlace'
      BY <1>2 DEF HPlace
    <2>2. /\ Herolte!Found("BOOT") /\ Herolte!Found(Herolte!Parts[part])
          /\ remaining \in 0 .. HSize(part)
          /\ m_offset = Herolte!Cell(part, HSent)
          /\ fpos[Herolte!Source(part)] = HOffset(part) + HSent
      BY <1>1, <1>2, <1>4, <2>1 DEF HPlace
    <2>3. HSize(part) \in Nat
      BY <1>1, <2>2, CellFacts DEF HControl
    <2>4. len' \in 1 .. remaining /\ len' <= MaxChunk
      BY <1>2, <2>2, <2>3, HerolteConstants
    <2>5. (/\ Herolte!Found("BOOT") /\ Herolte!Found(Herolte!Parts[part])
           /\ remaining \in 0 .. HSize(part)
           /\ m_offset = Herolte!Cell(part, HSent)
           /\ fpos[Herolte!Source(part)] = HOffset(part) + HSent)'
      BY <1>2, <1>6, <2>2, SameTable
    <2>6. QED
      BY <1>2, <2>4, <2>5 DEF HPlace
  <1>8. HFilled'
    BY <1>1, <1>2, <1>3, <1>4, <1>6, SameTable DEF HFilled
  <1>9. QED
    BY <1>3, <1>5, <1>7, <1>8 DEF HerolteInv

(* One read() of data_read. *)
LEMMA DataReadStep ==
    ASSUME HerolteInv, Herolte!DataRead
    PROVE  HerolteInv'
  <1>1. HControl /\ HPlace /\ HExact /\ HFilled
    BY DEF HerolteInv
  <1> DEFINE src == Herolte!Source(part)
  <1>2. PICK c \in 1 .. len :
          /\ buf' = [j \in 1 .. MaxChunk |->
                       IF j <= c THEN [src |-> src, at |-> fpos[src] + j - 1]
                                 ELSE buf[j]]
          /\ fpos' = [fpos EXCEPT ![src] = @ + c]
          /\ want' = want - c
          /\ short' = (short \/ c < len)
    BY DEF Herolte!DataRead
  <1>3. /\ pc = "read" /\ pc' = (IF want' > 0 THEN "read" ELSE "send")
        /\ UNCHANGED <<rc, part, toc, remaining, m_offset, len, mem, failed>>
    BY DEF Herolte!DataRead, Herolte!world
  <1>4. (short => short') /\ short' \in BOOLEAN
    BY <1>1, <1>2 DEF HControl
  <1>5. HExact' /\ \A b : HComplete(b)' = HComplete(b)
    BY <1>1, <1>3, <1>4, MemoryKept DEF HControl
  <1>6. /\ pc' \in HUploading /\ rc' # "ok" /\ pc \in HUploading
        /\ pc' \notin HEarly \cup HLate \cup {"upload", "returned"}
    BY <1>1, <1>3 DEF HControl, HEarly, HUploading, HLate
  <1>7. /\ DOMAIN fpos' = {"image", "nv"} /\ fpos'[src] = fpos[src] + c
    BY <1>1, <1>2, PartFacts DEF HControl
  <1>8. HControl'
    BY <1>1, <1>3, <1>4, <1>6, <1>7 DEF HControl
  <1>9. HSize(part)' = HSize(part) /\ HOffset(part)' = HOffset(part)
        /\ HSent' = HSent /\ Herolte!Source(part)' = src
    BY <1>3, SameTable DEF HSent, Herolte!Source
  <1>10. HPlace'
    <2>1. SUFFICES ASSUME ~short' PROVE HPlace'
      BY DEF HPlace
    <2>2. /\ Herolte!Found("BOOT") /\ Herolte!Found(Herolte!Parts[part])
          /\ remaining \in 0 .. HSize(part)
          /\ m_offset = Herolte!Cell(part, HSent)
          /\ fpos[src] = HOffset(part) + HSent
          /\ len \in 1 .. remaining /\ len <= MaxChunk /\ want = len
      BY <1>1, <1>3, <1>4, <1>6, <2>1 DEF HPlace
    <2>3. /\ HSize(part) \in Nat /\ HOffset(part) \in Nat
      BY <1>1, <2>2, CellFacts DEF HControl
    <2>4. /\ HSent \in Nat /\ len \in Nat /\ remaining \in Nat
      BY <2>2, <2>3 DEF HSent
    <2>5. c = len
      <3>1. ~(c < len)
        BY <1>2, <2>1, Zenon
      <3>2. QED
        BY <2>4, <3>1
    <2>6. pc' = "send"
      BY <1>2, <1>3, <2>2, <2>4, <2>5
    <2>7. fpos'[src] = HOffset(part) + (HSent + len)
      BY <1>7, <2>2, <2>3, <2>4, <2>5
    <2>8. ASSUME NEW k \in 0 .. len - 1
          PROVE  buf'[k + 1] = Herolte!Wanted(part, HSent + k)
      <3>1. k + 1 \in 1 .. MaxChunk /\ k + 1 <= c
        BY <2>2, <2>4, <2>5, HerolteConstants
      <3>2. buf'[k + 1] = [src |-> src, at |-> fpos[src] + (k + 1) - 1]
        BY <1>2, <3>1
      <3>3. fpos[src] + (k + 1) - 1 = HOffset(part) + (HSent + k)
        BY <2>2, <2>3, <2>4
      <3>4. Herolte!Wanted(part, HSent + k) =
               [src |-> src, at |-> HOffset(part) + (HSent + k)]
        BY DEF Herolte!Wanted, HOffset
      <3>5. QED
        BY <3>2, <3>3, <3>4
    <2>9. (/\ Herolte!Found("BOOT") /\ Herolte!Found(Herolte!Parts[part])
           /\ remaining \in 0 .. HSize(part)
           /\ m_offset = Herolte!Cell(part, HSent)
           /\ len \in 1 .. remaining /\ len <= MaxChunk
           /\ fpos[Herolte!Source(part)] = HOffset(part) + (HSent + len)
           /\ \A k \in 0 .. len - 1 :
                 buf[k + 1] = Herolte!Wanted(part, HSent + k))'
      BY <1>3, <1>9, <2>2, <2>7, <2>8, SameTable
    <2>10. QED
      BY <2>6, <2>9 DEF HPlace
  <1>11. HFilled'
    BY <1>1, <1>3, <1>4, <1>5, <1>6, <1>9, SameTable DEF HFilled
  <1>12. QED
    BY <1>5, <1>8, <1>10, <1>11 DEF HerolteInv

(* A chunk is sent. *)
LEMMA SendBootStep ==
    ASSUME HerolteInv, Herolte!SendBoot
    PROVE  HerolteInv'
  <1>1. HControl /\ HPlace /\ HExact /\ HFilled
    BY DEF HerolteInv
  <1> DEFINE At(a) == (a - m_offset) % Word
  <1>2. /\ pc = "send" /\ pc' = "chunk"
        /\ mem' = [a \in 0 .. Word - 1 |->
                     IF At(a) + 1 <= len THEN buf[At(a) + 1] ELSE mem[a]]
        /\ m_offset' = (m_offset + len) % Word
        /\ remaining' = remaining - len
        /\ UNCHANGED <<rc, part, toc, len, fpos, buf, failed, short>>
    BY DEF Herolte!SendBoot, Herolte!world
  <1>3. /\ pc' \in HUploading /\ rc' # "ok" /\ pc \in HUploading
        /\ pc' \notin HEarly \cup HLate \cup {"upload", "returned"}
    BY <1>1, <1>2 DEF HControl, HEarly, HUploading, HLate
  <1>4. HControl'
    BY <1>1, <1>2, <1>3 DEF HControl
  <1>5. CASE short
    BY <1>2, <1>4, <1>5 DEF HerolteInv, HPlace, HExact, HFilled
  <1>6. CASE ~short
    <2> DEFINE f == Herolte!FirstAddr(part)
               d == HSent
               size == HSize(part)
    <2>1. /\ Herolte!Found("BOOT") /\ Herolte!Found(Herolte!Parts[part])
          /\ remaining \in 0 .. size /\ m_offset = Herolte!Cell(part, d)
          /\ len \in 1 .. remaining
          /\ fpos[Herolte!Source(part)] = HOffset(part) + (d + len)
          /\ \A k \in 0 .. len - 1 : buf[k + 1] = Herolte!Wanted(part, d + k)
      BY <1>1, <1>2, <1>3, <1>6 DEF HPlace
    <2>2. /\ size \in Nat /\ HOffset(part) \in Nat /\ f \in 0 .. Word - 1
          /\ f \in Nat /\ Word \in Nat \ {0}
      BY <1>1, <2>1, CellFacts, HerolteConstants DEF HControl
    <2>3. /\ d \in Nat /\ len \in Nat /\ remaining \in Nat /\ d + len <= size
          /\ d = size - remaining
      BY <2>1, <2>2 DEF HSent
    <2>4. /\ HSize(part)' = size /\ HSent' = d + len
          /\ HOffset(part)' = HOffset(part)
          /\ Herolte!Source(part)' = Herolte!Source(part)
      <3>1. HSize(part)' = size /\ HOffset(part)' = HOffset(part)
        BY <1>2, SameTable
      <3>2. HSent' = size - (remaining - len)
        BY <1>2, <3>1 DEF HSent
      <3>3. \A x, y, z \in Nat : x - (y - z) = (x - y) + z
        OBVIOUS
      <3>4. QED
        BY <1>2, <2>2, <2>3, <3>1, <3>2, <3>3 DEF Herolte!Source
    <2> HIDE DEF d, size
    <2>5. m_offset = (f + d) % Word
      BY <2>1 DEF Herolte!Cell
    <2>6. ASSUME NEW a \in 0 .. Word - 1
          PROVE  At(a) \in Nat /\ Herolte!Cell(part, d + At(a)) = a
      <3>1. /\ (a - ((f + d) % Word)) % Word \in Nat
            /\ (f + (d + ((a - ((f + d) % Word)) % Word))) % Word = a
        BY <2>2, <2>3, WordSum
      <3>2. At(a) = (a - ((f + d) % Word)) % Word
        BY <2>5
      <3> HIDE DEF At
      <3>3. Herolte!Cell(part, d + At(a)) = (f + (d + At(a))) % Word
        BY DEF Herolte!Cell
      <3>4. QED
        BY <3>1, <3>2, <3>3
    <2>7. ASSUME NEW j \in Nat PROVE At(Herolte!Cell(part, d + j)) <= j
      BY <2>2, <2>3, <2>5, AddressDifference DEF Herolte!Cell
    <2> HIDE DEF f
    <2>8. \A b \in 1 .. 3, k \in Nat :
             Herolte!Found(Herolte!Parts[b]) =>
                Herolte!Cell(b, k) \in 0 .. Word - 1
      BY <1>1, <2>1, CellFacts DEF HControl
    <2>9. /\ part \in 1 .. 3 /\ toc \in Tocs
      BY <1>1 DEF HControl
    <2> HIDE DEF At
    (* What a cell holds afterwards. *)
    <2>10. ASSUME NEW a \in 0 .. Word - 1
           PROVE  \/ /\ d + At(a) \in 0 .. size - 1 /\ d + At(a) >= d
                     /\ a = Herolte!Cell(part, d + At(a))
                     /\ mem'[a] = Herolte!Wanted(part, d + At(a))
                     /\ At(a) + 1 <= len
                  \/ ~(At(a) + 1 <= len) /\ mem'[a] = mem[a]
      <3>1. CASE At(a) + 1 <= len
        <4>1. At(a) \in 0 .. len - 1
          BY <2>3, <2>6, <3>1
        <4>2. d + At(a) \in 0 .. size - 1 /\ d + At(a) >= d
          BY <2>2, <2>3, <4>1
        <4>3. mem'[a] = buf[At(a) + 1]
          BY <1>2, <3>1
        <4>4. QED
          BY <2>1, <2>6, <3>1, <4>1, <4>2, <4>3
      <3>2. CASE ~(At(a) + 1 <= len)
        BY <1>2, <3>2
      <3>3. QED
        BY <3>1, <3>2
    <2>11. HExact'
      <3>1. SUFFICES ASSUME NEW a \in 0 .. Word - 1, mem'[a] # Nothing
                     PROVE  \E b \in 1 .. 3 :
                               /\ Herolte!Found(Herolte!Parts[b])
                               /\ \E k \in 0 .. HSize(b) - 1 :
                                     /\ a = Herolte!Cell(b, k)
                                     /\ mem'[a] = Herolte!Wanted(b, k)
        BY <1>2, SameTable DEF HExact
      <3>2. CASE mem'[a] = mem[a]
        BY <1>1, <1>6, <2>1, <3>1, <3>2 DEF HExact
      <3>3. CASE /\ d + At(a) \in 0 .. size - 1
                 /\ a = Herolte!Cell(part, d + At(a))
                 /\ mem'[a] = Herolte!Wanted(part, d + At(a))
        BY <2>1, <2>9, <3>3 DEF size
      <3>4. QED
        BY <2>10, <3>2, <3>3
    <2>12. HPlace'
      <3>1. remaining' \in 0 .. size
        BY <1>2, <2>1, <2>2, <2>3
      <3>2. m_offset' = Herolte!Cell(part, d + len)
        <4>1. (((f + d) % Word) + len) % Word = (f + (d + len)) % Word
          BY <2>2, <2>3, WordAdvance
        <4>2. Herolte!Cell(part, d + len) = (f + (d + len)) % Word
          BY DEF Herolte!Cell, f
        <4>3. QED
          BY <1>2, <2>5, <4>1, <4>2
      <3>3. (/\ Herolte!Found("BOOT") /\ Herolte!Found(Herolte!Parts[part])
             /\ remaining \in 0 .. HSize(part)
             /\ m_offset = Herolte!Cell(part, HSent)
             /\ fpos[Herolte!Source(part)] = HOffset(part) + HSent)'
        BY <1>2, <2>1, <2>4, <3>1, <3>2, SameTable
      <3>4. QED
        BY <1>2, <3>3 DEF HPlace
    <2>13. HFilled'
      <3>1. SUFFICES ASSUME failed = {}, Herolte!Apart
                     PROVE  /\ \A b \in 1 .. part - 1 : HComplete(b)'
                            /\ \A k \in 0 .. (d + len) - 1 :
                                  mem'[Herolte!Cell(part, k)] =
                                     Herolte!Wanted(part, k)
        BY <1>2, <1>3, <2>4, SameTable DEF HFilled
      <3>2. /\ \A b \in 1 .. part - 1 : HComplete(b)
            /\ \A k \in 0 .. d - 1 :
                  mem[Herolte!Cell(part, k)] = Herolte!Wanted(part, k)
        BY <1>1, <1>3, <1>6, <3>1 DEF HFilled, d
      <3>3. ASSUME NEW b \in 1 .. 3, Herolte!Found(Herolte!Parts[b]),
                   NEW k \in 0 .. HSize(b) - 1,
                   NEW l \in 0 .. size - 1,
                   Herolte!Cell(b, k) = Herolte!Cell(part, l)
            PROVE  b = part /\ k = l
        BY <2>1, <2>9, <3>1, <3>3, PartFacts DEF Herolte!Apart, HSize, size
      <3>4. ASSUME NEW b \in 1 .. part - 1 PROVE HComplete(b)'
        <4>1. b \in 1 .. 3 /\ b # part /\ Herolte!Found(Herolte!Parts[b])
          BY <2>9, <3>2 DEF HComplete
        <4>2. ASSUME NEW k \in 0 .. HSize(b) - 1
              PROVE  mem'[Herolte!Cell(b, k)] = Herolte!Wanted(b, k)
          <5>1. HSize(b) \in Nat /\ k \in Nat
            BY <2>1, <2>9, <4>1, CellFacts
          <5>2. Herolte!Cell(b, k) \in 0 .. Word - 1
            BY <2>8, <4>1, <5>1
          <5>3. mem'[Herolte!Cell(b, k)] = mem[Herolte!Cell(b, k)]
            BY <2>10, <3>3, <4>1, <5>2
          <5>4. QED
            BY <3>2, <5>3 DEF HComplete
        <4>3. QED
          BY <1>2, <4>1, <4>2, SameTable DEF HComplete
      <3>5. ASSUME NEW k \in 0 .. (d + len) - 1
            PROVE  mem'[Herolte!Cell(part, k)] = Herolte!Wanted(part, k)
        <4> DEFINE a == Herolte!Cell(part, k)
        <4>1. k \in Nat /\ k \in 0 .. size - 1
          BY <2>2, <2>3
        <4>2. a \in 0 .. Word - 1
          BY <2>1, <2>8, <2>9, <4>1
        <4> HIDE DEF a
        <4>3. a = Herolte!Cell(part, k)
          BY DEF a
        <4>4. ASSUME At(a) + 1 <= len
              PROVE  mem'[a] = Herolte!Wanted(part, k)
          <5>1. /\ d + At(a) \in 0 .. size - 1
                /\ a = Herolte!Cell(part, d + At(a))
                /\ mem'[a] = Herolte!Wanted(part, d + At(a))
            BY <2>10, <4>2, <4>4
          <5>2. k = d + At(a)
            BY <2>1, <2>9, <3>3, <4>1, <4>3, <5>1 DEF size
          <5>3. QED
            BY <5>1, <5>2
        <4>5. ASSUME ~(At(a) + 1 <= len)
              PROVE  k \in 0 .. d - 1 /\ mem'[a] = mem[a]
          <5>1. mem'[a] = mem[a]
            BY <2>10, <4>2, <4>5
          <5>2. CASE k >= d
            <6>1. k - d \in Nat /\ d + (k - d) = k /\ k - d < len
              BY <2>3, <4>1, <5>2
            <6>2. At(a) <= k - d
              BY <2>7, <4>3, <6>1
            <6>3. At(a) \in Nat
              BY <2>6, <4>2
            <6>4. QED
              BY <2>3, <4>5, <6>1, <6>2, <6>3
          <5>3. CASE ~(k >= d)
            BY <2>3, <4>1, <5>1, <5>3
          <5>4. QED
            BY <5>2, <5>3
        <4>6. QED
          BY <3>2, <4>3, <4>4, <4>5
      <3>6. QED
        BY <3>4, <3>5
    <2>14. QED
      BY <1>4, <2>11, <2>12, <2>13 DEF HerolteInv
  <1>7. QED
    BY <1>5, <1>6

(* Before the first step nothing is in memory. *)
LEMMA HerolteInit == Herolte!Init => HerolteInv
  <1> SUFFICES ASSUME Herolte!Init PROVE HerolteInv
    OBVIOUS
  <1>1. /\ pc = "open_image" /\ rc # "ok" /\ part = 1 /\ toc \in Tocs
        /\ DOMAIN fpos = {"image", "nv"} /\ short = FALSE
        /\ mem = [a \in 0 .. Word - 1 |-> Nothing]
    BY DEF Herolte!Init
  <1>2. pc \in HEarly /\ pc \notin HUploading \cup HLate \cup {"upload"}
    BY <1>1 DEF HEarly, HUploading, HLate
  <1>3. HControl
    <2>1. short \in BOOLEAN
      BY <1>1
    <2>2. part \in 1 .. 3
      BY <1>1
    <2>3. rc = "ok" => pc = "returned"
      BY <1>1
    <2>4. pc \in HEarly \cup HUploading \cup HLate \cup {"upload", "returned"}
      BY <1>2
    <2>5. QED
      BY <1>1, <2>1, <2>2, <2>3, <2>4 DEF HControl
  <1>4. HPlace /\ HExact /\ HFilled
    BY <1>1, <1>2 DEF HPlace, HExact, HFilled
  <1>5. QED
    BY <1>3, <1>4 DEF HerolteInv

(* Every step of herolte_boot keeps the invariant. *)
LEMMA HerolteNext ==
    ASSUME HerolteInv, Herolte!Next
    PROVE  HerolteInv'
  <1> USE DEF Herolte!world, Herolte!upload
  <1>1. HControl
    BY DEF HerolteInv
  <1>2. CASE \/ Herolte!OpenImage \/ Herolte!ReadToc \/ Herolte!OpenNv
             \/ Herolte!OpenBoot0 \/ Herolte!ResetModem
    BY <1>2, StepsAround DEF Herolte!OpenImage, Herolte!ReadToc,
          Herolte!OpenNv, Herolte!OpenBoot0, Herolte!ResetModem, HEarly
  <1>3. CASE Herolte!SelectSecureMode
    BY <1>3, StepsAround DEF Herolte!SelectSecureMode, HEarly, HLate
  <1>4. CASE Herolte!UploadBegin
    BY <1>4, UploadBeginStep
  <1>5. CASE Herolte!UploadRefused
    BY <1>5, StepsAround DEF Herolte!UploadRefused, Herolte!Return
  <1>6. CASE Herolte!NextChunk
    BY <1>6, NextChunkStep
  <1>7. CASE Herolte!UploadDone
    <2>1. /\ pc = "chunk" /\ remaining <= 0 /\ Herolte!Proceed
          /\ UNCHANGED <<rc, toc, fpos, mem, failed, short>>
      BY <1>7 DEF Herolte!UploadDone
    <2>2. ~short => remaining = 0
      <3>1. ASSUME ~short
            PROVE  /\ remaining \in 0 .. HSize(part)
                   /\ Herolte!Found("BOOT") /\ Herolte!Found(Herolte!Parts[part])
        BY <2>1, <3>1 DEF HerolteInv, HPlace, HUploading
      <3>2. ASSUME ~short PROVE HSize(part) \in Nat
        BY <1>1, <3>1, <3>2, CellFacts DEF HControl
      <3>3. QED
        BY <2>1, <3>1, <3>2
    <2>3. pc \in HUploading
      BY <2>1 DEF HUploading
    <2>4. QED
      BY <2>1, <2>2, <2>3, ProceedStep
  <1>8. CASE Herolte!DataRead
    BY <1>8, DataReadStep
  <1>9. CASE Herolte!SendBoot
    BY <1>9, SendBootStep
  <1>10. CASE Herolte!Continue
    BY <1>10, StepsAround DEF Herolte!Continue, Herolte!Following, HLate
  <1>11. CASE Herolte!HandshakeFails
    BY <1>11, StepsAround DEF Herolte!HandshakeFails, Herolte!Return
  <1>12. CASE Herolte!BootOff
    BY <1>12, StepsAround DEF Herolte!BootOff, Herolte!Return, HLate
  <1>13. CASE Herolte!StepFails
    <2>1. pc' = "returned" /\ rc' # "ok"
          /\ UNCHANGED <<part, toc, remaining, m_offset, len, want, fpos, buf,
                         mem, failed, short>>
      BY <1>13 DEF Herolte!StepFails, Herolte!Return
    <2>2. QED
      BY <2>1, StepsAround
  <1>14. CASE Herolte!UploadFails
    <2>1. /\ pc \in HUploading /\ Herolte!Proceed
          /\ UNCHANGED <<rc, toc, fpos, mem, short>> /\ failed' # {}
      BY <1>14 DEF Herolte!UploadFails, HUploading
    <2>2. QED
      BY <2>1, ProceedStep
  <1>15. CASE UNCHANGED Herolte!vars
    BY <1>15, StepsAround DEF Herolte!vars
  <1>16. QED
    BY <1>2, <1>3, <1>4, <1>5, <1>6, <1>7, <1>8, <1>9, <1>10, <1>11, <1>12,
       <1>13, <1>14, <1>15 DEF Herolte!Next, Herolte!Boot, Herolte!Fault,
       Herolte!Returned, Herolte!DataReadAtEnd, Herolte!HandshakeBlocks

(***************************************************************************)
(* The theorems.                                                           *)
(***************************************************************************)
BootIInv ==
    /\ device \in {"i9300", "maguro", "crespo", "aries", "herolte"}
    /\ OnXmm616 => X616Inv
    /\ OnMipi => MipiInv
    /\ OnHerolte => HerolteInv

(* Init establishes the invariants. *)
LEMMA BootInitially == Init => BootIInv
  <1>1. ASSUME Xmm616!Init PROVE BootIInv
    BY <1>1, X616Init DEF Xmm616!Init, BootIInv, OnMipi, OnHerolte
  <1>2. ASSUME OnMipi, Mipi!Init PROVE BootIInv
    BY <1>2, MipiInit DEF BootIInv, OnMipi, OnXmm616, OnHerolte
  <1>3. ASSUME OnHsic PROVE BootIInv
    BY <1>3 DEF BootIInv, OnMipi, OnXmm616, OnHsic, OnHerolte
  <1>4. ASSUME OnHerolte, Herolte!Init PROVE BootIInv
    BY <1>4, HerolteInit DEF BootIInv, OnMipi, OnXmm616, OnHerolte
  <1>5. QED
    BY <1>1, <1>2, <1>3, <1>4 DEF Init

(* Every step keeps the invariants. *)
LEMMA BootInductive == BootIInv /\ [Next]_vars => BootIInv'
  <1> SUFFICES ASSUME BootIInv, [Next]_vars PROVE BootIInv'
    OBVIOUS
  <1>1. CASE AsXmm616 /\ Xmm616!Next
    <2>1. X616Inv'
      BY <1>1, X616Next DEF AsXmm616, BootIInv
    <2>2. QED
      BY <2>1 DEF X616Inv, BootIInv, OnMipi, OnHerolte
  <1>2. CASE AsMipi /\ Mipi!Next
    <2>1. OnMipi /\ device' = device
      BY <1>2 DEF AsMipi
    <2>2. MipiInv'
      BY <1>2, <2>1, MipiNext DEF BootIInv
    <2>3. QED
      BY <2>1, <2>2 DEF BootIInv, OnMipi, OnXmm616, OnHerolte
  <1>3. CASE AsHsic
    BY <1>3 DEF AsHsic, OnHsic, OnHerolte, BootIInv, OnMipi, OnXmm616
  <1>6. CASE AsHerolte /\ Herolte!Next
    <2>1. OnHerolte /\ device' = device
      BY <1>6 DEF AsHerolte
    <2>2. HerolteInv'
      BY <1>6, <2>1, HerolteNext DEF BootIInv
    <2>3. QED
      BY <2>1, <2>2 DEF BootIInv, OnMipi, OnXmm616, OnHerolte
  <1>4. CASE UNCHANGED vars
    <2>1. /\ UNCHANGED <<device, pc, rc, rx, mail, memory, rom, wc, p, pos>>
          /\ UNCHANGED <<n, todo, len, count, tx, stage, address, flash, sec>>
      BY <1>4 DEF vars, line, xmm626, mipi, xmm616
    <2>2. (OnXmm616 => X616Inv')
      BY <2>1, X616Stutter DEF BootIInv
    <2>3. OnMipi => MipiInv'
      BY <2>1, MipiStutter DEF BootIInv
    <2>4. OnHerolte => HerolteInv'
      <3>1. UNCHANGED <<part, toc, remaining, m_offset, len, want, fpos, buf,
                        mem, failed, short>>
        BY <1>4 DEF vars, herolte
      <3>2. QED
        BY <2>1, <3>1, StepsAround DEF BootIInv
    <2>5. QED
      BY <2>1, <2>2, <2>3, <2>4 DEF BootIInv, OnMipi, OnXmm616, OnHerolte
  <1>5. QED
    BY <1>1, <1>2, <1>3, <1>4, <1>6 DEF Next

(* The invariants hold. *)
LEMMA BootHolds == Spec => []BootIInv
  BY BootInitially, BootInductive, PTL DEF Spec

(* xmm616.c: for any sizes and any short writes, noise and surplus         *)
(* answers, 0 is returned only when the PSI runs and every byte of         *)
(* firmware and nv_data is in its place.                                   *)
THEOREM ZeroMeansLoaded == Spec => []ReturnMeansLoaded
  <1>1. BootIInv => ReturnMeansLoaded
    BY DEF BootIInv, X616Inv, ReturnMeansLoaded
  <1>2. QED
    BY <1>1, BootHolds, PTL

(* xmm626_mipi.c: for any number of blocks, the host returns 0, and the    *)
(* modem is reset, only after every region was flashed in the secure       *)
(* session.                                                                *)
THEOREM ResetAfterFlash == Spec => []ResetOnlyFlashed
  <1>1. BootIInv => ResetOnlyFlashed
    BY MipiSafe DEF BootIInv, ResetOnlyFlashed
  <1>2. QED
    BY <1>1, BootHolds, PTL

(* xmm626_mipi.c, command: for any length of replies, a command goes out   *)
(* only when every word of the reply before was read.                      *)
THEOREM RepliesReadOut == Spec => []CommandsInStep
  <1>1. BootIInv => CommandsInStep
    BY MipiSafe DEF BootIInv, CommandsInStep
  <1>2. QED
    BY <1>1, BootHolds, PTL

(* xmm626_mipi.c, command: only replies of odd length are written beyond   *)
(* the end of the buffer.                                                  *)
THEOREM EvenRepliesFit == Spec => []ReplyInBounds
  <1>1. BootIInv => ReplyInBounds
    BY MipiSafe DEF BootIInv, ReplyInBounds
  <1>2. QED
    BY <1>1, BootHolds, PTL

(* herolte.c, upload_chunk: for every table of contents, every chunk size  *)
(* and every width of addresses, chunks tile the blobs: without short      *)
(* reads nothing is ever put elsewhere than the table says, and a boot     *)
(* that returns 0 and lost no upload has put everything there.             *)
THEOREM BlobsInPlace == Spec => []UploadedExactly
  <1>1. BootIInv => UploadedExactly
    <2> SUFFICES ASSUME OnHerolte, HerolteInv PROVE Herolte!UploadedExactly
      BY DEF BootIInv, UploadedExactly
    <2>1. HExact /\ HFilled
      BY DEF HerolteInv
    <2>2. QED
      BY <2>1, PartFacts DEF Herolte!UploadedExactly, HExact, HFilled, HComplete, HSize
  <1>2. QED
    BY <1>1, BootHolds, PTL
=============================================================================
